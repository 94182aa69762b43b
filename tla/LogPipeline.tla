------------------------------ MODULE LogPipeline ------------------------------
(***************************************************************************)
(* The way of a container's output to its log: CopyToPipe copies what the  *)
(* process wrote to a broadcaster (pkg/broadcaster), which writes it to a  *)
(* BytesPipe (pkg/ioutils) per reader; the Copier (daemon/logger) reads    *)
(* one of them, cuts it into lines and logs them, to the driver or, in     *)
(* non-blocking mode, to a RingLogger whose goroutine feeds the driver.    *)
(* An attached client reads another pipe.  When the process has exited,    *)
(* StateChanged waits for the copying and Reset closes everything.         *)
(*                                                                         *)
(* One stream, one run of the container.  The i-th byte of the output is   *)
(* the number i; those in Newlines end a line.  A section under a pipe's   *)
(* or the ring's mutex is one step; Cond.Wait gives the mutex up, and a    *)
(* goroutine that waits is in "asleep" until somebody broadcasts.          *)
(***************************************************************************)
EXTENDS Integers, Sequences, FiniteSets, SequencesExt

CONSTANTS N,          \* bytes the process may write
          Newlines,   \* those that are newlines
          MinCap,     \* size of a pipe's first buffer (64)
          MaxCap,     \* size of its largest (1e6)
          Threshold,  \* blockThreshold (1e6)
          BufSize,    \* the Copier's buffer
          ReadSize,   \* what it reads at once
          ChunkSize,  \* what CopyToPipe reads at once
          MaxBytes,   \* size of the ring
          Modes       \* "blocking", "ring"

ASSUME SizesAssumption ==
  /\ N \in Nat /\ Newlines \subseteq 1..N
  /\ MinCap \in Nat \ {0} /\ MaxCap \in Nat \ {0} /\ MinCap <= MaxCap /\ Threshold \in Nat \ {0}
  /\ ReadSize \in Nat \ {0} /\ BufSize \in Nat /\ BufSize >= ReadSize /\ ChunkSize \in Nat \ {0} /\ MaxBytes \in Nat
  /\ Modes \subseteq {"blocking", "ring"}

VARIABLES mode,     \* the container's log mode
          taken,    \* bytes CopyToPipe has read from the process
          end,      \* bytes the process has written when it exits
          exited,   \* the process has exited
          w,        \* CopyToPipe's goroutine, inside Unbuffered.Write when pc = "write"
          writers,  \* Unbuffered.writers
          pipe,     \* the BytesPipes: of the log and of the attached client
          cp,       \* the Copier's goroutine
          ring,     \* RingLogger and its messageRing
          run,      \* the RingLogger's goroutine: the message it holds
          logged,   \* messages the driver has written
          drv,      \* the driver: "open", "closed"
          hd,       \* StateChanged and Reset
          client,   \* the attached client
          late,     \* history: the message RingLogger.run held when the ring was closed
          lost      \* history: messages that were accepted and did not reach the driver

vars == <<mode, taken, end, exited, w, writers, pipe, cp, ring, run, logged, drv, hd, client, late, lost>>

Pipes == {"log", "attach"}
Bytes(i, j) == [k \in 1..(j - i + 1) |-> i + k - 1]
Smaller(a, b) == IF a < b THEN a ELSE b
NewPipe == [data |-> <<>>, room |-> MinCap, cap |-> MinCap, closed |-> FALSE, asleep |-> {}]

Init ==
  /\ mode \in Modes
  /\ taken = 0 /\ end = N /\ exited = FALSE
  /\ w = [pc |-> "idle", chunk |-> <<>>, todo |-> <<>>, rest |-> <<>>, cap |-> 0]
  /\ writers = <<"log">>
  /\ pipe = [x \in Pipes |-> NewPipe]
  /\ cp = [pc |-> "read", buf |-> <<>>, cut |-> FALSE, eof |-> FALSE]
  /\ ring = [queue |-> <<>>, closed |-> FALSE, flag |-> FALSE, drained |-> <<>>]
  /\ run = [pc |-> IF mode = "ring" THEN "check" ELSE "done", msg |-> <<>>]
  /\ logged = <<>> /\ drv = "open"
  /\ hd = "idle"
  /\ client = "out"
  /\ late = <<>> /\ lost = {}
-------------------------------------------------------------------------------
(* pkg/ioutils/bytespipe.go *)

Wake(x) == [pipe[x] EXCEPT !.asleep = {}]

\* Variant: Read does not wake a writer that waits for room.
TakeQuietly(x, n) ==
  LET left == SubSeq(pipe[x].data, n + 1, Len(pipe[x].data))
  IN [pipe[x] EXCEPT !.data = left,
                     !.room = IF left = <<>> THEN 0 ELSE @,
                     !.cap = IF left = <<>> THEN 0 ELSE @]

\* Read, once there is something: n bytes from the front; buffers that are empty go back to
\* the pool, the last one included; broadcast.
Take(x, n) ==
  LET left == SubSeq(pipe[x].data, n + 1, Len(pipe[x].data))
  IN [Wake(x) EXCEPT !.data = left,
                     !.room = IF left = <<>> THEN 0 ELSE @,
                     !.cap = IF left = <<>> THEN 0 ELSE @]

\* Write, one byte: into the last buffer, or into a new one of twice its size, unless the
\* pipe holds too much: then this byte and the following ones have to wait.
Put(s, b) ==
  IF s.rest # <<>> THEN [s EXCEPT !.rest = Append(@, b)]
  ELSE IF s.room > 0 THEN [s EXCEPT !.data = Append(@, b), !.room = @ - 1]
  ELSE IF s.cap = 0 THEN [s EXCEPT !.data = Append(@, b), !.room = MinCap - 1, !.cap = MinCap]
  ELSE IF Len(s.data) >= Threshold THEN [s EXCEPT !.rest = <<b>>]
  ELSE LET next == Smaller(2 * s.cap, MaxCap)
       IN [s EXCEPT !.data = Append(@, b), !.room = next - 1, !.cap = next]

Filled(x, p, room, cap) ==
  FoldLeft(Put, [data |-> pipe[x].data, room |-> room, cap |-> cap, rest |-> <<>>], p)
-------------------------------------------------------------------------------
(* The process, CopyToPipe and pkg/broadcaster *)

\* The process ends, with what it has written last still to be read.
ProcessExits ==
  /\ ~exited
  /\ exited' = TRUE
  /\ end' \in taken..N
  /\ UNCHANGED <<mode, taken, w, writers, pipe, cp, ring, run, logged, drv, hd, client, late, lost>>

\* CopyToPipe: bytes of the process arrive; Unbuffered.Write takes its mutex.
CopyChunk ==
  /\ w.pc = "idle"
  /\ \E n \in 1..ChunkSize :
       /\ taken + n <= end
       /\ taken' = taken + n
       /\ w' = [w EXCEPT !.pc = "write", !.chunk = Bytes(taken + 1, taken + n), !.todo = writers,
                         !.rest = Bytes(taken + 1, taken + n)]
  /\ UNCHANGED <<mode, end, exited, writers, pipe, cp, ring, run, logged, drv, hd, client, late, lost>>

\* Unbuffered.Write is through with the first of the writers that are left to write to.
NextWriter == [w EXCEPT !.todo = Tail(@), !.rest = w.chunk, !.cap = 0]

\* BytesPipe.Write on a closed pipe: ErrClosed, and the broadcaster evicts the writer.
WriteClosed ==
  /\ w.pc = "write" /\ w.todo # <<>>
  /\ "w" \notin pipe[Head(w.todo)].asleep
  /\ pipe[Head(w.todo)].closed
  /\ writers' = RemoveFirst(writers, Head(w.todo))
  /\ w' = NextWriter
  /\ UNCHANGED <<mode, taken, end, exited, pipe, cp, ring, run, logged, drv, hd, client, late, lost>>

\* BytesPipe.Write: what fits is written; the writer waits for room with the rest, or is
\* done and broadcasts.  After a wait it looks at the room again and adds a buffer twice
\* the size of the last one it wrote to.
WritePipe ==
  /\ w.pc = "write" /\ w.todo # <<>>
  /\ LET x == Head(w.todo)
         waited == w.cap # 0
         next == Smaller(2 * w.cap, MaxCap)
         s == IF ~waited THEN Filled(x, w.rest, pipe[x].room, pipe[x].cap)
              ELSE IF Len(pipe[x].data) >= Threshold
                     THEN [data |-> pipe[x].data, room |-> pipe[x].room, cap |-> pipe[x].cap, rest |-> w.rest]
                     ELSE Filled(x, w.rest, next, next)
         new == [pipe[x] EXCEPT !.data = s.data, !.room = s.room, !.cap = s.cap]
     IN /\ ~pipe[x].closed
        /\ "w" \notin pipe[x].asleep
        /\ IF s.rest = <<>>
             THEN /\ pipe' = [pipe EXCEPT ![x] = [new EXCEPT !.asleep = {}]]
                  /\ w' = NextWriter
             ELSE /\ pipe' = [pipe EXCEPT ![x] = [new EXCEPT !.asleep = @ \cup {"w"}]]
                  /\ w' = [w EXCEPT !.rest = s.rest, !.cap = IF waited /\ s.rest = w.rest THEN @ ELSE s.cap]
  /\ UNCHANGED <<mode, taken, end, exited, writers, cp, ring, run, logged, drv, hd, client, late, lost>>

\* Unbuffered.Write returns and gives its mutex up.
WriteDone ==
  /\ w.pc = "write" /\ w.todo = <<>>
  /\ w' = [w EXCEPT !.pc = "idle", !.chunk = <<>>, !.rest = <<>>]
  /\ UNCHANGED <<mode, taken, end, exited, writers, pipe, cp, ring, run, logged, drv, hd, client, late, lost>>

\* CopyToPipe: end of file, c.Done().
CopyDone ==
  /\ w.pc = "idle" /\ exited /\ taken = end
  /\ w' = [w EXCEPT !.pc = "done"]
  /\ UNCHANGED <<mode, taken, end, exited, writers, pipe, cp, ring, run, logged, drv, hd, client, late, lost>>

BroadcasterFree == w.pc # "write"
-------------------------------------------------------------------------------
(* daemon/logger/ring.go and the driver *)

\* The driver writes a message, or refuses it because it has been closed.
DriverLog(m) ==
  IF drv = "open" THEN logged' = Append(logged, m) /\ UNCHANGED lost
                  ELSE lost' = lost \cup {m} /\ UNCHANGED logged

LineLen(m) == Len(m) - (IF Last(m) \in Newlines THEN 1 ELSE 0)
SumLens(q) == FoldLeft(LAMBDA n, m : n + LineLen(m), 0, q)

\* Enqueue: a message that does not fit is dropped, unless the ring is empty.
Fits(m) == ring.queue = <<>> \/ LineLen(m) + SumLens(ring.queue) <= MaxBytes

\* Logger.Log as the Copier calls it.
Log(m) ==
  IF mode = "blocking" THEN DriverLog(m) /\ UNCHANGED ring
  ELSE /\ ring' = IF ring.flag \/ ring.closed \/ ~Fits(m) THEN ring
                  ELSE [ring EXCEPT !.queue = Append(@, m)]
       /\ UNCHANGED <<logged, lost>>

\* run: the goroutine stops when the flag is set,
RunCheck ==
  /\ run.pc = "check"
  /\ run' = [run EXCEPT !.pc = IF ring.flag THEN "done" ELSE "dequeue"]
  /\ UNCHANGED <<mode, taken, end, exited, w, writers, pipe, cp, ring, logged, drv, hd, client, late, lost>>

\* waits in Dequeue for a message or for the ring to be closed,
RunDequeue ==
  /\ run.pc = "dequeue"
  /\ \/ /\ ring.closed
        /\ run' = [run EXCEPT !.pc = "done"]
        /\ UNCHANGED ring
     \/ /\ ~ring.closed /\ ring.queue # <<>>
        /\ run' = [pc |-> "log", msg |-> Head(ring.queue)]
        /\ ring' = [ring EXCEPT !.queue = Tail(@)]
  /\ UNCHANGED <<mode, taken, end, exited, w, writers, pipe, cp, logged, drv, hd, client, late, lost>>

\* and gives the message to the driver.
RunLog ==
  /\ run.pc = "log"
  /\ DriverLog(run.msg)
  /\ run' = [pc |-> "check", msg |-> <<>>]
  /\ UNCHANGED <<mode, taken, end, exited, w, writers, pipe, cp, ring, drv, hd, client, late>>
-------------------------------------------------------------------------------
(* daemon/logger/copier.go *)

Copier(c) == cp' = c /\ UNCHANGED <<mode, taken, end, exited, w, writers, run, drv, hd, client, late>>

\* src.Read: up to ReadSize bytes, as far as the buffer has room.  With nothing there it
\* sleeps once, and then goes on with whatever there is.
CopierRead ==
  LET x == pipe["log"]
      n == Smaller(Smaller(ReadSize, BufSize - Len(cp.buf)), Len(x.data))
  IN /\ cp.pc \in {"read", "woken"}
     /\ "r" \notin x.asleep
     /\ \/ /\ x.data = <<>> /\ ~x.closed /\ cp.pc = "read"
           /\ pipe' = [pipe EXCEPT !["log"].asleep = @ \cup {"r"}]
           /\ Copier([cp EXCEPT !.pc = "woken"])
        \/ /\ x.data = <<>> /\ x.closed
           /\ UNCHANGED pipe
           /\ Copier([cp EXCEPT !.eof = TRUE, !.pc = IF cp.buf = <<>> THEN "done" ELSE "lines"])
        \/ /\ x.data # <<>> \/ (~x.closed /\ cp.pc = "woken")
           /\ pipe' = [pipe EXCEPT !["log"] = Take("log", n)]
           /\ Copier([cp EXCEPT !.buf = @ \o SubSeq(x.data, 1, n), !.pc = "lines"])
     /\ UNCHANGED <<ring, logged, lost>>

FirstNewline == {i \in DOMAIN cp.buf : cp.buf[i] \in Newlines}
LineEnd == CHOOSE i \in FirstNewline : \A j \in FirstNewline : i <= j

\* A complete line is logged.
CopierLine ==
  /\ cp.pc = "lines" /\ FirstNewline # {}
  /\ Log(SubSeq(cp.buf, 1, LineEnd))
  /\ Copier([cp EXCEPT !.buf = SubSeq(@, LineEnd + 1, Len(@)), !.cut = TRUE])
  /\ UNCHANGED pipe

\* Variant: what is left at the end without a newline is not logged.
CopierRestDropped ==
  /\ cp.pc = "lines" /\ FirstNewline = {}
  /\ LET flush == ~cp.eof /\ ~cp.cut /\ Len(cp.buf) = BufSize
     IN /\ IF flush /\ cp.buf # <<>> THEN Log(cp.buf) ELSE UNCHANGED <<ring, logged, lost>>
        /\ Copier([cp EXCEPT !.buf = IF flush THEN <<>> ELSE @, !.cut = FALSE,
                             !.pc = IF cp.eof THEN "done" ELSE "read"])
  /\ UNCHANGED pipe

\* The rest stays for the next read; at the end, or when it fills the buffer, it is logged
\* as a partial line.
CopierRest ==
  /\ cp.pc = "lines" /\ FirstNewline = {}
  /\ LET flush == cp.eof \/ (~cp.cut /\ Len(cp.buf) = BufSize)
     IN /\ IF flush /\ cp.buf # <<>> THEN Log(cp.buf) ELSE UNCHANGED <<ring, logged, lost>>
        /\ Copier([cp EXCEPT !.buf = IF flush THEN <<>> ELSE @, !.cut = FALSE,
                             !.pc = IF cp.eof THEN "done" ELSE "read"])
  /\ UNCHANGED pipe
-------------------------------------------------------------------------------
(* The attached client: container/stream/attach.go *)

\* AttachStreams: a new pipe is added to the broadcaster.
Attach ==
  /\ client = "out" /\ hd \in {"idle", "wait"} /\ BroadcasterFree
  /\ writers' = Append(writers, "attach")
  /\ client' = "in"
  /\ UNCHANGED <<mode, taken, end, exited, w, pipe, cp, ring, run, logged, drv, hd, late, lost>>

\* io.Copy reads, and hands to the connection; it sleeps as the Copier does.
ClientRead ==
  LET x == pipe["attach"]
  IN /\ client \in {"in", "woken"}
     /\ "r" \notin x.asleep
     /\ \/ /\ x.data = <<>> /\ ~x.closed /\ client = "in"
           /\ pipe' = [pipe EXCEPT !["attach"].asleep = @ \cup {"r"}]
           /\ client' = "woken"
        \/ /\ x.data = <<>> /\ x.closed
           /\ client' = "left"
           /\ UNCHANGED pipe
        \/ /\ x.data # <<>> \/ (~x.closed /\ client = "woken")
           /\ pipe' = [pipe EXCEPT !["attach"] = Take("attach", Len(x.data))]
           /\ client' = "in"
     /\ UNCHANGED <<mode, taken, end, exited, w, writers, cp, ring, run, logged, drv, hd, late, lost>>

\* The client goes away: its pipe is closed.
ClientLeaves ==
  /\ client \in {"in", "woken"}
  /\ client' = "left"
  /\ pipe' = [pipe EXCEPT !["attach"] = [Wake("attach") EXCEPT !.closed = TRUE]]
  /\ UNCHANGED <<mode, taken, end, exited, w, writers, cp, ring, run, logged, drv, hd, late, lost>>
-------------------------------------------------------------------------------
(* StateChanged for an exit, and Reset *)

Handler(h) == hd' = h /\ UNCHANGED <<mode, taken, end, exited, w, cp, client>>

HandleExit ==
  /\ hd = "idle" /\ exited
  /\ Handler("wait")
  /\ UNCHANGED <<writers, pipe, ring, run, logged, drv, late, lost>>

\* c.StreamConfig.Wait()
StreamsWait ==
  /\ hd = "wait" /\ w.pc = "done"
  /\ Handler("clean")
  /\ UNCHANGED <<writers, pipe, ring, run, logged, drv, late, lost>>

\* CloseStreams: Unbuffered.Clean closes the pipes; CloseWithError wakes whoever waits.
CleanStreams ==
  /\ hd = "clean" /\ BroadcasterFree
  /\ pipe' = [x \in Pipes |-> IF Contains(writers, x) THEN [Wake(x) EXCEPT !.closed = TRUE] ELSE pipe[x]]
  /\ writers' = <<>>
  /\ Handler("copier")
  /\ UNCHANGED <<ring, run, logged, drv, late, lost>>

CloseLogger == IF mode = "ring" THEN "setclosed" ELSE "close"

\* LogCopier.Wait(), or ten seconds: "logs may be truncated".
CopierDone ==
  /\ hd = "copier" /\ cp.pc = "done"
  /\ Handler(CloseLogger)
  /\ UNCHANGED <<writers, pipe, ring, run, logged, drv, late, lost>>

CopierTimeout ==
  /\ hd = "copier" /\ cp.pc # "done"
  /\ Handler(CloseLogger)
  /\ UNCHANGED <<writers, pipe, ring, run, logged, drv, late, lost>>

\* RingLogger.Close: setClosed,
RingSetClosed ==
  /\ hd = "setclosed"
  /\ ring' = [ring EXCEPT !.flag = TRUE]
  /\ Handler("ringclose")
  /\ UNCHANGED <<writers, pipe, run, logged, drv, late, lost>>

\* buffer.Close,
RingClose ==
  /\ hd = "ringclose"
  /\ ring' = [ring EXCEPT !.closed = TRUE]
  /\ late' = run.msg
  /\ Handler("drain")
  /\ UNCHANGED <<writers, pipe, run, logged, drv, lost>>

\* Variant: Close does not drain the queue.
RingDrainNothing ==
  /\ hd = "drain"
  /\ ring' = [ring EXCEPT !.queue = <<>>]
  /\ lost' = lost \cup ToSet(ring.queue)
  /\ Handler("drainlog")
  /\ UNCHANGED <<writers, pipe, run, logged, drv, late>>

\* Drain,
RingDrain ==
  /\ hd = "drain"
  /\ ring' = [ring EXCEPT !.drained = ring.queue, !.queue = <<>>]
  /\ Handler("drainlog")
  /\ UNCHANGED <<writers, pipe, run, logged, drv, late, lost>>

\* the messages that were left, one after another,
RingDrainLog ==
  /\ hd = "drainlog" /\ ring.drained # <<>>
  /\ DriverLog(Head(ring.drained))
  /\ ring' = [ring EXCEPT !.drained = Tail(@)]
  /\ Handler("drainlog")
  /\ UNCHANGED <<writers, pipe, run, drv, late>>

\* and the driver is closed.
DriverClose ==
  /\ hd = "close" \/ (hd = "drainlog" /\ ring.drained = <<>>)
  /\ drv' = "closed"
  /\ Handler("done")
  /\ UNCHANGED <<writers, pipe, ring, run, logged, late, lost>>
-------------------------------------------------------------------------------
CopyStep == CopyChunk \/ WriteClosed \/ WritePipe \/ WriteDone \/ CopyDone
CopierStep == CopierRead \/ CopierLine \/ CopierRest
RunStep == RunCheck \/ RunDequeue \/ RunLog
ClientStep == Attach \/ ClientRead \/ ClientLeaves
HandlerStep ==
  \/ HandleExit \/ StreamsWait \/ CleanStreams \/ CopierDone \/ CopierTimeout
  \/ RingSetClosed \/ RingClose \/ RingDrain \/ RingDrainLog \/ DriverClose

Next == ProcessExits \/ CopyStep \/ CopierStep \/ RunStep \/ ClientStep \/ HandlerStep

\* The daemon's goroutines run when they can; nobody makes a client read or the process end.
\* The timer of Reset is not needed: without it the wait for the Copier must end too.
Fairness ==
  /\ WF_vars((exited /\ CopyChunk) \/ WriteClosed \/ WritePipe \/ WriteDone \/ CopyDone)
  /\ WF_vars(CopierStep)
  /\ WF_vars(RunStep)
  /\ WF_vars(HandleExit \/ StreamsWait \/ CleanStreams \/ CopierDone
             \/ RingSetClosed \/ RingClose \/ RingDrain \/ RingDrainLog \/ DriverClose)

Spec == Init /\ [][Next]_vars
FairSpec == Spec /\ Fairness
-------------------------------------------------------------------------------
(* Properties *)

Unwritten == IF w.pc = "write" /\ Contains(w.todo, "log")
               THEN IF Head(w.todo) = "log" THEN w.rest ELSE w.chunk
               ELSE <<>>

\* In blocking mode what the process wrote is on its way to the log, in order, with nothing
\* lost, doubled or cut up at the wrong place, up to the last bytes without a newline; the
\* only way to lose something is the timeout of Reset.
OutputReachesLog ==
  mode = "blocking" /\ lost = {} =>
    FlattenSeq(logged) \o (IF cp.pc = "done" THEN <<>> ELSE cp.buf) \o pipe["log"].data \o Unwritten = Bytes(1, taken)

Before(l, m) == Head(l) < Head(m)

\* Closing a RingLogger loses, and may put out of order, at most the one message its
\* goroutine was about to give to the driver; everything else that was accepted reaches
\* the driver in the order in which it came.
RingLosesOne ==
  mode = "ring" =>
    /\ lost \subseteq {late}
    /\ \A i, j \in DOMAIN logged : i < j /\ logged[j] # late => Before(logged[i], logged[j])

\* Nobody but an attached client who has stopped reading can hold up the handling of an
\* exit: no wake-up is lost between the readers and the writer of a pipe, which sleep on one
\* condition, and between closing and reading.
ExitIsHandled ==
  \/ <>[](w.pc = "write" /\ w.todo # <<>> /\ Head(w.todo) = "attach")
  \/ exited ~> hd = "done"
===============================================================================
