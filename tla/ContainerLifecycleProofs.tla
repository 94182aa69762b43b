------------------------ MODULE ContainerLifecycleProofs ------------------------
(***************************************************************************)
(* Type correctness of ContainerLifecycle, and the exclusion of starts and *)
(* removals, for any number of clients, any policy and any faults.         *)
(*                                                                         *)
(* Then, for all faults but a start that cannot be saved, what dockerd's   *)
(* state says of the container's process: the container counts as running, *)
(* with the process's pid, exactly while the process lives or its exit is  *)
(* on its way; that exit is about this process; waiters and pauses wait    *)
(* for something that is still to come; and there is one restart           *)
(* goroutine.                                                              *)
(*                                                                         *)
(* Last, for a container created with AutoRemove whose one client only     *)
(* starts and stops it: whoever takes the removal over from the exit's     *)
(* callback carries it out, and the container is not left behind.  And,    *)
(* for such a client and every restart policy: when containerStop returns, *)
(* the process is gone and will not be restarted.                          *)
(***************************************************************************)
EXTENDS ContainerLifecycle, SequenceTheorems, TLAPS

\* A frame that holds container.Lock: containerStart between taking the lock and the
\* end of Create, containerPause and containerUnpause until their event has come.
Creating(f) == f.fn = "Start" /\ f.pc = "create"
Pausing(f) == f.fn \in {"Pause", "Unpause"} /\ f.pc \in {"event", "done"}
Holding(f) == Creating(f) \/ Pausing(f)

\* A frame of a removal that has marked the container dead and destroys it.
Destroying(f) == f.fn = "Rm" /\ f.pc = "destroy"

\* Only the innermost frame of an actor holds the lock, and then lock names the actor.
LockInv ==
  \A a \in Actors : \A i \in DOMAIN stack[a] : Holding(stack[a][i]) => i = 1 /\ lock = a

\* While containerStart holds the lock no removal begins or completes.
StartInv ==
  \A a \in Actors : \A i \in DOMAIN stack[a] : Creating(stack[a][i]) => ~st.removing /\ ~st.dead

\* A container leaves the index only after it was marked dead, which is for good.
DeadInv ==
  /\ ~registered => st.dead
  /\ \A a \in Actors : \A i \in DOMAIN stack[a] : Destroying(stack[a][i]) => st.dead

\* A process has a generation, counted from one.
GenInv == proc.state # "none" => proc.gen >= 1

LifeInv == TypeOK /\ GenInv /\ LockInv /\ StartInv /\ DeadInv
--------------------------------------------------------------------------------
(* What the operations on call stacks do *)

\* The stack of actor a changes: its frames are new ones, of F, or older ones that were
\* not innermost.
Moves(a, F) ==
  /\ stack' \in [Actors -> Seq(Frames)]
  /\ \A b \in Actors : b # a => stack'[b] = stack[b]
  /\ \A i \in DOMAIN stack'[a] :
       \/ stack'[a][i] \in F
       \/ \E j \in DOMAIN stack[a] : j # 1 /\ stack'[a][i] = stack[a][j]

Rets == ret' \in [Actors -> {"nil", "err"}]

\* Replacing the innermost frame by f.
LEMMA ReplaceTop ==
  ASSUME TypeOK, NEW a \in Actors, stack[a] # <<>>, NEW f \in Frames,
         stack' = [stack EXCEPT ![a] = <<f>> \o Tail(@)]
  PROVE  Moves(a, {f})
  <1>1. stack[a] \in Seq(Frames) /\ Len(stack[a]) >= 1
    BY EmptySeq DEF TypeOK
  <1>2. stack'[a] = <<f>> \o Tail(stack[a])
    BY DEF TypeOK
  <1>3. <<f>> \o Tail(stack[a]) \in Seq(Frames)
    BY <1>1
  <1>4. stack' \in [Actors -> Seq(Frames)]
    BY <1>3 DEF TypeOK
  <1>5. ASSUME NEW i \in DOMAIN stack'[a]
        PROVE  stack'[a][i] = f \/ \E j \in DOMAIN stack[a] : j # 1 /\ stack'[a][i] = stack[a][j]
    <2>1. i \in 1..Len(stack[a])
      BY <1>1, <1>2, <1>5
    <2>2. CASE i = 1
      BY <2>2, <1>1, <1>2
    <2>3. CASE i # 1
      BY <2>1, <2>3, <1>1, <1>2
    <2> QED BY <2>2, <2>3
  <1> QED BY <1>4, <1>5 DEF Moves, TypeOK

\* Putting f on a frame g that replaces the innermost one.
LEMMA PushTop ==
  ASSUME TypeOK, NEW a \in Actors, stack[a] # <<>>, NEW f \in Frames, NEW g \in Frames,
         stack' = [stack EXCEPT ![a] = <<f, g>> \o Tail(@)]
  PROVE  Moves(a, {f, g})
  <1>1. stack[a] \in Seq(Frames) /\ Len(stack[a]) >= 1
    BY EmptySeq DEF TypeOK
  <1>2. stack'[a] = <<f, g>> \o Tail(stack[a])
    BY DEF TypeOK
  <1>3. <<f, g>> \o Tail(stack[a]) \in Seq(Frames)
    BY <1>1
  <1>4. stack' \in [Actors -> Seq(Frames)]
    BY <1>3 DEF TypeOK
  <1>5. ASSUME NEW i \in DOMAIN stack'[a]
        PROVE  stack'[a][i] \in {f, g} \/ \E j \in DOMAIN stack[a] : j # 1 /\ stack'[a][i] = stack[a][j]
    <2>1. i \in 1..Len(stack[a]) + 1
      BY <1>1, <1>2, <1>5
    <2>2. CASE i \in {1, 2}
      BY <2>2, <1>1, <1>2
    <2>3. CASE i \notin {1, 2}
      <3>1. stack'[a][i] = stack[a][i - 1] /\ i - 1 \in DOMAIN stack[a] /\ i - 1 # 1
        BY <2>1, <2>3, <1>1, <1>2
      <3> QED BY <3>1
    <2> QED BY <2>2, <2>3
  <1> QED BY <1>4, <1>5 DEF Moves, TypeOK

\* Frames that neither hold the lock nor destroy the container.
PlainFrames == {f \in Frames : ~Holding(f) /\ ~Destroying(f)}
PlainPcs == Pcs \ {"create", "event", "done", "destroy"}

\* A step of a that leaves only plain frames behind.
Plain(a) == Moves(a, PlainFrames) /\ Rets

\* A frame that was just called is plain.
LEMMA FrameType ==
  ASSUME NEW fn \in Fns, NEW flag \in BOOLEAN
  PROVE  Frame(fn, flag) \in PlainFrames
  <1> DEFINE f == [fn |-> fn, pc |-> "begin", flag |-> flag]
  <1>1. "begin" \in Pcs
    BY DEF Pcs
  <1>2. f \in Frames
    BY <1>1, Zenon DEF Frames
  <1>3. f.pc = "begin"
    OBVIOUS
  <1>4. ~Holding(f) /\ ~Destroying(f)
    BY <1>3 DEF Holding, Creating, Pausing, Destroying
  <1> QED BY <1>2, <1>4 DEF Frame, PlainFrames

\* The innermost frame, and what becomes of it when its place changes.
LEMMA HeadFrame ==
  ASSUME TypeOK, NEW a \in Actors, stack[a] # <<>>
  PROVE  /\ Head(stack[a]) \in Frames
         /\ Head(stack[a]).flag \in BOOLEAN
         /\ Tail(stack[a]) \in Seq(Frames)
         /\ 1 \in DOMAIN stack[a] /\ Head(stack[a]) = stack[a][1]
  <1>1. stack[a] \in Seq(Frames) /\ Len(stack[a]) >= 1
    BY EmptySeq DEF TypeOK
  <1>2. Head(stack[a]) \in Frames /\ Tail(stack[a]) \in Seq(Frames)
        /\ 1 \in DOMAIN stack[a] /\ Head(stack[a]) = stack[a][1]
    BY <1>1
  <1>3. \A f \in Frames : f.flag \in BOOLEAN
    BY DEF Frames
  <1> QED BY <1>2, <1>3

\* Moving a frame to another place keeps its function.
LEMMA FrameAt ==
  ASSUME NEW f \in Frames, NEW s \in Pcs
  PROVE  /\ [f EXCEPT !.pc = s] \in Frames
         /\ [f EXCEPT !.pc = s].fn = f.fn /\ [f EXCEPT !.pc = s].pc = s
         /\ s \in PlainPcs => [f EXCEPT !.pc = s] \in PlainFrames
  <1>1. [f EXCEPT !.pc = s] \in Frames
    BY DEF Frames
  <1>2. [f EXCEPT !.pc = s].fn = f.fn /\ [f EXCEPT !.pc = s].pc = s
    BY DEF Frames
  <1> QED BY <1>1, <1>2 DEF PlainFrames, PlainPcs, Holding, Creating, Pausing, Destroying

\* Goto replaces the innermost frame.
LEMMA GotoMoves ==
  ASSUME TypeOK, NEW a \in Actors, stack[a] # <<>>, NEW s \in Pcs, Goto(a, s)
  PROVE  Moves(a, {[Head(stack[a]) EXCEPT !.pc = s]}) /\ Rets
  <1>1. [Head(stack[a]) EXCEPT !.pc = s] \in Frames
    BY HeadFrame, FrameAt
  <1>2. stack' = [stack EXCEPT ![a] = <<[Head(@) EXCEPT !.pc = s]>> \o Tail(@)]
    BY DEF Goto
  <1>3. Moves(a, {[Head(stack[a]) EXCEPT !.pc = s]})
    BY <1>1, <1>2, ReplaceTop
  <1> QED BY <1>3 DEF Goto, Rets, TypeOK

\* Below the new innermost frame are the frames that were there.
LEMMA GotoTop ==
  ASSUME TypeOK, NEW a \in Actors, stack[a] # <<>>, NEW s \in Pcs, Goto(a, s),
         NEW i \in DOMAIN stack'[a], i # 1
  PROVE  i \in DOMAIN stack[a] /\ stack'[a][i] = stack[a][i]
  <1>1. stack[a] \in Seq(Frames) /\ Len(stack[a]) >= 1
    BY EmptySeq DEF TypeOK
  <1>2. stack'[a] = <<[Head(stack[a]) EXCEPT !.pc = s]>> \o Tail(stack[a])
    BY DEF Goto, TypeOK
  <1>3. i \in 1..Len(stack[a])
    BY <1>1, <1>2
  <1> QED BY <1>1, <1>2, <1>3

\* Goto a place that does not hold the lock is plain.
LEMMA GotoPlain ==
  ASSUME TypeOK, NEW a \in Actors, stack[a] # <<>>, NEW s \in PlainPcs, Goto(a, s)
  PROVE  Plain(a)
  <1>1. s \in Pcs /\ [Head(stack[a]) EXCEPT !.pc = s] \in PlainFrames
    BY HeadFrame, FrameAt DEF PlainPcs
  <1> QED BY <1>1, GotoMoves DEF Moves, Plain

\* Return drops frames and adds none.
LEMMA ReturnPlain ==
  ASSUME TypeOK, NEW a \in Actors, stack[a] # <<>>, NEW v \in {"nil", "err"}, Return(a, v)
  PROVE  Plain(a)
  <1>1. stack[a] \in Seq(Frames) /\ Len(stack[a]) >= 1
    BY EmptySeq DEF TypeOK
  <1>2. Tail(stack[a]) \in Seq(Frames)
    BY <1>1
  <1>3. stack'[a] = Tail(stack[a]) \/ stack'[a] = <<>>
    BY DEF Return, TypeOK
  <1>4. \A b \in Actors : b # a => stack'[b] = stack[b]
    BY DEF Return, TypeOK
  <1>5. stack' \in [Actors -> Seq(Frames)]
    BY <1>2 DEF Return, TypeOK
  <1>6. ASSUME NEW i \in DOMAIN stack'[a]
        PROVE  \E j \in DOMAIN stack[a] : j # 1 /\ stack'[a][i] = stack[a][j]
    <2>1. stack'[a] # <<>>
      BY <1>6
    <2>2. stack'[a] = Tail(stack[a])
      BY <1>3, <2>1
    <2>3. i \in 1..Len(stack[a]) - 1
      BY <1>1, <1>6, <2>2
    <2>4. i + 1 \in DOMAIN stack[a] /\ i + 1 # 1 /\ stack'[a][i] = stack[a][i + 1]
      BY <1>1, <2>2, <2>3
    <2> QED BY <2>4
  <1>7. Rets
    BY DEF Return, Rets, TypeOK
  <1> QED BY <1>4, <1>5, <1>6, <1>7 DEF Moves, Plain

\* Continue goes to a place or returns.
LEMMA ContinuePlain ==
  ASSUME TypeOK, NEW a \in Actors, stack[a] # <<>>, NEW k \in PlainPcs \cup {"nil", "err"},
         Continue(a, k)
  PROVE  Plain(a)
  BY GotoPlain, ReturnPlain DEF Continue

\* CallThen puts a frame on the innermost one.
LEMMA CallPlain ==
  ASSUME TypeOK, NEW a \in Actors, stack[a] # <<>>, NEW s \in PlainPcs,
         NEW fn \in Fns, NEW flag \in BOOLEAN, CallThen(a, s, fn, flag)
  PROVE  Plain(a)
  <1>1. [Head(stack[a]) EXCEPT !.pc = s] \in PlainFrames /\ Frame(fn, flag) \in PlainFrames
    BY HeadFrame, FrameAt, FrameType DEF PlainPcs
  <1>2. stack' = [stack EXCEPT ![a] = <<Frame(fn, flag), [Head(@) EXCEPT !.pc = s]>> \o Tail(@)]
    BY DEF CallThen
  <1>3. Moves(a, {Frame(fn, flag), [Head(stack[a]) EXCEPT !.pc = s]})
    BY <1>1, <1>2, PushTop DEF PlainFrames
  <1> QED BY <1>1, <1>3 DEF CallThen, Rets, TypeOK, Moves, Plain

\* TailCall replaces the innermost frame by a call.
LEMMA TailCallPlain ==
  ASSUME TypeOK, NEW a \in Actors, stack[a] # <<>>,
         NEW fn \in Fns, NEW flag \in BOOLEAN, TailCall(a, fn, flag)
  PROVE  Plain(a)
  <1>1. Frame(fn, flag) \in PlainFrames
    BY FrameType
  <1>2. stack' = [stack EXCEPT ![a] = <<Frame(fn, flag)>> \o Tail(@)]
    BY DEF TailCall
  <1>3. Moves(a, {Frame(fn, flag)})
    BY <1>1, <1>2, ReplaceTop DEF PlainFrames
  <1> QED BY <1>1, <1>3 DEF TailCall, Rets, TypeOK, Moves, Plain
--------------------------------------------------------------------------------
(* What preserves the three invariants about frames *)

\* A plain step keeps them when it takes the lock from nobody else, marks the container
\* only while nobody holds the lock, never revives a dead container, and deregisters
\* only a dead one.
LEMMA PlainKeeps ==
  ASSUME LifeInv, NEW a \in Actors, Moves(a, PlainFrames),
         lock' = lock \/ lock = NoOne \/ lock = a,
         lock = NoOne \/ ((st'.removing => st.removing) /\ (st'.dead => st.dead)),
         st.dead => st'.dead,
         ~registered' => ~registered \/ st.dead
  PROVE  (LockInv /\ StartInv /\ DeadInv)'
  <1>0. NoOne \notin Actors
    BY ActorsAssumption DEF Actors
  <1>1. ASSUME NEW b \in Actors, NEW i \in DOMAIN stack'[b],
               Holding(stack'[b][i]) \/ Destroying(stack'[b][i])
        PROVE  \E j \in DOMAIN stack[b] : /\ stack'[b][i] = stack[b][j]
                                          /\ b = a => j # 1
                                          /\ b # a => j = i
    BY <1>1 DEF Moves, PlainFrames
  <1>2. ASSUME NEW b \in Actors, NEW i \in DOMAIN stack'[b], Holding(stack'[b][i])
        PROVE  b # a /\ i = 1 /\ lock = b /\ lock' = b /\ stack'[b][i] = stack[b][i] /\ i \in DOMAIN stack[b]
    <2>1. PICK j \in DOMAIN stack[b] :
            stack'[b][i] = stack[b][j] /\ (b = a => j # 1) /\ (b # a => j = i)
      BY <1>1, <1>2
    <2>2. j = 1 /\ lock = b
      BY <2>1, <1>2 DEF LifeInv, LockInv
    <2> QED BY <2>1, <2>2, <1>0
  <1>3. LockInv'
    BY <1>2 DEF LockInv
  <1>4. StartInv'
    <2>1. ASSUME NEW b \in Actors, NEW i \in DOMAIN stack'[b], Creating(stack'[b][i])
          PROVE  ~st'.removing /\ ~st'.dead
      BY <2>1, <1>0, <1>2 DEF LifeInv, StartInv, Holding
    <2> QED BY <2>1 DEF StartInv
  <1>5. DeadInv'
    <2>1. ASSUME NEW b \in Actors, NEW i \in DOMAIN stack'[b], Destroying(stack'[b][i])
          PROVE  st'.dead
      BY <2>1, <1>1 DEF LifeInv, DeadInv
    <2> QED BY <2>1 DEF LifeInv, DeadInv
  <1> QED BY <1>3, <1>4, <1>5

\* A plain step that changes nothing else but who waits.
LEMMA PlainStep ==
  ASSUME LifeInv, NEW a \in Actors, Plain(a),
         wait' \in [Actors -> {"no", "waiting", "fired"}],
         UNCHANGED <<config, st, lock, registered, rm, ch, proc, active, stream, queue>>
  PROVE  LifeInv'
  <1>1. (LockInv /\ StartInv /\ DeadInv)'
    BY PlainKeeps DEF Plain, LifeInv
  <1>2. TypeOK'
    BY DEF LifeInv, TypeOK, Plain, Moves, Rets
  <1>3. GenInv'
    BY DEF LifeInv, GenInv
  <1> QED BY <1>1, <1>2, <1>3 DEF LifeInv

\* Where the callers of WaitStop go on.
LEMMA WaitPointsTo ==
  \A w \in WaitPoints : /\ w.ok \in PlainPcs \cup {"nil", "err"}
                        /\ w.late # "never" => w.late \in PlainPcs \cup {"nil", "err"}
  BY DEF WaitPoints, PlainPcs, Pcs

\* Where the callers of killWithSignal go on.
LEMMA SignalPointsTo ==
  \A p \in SignalPoints : p.ok \in PlainPcs \cup {"nil", "err"} /\ p.bad \in PlainPcs \cup {"nil", "err"}
  BY DEF SignalPoints, PlainPcs, Pcs

\* WaitStop, entered and left: only the waiter and its place change.
LEMMA WaitKeeps ==
  ASSUME LifeInv, NEW a \in Actors, WaitEnter(a) \/ WaitLeave(a)
  PROVE  LifeInv'
  <1>1. PICK w \in WaitPoints : /\ At(a, w.fn, w.pc)
                                /\ \/ Continue(a, w.ok)
                                   \/ w.late # "never" /\ Continue(a, w.late)
                                   \/ UNCHANGED <<stack, ret>>
    BY DEF WaitEnter, WaitLeave
  <1>2. wait' \in [Actors -> {"no", "waiting", "fired"}]
    <2>1. wait \in [Actors -> {"no", "waiting", "fired"}]
      BY DEF LifeInv, TypeOK
    <2>2. \/ wait' = wait
          \/ wait' = [wait EXCEPT ![a] = "waiting"]
          \/ wait' = [wait EXCEPT ![a] = "no"]
      BY DEF WaitEnter, WaitLeave
    <2> QED BY <2>1, <2>2
  <1>5. UNCHANGED <<config, st, lock, registered, rm, ch, proc, active, stream, queue>>
    BY DEF WaitEnter, WaitLeave
  <1>3. CASE UNCHANGED <<stack, ret>>
    BY <1>2, <1>3, <1>5 DEF LifeInv, TypeOK, GenInv, LockInv, StartInv, DeadInv
  <1>4. CASE Continue(a, w.ok) \/ (w.late # "never" /\ Continue(a, w.late))
    BY <1>1, <1>2, <1>4, <1>5, WaitPointsTo, ContinuePlain, PlainStep DEF At, LifeInv
  <1> QED BY <1>1, <1>3, <1>4

\* The steps that read the state and decide where to go on.
LEMMA DecideKeeps ==
  ASSUME LifeInv, NEW a \in Actors,
         \/ StartRemoved(a) \/ KillBegin(a) \/ StopBegin(a) \/ StopKill(a)
         \/ RmLookup(a) \/ RmRunning(a) \/ RmStop(a)
         \/ RestartBegin(a) \/ RestartStart(a)
         \/ AutoRm(a) \/ ApiStart(a) \/ ApiStop(a)
  PROVE  LifeInv'
  <1>0. TypeOK /\ ret[a] \in {"nil", "err"}
    BY DEF LifeInv, TypeOK
  <1>1. {"started", "stopped", "killed", "signal", "last", "mark", "running", "resetnil",
         "reseterr", "dead", "save", "start"} \subseteq PlainPcs
    BY DEF PlainPcs, Pcs
  <1>2. {"Start", "Stop", "Kill", "Rm"} \subseteq Fns
    BY DEF Fns
  <1> USE <1>0, <1>1, <1>2
  <1>3. /\ UNCHANGED <<config, st, lock, registered, rm, ch, wait, proc, active, stream, queue>>
        /\ stack[a] # <<>>
    BY DEF StartRemoved, KillBegin, StopBegin, StopKill, RmLookup, RmRunning, RmStop,
           RestartBegin, RestartStart, AutoRm, ApiStart, ApiStop, At
  <1>4. Plain(a)
    <2>1. CASE StartRemoved(a)
      BY <1>3, <2>1, ReturnPlain DEF StartRemoved
    <2>2. CASE KillBegin(a)
      BY <1>3, <2>2, ContinuePlain DEF KillBegin
    <2>3. CASE StopBegin(a)
      BY <1>3, <2>3, ContinuePlain DEF StopBegin
    <2>4. CASE StopKill(a)
      BY <1>3, <2>4, CallPlain, ContinuePlain DEF StopKill
    <2>5. CASE RmLookup(a)
      BY <1>3, <2>5, ContinuePlain, GotoPlain DEF RmLookup
    <2>6. CASE RmRunning(a)
      BY <1>3, <2>6, GotoPlain, CallPlain DEF RmRunning
    <2>7. CASE RmStop(a)
      BY <1>3, <2>7, GotoPlain, CallPlain DEF RmStop
    <2>8. CASE RestartBegin(a)
      BY <1>3, <2>8, GotoPlain DEF RestartBegin
    <2>9. CASE RestartStart(a)
      BY <1>3, <2>9, CallPlain, ReturnPlain DEF RestartStart
    <2>10. CASE AutoRm(a)
      BY <1>3, <2>10, TailCallPlain, ReturnPlain DEF AutoRm
    <2>11. CASE ApiStart(a)
      BY <1>3, <2>11, TailCallPlain, ReturnPlain DEF ApiStart
    <2>12. CASE ApiStop(a)
      BY <1>3, <2>12, TailCallPlain, ReturnPlain DEF ApiStop
    <2> QED BY <2>1, <2>2, <2>3, <2>4, <2>5, <2>6, <2>7, <2>8, <2>9, <2>10, <2>11, <2>12
  <1> QED BY <1>3, <1>4, PlainStep DEF LifeInv, TypeOK
--------------------------------------------------------------------------------
(* containerStart *)

\* What the state's setters leave alone.
SameMarks(s, t) == t.removing = s.removing /\ t.dead = s.dead

\* The setters of container.State keep its type and the marks of a removal.
LEMMA StateOps ==
  ASSUME NEW s \in States
  PROVE  /\ \A p \in 0..MaxStarts : SetRunning(s, p) \in States /\ SameMarks(s, SetRunning(s, p))
         /\ SetStopped(s) \in States /\ SameMarks(s, SetStopped(s))
         /\ SetRestarting(s) \in States /\ SameMarks(s, SetRestarting(s))
         /\ \A a : Reset(a, s) \in States /\ SameMarks(s, Reset(a, s))
  <1>0. 0 \in 0..MaxStarts
    BY ConfigAssumption
  <1>1. ASSUME NEW p \in 0..MaxStarts
        PROVE  SetRunning(s, p) \in States /\ SameMarks(s, SetRunning(s, p))
    BY DEF States, SetRunning, SameMarks
  <1>2. SetStopped(s) \in States /\ SameMarks(s, SetStopped(s))
    BY <1>0 DEF States, SetStopped, SameMarks
  <1>3. SetRestarting(s) \in States /\ SameMarks(s, SetRestarting(s))
    <2>1. s.restartCount + 1 \in Nat
      BY DEF States
    <2>2. SetRestarting(s) = [s EXCEPT !.running = TRUE, !.restarting = TRUE, !.pid = 0,
                                       !.restartCount = s.restartCount + 1]
      BY DEF SetRestarting, States
    <2> QED BY <1>0, <2>1, <2>2 DEF States, SameMarks
  <1>4. ASSUME NEW a
        PROVE  Reset(a, s) \in States /\ SameMarks(s, Reset(a, s))
    <2>1. [s EXCEPT !.restartCount = 0] \in States /\ SameMarks(s, [s EXCEPT !.restartCount = 0])
      BY DEF States, SameMarks
    <2> QED BY <2>1 DEF Reset, SameMarks
  <1> QED BY <1>1, <1>2, <1>3, <1>4

\* ResetRestartManager gives a manager and a channel of the right type.
LEMMA ResetManagerType ==
  ASSUME TypeOK, NEW a, ResetRestartManager(a)
  PROVE  /\ rm' \in [canceled : BOOLEAN, active : BOOLEAN, count : Nat]
         /\ ch' \in {"none", "armed", "fired", "canceled"}
  <1>1. NewRM(0) \in [canceled : BOOLEAN, active : BOOLEAN, count : Nat]
    BY DEF NewRM
  <1> QED BY <1>1 DEF ResetRestartManager, TypeOK

\* Inside containerStart the lock is held and no removal is under way.
LEMMA CreatingHolds ==
  ASSUME LifeInv, NEW a \in Actors, At(a, "Start", "create")
  PROVE  lock = a /\ ~st.removing /\ ~st.dead
  <1>1. 1 \in DOMAIN stack[a] /\ Creating(stack[a][1])
    BY HeadFrame DEF LifeInv, At, Creating
  <1> QED BY <1>1 DEF LifeInv, LockInv, StartInv, Holding

\* The error path of containerStart gives the lock back.
LEMMA FailStartPlain ==
  ASSUME LifeInv, NEW a \in Actors, At(a, "Start", "create"), FailStart(a)
  PROVE  Plain(a) /\ lock' = NoOne
  <1>1. "removed" \in PlainPcs /\ "Rm" \in Fns
    BY DEF PlainPcs, Pcs, Fns
  <1> QED BY <1>1, CallPlain, ReturnPlain DEF FailStart, LifeInv, At

\* Taking the lock and going on at a place that holds it.
LEMMA TakesLock ==
  ASSUME LifeInv, NEW a \in Actors, stack[a] # <<>>, NEW s \in {"create", "event"},
         lock = NoOne, lock' = a, Goto(a, s), UNCHANGED <<st, registered>>,
         s = "create" => ~st.removing /\ ~st.dead
  PROVE  /\ stack' \in [Actors -> Seq(Frames)] /\ Rets
         /\ (LockInv /\ StartInv /\ DeadInv)'
  <1> DEFINE f == [Head(stack[a]) EXCEPT !.pc = s]
  <1>1. s \in Pcs /\ TypeOK /\ NoOne \notin Actors
    BY ActorsAssumption DEF Pcs, LifeInv, Actors
  <1>2. Moves(a, {f}) /\ Rets
    BY <1>1, GotoMoves
  <1>3. f.pc = s
    BY <1>1, HeadFrame, FrameAt
  <1> HIDE DEF f
  <1>4. \A b \in Actors : \A i \in DOMAIN stack[b] : ~Holding(stack[b][i])
    BY <1>1 DEF LifeInv, LockInv
  <1>5. ASSUME NEW b \in Actors, NEW i \in DOMAIN stack'[b], Holding(stack'[b][i])
        PROVE  b = a /\ i = 1 /\ stack'[b][i] = f
    <2>1. b = a
      BY <1>2, <1>4, <1>5 DEF Moves
    <2>2. i = 1
      <3>1. CASE i # 1
        <4>1. i \in DOMAIN stack[a] /\ stack'[a][i] = stack[a][i]
          BY <1>1, <2>1, <3>1, GotoTop
        <4> QED BY <1>4, <1>5, <2>1, <4>1
      <3> QED BY <3>1
    <2>3. stack'[b][i] = f
      BY <1>2, <1>4, <1>5, <2>1 DEF Moves
    <2> QED BY <2>1, <2>2, <2>3
  <1>6. LockInv'
    BY <1>5 DEF LockInv
  <1>7. StartInv'
    <2>1. ASSUME NEW b \in Actors, NEW i \in DOMAIN stack'[b], Creating(stack'[b][i])
          PROVE  ~st'.removing /\ ~st'.dead
      BY <1>3, <1>5, <2>1 DEF Holding, Creating
    <2> QED BY <2>1 DEF StartInv
  <1>8. DeadInv'
    <2>1. ASSUME NEW b \in Actors, NEW i \in DOMAIN stack'[b], Destroying(stack'[b][i])
          PROVE  st'.dead
      <3>1. stack'[b][i] # f
        BY <1>3, <2>1 DEF Destroying
      <3>2. \E j \in DOMAIN stack[b] : stack'[b][i] = stack[b][j]
        BY <1>2, <3>1 DEF Moves
      <3> QED BY <2>1, <3>2 DEF LifeInv, DeadInv
    <2> QED BY <2>1 DEF LifeInv, DeadInv
  <1> QED BY <1>2, <1>6, <1>7, <1>8 DEF Moves

\* containerStart refuses, or takes the lock of a container that is not being removed.
LEMMA StartBeginKeeps ==
  ASSUME LifeInv, NEW a \in Actors, StartBegin(a)
  PROVE  LifeInv'
  <1>1. stack[a] # <<>> /\ TypeOK /\ lock = NoOne
    BY DEF StartBegin, At, LifeInv, LockFree
  <1>2. UNCHANGED <<config, st, registered, rm, ch, wait, proc, active, stream, queue>>
    BY DEF StartBegin
  <1>3. CASE UNCHANGED lock /\ (Return(a, "nil") \/ Return(a, "err"))
    BY <1>1, <1>2, <1>3, ReturnPlain, PlainStep DEF TypeOK
  <1>4. CASE Goto(a, "create") /\ lock' = a /\ ~st.removing /\ ~st.dead
    <2>1. /\ stack' \in [Actors -> Seq(Frames)] /\ Rets
          /\ (LockInv /\ StartInv /\ DeadInv)'
      BY <1>1, <1>2, <1>4, TakesLock
    <2>2. TypeOK'
      BY <1>2, <1>4, <2>1 DEF LifeInv, TypeOK, Rets
    <2>3. GenInv'
      BY <1>2 DEF LifeInv, GenInv
    <2> QED BY <2>1, <2>2, <2>3 DEF LifeInv
  <1> QED BY <1>1, <1>3, <1>4 DEF StartBegin

\* containerStart fails before a process exists.
LEMMA StartFailKeeps ==
  ASSUME LifeInv, NEW a \in Actors, StartPrepareFails(a) \/ StartCreateFails(a)
  PROVE  LifeInv'
  <1>1. At(a, "Start", "create") /\ FailStart(a)
    BY DEF StartPrepareFails, StartCreateFails
  <1>2. Plain(a) /\ lock' = NoOne /\ lock = a
    BY <1>1, FailStartPlain, CreatingHolds
  <1>3. UNCHANGED <<config, registered, wait, proc, active, stream, queue>>
    BY DEF StartPrepareFails, StartCreateFails
  <1>4. st' \in States /\ SameMarks(st, st')
    <2>1. st \in States
      BY DEF LifeInv, TypeOK
    <2>2. Reset(a, st) \in States /\ SameMarks(st, Reset(a, st))
      BY <2>1, StateOps
    <2>3. st' = st \/ st' = Reset(a, st)
      BY DEF StartPrepareFails, StartCreateFails
    <2> QED BY <2>1, <2>2, <2>3 DEF SameMarks
  <1>5. /\ rm' \in [canceled : BOOLEAN, active : BOOLEAN, count : Nat]
        /\ ch' \in {"none", "armed", "fired", "canceled"}
    BY ResetManagerType DEF StartPrepareFails, StartCreateFails, LifeInv, TypeOK
  <1>6. TypeOK'
    BY <1>2, <1>3, <1>4, <1>5 DEF LifeInv, TypeOK, Plain, Moves, Rets
  <1>7. GenInv'
    BY <1>3 DEF LifeInv, GenInv
  <1>8. (LockInv /\ StartInv /\ DeadInv)'
    BY <1>2, <1>3, <1>4, PlainKeeps DEF Plain, SameMarks
  <1> QED BY <1>6, <1>7, <1>8 DEF LifeInv

\* containerStart creates a process, of the next generation.
LEMMA StartCreateKeeps ==
  ASSUME LifeInv, NEW a \in Actors, StartCreate(a) \/ StartSaveFails(a)
  PROVE  LifeInv'
  <1>1. At(a, "Start", "create") /\ lock = a /\ stack[a] # <<>> /\ TypeOK
    BY CreatingHolds DEF StartCreate, StartSaveFails, At, LifeInv
  <1>2. Plain(a) /\ lock' = NoOne
    <2>1. CASE StartCreate(a)
      BY <1>1, <2>1, ReturnPlain DEF StartCreate
    <2>2. CASE StartSaveFails(a)
      BY <1>1, <2>2, FailStartPlain DEF StartSaveFails
    <2> QED BY <2>1, <2>2
  <1>3. UNCHANGED <<config, registered, wait, stream, queue>> /\ active' \in BOOLEAN
    BY DEF StartCreate, StartSaveFails, LifeInv, TypeOK
  <1>4. proc.gen \in 0..MaxStarts /\ proc.gen < MaxStarts
    BY <1>1 DEF StartCreate, StartSaveFails, TypeOK
  <1>5. proc.gen + 1 \in 1..MaxStarts
    BY <1>4, ConfigAssumption
  <1>6. proc' = [gen |-> proc.gen + 1, state |-> "alive", frozen |-> FALSE, killed |-> FALSE]
        /\ st' = SetRunning(Reset(a, st), proc.gen + 1)
        /\ ResetRestartManager(a)
    BY DEF StartCreate, StartSaveFails
  <1>7. st' \in States /\ SameMarks(st, st')
    <2>1. st \in States /\ proc.gen + 1 \in 0..MaxStarts
      BY <1>1, <1>5 DEF TypeOK
    <2>2. Reset(a, st) \in States /\ SameMarks(st, Reset(a, st))
      BY <2>1, StateOps
    <2>3. /\ SetRunning(Reset(a, st), proc.gen + 1) \in States
          /\ SameMarks(Reset(a, st), SetRunning(Reset(a, st), proc.gen + 1))
      BY <2>1, <2>2, StateOps
    <2> QED BY <1>6, <2>2, <2>3 DEF SameMarks
  <1>8. proc' \in [gen : 0..MaxStarts, state : {"none", "alive", "zombie", "gone"},
                   frozen : BOOLEAN, killed : BOOLEAN] /\ GenInv'
    BY <1>5, <1>6 DEF GenInv
  <1>9. TypeOK'
    BY <1>1, <1>2, <1>3, <1>6, <1>7, <1>8, ResetManagerType DEF TypeOK, Plain, Moves, Rets
  <1>10. (LockInv /\ StartInv /\ DeadInv)'
    BY <1>1, <1>2, <1>3, <1>7, PlainKeeps DEF Plain, SameMarks
  <1> QED BY <1>8, <1>9, <1>10 DEF LifeInv
--------------------------------------------------------------------------------
(* Signals, removal and restart *)

\* A plain step that keeps the lock and the index, and the marks unless nobody holds the
\* lock, keeps the invariant when it keeps the types.
LEMMA PlainUnlocked ==
  ASSUME LifeInv, NEW a \in Actors, Plain(a), st' \in States,
         lock = NoOne \/ SameMarks(st, st'), st.dead => st'.dead,
         rm' \in [canceled : BOOLEAN, active : BOOLEAN, count : Nat],
         proc' \in [gen : 0..MaxStarts, state : {"none", "alive", "zombie", "gone"},
                    frozen : BOOLEAN, killed : BOOLEAN],
         proc'.gen = proc.gen, proc'.state = proc.state,
         UNCHANGED <<config, lock, registered, ch, wait, active, stream, queue>>
  PROVE  LifeInv'
  <1>1. TypeOK'
    BY DEF LifeInv, TypeOK, Plain, Moves, Rets
  <1>2. GenInv'
    BY DEF LifeInv, GenInv
  <1>3. (LockInv /\ StartInv /\ DeadInv)'
    <2>1. lock = NoOne \/ ((st'.removing => st.removing) /\ (st'.dead => st.dead))
      BY DEF SameMarks
    <2> QED BY <2>1, PlainKeeps DEF Plain
  <1> QED BY <1>1, <1>2, <1>3 DEF LifeInv

\* killWithSignal: the marks of a removal and the process stay.
LEMMA SignalKeeps ==
  ASSUME LifeInv, NEW a \in Actors, KillWithSignal(a)
  PROVE  LifeInv'
  <1>1. PICK p \in SignalPoints :
          /\ At(a, p.fn, p.pc)
          /\ Continue(a, p.ok) \/ Continue(a, p.bad)
          /\ rm' = rm \/ rm' = Cancel(rm)
          /\ st' = st \/ st' = [st EXCEPT !.manual = TRUE]
          /\ \/ proc' = proc
             \/ proc' = [proc EXCEPT !.killed =
                           @ \/ (~st.restarting /\ p.sig = "KILL" /\ proc.state = "alive")]
    BY DEF KillWithSignal
  <1>2. Plain(a)
    BY <1>1, SignalPointsTo, ContinuePlain DEF LifeInv, At
  <1>3. st' \in States /\ SameMarks(st, st')
    <2>1. st \in States
      BY DEF LifeInv, TypeOK
    <2> QED BY <1>1, <2>1 DEF States, SameMarks
  <1>4. rm' \in [canceled : BOOLEAN, active : BOOLEAN, count : Nat]
    BY <1>1 DEF LifeInv, TypeOK, Cancel
  <1>5. /\ proc' \in [gen : 0..MaxStarts, state : {"none", "alive", "zombie", "gone"},
                      frozen : BOOLEAN, killed : BOOLEAN]
        /\ proc'.gen = proc.gen /\ proc'.state = proc.state
    BY <1>1 DEF LifeInv, TypeOK
  <1>6. UNCHANGED <<config, lock, registered, ch, wait, active, stream, queue>>
    BY DEF KillWithSignal
  <1> QED BY <1>2, <1>3, <1>4, <1>5, <1>6, PlainUnlocked DEF SameMarks

\* killProcessDirectly: only the process is told.
LEMMA KillDirectlyKeeps ==
  ASSUME LifeInv, NEW a \in Actors, KillDirectly(a)
  PROVE  LifeInv'
  <1>1. "last" \in PlainPcs
    BY DEF PlainPcs, Pcs
  <1>2. Plain(a)
    BY <1>1, GotoPlain, ReturnPlain DEF KillDirectly, LifeInv, At
  <1>3. /\ proc' \in [gen : 0..MaxStarts, state : {"none", "alive", "zombie", "gone"},
                      frozen : BOOLEAN, killed : BOOLEAN]
        /\ proc'.gen = proc.gen /\ proc'.state = proc.state
    BY DEF KillDirectly, LifeInv, TypeOK
  <1>4. UNCHANGED <<config, st, lock, registered, rm, ch, wait, active, stream, queue>>
    BY DEF KillDirectly
  <1>5. st \in States /\ rm \in [canceled : BOOLEAN, active : BOOLEAN, count : Nat]
    BY DEF LifeInv, TypeOK
  <1> QED BY <1>2, <1>3, <1>4, <1>5, PlainUnlocked DEF SameMarks

\* SetRemovalInProgress, its reset, and AutoRemove: the marks change only with the lock
\* free, and dead never.
LEMMA RmMarkKeeps ==
  ASSUME LifeInv, NEW a \in Actors,
         RmMark(a) \/ RmReset(a) \/ RestartRestore(a)
  PROVE  LifeInv'
  <1>1. "check" \in PlainPcs /\ "start" \in PlainPcs /\ TypeOK
    BY DEF PlainPcs, Pcs, LifeInv
  <1>2. Plain(a)
    <2>1. CASE RmMark(a)
      BY <1>1, <2>1, GotoPlain, ReturnPlain DEF RmMark, At
    <2>2. CASE RmReset(a)
      BY <1>1, <2>2, ReturnPlain DEF RmReset, At
    <2>3. CASE RestartRestore(a)
      BY <1>1, <2>3, ContinuePlain DEF RestartRestore, At
    <2> QED BY <2>1, <2>2, <2>3
  <1>3. st' \in States /\ (lock = NoOne \/ SameMarks(st, st')) /\ (st.dead => st'.dead)
    <2>1. st \in States
      BY DEF LifeInv, TypeOK
    <2>2. CASE RmMark(a) \/ RmReset(a)
      <3>1. lock = NoOne /\ \/ st' = st
                            \/ st' = [st EXCEPT !.removing = TRUE]
                            \/ st' = [st EXCEPT !.removing = FALSE]
        BY <2>2 DEF RmMark, RmReset, LockFree
      <3> QED BY <2>1, <3>1 DEF States
    <2>3. CASE RestartRestore(a)
      <3>1. Head(stack[a]).flag \in BOOLEAN
        BY <1>1, <2>3, HeadFrame DEF RestartRestore, At
      <3>2. st' = [st EXCEPT !.autoRemove = Head(stack[a]).flag]
        BY <2>3 DEF RestartRestore
      <3> QED BY <2>1, <3>1, <3>2 DEF States, SameMarks
    <2> QED BY <2>2, <2>3
  <1>4. UNCHANGED <<config, lock, registered, rm, ch, wait, proc, active, stream, queue>>
    BY DEF RmMark, RmReset, RestartRestore
  <1>5. /\ proc \in [gen : 0..MaxStarts, state : {"none", "alive", "zombie", "gone"},
                     frozen : BOOLEAN, killed : BOOLEAN]
        /\ rm \in [canceled : BOOLEAN, active : BOOLEAN, count : Nat]
    BY DEF LifeInv, TypeOK
  <1> QED BY <1>2, <1>3, <1>4, <1>5, PlainUnlocked

\* SetDead: nobody holds the lock, so no start is under way.
LEMMA RmDeadKeeps ==
  ASSUME LifeInv, NEW a \in Actors, RmDead(a)
  PROVE  LifeInv'
  <1> DEFINE f == [Head(stack[a]) EXCEPT !.pc = "destroy"]
  <1>1. /\ TypeOK /\ stack[a] # <<>> /\ lock = NoOne /\ "destroy" \in Pcs
        /\ Goto(a, "destroy") /\ st' = [st EXCEPT !.dead = TRUE]
    BY DEF RmDead, At, LifeInv, LockFree, Pcs
  <1>2. UNCHANGED <<config, lock, registered, rm, ch, wait, proc, active, stream, queue>>
    BY DEF RmDead
  <1>3. Moves(a, {f}) /\ Rets
    BY <1>1, GotoMoves
  <1>4. f.pc = "destroy"
    BY <1>1, HeadFrame, FrameAt
  <1> HIDE DEF f
  <1>5. st \in States /\ st' \in States /\ st'.dead
    BY <1>1 DEF TypeOK, States
  <1>6. TypeOK'
    BY <1>2, <1>3, <1>5 DEF LifeInv, TypeOK, Moves, Rets
  <1>7. \A b \in Actors : \A i \in DOMAIN stack'[b] : ~Holding(stack'[b][i])
    <2>1. \A b \in Actors : \A i \in DOMAIN stack[b] : ~Holding(stack[b][i])
      BY <1>1, ActorsAssumption DEF LifeInv, LockInv, Actors
    <2>2. ~Holding(f)
      BY <1>4 DEF Holding, Creating, Pausing
    <2> QED BY <1>3, <2>1, <2>2 DEF Moves
  <1>8. (LockInv /\ StartInv /\ DeadInv)'
    BY <1>5, <1>7 DEF LockInv, StartInv, DeadInv, Holding
  <1> QED BY <1>2, <1>6, <1>8 DEF LifeInv, GenInv

\* Only a dead container leaves the index.
LEMMA RmDestroyKeeps ==
  ASSUME LifeInv, NEW a \in Actors, RmDestroy(a)
  PROVE  LifeInv'
  <1>1. TypeOK /\ stack[a] # <<>> /\ {"resetnil", "reseterr"} \subseteq PlainPcs
    BY DEF RmDestroy, At, LifeInv, PlainPcs, Pcs
  <1>2. Plain(a)
    BY <1>1, GotoPlain DEF RmDestroy
  <1>3. st.dead
    <2>1. 1 \in DOMAIN stack[a] /\ Destroying(stack[a][1])
      BY <1>1, HeadFrame DEF RmDestroy, At, Destroying
    <2> QED BY <2>1 DEF LifeInv, DeadInv
  <1>4. UNCHANGED <<config, st, lock, rm, ch, wait, proc, active, stream, queue>>
        /\ registered' \in BOOLEAN
    BY <1>1 DEF RmDestroy
  <1>5. TypeOK'
    BY <1>1, <1>2, <1>4 DEF TypeOK, Plain, Moves, Rets
  <1>6. (LockInv /\ StartInv /\ DeadInv)'
    BY <1>2, <1>3, <1>4, PlainKeeps DEF Plain
  <1> QED BY <1>4, <1>5, <1>6 DEF LifeInv, GenInv

\* containerRestart turns AutoRemove off, with no lock: the marks stay.
LEMMA RestartSaveKeeps ==
  ASSUME LifeInv, NEW a \in Actors, RestartSave(a)
  PROVE  LifeInv'
  <1> DEFINE f == [Head(stack[a]) EXCEPT !.pc = "restore", !.flag = st.autoRemove]
  <1>1. TypeOK /\ stack[a] # <<>> /\ st \in States /\ Head(stack[a]) \in Frames
    BY HeadFrame DEF RestartSave, At, LifeInv, TypeOK
  <1>2. f \in PlainFrames
    <2>1. st.autoRemove \in BOOLEAN /\ "restore" \in Pcs
      BY <1>1 DEF States, Pcs
    <2>2. f \in Frames /\ f.pc = "restore"
      BY <1>1, <2>1 DEF Frames
    <2> HIDE DEF f
    <2> QED BY <2>2 DEF PlainFrames, Holding, Creating, Pausing, Destroying
  <1>3. Frame("Stop", FALSE) \in PlainFrames
    BY FrameType DEF Fns
  <1>4. stack' = [stack EXCEPT ![a] = <<Frame("Stop", FALSE), f>> \o Tail(@)]
    BY DEF RestartSave
  <1> HIDE DEF f
  <1>5. Moves(a, {Frame("Stop", FALSE), f})
    BY <1>1, <1>2, <1>3, <1>4, PushTop DEF PlainFrames
  <1>6. UNCHANGED <<config, lock, registered, rm, ch, ret, wait, proc, active, stream, queue>>
    BY DEF RestartSave
  <1>7. Plain(a)
    BY <1>1, <1>2, <1>3, <1>5, <1>6 DEF Plain, Moves, Rets, TypeOK
  <1>8. st' \in States /\ SameMarks(st, st')
    BY <1>1 DEF RestartSave, States, SameMarks
  <1> QED BY <1>1, <1>6, <1>7, <1>8, PlainUnlocked DEF SameMarks, TypeOK
--------------------------------------------------------------------------------
(* Pausing *)

\* An event of a container that containerd knows names an existing generation.
LEMMA EventType ==
  ASSUME TypeOK, GenInv, Known, NEW type \in {"exit", "pause", "resume"}, NEW code \in {0, 1}
  PROVE  Append(stream, Event(type, code)) \in Seq(Events)
  <1>1. proc.gen \in 1..MaxStarts
    BY ConfigAssumption DEF TypeOK, GenInv, Known
  <1>2. Event(type, code) \in Events
    BY <1>1 DEF Event, Events
  <1> QED BY <1>2 DEF TypeOK

\* containerPause and containerUnpause fail at once, or take the lock and keep it.
LEMMA PauseBeginKeeps ==
  ASSUME LifeInv, NEW a \in Actors, PauseBegin(a) \/ UnpauseBegin(a)
  PROVE  LifeInv'
  <1>1. TypeOK /\ GenInv /\ stack[a] # <<>> /\ lock = NoOne
    BY DEF PauseBegin, UnpauseBegin, At, LifeInv, LockFree
  <1>2. UNCHANGED <<config, st, registered, rm, ch, wait, active, queue>>
    BY DEF PauseBegin, UnpauseBegin
  <1>3. CASE Return(a, "err") /\ UNCHANGED <<lock, proc, stream>>
    BY <1>1, <1>2, <1>3, ReturnPlain, PlainStep DEF TypeOK
  <1>4. CASE /\ Known /\ lock' = a /\ Goto(a, "event")
             /\ \E b \in BOOLEAN : proc' = [proc EXCEPT !.frozen = b]
             /\ \E t \in {"pause", "resume"} : stream' = Append(stream, Event(t, 0))
    <2>1. /\ stack' \in [Actors -> Seq(Frames)] /\ Rets
          /\ (LockInv /\ StartInv /\ DeadInv)'
      BY <1>1, <1>2, <1>4, TakesLock
    <2>2. stream' \in Seq(Events)
      BY <1>1, <1>4, EventType
    <2>3. /\ proc' \in [gen : 0..MaxStarts, state : {"none", "alive", "zombie", "gone"},
                        frozen : BOOLEAN, killed : BOOLEAN]
          /\ GenInv'
      BY <1>1, <1>4 DEF TypeOK, GenInv
    <2>4. TypeOK'
      BY <1>1, <1>2, <1>4, <2>1, <2>2, <2>3 DEF TypeOK, Rets
    <2> QED BY <2>1, <2>3, <2>4 DEF LifeInv
  <1> QED BY <1>3, <1>4 DEF PauseBegin, UnpauseBegin

\* containerPause returns: it held the lock, so nobody else does.
LEMMA PauseReturnKeeps ==
  ASSUME LifeInv, NEW a \in Actors, PauseReturn(a)
  PROVE  LifeInv'
  <1>1. TypeOK /\ stack[a] # <<>> /\ lock' = NoOne /\ Return(a, "nil")
    BY DEF PauseReturn, At, LifeInv
  <1>2. UNCHANGED <<config, st, registered, rm, ch, wait, proc, active, stream, queue>>
    BY DEF PauseReturn
  <1>3. lock = a
    <2>1. 1 \in DOMAIN stack[a] /\ Holding(stack[a][1])
      BY <1>1, HeadFrame DEF PauseReturn, At, Holding, Pausing
    <2> QED BY <2>1 DEF LifeInv, LockInv
  <1>4. Plain(a)
    BY <1>1, ReturnPlain
  <1>5. TypeOK'
    BY <1>1, <1>2, <1>4 DEF TypeOK, Plain, Moves, Rets
  <1>6. (LockInv /\ StartInv /\ DeadInv)'
    BY <1>2, <1>3, <1>4, PlainKeeps DEF Plain
  <1> QED BY <1>2, <1>5, <1>6 DEF LifeInv, GenInv
--------------------------------------------------------------------------------
(* Requests, containerd and its events *)

\* A request begins with a plain frame.
LEMMA EntryType ==
  ASSUME NEW r \in AllRequests
  PROVE  Entry[r] \in PlainFrames
  <1>1. \A fn \in {"ApiStart", "ApiStop", "Kill", "Signal", "Restart", "Rm", "Pause", "Unpause"} :
          Frame(fn, TRUE) \in PlainFrames /\ Frame(fn, FALSE) \in PlainFrames
    BY FrameType DEF Fns
  <1>2. /\ Entry["start"] = Frame("ApiStart", FALSE) /\ Entry["stop"] = Frame("ApiStop", FALSE)
        /\ Entry["kill"] = Frame("Kill", FALSE) /\ Entry["signal"] = Frame("Signal", FALSE)
        /\ Entry["restart"] = Frame("Restart", FALSE) /\ Entry["rm"] = Frame("Rm", FALSE)
        /\ Entry["rmforce"] = Frame("Rm", TRUE) /\ Entry["pause"] = Frame("Pause", FALSE)
        /\ Entry["unpause"] = Frame("Unpause", FALSE)
    BY DEF Entry
  <1> QED BY <1>1, <1>2 DEF AllRequests

\* A first frame on an empty stack.
LEMMA FirstFrame ==
  ASSUME TypeOK, NEW a \in Actors, NEW f \in PlainFrames,
         stack' = [stack EXCEPT ![a] = <<f>>], UNCHANGED ret
  PROVE  Plain(a)
  <1>1. f \in Frames /\ <<f>> \in Seq(Frames)
    BY DEF PlainFrames
  <1>2. stack' \in [Actors -> Seq(Frames)] /\ stack'[a] = <<f>>
    BY <1>1 DEF TypeOK
  <1>3. \A i \in DOMAIN stack'[a] : stack'[a][i] \in PlainFrames
    BY <1>2
  <1> QED BY <1>2, <1>3 DEF Plain, Moves, Rets, TypeOK

\* A request begins.
LEMMA RequestKeeps ==
  ASSUME LifeInv, NEW a \in Ops, NEW r \in Requests, Request(a, r)
  PROVE  LifeInv'
  <1>1. a \in Actors /\ r \in AllRequests /\ TypeOK
    BY ConfigAssumption DEF Actors, LifeInv, TypeOK, Requests
  <1>2. Plain(a)
    BY <1>1, EntryType, FirstFrame DEF Request
  <1> QED BY <1>1, <1>2, PlainStep DEF Request, TypeOK

\* The timer, the process, containerd and the event stream leave the frames alone.
LEMMA EnvironmentKeeps ==
  ASSUME LifeInv, RestartTimer \/ ProcessExit \/ ContainerdExit \/ HandleEvent
  PROVE  LifeInv'
  <1>1. UNCHANGED <<config, st, lock, registered, stack, ret, wait>>
    BY DEF RestartTimer, ProcessExit, ContainerdExit, HandleEvent
  <1>2. TypeOK' /\ GenInv'
    <2>1. CASE RestartTimer
      BY <2>1 DEF LifeInv, TypeOK, GenInv, RestartTimer
    <2>2. CASE ProcessExit
      BY <2>2 DEF LifeInv, TypeOK, GenInv, ProcessExit
    <2>3. CASE ContainerdExit
      <3>1. TypeOK /\ GenInv /\ Known
        BY <2>3 DEF LifeInv, ContainerdExit, Known
      <3>2. stream' \in Seq(Events)
        BY <2>3, <3>1, EventType DEF ContainerdExit
      <3> QED BY <2>3, <3>1, <3>2 DEF TypeOK, GenInv, ContainerdExit
    <2>4. CASE HandleEvent
      <3>1. stream \in Seq(Events) /\ queue \in Seq(Events) /\ stream # <<>>
        BY <2>4 DEF LifeInv, TypeOK, HandleEvent
      <3>2. Head(stream) \in Events /\ Tail(stream) \in Seq(Events)
        BY <3>1, EmptySeq
      <3>3. stream' \in Seq(Events) /\ queue' \in Seq(Events) /\ active' \in BOOLEAN
        BY <2>4, <3>1, <3>2 DEF HandleEvent
      <3> QED BY <2>4, <3>3 DEF LifeInv, TypeOK, GenInv, HandleEvent
    <2> QED BY <2>1, <2>2, <2>3, <2>4
  <1> QED BY <1>1, <1>2 DEF LifeInv, LockInv, StartInv, DeadInv
--------------------------------------------------------------------------------
(* StateChanged and the restart goroutine *)

\* Closing the wait channel keeps the type of wait.
LEMMA FireWaitersType ==
  ASSUME TypeOK, FireWaiters
  PROVE  wait' \in [Actors -> {"no", "waiting", "fired"}]
  BY DEF TypeOK, FireWaiters

\* The restart goroutine, whose SetStopped runs without the lock: the marks stay.
LEMMA MonitorKeeps ==
  ASSUME LifeInv, MonitorWake \/ MonitorStop
  PROVE  LifeInv'
  <1>1. Monitor \in Actors /\ TypeOK /\ st \in States
    BY DEF Actors, LifeInv, TypeOK
  <1>2. {"started", "stop"} \subseteq PlainPcs /\ {"Start", "AutoRm"} \subseteq Fns
    BY DEF PlainPcs, Pcs, Fns
  <1>3. Plain(Monitor)
    <2>1. CASE MonitorWake
      BY <1>1, <1>2, <2>1, CallPlain, GotoPlain DEF MonitorWake, At
    <2>2. CASE MonitorStop
      BY <1>1, <1>2, <2>2, TailCallPlain DEF MonitorStop, At
    <2> QED BY <2>1, <2>2
  <1>4. UNCHANGED <<config, lock, registered, rm, proc, active, stream, queue>>
    BY DEF MonitorWake, MonitorStop
  <1>5. wait' \in [Actors -> {"no", "waiting", "fired"}] /\ ch' \in {"none", "armed", "fired", "canceled"}
    BY <1>1, FireWaitersType DEF MonitorWake, MonitorStop, TypeOK
  <1>6. st' \in States /\ SameMarks(st, st')
    <2>1. st' = st \/ st' = SetStopped(st)
      BY DEF MonitorWake, MonitorStop
    <2> QED BY <1>1, <2>1, StateOps DEF SameMarks
  <1>7. TypeOK'
    BY <1>1, <1>3, <1>4, <1>5, <1>6 DEF TypeOK, Plain, Moves, Rets
  <1>8. (LockInv /\ StartInv /\ DeadInv)'
    BY <1>1, <1>3, <1>4, <1>6, PlainKeeps DEF Plain, SameMarks
  <1> QED BY <1>4, <1>7, <1>8 DEF LifeInv, GenInv

\* Another restart goroutine, while nobody holds the lock: no frame holds it.
LEMMA PushMonitor ==
  ASSUME LifeInv, lock = NoOne, lock' = NoOne, st' \in States, SameMarks(st, st'),
         registered' = registered,
         stack' = [stack EXCEPT ![Monitor] = <<Frame("Monitor", FALSE)>> \o @]
  PROVE  stack' \in [Actors -> Seq(Frames)] /\ (LockInv /\ StartInv /\ DeadInv)'
  <1> DEFINE f == Frame("Monitor", FALSE)
  <1>1. Monitor \in Actors /\ TypeOK /\ NoOne \notin Actors
    BY ActorsAssumption DEF Actors, LifeInv
  <1>2. f \in PlainFrames /\ f \in Frames
    BY FrameType DEF Fns, PlainFrames
  <1> HIDE DEF f
  <1>3. stack[Monitor] \in Seq(Frames) /\ stack'[Monitor] = <<f>> \o stack[Monitor]
    BY <1>1 DEF TypeOK, f
  <1>0. <<f>> \in Seq(Frames) /\ Len(<<f>>) = 1 /\ <<f>>[1] = f
    BY <1>2
  <1>4. <<f>> \o stack[Monitor] \in Seq(Frames)
    BY <1>0, <1>3
  <1>5. stack' \in [Actors -> Seq(Frames)]
    BY <1>1, <1>4 DEF TypeOK, f
  <1>6. ASSUME NEW b \in Actors, NEW i \in DOMAIN stack'[b]
        PROVE  stack'[b][i] = f \/ \E j \in DOMAIN stack[b] : stack'[b][i] = stack[b][j]
    <2>1. CASE b # Monitor
      BY <1>6, <2>1 DEF LifeInv, TypeOK
    <2>2. CASE b = Monitor /\ i = 1
      <3>1. (<<f>> \o stack[Monitor])[1] = f
        BY <1>2, <1>3
      <3> QED BY <1>3, <2>2, <3>1
    <2>3. CASE b = Monitor /\ i # 1
      <3>1. i \in 1..Len(stack[Monitor]) + 1
        BY <1>2, <1>3, <1>6, <2>3
      <3>2. i - 1 \in DOMAIN stack[Monitor] /\ stack'[Monitor][i] = stack[Monitor][i - 1]
        BY <1>2, <1>3, <2>3, <3>1
      <3> QED BY <2>3, <3>2
    <2> QED BY <2>1, <2>2, <2>3
  <1>7. \A b \in Actors : \A i \in DOMAIN stack'[b] : ~Holding(stack'[b][i])
    <2>1. \A b \in Actors : \A j \in DOMAIN stack[b] : ~Holding(stack[b][j])
      BY <1>1 DEF LifeInv, LockInv
    <2> QED BY <1>2, <1>6, <2>1 DEF PlainFrames
  <1>8. LockInv' /\ StartInv'
    BY <1>7 DEF LockInv, StartInv, Holding
  <1>9. DeadInv'
    <2>1. ASSUME NEW b \in Actors, NEW i \in DOMAIN stack'[b], Destroying(stack'[b][i])
          PROVE  st'.dead
      <3>1. \E j \in DOMAIN stack[b] : stack'[b][i] = stack[b][j]
        BY <1>2, <1>6, <2>1 DEF PlainFrames
      <3> QED BY <2>1, <3>1 DEF LifeInv, DeadInv, SameMarks
    <2> QED BY <2>1 DEF LifeInv, DeadInv, SameMarks
  <1> QED BY <1>5, <1>8, <1>9

\* StateExit: the lock is free, a goroutine is started.
LEMMA StateExitKeeps ==
  ASSUME LifeInv, StateExit
  PROVE  LifeInv'
  <1>1. TypeOK /\ Worker \in Actors /\ st \in States
    BY DEF LifeInv, TypeOK, Actors
  <1>2. UNCHANGED <<config, lock, registered, ret, proc, active, stream>>
    BY DEF StateExit
  <1>3. queue' \in Seq(Events)
    <2>1. queue \in Seq(Events) /\ queue # <<>> /\ queue' = Tail(queue)
      BY <1>1 DEF StateExit, Callback, TypeOK
    <2> QED BY <2>1, EmptySeq
  <1>4. wait' \in [Actors -> {"no", "waiting", "fired"}]
    BY <1>1, FireWaitersType DEF StateExit, TypeOK
  <1>5. GenInv'
    BY <1>2 DEF LifeInv, GenInv
  <1>6. CASE UNCHANGED <<st, rm, ch, stack, wait>>
    <2>1. TypeOK'
      BY <1>1, <1>2, <1>3, <1>6 DEF TypeOK
    <2> QED BY <1>2, <1>5, <1>6, <2>1 DEF LifeInv, LockInv, StartInv, DeadInv
  <1>7. CASE /\ lock = NoOne /\ st' = SetRestarting(st)
             /\ rm' = [rm EXCEPT !.active = TRUE, !.count = @ + 1]
             /\ ch' = "armed"
             /\ stack' = [stack EXCEPT ![Monitor] = <<Frame("Monitor", FALSE)>> \o @]
    <2>1. st' \in States /\ SameMarks(st, st')
      BY <1>1, <1>7, StateOps
    <2>2. stack' \in [Actors -> Seq(Frames)] /\ (LockInv /\ StartInv /\ DeadInv)'
      BY <1>2, <1>7, <2>1, PushMonitor
    <2>3. rm' \in [canceled : BOOLEAN, active : BOOLEAN, count : Nat]
      <3>1. rm \in [canceled : BOOLEAN, active : BOOLEAN, count : Nat] /\ rm.count + 1 \in Nat
        BY <1>1 DEF TypeOK
      <3> QED BY <1>7, <3>1
    <2>4. TypeOK'
      BY <1>1, <1>2, <1>3, <1>4, <1>7, <2>1, <2>2, <2>3 DEF TypeOK
    <2> QED BY <1>5, <2>2, <2>4 DEF LifeInv
  <1>8. CASE /\ st' = SetStopped(st) /\ UNCHANGED <<rm, ch>>
             /\ stack' = [stack EXCEPT ![Worker] = <<Frame("AutoRm", FALSE)>>]
    <2>1. st' \in States /\ SameMarks(st, st')
      BY <1>1, <1>8, StateOps
    <2>2. Frame("AutoRm", FALSE) \in PlainFrames
      BY FrameType DEF Fns
    <2>3. Plain(Worker)
      BY <1>1, <1>2, <1>8, <2>2, FirstFrame
    <2>4. TypeOK'
      <3>1. stack' \in [Actors -> Seq(Frames)]
        BY <2>3 DEF Plain, Moves
      <3>2. UNCHANGED <<rm, ch>>
        BY <1>8
      <3> QED BY <1>1, <1>2, <1>3, <1>4, <2>1, <3>1, <3>2 DEF TypeOK
    <2>5. (LockInv /\ StartInv /\ DeadInv)'
      BY <1>1, <1>2, <2>1, <2>3, PlainKeeps DEF Plain, SameMarks
    <2> QED BY <1>5, <2>4, <2>5 DEF LifeInv
  <1> QED BY <1>6, <1>7, <1>8 DEF StateExit, LockFree

\* The event reaches whoever waits for it with the lock.
LEMMA StatePauseKeeps ==
  ASSUME LifeInv, StatePause
  PROVE  LifeInv'
  <1>1. TypeOK /\ st \in States
    BY DEF LifeInv, TypeOK
  <1>2. PICK type \in {"pause", "resume"} :
          /\ Callback(type)
          /\ st' = IF registered THEN [st EXCEPT !.paused = type = "pause"] ELSE st
          /\ stack' = [a \in Actors |->
               IF At(a, IF type = "pause" THEN "Pause" ELSE "Unpause", "event")
               THEN <<[Head(stack[a]) EXCEPT !.pc = "done"]>> ELSE stack[a]]
    BY DEF StatePause
  <1>3. UNCHANGED <<config, lock, registered, rm, ch, ret, wait, proc, active, stream>>
        /\ queue' = Tail(queue)
    BY DEF StatePause
  <1>4. queue' \in Seq(Events)
    <2>1. queue \in Seq(Events) /\ queue # <<>>
      BY <1>1, <1>2 DEF Callback, TypeOK
    <2> QED BY <1>3, <2>1, EmptySeq
  <1>5. st' \in States /\ SameMarks(st, st')
    <2>1. (type = "pause") \in BOOLEAN
      OBVIOUS
    <2> QED BY <1>1, <1>2, <2>1 DEF States, SameMarks
  <1>6. ASSUME NEW a \in Actors
        PROVE  /\ stack'[a] \in Seq(Frames)
               /\ \A i \in DOMAIN stack'[a] :
                    \/ i \in DOMAIN stack[a] /\ stack'[a][i] = stack[a][i]
                    \/ /\ i = 1 /\ lock = a
                       /\ stack'[a][i].pc = "done"
    <2>1. CASE stack'[a] = stack[a]
      BY <1>1, <2>1 DEF TypeOK
    <2>2. CASE /\ stack[a] # <<>> /\ Head(stack[a]).fn \in {"Pause", "Unpause"}
               /\ Head(stack[a]).pc = "event"
               /\ stack'[a] = <<[Head(stack[a]) EXCEPT !.pc = "done"]>>
      <3> DEFINE f == [Head(stack[a]) EXCEPT !.pc = "done"]
      <3>1. f \in Frames /\ f.pc = "done"
        BY <1>1, <2>2, HeadFrame, FrameAt DEF Pcs
      <3>2. 1 \in DOMAIN stack[a] /\ Holding(stack[a][1])
        BY <1>1, <2>2, HeadFrame DEF Holding, Pausing
      <3>3. lock = a
        BY <3>2 DEF LifeInv, LockInv
      <3> HIDE DEF f
      <3>4. stack'[a] = <<f>>
        BY <2>2 DEF f
      <3> QED BY <3>1, <3>3, <3>4
    <2> QED BY <1>2, <2>1, <2>2 DEF At
  <1>7. TypeOK'
    <2>1. stack' \in [Actors -> Seq(Frames)]
      BY <1>2, <1>6
    <2> QED BY <1>1, <1>3, <1>4, <1>5, <2>1 DEF TypeOK
  <1>8. LockInv'
    BY <1>3, <1>6 DEF LifeInv, LockInv
  <1>9. StartInv'
    <2>1. ASSUME NEW a \in Actors, NEW i \in DOMAIN stack'[a], Creating(stack'[a][i])
          PROVE  i \in DOMAIN stack[a] /\ stack'[a][i] = stack[a][i]
      BY <1>6, <2>1 DEF Creating
    <2> QED BY <1>5, <2>1 DEF LifeInv, StartInv, SameMarks
  <1>10. DeadInv'
    <2>1. ASSUME NEW a \in Actors, NEW i \in DOMAIN stack'[a], Destroying(stack'[a][i])
          PROVE  i \in DOMAIN stack[a] /\ stack'[a][i] = stack[a][i]
      BY <1>6, <2>1 DEF Destroying
    <2> QED BY <1>3, <1>5, <2>1 DEF LifeInv, DeadInv, SameMarks
  <1> QED BY <1>3, <1>7, <1>8, <1>9, <1>10 DEF LifeInv, GenInv
--------------------------------------------------------------------------------
(* The theorems *)

\* The invariant holds at first ...
LEMMA InitEstablishes == Init => LifeInv
  <1> SUFFICES ASSUME Init PROVE LifeInv
    OBVIOUS
  <1>1. config \in Configs
    BY DEF Init
  <1>2. st \in States
    <2>1. 0 \in 0..MaxStarts /\ config.autoRemove \in BOOLEAN
      BY <1>1, ConfigAssumption
    <2> QED BY <2>1 DEF Init, States
  <1>3. rm \in [canceled : BOOLEAN, active : BOOLEAN, count : Nat]
    BY DEF Init, NewRM
  <1>4. stack \in [Actors -> Seq(Frames)] /\ \A a \in Actors : stack[a] = <<>>
    BY DEF Init
  <1>5. proc \in [gen : 0..MaxStarts, state : {"none", "alive", "zombie", "gone"},
                  frozen : BOOLEAN, killed : BOOLEAN]
    BY ConfigAssumption DEF Init
  <1>6. TypeOK
    <2>1. /\ lock \in Actors \cup {NoOne} /\ registered \in BOOLEAN /\ active \in BOOLEAN
          /\ ch \in {"none", "armed", "fired", "canceled"}
      BY DEF Init
    <2>2. ret \in [Actors -> {"nil", "err"}] /\ wait \in [Actors -> {"no", "waiting", "fired"}]
      BY DEF Init
    <2>3. stream \in Seq(Events) /\ queue \in Seq(Events)
      BY DEF Init
    <2> QED BY <1>1, <1>2, <1>3, <1>4, <1>5, <2>1, <2>2, <2>3 DEF TypeOK
  <1>7. GenInv
    BY DEF Init, GenInv
  <1>8. LockInv /\ StartInv /\ DeadInv
    BY <1>4 DEF Init, LockInv, StartInv, DeadInv
  <1> QED BY <1>6, <1>7, <1>8 DEF LifeInv

\* ... every step of an actor preserves it ...
LEMMA StepPreserves ==
  ASSUME LifeInv, NEW a \in Actors, Step(a)
  PROVE  LifeInv'
  BY WaitKeeps, DecideKeeps, StartBeginKeeps, StartFailKeeps, StartCreateKeeps, SignalKeeps,
     KillDirectlyKeeps, RmMarkKeeps, RmDeadKeeps, RmDestroyKeeps, RestartSaveKeeps,
     PauseBeginKeeps, PauseReturnKeeps
     DEF Step

\* ... and so does every step.
LEMMA NextPreserves == LifeInv /\ [Next]_vars => LifeInv'
  <1> SUFFICES ASSUME LifeInv, [Next]_vars PROVE LifeInv'
    OBVIOUS
  <1>1. CASE UNCHANGED vars
    BY <1>1 DEF vars, LifeInv, TypeOK, GenInv, LockInv, StartInv, DeadInv
  <1>2. CASE Next
    BY <1>2, StepPreserves, RequestKeeps, EnvironmentKeeps, MonitorKeeps, StateExitKeeps,
       StatePauseKeeps DEF Next, MonitorStep
  <1> QED BY <1>1, <1>2

\* The inductive invariant holds of every behaviour.
THEOREM LifeInvariant == Spec => []LifeInv
  BY InitEstablishes, NextPreserves, PTL DEF Spec

\* Every variable keeps its type: call stacks hold only the frames the code has, and an
\* event names a process that was created.
THEOREM LifeTypeOK == Spec => []TypeOK
  <1>1. LifeInv => TypeOK
    BY DEF LifeInv
  <1> QED BY <1>1, LifeInvariant, PTL

\* Whoever is between taking container.Lock and the end of Create is the lock's holder,
\* alone, and meanwhile the container is in the index and nobody removes it: StateChanged
\* finds it when Create reports the start (start.go:103, monitor.go:19).
StartUndisturbed ==
  \A a \in Actors : At(a, "Start", "create") =>
    lock = a /\ registered /\ ~st.removing /\ ~st.dead

\* It is an invariant: no request, restart or event comes between.
THEOREM LifeStartUndisturbed == Spec => []StartUndisturbed
  <1>1. LifeInv => StartUndisturbed
    BY CreatingHolds DEF StartUndisturbed, LifeInv, DeadInv
  <1> QED BY <1>1, LifeInvariant, PTL

\* No process is created for a container that is being removed (start.go:110), however
\* many clients start, stop, restart and remove it and whatever fails.
THEOREM LifeNoStartDuringRemoval == Spec => NoStartDuringRemoval
  <1>1. LifeInv /\ [Next]_vars =>
          [proc'.gen # proc.gen => ~st.removing /\ ~st.dead /\ registered]_vars
    <2> SUFFICES ASSUME LifeInv, [Next]_vars, proc'.gen # proc.gen
                 PROVE  ~st.removing /\ ~st.dead /\ registered
      OBVIOUS
    <2>1. \E a \in Actors : StartCreate(a) \/ StartSaveFails(a)
      <3>1. TypeOK
        BY DEF LifeInv
      <3>2. CASE UNCHANGED vars
        BY <3>2 DEF vars
      <3>3. CASE \E a \in Ops, r \in Requests : Request(a, r)
        BY <3>3 DEF Request
      <3>4. ASSUME NEW a \in Actors, Step(a)
            PROVE  StartCreate(a) \/ StartSaveFails(a)
        <4>1. proc \in [gen : 0..MaxStarts, state : {"none", "alive", "zombie", "gone"},
                        frozen : BOOLEAN, killed : BOOLEAN]
          BY <3>1 DEF TypeOK
        <4> QED
          BY <3>4, <4>1
          DEF Step, WaitEnter, WaitLeave, StartBegin, StartPrepareFails, StartCreateFails,
              StartRemoved, KillWithSignal, KillBegin, KillDirectly, StopBegin, StopKill,
              RmLookup, RmMark, RmRunning, RmStop, RmDead, RmDestroy, RmReset, RestartBegin,
              RestartSave, RestartRestore, RestartStart, PauseBegin, UnpauseBegin, PauseReturn,
              AutoRm, ApiStart, ApiStop
      <3>5. CASE MonitorStep \/ RestartTimer \/ HandleEvent \/ StateExit \/ StatePause
        BY <3>5 DEF MonitorStep, MonitorWake, MonitorStop, RestartTimer, HandleEvent, StateExit,
                    StatePause
      <3>6. CASE ProcessExit \/ ContainerdExit
        BY <3>1, <3>6 DEF ProcessExit, ContainerdExit, TypeOK
      <3> QED BY <3>2, <3>3, <3>4, <3>5, <3>6 DEF Next
    <2>2. PICK a \in Actors : At(a, "Start", "create") /\ registered
      BY <2>1 DEF StartCreate, StartSaveFails
    <2> QED BY <2>2, CreatingHolds
  <1> QED BY <1>1, LifeInvariant, PTL DEF Spec, NoStartDuringRemoval
--------------------------------------------------------------------------------
(* What dockerd records of the process *)

\* The actors whose call stacks are not the restart goroutine's.
Others == Actors \ {Monitor}

\* The restart goroutine: at its top it waits, or gives up, or starts the container; below
\* are only calls of autoRemove of earlier restarts that failed.  It never removes the
\* container, since AutoRemove and a restart policy exclude each other.
MonitorFrame(s, i) ==
  \/ s[i].fn = "AutoRm" /\ s[i].pc = "begin"
  \/ s[i].fn = "Monitor" /\ s[i].pc \in {"begin", "stop", "started"} /\ i = 1
  \/ s[i].fn = "Monitor" /\ s[i].pc = "started" /\ i = 2 /\ s[1].fn = "Start"
  \/ /\ s[i].fn = "Start" /\ s[i].pc \in {"begin", "create"} /\ ~s[i].flag /\ i = 1
     /\ 2 \in DOMAIN s /\ s[2].fn = "Monitor"

MonitorInv ==
  /\ stack[Monitor] # <<>> => config.policy # "no"
  /\ \A i \in DOMAIN stack[Monitor] : MonitorFrame(stack[Monitor], i)

\* The container waits to be restarted exactly while the restart goroutine is there.
RestartingInv ==
  /\ st.restarting => st.running
  /\ st.restarting <=> \E i \in DOMAIN stack[Monitor] : stack[Monitor][i].fn = "Monitor"

\* AutoRemove is never on when it was not configured, also not while containerRestart
\* keeps it in a frame.
Saves(f) == f.fn = "Restart" /\ f.flag

AutoInv ==
  /\ st.autoRemove => config.autoRemove
  /\ \A a \in Others : \A i \in DOMAIN stack[a] : Saves(stack[a][i]) => config.autoRemove

\* A client's start resets the restart manager, and creates nothing while the container
\* counts as running.
ClientStartInv ==
  \A a \in Others : \A i \in DOMAIN stack[a] :
    /\ stack[a][i].fn = "Start" => stack[a][i].flag
    /\ Creating(stack[a][i]) => ~st.running

ExitIn(s) == \E i \in DOMAIN s : s[i].type = "exit"

\* The client map has the container until the exit has been taken from the stream; there is
\* one exit, the current process's, and not before it has exited.
ExitInv ==
  /\ active <=> Known \/ ExitIn(stream)
  /\ \A i, j \in DOMAIN Pipeline : Pipeline[i].type = "exit" /\ Pipeline[j].type = "exit" => i = j
  /\ \A i \in DOMAIN Pipeline : Pipeline[i].type = "exit" => Pipeline[i].gen = proc.gen /\ ~Known

Up == st.running /\ ~st.restarting

\* The container is up while the process lives or its exit is under way.
UpInv ==
  registered =>
    /\ Up <=> Known \/ ExitIn(Pipeline)
    /\ st.pid = IF Up THEN proc.gen ELSE 0

\* Who waits for the container to stop waits while it counts as running.
WaitInv == registered => \A a \in Actors : wait[a] = "waiting" => st.running

\* An event of this type is under way, no exit is in front of it, and the container is still
\* in the client map when it arrives.
Coming(type) ==
  \E i \in DOMAIN Pipeline :
    /\ Pipeline[i].type = type
    /\ \A j \in 1..i : Pipeline[j].type # "exit"
    /\ Known \/ \E j \in DOMAIN Pipeline : j > i /\ Pipeline[j].type = "exit"

PauseInv ==
  \A a \in Others : \A i \in DOMAIN stack[a] :
    stack[a][i].pc = "event" =>
      /\ stack[a][i].fn = "Pause" => Coming("pause")
      /\ stack[a][i].fn = "Unpause" => Coming("resume")

ProcInv ==
  /\ MonitorInv /\ RestartingInv /\ AutoInv /\ ClientStartInv
  /\ ExitInv /\ UpInv /\ WaitInv /\ PauseInv

\* A start whose save fails leaves a process that containerd reports to nobody.
Saved == "disk" \notin config.faults

Inv == LifeInv /\ (Saved => ProcInv)
--------------------------------------------------------------------------------
(* The pipeline *)

\* The pipeline: libcontainerd's callbacks, and behind them containerd's events.
LEMMA PipelineAt ==
  ASSUME NEW q \in Seq(Events), NEW s \in Seq(Events)
  PROVE  /\ q \o s \in Seq(Events)
         /\ DOMAIN (q \o s) = 1..(Len(q) + Len(s))
         /\ \A i \in 1..Len(q) : (q \o s)[i] = q[i]
         /\ \A i \in 1..Len(s) : (q \o s)[Len(q) + i] = s[i]
  OBVIOUS

\* An exit in the pipeline is among the callbacks or still in the stream.
LEMMA PipelineExit ==
  ASSUME NEW q \in Seq(Events), NEW s \in Seq(Events)
  PROVE  ExitIn(q \o s) <=> ExitIn(q) \/ ExitIn(s)
  <1>1. ASSUME ExitIn(q) PROVE ExitIn(q \o s)
    BY <1>1 DEF ExitIn
  <1>2. ASSUME ExitIn(s) PROVE ExitIn(q \o s)
    <2>1. PICK i \in 1..Len(s) : s[i].type = "exit"
      BY <1>2 DEF ExitIn
    <2>2. Len(q) + i \in DOMAIN (q \o s) /\ (q \o s)[Len(q) + i] = s[i]
      BY PipelineAt
    <2> QED BY <2>1, <2>2 DEF ExitIn
  <1>3. ASSUME ExitIn(q \o s) PROVE ExitIn(q) \/ ExitIn(s)
    <2>1. PICK i \in 1..(Len(q) + Len(s)) : (q \o s)[i].type = "exit"
      BY <1>3, PipelineAt DEF ExitIn
    <2>2. CASE i \in 1..Len(q)
      BY <2>1, <2>2 DEF ExitIn
    <2>3. CASE i \notin 1..Len(q)
      <3>1. i - Len(q) \in 1..Len(s) /\ s[i - Len(q)] = (q \o s)[i]
        BY <2>3
      <3> QED BY <2>1, <3>1 DEF ExitIn
    <2> QED BY <2>2, <2>3
  <1> QED BY <1>1, <1>2, <1>3

\* An event that libcontainerd queues keeps its place.
LEMMA PipelineMoves ==
  ASSUME NEW q \in Seq(Events), NEW s \in Seq(Events), s # <<>>
  PROVE  Append(q, Head(s)) \o Tail(s) = q \o s
  <1>1. Head(s) \in Events /\ Tail(s) \in Seq(Events) /\ Len(s) >= 1
    BY EmptySeq
  <1>2. Append(q, Head(s)) \in Seq(Events) /\ Len(Append(q, Head(s))) = Len(q) + 1
    BY <1>1
  <1>3. Append(q, Head(s)) \o Tail(s) \in Seq(Events) /\ q \o s \in Seq(Events)
    BY <1>1, <1>2
  <1>4. Len(Append(q, Head(s)) \o Tail(s)) = Len(q \o s)
    BY <1>1, <1>2
  <1>5. ASSUME NEW i \in 1..Len(q \o s)
        PROVE  (Append(q, Head(s)) \o Tail(s))[i] = (q \o s)[i]
    BY <1>1, <1>2
  <1> QED BY <1>3, <1>4, <1>5, SeqEqual

\* Taking the first callback takes the pipeline's oldest event.
LEMMA PipelineTail ==
  ASSUME NEW q \in Seq(Events), NEW s \in Seq(Events), q # <<>>
  PROVE  /\ Tail(q) \in Seq(Events)
         /\ DOMAIN (Tail(q) \o s) = 1..(Len(q) + Len(s) - 1)
         /\ \A i \in DOMAIN (Tail(q) \o s) : i + 1 \in DOMAIN (q \o s)
                                            /\ (Tail(q) \o s)[i] = (q \o s)[i + 1]
         /\ 1 \in DOMAIN (q \o s) /\ (q \o s)[1] = Head(q)
  <1>1. Tail(q) \in Seq(Events) /\ Len(q) >= 1 /\ Len(Tail(q)) = Len(q) - 1
    BY EmptySeq
  <1>2. DOMAIN (Tail(q) \o s) = 1..(Len(q) + Len(s) - 1)
    BY <1>1
  <1>3. ASSUME NEW i \in 1..(Len(q) + Len(s) - 1)
        PROVE  i + 1 \in DOMAIN (q \o s) /\ (Tail(q) \o s)[i] = (q \o s)[i + 1]
    BY <1>1
  <1>4. 1 \in DOMAIN (q \o s) /\ (q \o s)[1] = Head(q)
    BY <1>1
  <1> QED BY <1>1, <1>2, <1>3, <1>4

\* A new event is the last one.
LEMMA PipelineAppend ==
  ASSUME NEW q \in Seq(Events), NEW s \in Seq(Events), NEW e \in Events
  PROVE  /\ Append(s, e) \in Seq(Events)
         /\ DOMAIN (q \o Append(s, e)) = 1..(Len(q) + Len(s) + 1)
         /\ \A i \in 1..(Len(q) + Len(s)) : (q \o Append(s, e))[i] = (q \o s)[i]
         /\ (q \o Append(s, e))[Len(q) + Len(s) + 1] = e
  <1>1. Append(s, e) \in Seq(Events) /\ Len(Append(s, e)) = Len(s) + 1
    OBVIOUS
  <1>2. DOMAIN (q \o Append(s, e)) = 1..(Len(q) + Len(s) + 1)
    BY <1>1
  <1>3. ASSUME NEW i \in 1..(Len(q) + Len(s))
        PROVE  (q \o Append(s, e))[i] = (q \o s)[i]
    BY <1>1
  <1>4. (q \o Append(s, e))[Len(q) + Len(s) + 1] = e
    BY <1>1
  <1> QED BY <1>1, <1>2, <1>3, <1>4

\* An event that is dropped leaves the older ones in place and moves the younger ones up.
LEMMA PipelineDrops ==
  ASSUME NEW q \in Seq(Events), NEW s \in Seq(Events), s # <<>>
  PROVE  /\ Tail(s) \in Seq(Events)
         /\ DOMAIN (q \o Tail(s)) = 1..(Len(q) + Len(s) - 1)
         /\ \A i \in 1..Len(q) : i \in DOMAIN (q \o Tail(s)) /\ (q \o Tail(s))[i] = (q \o s)[i]
         /\ \A i \in 1..Len(Tail(s)) : i + 1 \in DOMAIN s /\ Tail(s)[i] = s[i + 1]
  <1>1. Tail(s) \in Seq(Events) /\ Len(s) >= 1 /\ Len(Tail(s)) = Len(s) - 1
    BY EmptySeq
  <1>2. DOMAIN (q \o Tail(s)) = 1..(Len(q) + Len(s) - 1)
    BY <1>1
  <1>3. \A i \in 1..Len(q) : i \in DOMAIN (q \o Tail(s)) /\ (q \o Tail(s))[i] = (q \o s)[i]
    BY <1>1, <1>2
  <1>4. \A i \in 1..Len(Tail(s)) : i + 1 \in DOMAIN s /\ Tail(s)[i] = s[i + 1]
    BY <1>1
  <1> QED BY <1>1, <1>2, <1>3, <1>4
--------------------------------------------------------------------------------
(* Steps that leave the process and its events alone *)

\* Frames that create no process, wait for no event and keep no AutoRemove that was not
\* configured; a start among them resets the restart manager.
QuietFrames ==
  {f \in Frames : /\ ~Creating(f) /\ f.pc # "event"
                  /\ f.fn = "Start" => f.flag
                  /\ Saves(f) => config.autoRemove}

QuietPcs == Pcs \ {"create", "event"}

QuietMove(a) == Moves(a, QuietFrames)

\* What a step may do to the state without the process.
SameProcess ==
  /\ UNCHANGED <<config, active, stream, queue>>
  /\ proc'.gen = proc.gen /\ Known' = Known
  /\ st'.running = st.running /\ st'.restarting = st.restarting /\ st'.pid = st.pid
  /\ st'.autoRemove => config.autoRemove
  /\ registered' => registered
  /\ \A b \in Actors : wait'[b] = "waiting" => wait[b] = "waiting" \/ st.running

\* What the invariant says of the frames of the other actors survives a quiet step ...
LEMMA QuietOthers ==
  ASSUME LifeInv, ProcInv, NEW a \in Others, QuietMove(a), SameProcess
  PROVE  (AutoInv /\ ClientStartInv /\ PauseInv)'
  <1>1. \A b \in Others : \A i \in DOMAIN stack'[b] :
          stack'[b][i] \in QuietFrames \/ \E j \in DOMAIN stack[b] : stack'[b][i] = stack[b][j]
    BY DEF QuietMove, Moves, Others
  <1>2. AutoInv'
    BY <1>1 DEF AutoInv, SameProcess, ProcInv, QuietFrames
  <1>3. ClientStartInv'
    BY <1>1 DEF ClientStartInv, SameProcess, ProcInv, QuietFrames
  <1>4. \A t : Coming(t) => Coming(t)'
    BY DEF Coming, Pipeline, SameProcess
  <1>5. PauseInv'
    <2>1. \A b \in Others : \A i \in DOMAIN stack'[b] :
            stack'[b][i].pc = "event" => \E j \in DOMAIN stack[b] : stack'[b][i] = stack[b][j]
      BY <1>1 DEF QuietFrames
    <2>2. PauseInv
      BY DEF ProcInv
    <2> QED BY <1>4, <2>1, <2>2 DEF PauseInv
  <1> QED BY <1>2, <1>3, <1>5

\* ... and so does the rest.
LEMMA QuietRest ==
  ASSUME LifeInv, ProcInv, SameProcess
  PROVE  (ExitInv /\ UpInv /\ WaitInv)'
  <1>1. ExitInv'
    BY DEF ProcInv, ExitInv, SameProcess, Pipeline
  <1>2. UpInv'
    BY DEF ProcInv, UpInv, Up, SameProcess, Pipeline
  <1>3. WaitInv'
    BY DEF ProcInv, WaitInv, SameProcess
  <1> QED BY <1>1, <1>2, <1>3

\* A quiet step of another actor than the restart goroutine.
LEMMA QuietKeeps ==
  ASSUME LifeInv, ProcInv, NEW a \in Others, QuietMove(a), SameProcess
  PROVE  ProcInv'
  <1>1. stack'[Monitor] = stack[Monitor]
    BY DEF QuietMove, Moves, Others, Actors
  <1>2. MonitorInv' /\ RestartingInv'
    BY <1>1 DEF MonitorInv, MonitorFrame, RestartingInv, SameProcess, ProcInv
  <1> QED BY <1>2, QuietOthers, QuietRest DEF ProcInv

\* What a frame of another actor says stays true when its place changes.
LEMMA FrameQuiet ==
  ASSUME LifeInv, ProcInv, NEW a \in Others, stack[a] # <<>>, NEW s \in QuietPcs
  PROVE  [Head(stack[a]) EXCEPT !.pc = s] \in QuietFrames
  <1> DEFINE f == [Head(stack[a]) EXCEPT !.pc = s]
  <1>1. a \in Actors /\ TypeOK /\ s \in Pcs
    BY DEF Others, LifeInv, QuietPcs
  <1>2. /\ Head(stack[a]) \in Frames /\ 1 \in DOMAIN stack[a] /\ Head(stack[a]) = stack[a][1]
    BY <1>1, HeadFrame
  <1>3. f \in Frames /\ f.fn = Head(stack[a]).fn /\ f.pc = s /\ f.flag = Head(stack[a]).flag
    BY <1>1, <1>2 DEF Frames
  <1> HIDE DEF f
  <1>4. ~Creating(f) /\ f.pc # "event"
    BY <1>3 DEF Creating, QuietPcs
  <1>5. f.fn = "Start" => f.flag
    BY <1>2, <1>3 DEF ProcInv, ClientStartInv
  <1>6. Saves(f) => config.autoRemove
    BY <1>2, <1>3 DEF ProcInv, AutoInv, Saves
  <1>7. f \in QuietFrames
    BY <1>3, <1>4, <1>5, <1>6 DEF QuietFrames
  <1> QED BY <1>7 DEF f

\* A frame that was just called, by anyone but the restart goroutine, is quiet.
LEMMA CalledQuiet ==
  ASSUME NEW fn \in Fns, NEW flag \in BOOLEAN, fn = "Start" => flag, fn = "Restart" => ~flag
  PROVE  Frame(fn, flag) \in QuietFrames
  <1> DEFINE f == [fn |-> fn, pc |-> "begin", flag |-> flag]
  <1>1. f \in Frames /\ f.pc = "begin" /\ f.fn = fn /\ f.flag = flag
    <2>1. "begin" \in Pcs
      BY DEF Pcs
    <2> QED BY <2>1 DEF Frames
  <1> HIDE DEF f
  <1>2. f \in QuietFrames
    BY <1>1 DEF QuietFrames, Creating, Saves
  <1> QED BY <1>2 DEF Frame, f

\* Returning is quiet.
LEMMA ReturnQuiet ==
  ASSUME LifeInv, NEW a \in Others, stack[a] # <<>>, NEW v \in {"nil", "err"}, Return(a, v)
  PROVE  QuietMove(a)
  <1>1. a \in Actors /\ TypeOK
    BY DEF Others, LifeInv
  <1>2. stack[a] \in Seq(Frames) /\ Len(stack[a]) >= 1
    BY <1>1, EmptySeq DEF TypeOK
  <1>3. Plain(a)
    BY <1>1, ReturnPlain
  <1>4. stack'[a] = Tail(stack[a]) \/ stack'[a] = <<>>
    BY <1>1 DEF Return, TypeOK
  <1>5. ASSUME NEW i \in DOMAIN stack'[a]
        PROVE  \E j \in DOMAIN stack[a] : j # 1 /\ stack'[a][i] = stack[a][j]
    <2>1. stack'[a] # <<>>
      BY <1>5
    <2>2. stack'[a] = Tail(stack[a])
      BY <1>4, <2>1
    <2>3. i \in 1..Len(stack[a]) - 1
      BY <1>2, <1>5, <2>2
    <2>4. i + 1 \in DOMAIN stack[a] /\ i + 1 # 1 /\ stack'[a][i] = stack[a][i + 1]
      BY <1>2, <2>2, <2>3
    <2> QED BY <2>4
  <1> QED BY <1>3, <1>5 DEF Plain, Moves, QuietMove

\* Going on at a place that neither creates a process nor waits for an event is quiet.
LEMMA GotoQuiet ==
  ASSUME LifeInv, ProcInv, NEW a \in Others, stack[a] # <<>>, NEW s \in QuietPcs, Goto(a, s)
  PROVE  QuietMove(a)
  <1>1. a \in Actors /\ TypeOK /\ s \in Pcs
    BY DEF Others, LifeInv, QuietPcs
  <1>2. Moves(a, {[Head(stack[a]) EXCEPT !.pc = s]})
    BY <1>1, GotoMoves
  <1>3. [Head(stack[a]) EXCEPT !.pc = s] \in QuietFrames
    BY FrameQuiet
  <1> QED BY <1>2, <1>3 DEF Moves, QuietMove

\* So is Continue.
LEMMA ContinueQuiet ==
  ASSUME LifeInv, ProcInv, NEW a \in Others, stack[a] # <<>>,
         NEW k \in QuietPcs \cup {"nil", "err"}, Continue(a, k)
  PROVE  QuietMove(a)
  BY GotoQuiet, ReturnQuiet DEF Continue

\* So is a call.
LEMMA CallQuiet ==
  ASSUME LifeInv, ProcInv, NEW a \in Others, stack[a] # <<>>, NEW s \in QuietPcs,
         NEW fn \in Fns, NEW flag \in BOOLEAN, fn = "Start" => flag, fn = "Restart" => ~flag,
         CallThen(a, s, fn, flag)
  PROVE  QuietMove(a)
  <1>1. a \in Actors /\ TypeOK
    BY DEF Others, LifeInv
  <1>2. [Head(stack[a]) EXCEPT !.pc = s] \in QuietFrames /\ Frame(fn, flag) \in QuietFrames
    BY FrameQuiet, CalledQuiet
  <1>3. stack' = [stack EXCEPT ![a] = <<Frame(fn, flag), [Head(@) EXCEPT !.pc = s]>> \o Tail(@)]
    BY DEF CallThen
  <1>4. Moves(a, {Frame(fn, flag), [Head(stack[a]) EXCEPT !.pc = s]})
    BY <1>1, <1>2, <1>3, PushTop DEF QuietFrames
  <1> QED BY <1>2, <1>4 DEF Moves, QuietMove

\* And a last call.
LEMMA TailCallQuiet ==
  ASSUME LifeInv, NEW a \in Others, stack[a] # <<>>,
         NEW fn \in Fns, NEW flag \in BOOLEAN, fn = "Start" => flag, fn = "Restart" => ~flag,
         TailCall(a, fn, flag)
  PROVE  QuietMove(a)
  <1>1. a \in Actors /\ TypeOK
    BY DEF Others, LifeInv
  <1>2. Frame(fn, flag) \in QuietFrames
    BY CalledQuiet
  <1>3. stack' = [stack EXCEPT ![a] = <<Frame(fn, flag)>> \o Tail(@)]
    BY DEF TailCall
  <1>4. Moves(a, {Frame(fn, flag)})
    BY <1>1, <1>2, <1>3, ReplaceTop DEF QuietFrames
  <1> QED BY <1>2, <1>4 DEF Moves, QuietMove
--------------------------------------------------------------------------------
(* The quiet actions of a client and of the worker *)

\* The places the callers of WaitStop and killWithSignal go on at.
LEMMA WaitPointsQuiet ==
  /\ \A w \in WaitPoints : /\ w.ok \in QuietPcs \cup {"nil", "err"}
                           /\ w.late # "never" => w.late \in QuietPcs \cup {"nil", "err"}
  /\ \A p \in SignalPoints : p.ok \in QuietPcs \cup {"nil", "err"} /\ p.bad \in QuietPcs \cup {"nil", "err"}
  BY DEF WaitPoints, SignalPoints, QuietPcs, Pcs

\* A client that starts to wait waits for a container that is running.
LEMMA WaitProc ==
  ASSUME LifeInv, ProcInv, NEW a \in Others, WaitEnter(a) \/ WaitLeave(a)
  PROVE  ProcInv'
  <1>1. PICK w \in WaitPoints : /\ At(a, w.fn, w.pc)
                                /\ \/ Continue(a, w.ok)
                                   \/ w.late # "never" /\ Continue(a, w.late)
                                   \/ UNCHANGED <<stack, ret>>
    BY DEF WaitEnter, WaitLeave
  <1>2. UNCHANGED <<config, st, lock, registered, rm, ch, proc, active, stream, queue>>
    BY DEF WaitEnter, WaitLeave
  <1>3. \A b \in Actors : wait'[b] = "waiting" => wait[b] = "waiting" \/ st.running
    <2>1. wait \in [Actors -> {"no", "waiting", "fired"}]
      BY DEF LifeInv, TypeOK
    <2>2. \/ wait' = wait
          \/ st.running
          \/ wait' = [wait EXCEPT ![a] = "no"]
      BY DEF WaitEnter, WaitLeave
    <2> QED BY <2>1, <2>2
  <1>4. SameProcess
    BY <1>2, <1>3 DEF SameProcess, Known, ProcInv, AutoInv
  <1>5. CASE UNCHANGED <<stack, ret>>
    <2>1. MonitorInv' /\ RestartingInv' /\ AutoInv' /\ ClientStartInv'
      BY <1>2, <1>5 DEF ProcInv, MonitorInv, RestartingInv, AutoInv, ClientStartInv
    <2>2. PauseInv'
      BY <1>2, <1>5 DEF ProcInv, PauseInv, Coming, Pipeline, Known
    <2> QED BY <1>4, <2>1, <2>2, QuietRest DEF ProcInv
  <1>6. CASE Continue(a, w.ok) \/ (w.late # "never" /\ Continue(a, w.late))
    <2>1. QuietMove(a)
      BY <1>1, <1>6, WaitPointsQuiet, ContinueQuiet DEF At
    <2> QED BY <1>4, <2>1, QuietKeeps
  <1> QED BY <1>1, <1>5, <1>6

\* Reading the state and deciding where to go on.
LEMMA DecideProc ==
  ASSUME LifeInv, ProcInv, NEW a \in Others,
         \/ StartRemoved(a) \/ KillBegin(a) \/ StopBegin(a) \/ StopKill(a)
         \/ RmLookup(a) \/ RmRunning(a) \/ RmStop(a)
         \/ RestartBegin(a) \/ RestartStart(a)
         \/ AutoRm(a) \/ ApiStart(a) \/ ApiStop(a) \/ PauseReturn(a)
  PROVE  ProcInv'
  <1>0. TypeOK /\ ret[a] \in {"nil", "err"}
    BY DEF LifeInv, TypeOK, Others
  <1>1. {"started", "stopped", "killed", "signal", "last", "mark", "running", "resetnil",
         "reseterr", "dead", "save", "start"} \subseteq QuietPcs
    BY DEF QuietPcs, Pcs
  <1>2. {"Start", "Stop", "Kill", "Rm"} \subseteq Fns
    BY DEF Fns
  <1> USE <1>0, <1>1, <1>2
  <1>3. /\ UNCHANGED <<config, st, registered, rm, ch, wait, proc, active, stream, queue>>
        /\ stack[a] # <<>>
    BY DEF StartRemoved, KillBegin, StopBegin, StopKill, RmLookup, RmRunning, RmStop,
           RestartBegin, RestartStart, AutoRm, ApiStart, ApiStop, PauseReturn, At
  <1>4. QuietMove(a)
    <2>1. CASE StartRemoved(a)
      BY <1>3, <2>1, ReturnQuiet DEF StartRemoved
    <2>2. CASE KillBegin(a)
      BY <1>3, <2>2, ContinueQuiet DEF KillBegin
    <2>3. CASE StopBegin(a)
      BY <1>3, <2>3, ContinueQuiet DEF StopBegin
    <2>4. CASE StopKill(a)
      BY <1>3, <2>4, CallQuiet, ContinueQuiet DEF StopKill
    <2>5. CASE RmLookup(a)
      BY <1>3, <2>5, ContinueQuiet, GotoQuiet DEF RmLookup
    <2>6. CASE RmRunning(a)
      BY <1>3, <2>6, GotoQuiet, CallQuiet DEF RmRunning
    <2>7. CASE RmStop(a)
      BY <1>3, <2>7, GotoQuiet, CallQuiet DEF RmStop
    <2>8. CASE RestartBegin(a)
      BY <1>3, <2>8, GotoQuiet DEF RestartBegin
    <2>9. CASE RestartStart(a)
      BY <1>3, <2>9, CallQuiet, ReturnQuiet DEF RestartStart
    <2>10. CASE AutoRm(a)
      BY <1>3, <2>10, TailCallQuiet, ReturnQuiet DEF AutoRm
    <2>11. CASE ApiStart(a)
      BY <1>3, <2>11, TailCallQuiet, ReturnQuiet DEF ApiStart
    <2>12. CASE ApiStop(a)
      BY <1>3, <2>12, TailCallQuiet, ReturnQuiet DEF ApiStop
    <2>13. CASE PauseReturn(a)
      BY <1>3, <2>13, ReturnQuiet DEF PauseReturn
    <2> QED BY <2>1, <2>2, <2>3, <2>4, <2>5, <2>6, <2>7, <2>8, <2>9, <2>10, <2>11, <2>12, <2>13
  <1>5. SameProcess
    BY <1>3 DEF SameProcess, Known, ProcInv, AutoInv
  <1> QED BY <1>4, <1>5, QuietKeeps

\* A signal changes neither whether the container runs nor whether its process is known.
LEMMA SignalProc ==
  ASSUME LifeInv, ProcInv, NEW a \in Others, KillWithSignal(a)
  PROVE  ProcInv'
  <1>1. PICK p \in SignalPoints :
          /\ At(a, p.fn, p.pc)
          /\ Continue(a, p.ok) \/ Continue(a, p.bad)
          /\ st' = st \/ st' = [st EXCEPT !.manual = TRUE]
          /\ \/ proc' = proc
             \/ proc' = [proc EXCEPT !.killed =
                           @ \/ (~st.restarting /\ p.sig = "KILL" /\ proc.state = "alive")]
    BY DEF KillWithSignal
  <1>2. QuietMove(a)
    BY <1>1, WaitPointsQuiet, ContinueQuiet DEF At
  <1>3. UNCHANGED <<config, lock, registered, ch, wait, active, stream, queue>>
    BY DEF KillWithSignal
  <1>4. proc'.gen = proc.gen /\ proc'.state = proc.state
    BY <1>1 DEF LifeInv, TypeOK
  <1>5. st \in States
    BY DEF LifeInv, TypeOK
  <1>6. SameProcess
    BY <1>1, <1>3, <1>4, <1>5 DEF SameProcess, Known, ProcInv, AutoInv, States
  <1> QED BY <1>2, <1>6, QuietKeeps

\* So does SIGKILL to the pid.
LEMMA KillDirectlyProc ==
  ASSUME LifeInv, ProcInv, NEW a \in Others, KillDirectly(a)
  PROVE  ProcInv'
  <1>1. "last" \in QuietPcs
    BY DEF QuietPcs, Pcs
  <1>2. QuietMove(a)
    BY <1>1, GotoQuiet, ReturnQuiet DEF KillDirectly, At
  <1>3. proc'.gen = proc.gen /\ proc'.state = proc.state
    BY DEF KillDirectly, LifeInv, TypeOK
  <1>4. SameProcess
    BY <1>3 DEF KillDirectly, SameProcess, Known, ProcInv, AutoInv
  <1> QED BY <1>2, <1>4, QuietKeeps

\* The marks of a removal say nothing of the process; a container that leaves the index is
\* no longer spoken of.
LEMMA RmProc ==
  ASSUME LifeInv, ProcInv, NEW a \in Others, RmMark(a) \/ RmReset(a) \/ RmDead(a) \/ RmDestroy(a)
  PROVE  ProcInv'
  <1>0. {"check", "destroy", "resetnil", "reseterr"} \subseteq QuietPcs
    BY DEF QuietPcs, Pcs
  <1>1. QuietMove(a)
    <2>1. CASE RmMark(a)
      BY <1>0, <2>1, GotoQuiet, ReturnQuiet DEF RmMark, At
    <2>2. CASE RmReset(a)
      BY <1>0, <2>2, ReturnQuiet DEF RmReset, At
    <2>3. CASE RmDead(a)
      BY <1>0, <2>3, GotoQuiet DEF RmDead, At
    <2>4. CASE RmDestroy(a)
      BY <1>0, <2>4, GotoQuiet DEF RmDestroy, At
    <2> QED BY <2>1, <2>2, <2>3, <2>4
  <1>2. st \in States
    BY DEF LifeInv, TypeOK
  <1>3. \/ st' = st
        \/ st' = [st EXCEPT !.removing = TRUE]
        \/ st' = [st EXCEPT !.removing = FALSE]
        \/ st' = [st EXCEPT !.dead = TRUE]
    BY DEF RmMark, RmReset, RmDead, RmDestroy
  <1>4. UNCHANGED <<config, wait, proc, active, stream, queue>>
    BY DEF RmMark, RmReset, RmDead, RmDestroy
  <1>6. registered' => registered
    <2>1. CASE RmMark(a) \/ RmReset(a) \/ RmDead(a)
      BY <2>1 DEF RmMark, RmReset, RmDead
    <2>2. CASE RmDestroy(a)
      <3>1. registered' = FALSE \/ registered' = (registered /\ ~Head(stack[a]).flag)
        BY <2>2 DEF RmDestroy
      <3> QED BY <3>1, Zenon
    <2> QED BY <2>1, <2>2
  <1>5. SameProcess
    BY <1>2, <1>3, <1>4, <1>6 DEF SameProcess, Known, ProcInv, AutoInv, States
  <1> QED BY <1>1, <1>5, QuietKeeps

\* containerRestart keeps AutoRemove in its frame and puts back what it kept.
LEMMA RestartProc ==
  ASSUME LifeInv, ProcInv, NEW a \in Others, RestartSave(a) \/ RestartRestore(a)
  PROVE  ProcInv'
  <1>1. /\ a \in Actors /\ TypeOK /\ stack[a] # <<>> /\ st \in States /\ AutoInv
        /\ Head(stack[a]).fn = "Restart"
    BY DEF Others, LifeInv, TypeOK, RestartSave, RestartRestore, At, ProcInv
  <1>2. /\ Head(stack[a]) \in Frames /\ Head(stack[a]).flag \in BOOLEAN
        /\ 1 \in DOMAIN stack[a] /\ Head(stack[a]) = stack[a][1]
    BY <1>1, HeadFrame
  <1>3. Head(stack[a]).flag => config.autoRemove
    BY <1>1, <1>2 DEF AutoInv, Saves
  <1>4. CASE RestartSave(a)
    <2> DEFINE f == [Head(stack[a]) EXCEPT !.pc = "restore", !.flag = st.autoRemove]
    <2>1. f \in Frames /\ f.pc = "restore" /\ f.fn = "Restart" /\ f.flag = st.autoRemove
      <3>1. st.autoRemove \in BOOLEAN /\ "restore" \in Pcs
        BY <1>1 DEF States, Pcs
      <3> QED BY <1>1, <1>2, <3>1 DEF Frames
    <2>2. stack' = [stack EXCEPT ![a] = <<Frame("Stop", FALSE), f>> \o Tail(@)]
      BY <1>4 DEF RestartSave
    <2> HIDE DEF f
    <2>3. f \in QuietFrames
      BY <1>1, <2>1 DEF QuietFrames, Creating, Saves, AutoInv
    <2>4. Frame("Stop", FALSE) \in QuietFrames
      BY CalledQuiet DEF Fns
    <2>5. Moves(a, {Frame("Stop", FALSE), f})
      BY <1>1, <2>2, <2>3, <2>4, PushTop DEF QuietFrames
    <2>6. QuietMove(a)
      BY <2>3, <2>4, <2>5 DEF Moves, QuietMove
    <2>7. SameProcess
      BY <1>1, <1>4 DEF RestartSave, SameProcess, Known, States
    <2> QED BY <2>6, <2>7, QuietKeeps
  <1>5. CASE RestartRestore(a)
    <2>1. QuietMove(a)
      <3>1. "start" \in QuietPcs
        BY DEF QuietPcs, Pcs
      <3> QED BY <1>1, <1>5, <3>1, ContinueQuiet DEF RestartRestore
    <2>2. SameProcess
      BY <1>1, <1>2, <1>3, <1>5 DEF RestartRestore, SameProcess, Known, States
    <2> QED BY <2>1, <2>2, QuietKeeps
  <1> QED BY <1>4, <1>5

\* The setters leave alone what is not about the process.
LEMMA ResetSame ==
  ASSUME NEW a, NEW s \in States
  PROVE  /\ Reset(a, s).running = s.running /\ Reset(a, s).restarting = s.restarting
         /\ Reset(a, s).pid = s.pid /\ Reset(a, s).autoRemove = s.autoRemove
  BY DEF Reset, States

\* A start that fails before a process exists.
LEMMA StartFailProc ==
  ASSUME LifeInv, ProcInv, NEW a \in Others, StartPrepareFails(a) \/ StartCreateFails(a)
  PROVE  ProcInv'
  <1>1. stack[a] # <<>> /\ FailStart(a)
    BY DEF StartPrepareFails, StartCreateFails, At
  <1>2. QuietMove(a)
    <2>1. "removed" \in QuietPcs /\ "Rm" \in Fns
      BY DEF QuietPcs, Pcs, Fns
    <2> QED BY <1>1, <2>1, CallQuiet, ReturnQuiet DEF FailStart
  <1>3. st \in States
    BY DEF LifeInv, TypeOK
  <1>4. UNCHANGED <<config, registered, wait, proc, active, stream, queue>>
        /\ (st' = st \/ st' = Reset(a, st))
    BY DEF StartPrepareFails, StartCreateFails
  <1>5. SameProcess
    BY <1>3, <1>4, ResetSame DEF SameProcess, Known, ProcInv, AutoInv
  <1> QED BY <1>2, <1>5, QuietKeeps

\* A request begins.
LEMMA RequestProc ==
  ASSUME LifeInv, ProcInv, NEW a \in Ops, NEW r \in Requests, Request(a, r)
  PROVE  ProcInv'
  <1>1. a \in Others /\ a \in Actors /\ r \in AllRequests /\ TypeOK
    BY ActorsAssumption, ConfigAssumption DEF Others, Actors, LifeInv, TypeOK, Requests
  <1>2. Entry[r] \in QuietFrames
    <2>1. \A fn \in {"ApiStart", "ApiStop", "Kill", "Signal", "Restart", "Rm", "Pause", "Unpause"} :
            Frame(fn, FALSE) \in QuietFrames /\ (fn = "Rm" => Frame(fn, TRUE) \in QuietFrames)
      BY CalledQuiet DEF Fns
    <2>2. /\ Entry["start"] = Frame("ApiStart", FALSE) /\ Entry["stop"] = Frame("ApiStop", FALSE)
          /\ Entry["kill"] = Frame("Kill", FALSE) /\ Entry["signal"] = Frame("Signal", FALSE)
          /\ Entry["restart"] = Frame("Restart", FALSE) /\ Entry["rm"] = Frame("Rm", FALSE)
          /\ Entry["rmforce"] = Frame("Rm", TRUE) /\ Entry["pause"] = Frame("Pause", FALSE)
          /\ Entry["unpause"] = Frame("Unpause", FALSE)
      BY DEF Entry
    <2> QED BY <1>1, <2>1, <2>2 DEF AllRequests
  <1>3. Entry[r] \in PlainFrames
    BY <1>1, EntryType
  <1>4. Plain(a) /\ stack' = [stack EXCEPT ![a] = <<Entry[r]>>]
    BY <1>1, <1>3, FirstFrame DEF Request
  <1>5. QuietMove(a)
    <2>1. stack'[a] = <<Entry[r]>>
      BY <1>1, <1>4 DEF TypeOK
    <2>2. \A i \in DOMAIN stack'[a] : stack'[a][i] \in QuietFrames
      BY <1>2, <2>1
    <2> QED BY <1>4, <2>2 DEF Plain, Moves, QuietMove
  <1>6. SameProcess
    BY DEF Request, SameProcess, Known, ProcInv, AutoInv
  <1> QED BY <1>1, <1>5, <1>6, QuietKeeps
--------------------------------------------------------------------------------
(* Starting the container *)

\* With the lock free nobody creates a process and nobody waits for an event.
LEMMA NobodyHolds ==
  LifeInv /\ lock = NoOne =>
    /\ \A a \in Actors : \A i \in DOMAIN stack[a] : ~Creating(stack[a][i]) /\ ~Pausing(stack[a][i])
    /\ PauseInv
  <1> SUFFICES ASSUME LifeInv, lock = NoOne
               PROVE  /\ \A a \in Actors : \A i \in DOMAIN stack[a] :
                           ~Creating(stack[a][i]) /\ ~Pausing(stack[a][i])
                      /\ PauseInv
    OBVIOUS
  <1>1. NoOne \notin Actors
    BY ActorsAssumption DEF Actors
  <1>2. \A a \in Actors : \A i \in DOMAIN stack[a] : ~Creating(stack[a][i]) /\ ~Pausing(stack[a][i])
    BY <1>1 DEF LifeInv, LockInv, Holding
  <1>3. PauseInv
    BY <1>2 DEF PauseInv, Pausing, Others
  <1> QED BY <1>2, <1>3

\* An exit is under way only while the container is up.
LEMMA ExitMeansUp ==
  ASSUME ProcInv, registered, ~Up
  PROVE  /\ ~Known /\ ~ExitIn(Pipeline) /\ st.pid = 0
         /\ \A i \in DOMAIN Pipeline : Pipeline[i].type # "exit"
  BY DEF ProcInv, UpInv, ExitIn

\* containerStart of a client takes the lock only of a container that is not running.
LEMMA StartBeginProc ==
  ASSUME LifeInv, ProcInv, NEW a \in Others, StartBegin(a)
  PROVE  ProcInv'
  <1>1. a \in Actors /\ TypeOK /\ stack[a] # <<>> /\ Head(stack[a]).fn = "Start"
    BY DEF Others, LifeInv, StartBegin, At
  <1>2. UNCHANGED <<config, st, registered, rm, ch, wait, proc, active, stream, queue>>
    BY DEF StartBegin
  <1>3. SameProcess
    BY <1>2 DEF SameProcess, Known, ProcInv, AutoInv
  <1>4. CASE Return(a, "nil") \/ Return(a, "err")
    BY <1>1, <1>3, <1>4, ReturnQuiet, QuietKeeps
  <1>5. CASE Goto(a, "create") /\ ~(Head(stack[a]).flag /\ st.running)
    <2> DEFINE f == [Head(stack[a]) EXCEPT !.pc = "create"]
    <2>1. /\ Head(stack[a]) \in Frames /\ 1 \in DOMAIN stack[a] /\ Head(stack[a]) = stack[a][1]
      BY <1>1, HeadFrame
    <2>2. Head(stack[a]).flag /\ ~st.running
      BY <1>1, <1>5, <2>1 DEF ProcInv, ClientStartInv
    <2>3. "create" \in Pcs
      BY DEF Pcs
    <2>4. f.fn = "Start" /\ f.flag /\ f.pc = "create"
      BY <1>1, <2>1, <2>2, <2>3 DEF Frames
    <2>5. Moves(a, {f})
      BY <1>1, <1>5, <2>3, GotoMoves
    <2> HIDE DEF f
    <2>6. \A b \in Others : \A i \in DOMAIN stack'[b] :
            stack'[b][i] = f \/ \E j \in DOMAIN stack[b] : stack'[b][i] = stack[b][j]
      BY <2>5 DEF Moves, Others
    <2>7. AutoInv'
      BY <1>2, <2>4, <2>6 DEF ProcInv, AutoInv, Saves
    <2>8. ClientStartInv'
      BY <1>2, <2>2, <2>4, <2>6 DEF ProcInv, ClientStartInv
    <2>9. PauseInv'
      <3>1. \A t : Coming(t) => Coming(t)'
        BY <1>2 DEF Coming, Pipeline, Known
      <3>2. \A b \in Others : \A i \in DOMAIN stack'[b] :
              stack'[b][i].pc = "event" => \E j \in DOMAIN stack[b] : stack'[b][i] = stack[b][j]
        BY <2>4, <2>6
      <3>3. PauseInv
        BY DEF ProcInv
      <3> QED BY <3>1, <3>2, <3>3 DEF PauseInv
    <2>10. MonitorInv' /\ RestartingInv'
      <3>1. stack'[Monitor] = stack[Monitor]
        BY <2>5 DEF Moves, Others, Actors
      <3> QED BY <1>2, <3>1 DEF ProcInv, MonitorInv, MonitorFrame, RestartingInv
    <2> QED BY <1>3, <2>7, <2>8, <2>9, <2>10, QuietRest DEF ProcInv
  <1> QED BY <1>4, <1>5 DEF StartBegin

\* What StateChanged(StateStart) records of a new process.
LEMMA SetRunningIs ==
  ASSUME NEW s \in States, NEW a, NEW g \in 0..MaxStarts
  PROVE  LET t == SetRunning(Reset(a, s), g)
         IN  t.running /\ ~t.restarting /\ t.pid = g /\ t.autoRemove = s.autoRemove
  BY DEF SetRunning, Reset, States

\* A new process: the container was not up, so no exit of an older one is under way.
LEMMA CreateRest ==
  ASSUME LifeInv, LifeInv', ProcInv, NEW a \in Actors, StartCreate(a), ~Up
  PROVE  /\ ExitInv' /\ UpInv' /\ WaitInv' /\ PauseInv'
         /\ st'.running /\ ~st'.restarting /\ st'.autoRemove = st.autoRemove
         /\ \A b \in Actors : \A i \in DOMAIN stack'[b] : ~Creating(stack'[b][i])
  <1>1. /\ st \in States /\ proc.gen \in 0..MaxStarts /\ proc.gen < MaxStarts /\ registered
        /\ UNCHANGED <<config, registered, wait, stream, queue>> /\ active' = TRUE
        /\ st' = SetRunning(Reset(a, st), proc.gen + 1) /\ lock' = NoOne
        /\ proc' = [gen |-> proc.gen + 1, state |-> "alive", frozen |-> FALSE, killed |-> FALSE]
    BY DEF StartCreate, LifeInv, TypeOK
  <1>2. proc.gen + 1 \in 0..MaxStarts
    BY <1>1, ConfigAssumption
  <1>3. /\ st'.running /\ ~st'.restarting /\ st'.pid = proc.gen + 1
        /\ st'.autoRemove = st.autoRemove
    BY <1>1, <1>2, SetRunningIs
  <1>4. Known' /\ proc'.gen = proc.gen + 1
    BY <1>1 DEF Known
  <1>5. \A i \in DOMAIN Pipeline' : Pipeline'[i].type # "exit"
    BY <1>1, ExitMeansUp DEF Pipeline
  <1>6. ExitInv'
    BY <1>1, <1>4, <1>5 DEF ExitInv
  <1>7. UpInv'
    BY <1>1, <1>3, <1>4 DEF UpInv, Up
  <1>8. WaitInv'
    BY <1>3 DEF WaitInv
  <1>9. /\ \A b \in Actors : \A i \in DOMAIN stack'[b] : ~Creating(stack'[b][i])
        /\ PauseInv'
    <2>1. NoOne \notin Actors
      BY ActorsAssumption DEF Actors
    <2>2. \A b \in Actors : \A i \in DOMAIN stack'[b] :
            ~Creating(stack'[b][i]) /\ ~Pausing(stack'[b][i])
      BY <1>1, <2>1 DEF LifeInv, LockInv, Holding
    <2>3. PauseInv'
      BY <2>2 DEF PauseInv, Pausing, Others
    <2> QED BY <2>2, <2>3
  <1> QED BY <1>3, <1>6, <1>7, <1>8, <1>9

\* A client's start creates the process.
LEMMA StartCreateProc ==
  ASSUME LifeInv, LifeInv', ProcInv, NEW a \in Others, StartCreate(a)
  PROVE  ProcInv'
  <1>1. a \in Actors /\ TypeOK /\ stack[a] # <<>> /\ Return(a, "nil") /\ config' = config
    BY DEF Others, LifeInv, StartCreate, At
  <1>2. ~st.running
    <2>1. 1 \in DOMAIN stack[a] /\ Head(stack[a]) = stack[a][1]
      BY <1>1, HeadFrame
    <2> QED BY <2>1 DEF StartCreate, At, Creating, ProcInv, ClientStartInv
  <1>3. /\ ExitInv' /\ UpInv' /\ WaitInv' /\ PauseInv'
        /\ st'.running /\ ~st'.restarting /\ st'.autoRemove = st.autoRemove
        /\ \A b \in Actors : \A i \in DOMAIN stack'[b] : ~Creating(stack'[b][i])
    BY <1>1, <1>2, CreateRest DEF Up
  <1>4. QuietMove(a)
    BY <1>1, ReturnQuiet
  <1>5. \A b \in Others : \A i \in DOMAIN stack'[b] :
          stack'[b][i] \in QuietFrames \/ \E j \in DOMAIN stack[b] : stack'[b][i] = stack[b][j]
    BY <1>4 DEF QuietMove, Moves, Others
  <1>6. AutoInv'
    BY <1>1, <1>3, <1>5 DEF AutoInv, ProcInv, QuietFrames
  <1>7. ClientStartInv'
    BY <1>3, <1>5 DEF ClientStartInv, ProcInv, QuietFrames, Others
  <1>8. stack'[Monitor] = stack[Monitor]
    BY <1>4 DEF QuietMove, Moves, Others, Actors
  <1>9. MonitorInv' /\ RestartingInv'
    BY <1>1, <1>2, <1>3, <1>8 DEF MonitorInv, MonitorFrame, RestartingInv, ProcInv
  <1> QED BY <1>3, <1>6, <1>7, <1>9 DEF ProcInv
--------------------------------------------------------------------------------
(* The restart goroutine *)

\* It runs only for a container that AutoRemove does not remove.
LEMMA MonitorKeepsContainer ==
  ASSUME LifeInv, ProcInv, stack[Monitor] # <<>>
  PROVE  ~st.autoRemove
  <1>1. config \in Configs /\ config.policy # "no"
    BY DEF LifeInv, TypeOK, ProcInv, MonitorInv
  <1>2. ~config.autoRemove
    BY <1>1, ConfigAssumption
  <1> QED BY <1>2 DEF ProcInv, AutoInv

\* The stack of the restart goroutine, and its first frame.
LEMMA MonitorTop ==
  ASSUME LifeInv, ProcInv, stack[Monitor] # <<>>
  PROVE  /\ stack[Monitor] \in Seq(Frames) /\ Len(stack[Monitor]) >= 1
         /\ Head(stack[Monitor]) = stack[Monitor][1] /\ 1 \in DOMAIN stack[Monitor]
         /\ Head(stack[Monitor]) \in Frames
         /\ MonitorFrame(stack[Monitor], 1)
         /\ Tail(stack[Monitor]) \in Seq(Frames)
         /\ \A i \in DOMAIN Tail(stack[Monitor]) :
              i + 1 \in DOMAIN stack[Monitor] /\ Tail(stack[Monitor])[i] = stack[Monitor][i + 1]
  <1>1. stack[Monitor] \in Seq(Frames) /\ Len(stack[Monitor]) >= 1
    BY EmptySeq DEF LifeInv, TypeOK, Actors
  <1>2. /\ Head(stack[Monitor]) = stack[Monitor][1] /\ 1 \in DOMAIN stack[Monitor]
        /\ Head(stack[Monitor]) \in Frames
        /\ Tail(stack[Monitor]) \in Seq(Frames)
        /\ \A i \in DOMAIN Tail(stack[Monitor]) :
             i + 1 \in DOMAIN stack[Monitor] /\ Tail(stack[Monitor])[i] = stack[Monitor][i + 1]
    BY <1>1
  <1>3. MonitorFrame(stack[Monitor], 1)
    BY <1>2 DEF ProcInv, MonitorInv
  <1> QED BY <1>1, <1>2, <1>3

\* The restart goroutine takes these steps and no other.
LEMMA MonitorSteps ==
  ASSUME LifeInv, ProcInv, Step(Monitor)
  PROVE  \/ StartBegin(Monitor) \/ StartPrepareFails(Monitor) \/ StartCreateFails(Monitor)
         \/ StartCreate(Monitor) \/ StartSaveFails(Monitor) \/ AutoRm(Monitor)
  <1>1. ASSUME NEW fn, NEW pc, At(Monitor, fn, pc)
        PROVE  /\ fn \in {"AutoRm", "Monitor", "Start"}
               /\ fn = "Start" => pc \in {"begin", "create"}
    BY <1>1, MonitorTop DEF At, MonitorFrame
  <1>2. \A w \in WaitPoints : w.fn \in {"Kill", "Stop"}
    BY DEF WaitPoints
  <1>3. \A p \in SignalPoints : p.fn \in {"Kill", "Stop", "Signal"}
    BY DEF SignalPoints
  <1>4. ~WaitEnter(Monitor) /\ ~WaitLeave(Monitor) /\ ~KillWithSignal(Monitor)
    BY <1>1, <1>2, <1>3 DEF WaitEnter, WaitLeave, KillWithSignal
  <1>9. /\ ~At(Monitor, "Start", "removed")
        /\ \A pc : /\ ~At(Monitor, "Kill", pc) /\ ~At(Monitor, "Stop", pc) /\ ~At(Monitor, "Rm", pc)
                   /\ ~At(Monitor, "Restart", pc) /\ ~At(Monitor, "Pause", pc)
                   /\ ~At(Monitor, "Unpause", pc) /\ ~At(Monitor, "ApiStart", pc)
                   /\ ~At(Monitor, "ApiStop", pc)
    BY <1>1
  <1>5. /\ ~StartRemoved(Monitor) /\ ~KillBegin(Monitor) /\ ~KillDirectly(Monitor)
        /\ ~StopBegin(Monitor) /\ ~StopKill(Monitor)
    BY <1>9, Zenon DEF StartRemoved, KillBegin, KillDirectly, StopBegin, StopKill
  <1>6. /\ ~RmLookup(Monitor) /\ ~RmMark(Monitor) /\ ~RmRunning(Monitor) /\ ~RmStop(Monitor)
        /\ ~RmDead(Monitor) /\ ~RmDestroy(Monitor) /\ ~RmReset(Monitor)
    BY <1>9, Zenon DEF RmLookup, RmMark, RmRunning, RmStop, RmDead, RmDestroy, RmReset
  <1>7. /\ ~RestartBegin(Monitor) /\ ~RestartSave(Monitor) /\ ~RestartRestore(Monitor)
        /\ ~RestartStart(Monitor)
    BY <1>9, Zenon DEF RestartBegin, RestartSave, RestartRestore, RestartStart
  <1>8. /\ ~PauseBegin(Monitor) /\ ~UnpauseBegin(Monitor) /\ ~PauseReturn(Monitor)
        /\ ~ApiStart(Monitor) /\ ~ApiStop(Monitor)
    BY <1>9, Zenon DEF PauseBegin, UnpauseBegin, PauseReturn, ApiStart, ApiStop
  <1> QED BY <1>4, <1>5, <1>6, <1>7, <1>8 DEF Step

\* A stack whose innermost frame is replaced.
LEMMA ReplacedAt ==
  ASSUME NEW s \in Seq(Frames), Len(s) >= 1, NEW f \in Frames
  PROVE  LET t == <<f>> \o Tail(s)
         IN  /\ DOMAIN t = DOMAIN s /\ t[1] = f /\ 1 \in DOMAIN t
             /\ \A i \in DOMAIN t : i # 1 => t[i] = s[i]
  <1> DEFINE t == <<f>> \o Tail(s)
  <1>1. Tail(s) \in Seq(Frames) /\ Len(Tail(s)) = Len(s) - 1
    OBVIOUS
  <1>2. DOMAIN t = 1..Len(s) /\ t[1] = f
    BY <1>1
  <1>3. ASSUME NEW i \in 1..Len(s), i # 1 PROVE t[i] = s[i]
    BY <1>1, <1>3
  <1> QED BY <1>2, <1>3

\* A stack whose innermost frame called another.
LEMMA PushedAt ==
  ASSUME NEW s \in Seq(Frames), Len(s) >= 1, NEW f \in Frames, NEW g \in Frames
  PROVE  LET t == <<f, g>> \o Tail(s)
         IN  /\ 1 \in DOMAIN t /\ 2 \in DOMAIN t /\ t[1] = f /\ t[2] = g
             /\ \A i \in DOMAIN t : i \in {1, 2} \/ (i - 1 \in DOMAIN s /\ i - 1 # 1 /\ t[i] = s[i - 1])
  <1> DEFINE t == <<f, g>> \o Tail(s)
  <1>1. Tail(s) \in Seq(Frames) /\ Len(Tail(s)) = Len(s) - 1
    OBVIOUS
  <1>2. DOMAIN t = 1..(Len(s) + 1) /\ t[1] = f /\ t[2] = g
    BY <1>1
  <1>3. ASSUME NEW i \in 1..(Len(s) + 1), i \notin {1, 2}
        PROVE  i - 1 \in DOMAIN s /\ i - 1 # 1 /\ t[i] = s[i - 1]
    BY <1>1, <1>3
  <1> QED BY <1>2, <1>3

\* A stack with a new frame.
LEMMA GrownAt ==
  ASSUME NEW s \in Seq(Frames), NEW f \in Frames
  PROVE  LET t == <<f>> \o s
         IN  /\ 1 \in DOMAIN t /\ t[1] = f
             /\ \A i \in DOMAIN t : i = 1 \/ (i - 1 \in DOMAIN s /\ t[i] = s[i - 1])
  <1> DEFINE t == <<f>> \o s
  <1>2. DOMAIN t = 1..(Len(s) + 1) /\ t[1] = f
    OBVIOUS
  <1>3. ASSUME NEW i \in 1..(Len(s) + 1), i # 1
        PROVE  i - 1 \in DOMAIN s /\ t[i] = s[i - 1]
    BY <1>3
  <1> QED BY <1>2, <1>3

\* Steps of the restart goroutine say nothing of the other actors' frames.
LEMMA MonitorOthers ==
  ASSUME LifeInv, ProcInv, \A b \in Others : stack'[b] = stack[b], SameProcess
  PROVE  (AutoInv /\ ClientStartInv /\ PauseInv /\ ExitInv /\ UpInv /\ WaitInv)'
  <1>1. AutoInv'
    BY DEF AutoInv, SameProcess, ProcInv
  <1>2. ClientStartInv'
    BY DEF ClientStartInv, SameProcess, ProcInv
  <1>3. \A t : Coming(t) => Coming(t)'
    BY DEF Coming, Pipeline, SameProcess
  <1>4. PauseInv'
    BY <1>3 DEF PauseInv, ProcInv
  <1> QED BY <1>1, <1>2, <1>4, QuietRest

\* Returning takes the innermost frame off, and after a successful start the restart
\* goroutine's too.
LEMMA MonitorReturns ==
  ASSUME LifeInv, ProcInv, stack[Monitor] # <<>>, NEW v \in {"nil", "err"}, Return(Monitor, v)
  PROVE  /\ \A b \in Others : stack'[b] = stack[b]
         /\ Head(stack[Monitor]).fn = "Start" /\ v = "nil" => stack'[Monitor] = <<>>
         /\ ~(Head(stack[Monitor]).fn = "Start" /\ v = "nil") => stack'[Monitor] = Tail(stack[Monitor])
  <1>1. Monitor \in Actors /\ stack \in [Actors -> Seq(Frames)] /\ Monitor \notin Others
    BY DEF Actors, LifeInv, TypeOK, Others
  <1>2. \A b \in Others : stack'[b] = stack[b]
    BY <1>1 DEF Return, Others
  <1> DEFINE outer == Tail(stack[Monitor])
  <1>3. stack'[Monitor] = IF outer # <<>> /\ Head(outer).fn = "Monitor" /\ v = "nil" THEN <<>> ELSE outer
    BY <1>1 DEF Return
  <1>4. /\ stack[Monitor] \in Seq(Frames) /\ Len(stack[Monitor]) >= 1
        /\ Head(stack[Monitor]) = stack[Monitor][1]
        /\ MonitorFrame(stack[Monitor], 1)
    BY MonitorTop
  <1>5. outer # <<>> => 2 \in DOMAIN stack[Monitor] /\ Head(outer) = stack[Monitor][2]
    BY <1>4
  <1>6. \A i \in DOMAIN stack[Monitor] : MonitorFrame(stack[Monitor], i)
    BY DEF ProcInv, MonitorInv
  <1>7. CASE Head(stack[Monitor]).fn = "Start"
    <2>1. 2 \in DOMAIN stack[Monitor] /\ stack[Monitor][2].fn = "Monitor"
      BY <1>4, <1>7 DEF MonitorFrame
    <2>2. Len(stack[Monitor]) >= 2
      BY <1>4, <2>1
    <2>3. outer \in Seq(Frames) /\ Len(outer) >= 1
      BY <1>4, <2>2
    <2> HIDE DEF outer
    <2>4. outer # <<>>
      BY <2>3
    <2>5. Head(outer).fn = "Monitor"
      BY <1>5, <2>1, <2>4
    <2> QED BY <1>2, <1>3, <1>7, <2>4, <2>5 DEF outer
  <1>8. CASE Head(stack[Monitor]).fn # "Start"
    <2>1. ASSUME outer # <<>> PROVE Head(outer).fn # "Monitor"
      <3>1. MonitorFrame(stack[Monitor], 2)
        BY <1>5, <1>6, <2>1
      <3> QED BY <1>4, <1>5, <1>8, <2>1, <3>1 DEF MonitorFrame
    <2> QED BY <1>2, <1>3, <1>8, <2>1
  <1> QED BY <1>7, <1>8

\* Taking a frame off that is not the one that waits to restart the container.
LEMMA MonitorPops ==
  ASSUME LifeInv, ProcInv, stack[Monitor] # <<>>, stack'[Monitor] = Tail(stack[Monitor]),
         Head(stack[Monitor]).fn # "Monitor", UNCHANGED config, st'.restarting = st.restarting,
         st'.running = st.running
  PROVE  (MonitorInv /\ RestartingInv)'
  <1> DEFINE s == stack[Monitor]
             t == stack'[Monitor]
  <1>1. /\ s \in Seq(Frames) /\ Len(s) >= 1 /\ Head(s) = s[1] /\ 1 \in DOMAIN s
        /\ \A i \in DOMAIN Tail(s) : i + 1 \in DOMAIN s /\ Tail(s)[i] = s[i + 1]
    BY MonitorTop
  <1>2. \A i \in DOMAIN s : MonitorFrame(s, i)
    BY DEF ProcInv, MonitorInv
  <1>3. t = Tail(s) /\ DOMAIN t = 1..(Len(s) - 1)
    BY <1>1
  <1> HIDE DEF s, t
  <1>4. ASSUME NEW i \in DOMAIN t
        PROVE  MonitorFrame(t, i)
    <2>1. i + 1 \in DOMAIN s /\ t[i] = s[i + 1] /\ MonitorFrame(s, i + 1)
      BY <1>1, <1>2, <1>3, <1>4
    <2>2. i \in 1..(Len(s) - 1) /\ Len(s) \in Nat
      BY <1>1, <1>3, <1>4
    <2>3. i + 1 # 1 /\ (i + 1 = 2 => i = 1)
      BY <2>2
    <2> QED BY <2>1, <2>3 DEF MonitorFrame
  <1>5. (\E i \in DOMAIN s : s[i].fn = "Monitor") <=> (\E i \in DOMAIN t : t[i].fn = "Monitor")
    <2>1. ASSUME NEW i \in DOMAIN s, s[i].fn = "Monitor"
          PROVE  i - 1 \in DOMAIN t /\ t[i - 1] = s[i]
      <3>1. i # 1
        BY <1>1, <2>1 DEF s
      <3>2. i \in 1..Len(s)
        BY <1>1, <2>1
      <3> QED BY <1>1, <1>3, <3>1, <3>2
    <2>2. ASSUME NEW i \in DOMAIN t, t[i].fn = "Monitor"
          PROVE  i + 1 \in DOMAIN s /\ s[i + 1] = t[i]
      BY <1>1, <1>3, <2>2
    <2> QED BY <2>1, <2>2
  <1>6. t # <<>> => s # <<>>
    BY <1>1
  <1>7. MonitorInv'
    BY <1>4, <1>6 DEF MonitorInv, ProcInv, s, t
  <1>8. RestartingInv'
    BY <1>5 DEF RestartingInv, ProcInv, s, t
  <1> QED BY <1>7, <1>8

\* The restart goroutine's containerStart takes the lock, or gives up.
LEMMA MonitorBeginProc ==
  ASSUME LifeInv, ProcInv, StartBegin(Monitor)
  PROVE  ProcInv'
  <1> DEFINE s == stack[Monitor]
  <1>1. /\ Monitor \in Actors /\ TypeOK /\ s # <<>> /\ Head(s).fn = "Start" /\ Head(s).pc = "begin"
    BY DEF Actors, LifeInv, StartBegin, At
  <1>2. /\ s \in Seq(Frames) /\ Len(s) >= 1 /\ Head(s) = s[1] /\ 1 \in DOMAIN s /\ s[1] \in Frames
        /\ MonitorFrame(s, 1)
    BY <1>1, MonitorTop
  <1>3. UNCHANGED <<config, st, registered, rm, ch, wait, proc, active, stream, queue>>
    BY DEF StartBegin
  <1>4. SameProcess
    BY <1>3 DEF SameProcess, Known, ProcInv, AutoInv
  <1>5. ~s[1].flag /\ 2 \in DOMAIN s /\ s[2].fn = "Monitor"
    BY <1>1, <1>2 DEF MonitorFrame
  <1>6. CASE Return(Monitor, "err")
    <2>1. /\ \A b \in Others : stack'[b] = stack[b]
          /\ stack'[Monitor] = Tail(s)
      BY <1>1, <1>6, MonitorReturns
    <2>2. (MonitorInv /\ RestartingInv)'
      BY <1>1, <1>3, <2>1, MonitorPops
    <2> QED BY <1>4, <2>1, <2>2, MonitorOthers DEF ProcInv
  <1>7. CASE Goto(Monitor, "create")
    <2> DEFINE f == [Head(s) EXCEPT !.pc = "create"]
               t == stack'[Monitor]
    <2>1. f \in Frames /\ f.fn = "Start" /\ f.pc = "create" /\ ~f.flag
      <3>1. "create" \in Pcs
        BY DEF Pcs
      <3> QED BY <1>1, <1>2, <1>5, <3>1 DEF Frames
    <2>2. t = <<f>> \o Tail(s) /\ \A b \in Others : stack'[b] = stack[b]
      BY <1>1, <1>7 DEF Goto, TypeOK, Others
    <2> HIDE DEF f
    <2>3. /\ DOMAIN t = DOMAIN s /\ t[1] = f
          /\ \A i \in DOMAIN t : i # 1 => t[i] = s[i]
      BY <1>2, <2>1, <2>2, ReplacedAt
    <2>4. \A i \in DOMAIN s : MonitorFrame(s, i)
      BY DEF ProcInv, MonitorInv
    <2>5. t # <<>> => s # <<>>
      BY <1>1
    <2> HIDE DEF s, t
    <2>6. \A i \in DOMAIN t : MonitorFrame(t, i)
      BY <1>1, <1>2, <1>5, <2>1, <2>3, <2>4 DEF MonitorFrame
    <2>7. (\E i \in DOMAIN s : s[i].fn = "Monitor") <=> (\E i \in DOMAIN t : t[i].fn = "Monitor")
      BY <1>5, <2>3
    <2>8. MonitorInv' /\ RestartingInv'
      BY <1>3, <2>5, <2>6, <2>7 DEF ProcInv, MonitorInv, RestartingInv, s, t
    <2> QED BY <1>4, <2>2, <2>8, MonitorOthers DEF ProcInv
  <1> QED BY <1>2, <1>5, <1>6, <1>7 DEF StartBegin

\* Its start fails: the next thing it does is to record that the container stopped.
LEMMA MonitorFailsProc ==
  ASSUME LifeInv, ProcInv, StartPrepareFails(Monitor) \/ StartCreateFails(Monitor)
  PROVE  ProcInv'
  <1>1. /\ stack[Monitor] # <<>> /\ Head(stack[Monitor]).fn = "Start" /\ FailStart(Monitor)
    BY DEF StartPrepareFails, StartCreateFails, At
  <1>2. Return(Monitor, "err")
    BY <1>1, MonitorKeepsContainer DEF FailStart
  <1>3. /\ \A b \in Others : stack'[b] = stack[b]
        /\ stack'[Monitor] = Tail(stack[Monitor])
    BY <1>1, <1>2, MonitorReturns
  <1>4. st \in States
    BY DEF LifeInv, TypeOK
  <1>5. UNCHANGED <<config, registered, wait, proc, active, stream, queue>>
        /\ (st' = st \/ st' = Reset(Monitor, st))
    BY DEF StartPrepareFails, StartCreateFails
  <1>6. SameProcess
    BY <1>4, <1>5, ResetSame DEF SameProcess, Known, ProcInv, AutoInv
  <1>7. (MonitorInv /\ RestartingInv)'
    BY <1>1, <1>3, <1>5, <1>6, MonitorPops DEF SameProcess
  <1> QED BY <1>3, <1>6, <1>7, MonitorOthers DEF ProcInv

\* It creates the process and is done: the container no longer waits to be restarted.
LEMMA MonitorCreateProc ==
  ASSUME LifeInv, LifeInv', ProcInv, StartCreate(Monitor)
  PROVE  ProcInv'
  <1>1. /\ Monitor \in Actors /\ stack[Monitor] # <<>> /\ Head(stack[Monitor]).fn = "Start"
        /\ Return(Monitor, "nil") /\ config' = config
    BY DEF Actors, StartCreate, At
  <1>2. st.restarting
    <2>1. MonitorFrame(stack[Monitor], 1) /\ Head(stack[Monitor]) = stack[Monitor][1]
      BY <1>1, MonitorTop
    <2>2. 2 \in DOMAIN stack[Monitor] /\ stack[Monitor][2].fn = "Monitor"
      BY <1>1, <2>1 DEF MonitorFrame
    <2> QED BY <2>2 DEF ProcInv, RestartingInv
  <1>3. /\ ExitInv' /\ UpInv' /\ WaitInv' /\ PauseInv'
        /\ st'.running /\ ~st'.restarting /\ st'.autoRemove = st.autoRemove
        /\ \A b \in Actors : \A i \in DOMAIN stack'[b] : ~Creating(stack'[b][i])
    BY <1>1, <1>2, CreateRest DEF Up
  <1>4. (\A b \in Others : stack'[b] = stack[b]) /\ stack'[Monitor] = <<>>
    BY <1>1, MonitorReturns
  <1>5. MonitorInv' /\ RestartingInv'
    BY <1>3, <1>4 DEF MonitorInv, RestartingInv
  <1>6. AutoInv'
    BY <1>1, <1>3, <1>4 DEF ProcInv, AutoInv
  <1>7. ClientStartInv'
    BY <1>3, <1>4 DEF ProcInv, ClientStartInv, Others
  <1> QED BY <1>3, <1>5, <1>6, <1>7 DEF ProcInv

\* Its autoRemove finds AutoRemove off and returns.
LEMMA MonitorAutoRmProc ==
  ASSUME LifeInv, ProcInv, AutoRm(Monitor)
  PROVE  ProcInv'
  <1>1. stack[Monitor] # <<>> /\ Head(stack[Monitor]).fn = "AutoRm"
    BY DEF AutoRm, At
  <1>2. Return(Monitor, "nil")
    BY <1>1, MonitorKeepsContainer DEF AutoRm
  <1>3. /\ \A b \in Others : stack'[b] = stack[b]
        /\ stack'[Monitor] = Tail(stack[Monitor])
    BY <1>1, <1>2, MonitorReturns
  <1>4. UNCHANGED <<config, st, registered, rm, ch, wait, proc, active, stream, queue>>
    BY DEF AutoRm
  <1>5. SameProcess
    BY <1>4 DEF SameProcess, Known, ProcInv, AutoInv
  <1>6. (MonitorInv /\ RestartingInv)'
    BY <1>1, <1>3, <1>4, MonitorPops
  <1> QED BY <1>3, <1>5, <1>6, MonitorOthers DEF ProcInv

\* The timer has fired and it starts the container, or it was canceled and gives up.
LEMMA MonitorWakeProc ==
  ASSUME LifeInv, ProcInv, MonitorWake
  PROVE  ProcInv'
  <1> DEFINE s == stack[Monitor]
             t == stack'[Monitor]
  <1>1. /\ Monitor \in Actors /\ TypeOK /\ s # <<>> /\ Head(s).fn = "Monitor"
        /\ UNCHANGED <<config, st, registered, wait, proc, active, stream, queue>>
    BY DEF Actors, LifeInv, MonitorWake, At
  <1>2. /\ s \in Seq(Frames) /\ Len(s) >= 1 /\ Head(s) = s[1] /\ 1 \in DOMAIN s /\ s[1] \in Frames
    BY <1>1, MonitorTop
  <1>3. SameProcess
    BY <1>1 DEF SameProcess, Known, ProcInv, AutoInv
  <1>4. \A i \in DOMAIN s : MonitorFrame(s, i)
    BY DEF ProcInv, MonitorInv
  <1>5. \A i \in DOMAIN s : i # 1 => s[i].fn = "AutoRm" /\ s[i].pc = "begin"
    <2> HIDE DEF s
    <2> QED BY <1>1, <1>2, <1>4 DEF MonitorFrame
  <1>6. CASE CallThen(Monitor, "started", "Start", FALSE)
    <2> DEFINE f == [fn |-> "Start", pc |-> "begin", flag |-> FALSE]
               g == [Head(s) EXCEPT !.pc = "started"]
    <2>1. /\ f \in Frames /\ f.fn = "Start" /\ f.pc = "begin" /\ ~f.flag
          /\ g \in Frames /\ g.fn = "Monitor" /\ g.pc = "started"
      <3>1. "started" \in Pcs /\ "begin" \in Pcs /\ "Start" \in Fns
        BY DEF Pcs, Fns
      <3> QED BY <1>1, <1>2, <3>1 DEF Frames
    <2>2. t = <<f, g>> \o Tail(s) /\ \A b \in Others : stack'[b] = stack[b]
      BY <1>1, <1>6 DEF CallThen, TypeOK, Others, Frame
    <2> HIDE DEF f, g
    <2>3. /\ 1 \in DOMAIN t /\ 2 \in DOMAIN t /\ t[1] = f /\ t[2] = g
          /\ \A i \in DOMAIN t : i \in {1, 2} \/ (i - 1 \in DOMAIN s /\ i - 1 # 1 /\ t[i] = s[i - 1])
      BY <1>2, <2>1, <2>2, PushedAt
    <2> HIDE DEF s, t
    <2>4. \A i \in DOMAIN t : MonitorFrame(t, i)
      BY <1>5, <2>1, <2>3 DEF MonitorFrame
    <2>5. (\E i \in DOMAIN s : s[i].fn = "Monitor") /\ (\E i \in DOMAIN t : t[i].fn = "Monitor")
      BY <1>1, <1>2, <2>1, <2>3
    <2>6. MonitorInv' /\ RestartingInv'
      BY <1>1, <2>4, <2>5 DEF ProcInv, MonitorInv, RestartingInv, s, t
    <2> QED BY <1>3, <2>2, <2>6, MonitorOthers DEF ProcInv
  <1>7. CASE Goto(Monitor, "stop")
    <2> DEFINE f == [Head(s) EXCEPT !.pc = "stop"]
    <2>1. f \in Frames /\ f.fn = "Monitor" /\ f.pc = "stop"
      <3>1. "stop" \in Pcs
        BY DEF Pcs
      <3> QED BY <1>1, <1>2, <3>1 DEF Frames
    <2>2. t = <<f>> \o Tail(s) /\ \A b \in Others : stack'[b] = stack[b]
      BY <1>1, <1>7 DEF Goto, TypeOK, Others
    <2> HIDE DEF f
    <2>3. /\ DOMAIN t = DOMAIN s /\ t[1] = f /\ 1 \in DOMAIN t
          /\ \A i \in DOMAIN t : i # 1 => t[i] = s[i]
      BY <1>2, <2>1, <2>2, ReplacedAt
    <2> HIDE DEF s, t
    <2>4. \A i \in DOMAIN t : MonitorFrame(t, i)
      BY <1>5, <2>1, <2>3 DEF MonitorFrame
    <2>5. (\E i \in DOMAIN s : s[i].fn = "Monitor") /\ (\E i \in DOMAIN t : t[i].fn = "Monitor")
      BY <1>1, <1>2, <2>1, <2>3
    <2>6. MonitorInv' /\ RestartingInv'
      BY <1>1, <2>4, <2>5 DEF ProcInv, MonitorInv, RestartingInv, s, t
    <2> QED BY <1>3, <2>2, <2>6, MonitorOthers DEF ProcInv
  <1> QED BY <1>6, <1>7 DEF MonitorWake

\* What SetStopped and SetRestarting record.
LEMMA StoppedIs ==
  ASSUME NEW s \in States
  PROVE  /\ ~SetStopped(s).running /\ ~SetStopped(s).restarting /\ SetStopped(s).pid = 0
         /\ SetStopped(s).autoRemove = s.autoRemove
         /\ SetRestarting(s).running /\ SetRestarting(s).restarting /\ SetRestarting(s).pid = 0
         /\ SetRestarting(s).autoRemove = s.autoRemove
  <1>1. /\ ~SetStopped(s).running /\ ~SetStopped(s).restarting /\ SetStopped(s).pid = 0
        /\ SetStopped(s).autoRemove = s.autoRemove
    BY DEF SetStopped, States
  <1>2. /\ SetRestarting(s).running /\ SetRestarting(s).restarting /\ SetRestarting(s).pid = 0
        /\ SetRestarting(s).autoRemove = s.autoRemove
    BY DEF SetRestarting, States
  <1> QED BY <1>1, <1>2

\* It records, without the lock, that the container stopped: nothing had been started, since
\* the container waited to be restarted.
LEMMA MonitorStopProc ==
  ASSUME LifeInv, ProcInv, MonitorStop
  PROVE  ProcInv'
  <1> DEFINE s == stack[Monitor]
             t == stack'[Monitor]
             f == [fn |-> "AutoRm", pc |-> "begin", flag |-> FALSE]
  <1>1. /\ Monitor \in Actors /\ TypeOK /\ s # <<>> /\ Head(s).fn = "Monitor" /\ st \in States
        /\ wait \in [Actors -> {"no", "waiting", "fired"}]
        /\ st' = SetStopped(st) /\ FireWaiters /\ TailCall(Monitor, "AutoRm", FALSE)
        /\ UNCHANGED <<config, registered, proc, active, stream, queue>>
    BY DEF Actors, LifeInv, TypeOK, MonitorStop, At
  <1>2. /\ s \in Seq(Frames) /\ Len(s) >= 1 /\ Head(s) = s[1] /\ 1 \in DOMAIN s
    BY <1>1, MonitorTop
  <1>3. \A i \in DOMAIN s : MonitorFrame(s, i)
    BY DEF ProcInv, MonitorInv
  <1>4. \A i \in DOMAIN s : i # 1 => s[i].fn = "AutoRm" /\ s[i].pc = "begin"
    <2> HIDE DEF s
    <2> QED BY <1>1, <1>2, <1>3 DEF MonitorFrame
  <1>5. st.restarting
    BY <1>1, <1>2 DEF ProcInv, RestartingInv
  <1>6. ~st'.running /\ ~st'.restarting /\ st'.pid = 0 /\ st'.autoRemove = st.autoRemove
    BY <1>1, StoppedIs
  <1>7. f \in Frames /\ f.fn = "AutoRm" /\ f.pc = "begin"
    BY DEF Frames, Fns, Pcs
  <1>8. t = <<f>> \o Tail(s) /\ \A b \in Others : stack'[b] = stack[b]
    BY <1>1 DEF TailCall, TypeOK, Others, Frame
  <1> HIDE DEF f
  <1>9. /\ DOMAIN t = DOMAIN s /\ t[1] = f /\ \A i \in DOMAIN t : i # 1 => t[i] = s[i]
    BY <1>2, <1>7, <1>8, ReplacedAt
  <1>10. \A i \in DOMAIN t : t[i].fn = "AutoRm" /\ t[i].pc = "begin"
    <2> HIDE DEF s, t
    <2> QED BY <1>4, <1>7, <1>9
  <1>11. MonitorInv'
    BY <1>1, <1>10 DEF MonitorInv, MonitorFrame, ProcInv
  <1>12. RestartingInv'
    BY <1>6, <1>10 DEF RestartingInv
  <1>13. AutoInv'
    BY <1>1, <1>6, <1>8 DEF AutoInv, ProcInv
  <1>14. ClientStartInv'
    BY <1>6, <1>8 DEF ClientStartInv, ProcInv
  <1>15. ExitInv'
    BY <1>1 DEF ExitInv, ProcInv, Known, Pipeline
  <1>16. UpInv'
    BY <1>1, <1>5, <1>6, ExitMeansUp DEF UpInv, Up, Known, Pipeline
  <1>17. WaitInv'
    BY <1>1 DEF WaitInv, FireWaiters
  <1>18. PauseInv'
    <2>1. \A type : Coming(type) => Coming(type)'
      BY <1>1 DEF Coming, Pipeline, Known
    <2> QED BY <1>8, <2>1 DEF PauseInv, ProcInv
  <1> QED BY <1>11, <1>12, <1>13, <1>14, <1>15, <1>16, <1>17, <1>18 DEF ProcInv
--------------------------------------------------------------------------------
(* Pausing *)

\* While containerd has the container no exit is under way.
LEMMA KnownMeansNoExit ==
  ASSUME ProcInv, Known
  PROVE  \A i \in DOMAIN Pipeline : Pipeline[i].type # "exit"
  BY DEF ProcInv, ExitInv

\* An event that containerd sends of a container it knows comes behind all others.
LEMMA SendsEvent ==
  ASSUME LifeInv, ProcInv, Known, Known', NEW type \in {"pause", "resume"},
         stream' = Append(stream, Event(type, 0)), UNCHANGED <<queue, active, registered>>,
         st' = st, proc'.gen = proc.gen
  PROVE  (ExitInv /\ UpInv)' /\ Coming(type)'
  <1> DEFINE e == Event(type, 0)
             n == Len(queue) + Len(stream) + 1
  <1>1. queue \in Seq(Events) /\ stream \in Seq(Events) /\ TypeOK /\ GenInv
    BY DEF LifeInv, TypeOK
  <1>2. e \in Events /\ e.type = type
    <2>1. proc.gen \in 1..MaxStarts
      BY <1>1, ConfigAssumption DEF TypeOK, GenInv, Known
    <2> QED BY <2>1 DEF Event, Events
  <1> HIDE DEF e
  <1>3. stream' = Append(stream, e) /\ queue' = queue
    BY DEF e
  <1>4. /\ DOMAIN Pipeline' = 1..n
        /\ \A i \in 1..(Len(queue) + Len(stream)) : Pipeline'[i] = Pipeline[i]
        /\ Pipeline'[n] = e
    BY <1>1, <1>2, <1>3, PipelineAppend DEF Pipeline
  <1>5. DOMAIN Pipeline = 1..(Len(queue) + Len(stream))
    BY <1>1, PipelineAt DEF Pipeline
  <1>6. Len(queue) \in Nat /\ Len(stream) \in Nat
    BY <1>1
  <1>7. \A i \in DOMAIN Pipeline' : Pipeline'[i].type # "exit"
    <2>1. ASSUME NEW i \in DOMAIN Pipeline' PROVE Pipeline'[i].type # "exit"
      <3>1. i = n \/ i \in 1..(Len(queue) + Len(stream))
        BY <1>4, <1>6, <2>1
      <3> QED BY <1>2, <1>4, <1>5, <3>1, KnownMeansNoExit
    <2> QED BY <2>1
  <1>8. ExitInv'
    <2>1. active'
      BY DEF ProcInv, ExitInv
    <2> QED BY <1>7, <2>1 DEF ExitInv
  <1>9. UpInv'
    BY DEF ProcInv, UpInv, Up
  <1>10. n \in DOMAIN Pipeline'
    BY <1>4, <1>6
  <1>11. Coming(type)'
    <2>1. \A j \in 1..n : Pipeline'[j].type # "exit"
      BY <1>4, <1>7
    <2> QED BY <1>2, <1>4, <1>10, <2>1 DEF Coming
  <1> QED BY <1>8, <1>9, <1>11

\* containerPause and containerUnpause fail at once, or wait with the lock for the event
\* that containerd has just sent.
LEMMA PauseBeginProc ==
  ASSUME LifeInv, ProcInv, NEW a \in Others, PauseBegin(a) \/ UnpauseBegin(a)
  PROVE  ProcInv'
  <1>1. /\ a \in Actors /\ TypeOK /\ stack[a] # <<>> /\ lock = NoOne
        /\ Head(stack[a]).fn \in {"Pause", "Unpause"}
        /\ UNCHANGED <<config, st, registered, rm, ch, wait, active, queue>>
    BY DEF Others, LifeInv, PauseBegin, UnpauseBegin, At, LockFree
  <1>2. CASE Return(a, "err") /\ UNCHANGED <<lock, proc, stream>>
    <2>1. QuietMove(a)
      BY <1>1, <1>2, ReturnQuiet
    <2>2. SameProcess
      BY <1>1, <1>2 DEF SameProcess, Known, ProcInv, AutoInv
    <2> QED BY <2>1, <2>2, QuietKeeps
  <1>3. ASSUME NEW type \in {"pause", "resume"},
               Known, Goto(a, "event"), \E b \in BOOLEAN : proc' = [proc EXCEPT !.frozen = b],
               stream' = Append(stream, Event(type, 0)),
               Head(stack[a]).fn = IF type = "pause" THEN "Pause" ELSE "Unpause"
        PROVE  ProcInv'
    <2> DEFINE f == [Head(stack[a]) EXCEPT !.pc = "event"]
    <2>1. proc'.gen = proc.gen /\ proc'.state = proc.state /\ Known'
      BY <1>1, <1>3 DEF TypeOK, Known
    <2>2. (ExitInv /\ UpInv)' /\ Coming(type)'
      BY <1>1, <1>3, <2>1, SendsEvent
    <2>3. WaitInv'
      BY <1>1 DEF WaitInv, ProcInv
    <2>4. f \in Frames /\ f.pc = "event" /\ f.fn = Head(stack[a]).fn
      <3>1. Head(stack[a]) \in Frames /\ "event" \in Pcs
        BY <1>1, HeadFrame DEF Pcs
      <3> QED BY <3>1 DEF Frames
    <2>5. Moves(a, {f})
      BY <1>1, <1>3, GotoMoves DEF Pcs
    <2> HIDE DEF f
    <2>6. \A b \in Others : \A i \in DOMAIN stack'[b] :
            stack'[b][i] = f \/ \E j \in DOMAIN stack[b] : stack'[b][i] = stack[b][j]
      BY <2>5 DEF Moves, Others
    <2>7. stack'[Monitor] = stack[Monitor]
      BY <2>5 DEF Moves, Others, Actors
    <2>8. MonitorInv' /\ RestartingInv'
      BY <1>1, <2>7 DEF ProcInv, MonitorInv, MonitorFrame, RestartingInv
    <2>9. f.fn \in {"Pause", "Unpause"}
      BY <1>1, <2>4
    <2>10. AutoInv'
      BY <1>1, <2>6, <2>9 DEF ProcInv, AutoInv, Saves
    <2>11. ClientStartInv'
      BY <1>1, <2>6, <2>9 DEF ProcInv, ClientStartInv, Creating
    <2>12. PauseInv'
      <3>1. ASSUME NEW b \in Others, NEW i \in DOMAIN stack'[b], stack'[b][i].pc = "event",
                   stack'[b][i].fn \in {"Pause", "Unpause"}
            PROVE  stack'[b][i] = f
        <4>1. \A j \in DOMAIN stack[b] : ~Pausing(stack[b][j])
          BY <1>1, NobodyHolds DEF Others
        <4> QED BY <2>6, <3>1, <4>1 DEF Pausing
      <3> QED BY <1>3, <2>2, <2>4, <3>1 DEF PauseInv
    <2> QED BY <2>2, <2>3, <2>8, <2>10, <2>11, <2>12 DEF ProcInv
  <1>4. CASE PauseBegin(a)
    <2>1. \/ Return(a, "err") /\ UNCHANGED <<lock, proc, stream>>
          \/ /\ Known /\ Goto(a, "event") /\ proc' = [proc EXCEPT !.frozen = TRUE]
             /\ stream' = Append(stream, Event("pause", 0)) /\ Head(stack[a]).fn = "Pause"
      BY <1>4 DEF PauseBegin, At
    <2> QED BY <1>2, <1>3, <2>1
  <1>5. CASE UnpauseBegin(a)
    <2>1. \/ Return(a, "err") /\ UNCHANGED <<lock, proc, stream>>
          \/ /\ Known /\ Goto(a, "event") /\ proc' = [proc EXCEPT !.frozen = FALSE]
             /\ stream' = Append(stream, Event("resume", 0)) /\ Head(stack[a]).fn = "Unpause"
      BY <1>5 DEF UnpauseBegin, At
    <2> QED BY <1>2, <1>3, <2>1
  <1> QED BY <1>1, <1>4, <1>5
--------------------------------------------------------------------------------
(* The process, containerd and libcontainerd *)

\* Steps that leave the actors and the daemon's state alone.
LEMMA OutsideKeeps ==
  ASSUME ProcInv, UNCHANGED <<config, st, registered, stack, wait>>
  PROVE  (MonitorInv /\ RestartingInv /\ AutoInv /\ ClientStartInv /\ WaitInv)'
  BY DEF ProcInv, MonitorInv, MonitorFrame, RestartingInv, AutoInv, ClientStartInv, WaitInv

\* The timer, and a process that exits: containerd still has it.
LEMMA ExitsProc ==
  ASSUME LifeInv, ProcInv, RestartTimer \/ ProcessExit
  PROVE  ProcInv'
  <1>1. UNCHANGED <<config, st, registered, stack, wait, active, stream, queue>>
    BY DEF RestartTimer, ProcessExit
  <1>2. Known' = Known /\ proc'.gen = proc.gen
    BY DEF RestartTimer, ProcessExit, Known, LifeInv, TypeOK
  <1>3. (ExitInv /\ UpInv)'
    BY <1>1, <1>2 DEF ProcInv, ExitInv, UpInv, Up, Pipeline
  <1>4. PauseInv'
    <2>1. \A t : Coming(t) => Coming(t)'
      BY <1>1, <1>2 DEF Coming, Pipeline
    <2> QED BY <1>1, <2>1 DEF ProcInv, PauseInv
  <1> QED BY <1>1, <1>3, <1>4, OutsideKeeps DEF ProcInv

\* containerd reports the exit, behind all other events.
LEMMA ContainerdExitProc ==
  ASSUME LifeInv, ProcInv, ContainerdExit
  PROVE  ProcInv'
  <1>1. UNCHANGED <<config, st, registered, stack, wait, active, queue>>
    BY DEF ContainerdExit
  <1>2. queue \in Seq(Events) /\ stream \in Seq(Events) /\ TypeOK /\ GenInv
    BY DEF LifeInv, TypeOK
  <1>3. Known /\ ~Known' /\ proc'.gen = proc.gen
    BY <1>2 DEF ContainerdExit, Known, TypeOK
  <1>4. PICK e \in Events : e.type = "exit" /\ e.gen = proc.gen /\ stream' = Append(stream, e)
    <2>1. PICK code \in {0, 1} : stream' = Append(stream, Event("exit", code))
      BY DEF ContainerdExit
    <2>2. proc.gen \in 1..MaxStarts
      BY <1>2, <1>3, ConfigAssumption DEF TypeOK, GenInv, Known
    <2>3. Event("exit", code) \in Events /\ Event("exit", code).type = "exit"
          /\ Event("exit", code).gen = proc.gen
      BY <2>2 DEF Event, Events
    <2> QED BY <2>1, <2>3
  <1> DEFINE m == Len(queue) + Len(stream)
  <1>5. /\ DOMAIN Pipeline' = 1..(m + 1) /\ DOMAIN Pipeline = 1..m
        /\ \A i \in 1..m : Pipeline'[i] = Pipeline[i]
        /\ Pipeline'[m + 1] = e
    BY <1>1, <1>2, <1>4, PipelineAppend, PipelineAt DEF Pipeline
  <1>6. m \in Nat
    BY <1>2
  <1> HIDE DEF m
  <1>7. \A i \in 1..m : Pipeline'[i].type # "exit"
    BY <1>3, <1>5, KnownMeansNoExit
  <1>8. \A i \in DOMAIN Pipeline' : Pipeline'[i].type = "exit" => i = m + 1
    BY <1>5, <1>6, <1>7
  <1>9. ExitIn(stream')
    <2>1. Len(stream) + 1 \in DOMAIN Append(stream, e) /\ Append(stream, e)[Len(stream) + 1] = e
      BY <1>2
    <2> QED BY <1>4, <2>1 DEF ExitIn
  <1>10. ExitInv'
    <2>1. active
      BY <1>3 DEF ProcInv, ExitInv
    <2> QED BY <1>1, <1>3, <1>4, <1>5, <1>8, <1>9, <2>1 DEF ExitInv
  <1>11. UpInv'
    <2>1. ExitIn(Pipeline')
      BY <1>4, <1>5, <1>6 DEF ExitIn
    <2> QED BY <1>1, <1>3, <2>1 DEF ProcInv, UpInv, Up
  <1>12. PauseInv'
    <2>1. ASSUME NEW t, Coming(t) PROVE Coming(t)'
      <3>1. PICK i \in DOMAIN Pipeline : Pipeline[i].type = t
        BY <2>1 DEF Coming
      <3>2. i \in DOMAIN Pipeline' /\ Pipeline'[i].type = t /\ m + 1 \in DOMAIN Pipeline' /\ m + 1 > i
        BY <1>5, <1>6, <3>1
      <3>3. \A j \in 1..i : Pipeline'[j].type # "exit"
        BY <1>5, <1>6, <1>7, <3>1
      <3> QED BY <1>4, <1>5, <3>2, <3>3 DEF Coming
    <2> QED BY <1>1, <2>1 DEF ProcInv, PauseInv
  <1> QED BY <1>1, <1>10, <1>11, <1>12, OutsideKeeps DEF ProcInv

\* An exit at the stream's head or behind it.
LEMMA StreamTail ==
  ASSUME NEW s \in Seq(Events), s # <<>>
  PROVE  ExitIn(s) <=> Head(s).type = "exit" \/ ExitIn(Tail(s))
  <1>1. Len(s) >= 1 /\ Tail(s) \in Seq(Events) /\ Len(Tail(s)) = Len(s) - 1 /\ Head(s) = s[1]
    BY EmptySeq
  <1>2. \A i \in 1..Len(Tail(s)) : Tail(s)[i] = s[i + 1] /\ i + 1 \in 1..Len(s)
    BY <1>1
  <1>3. ASSUME ExitIn(s) PROVE Head(s).type = "exit" \/ ExitIn(Tail(s))
    <2>1. PICK i \in 1..Len(s) : s[i].type = "exit"
      BY <1>3 DEF ExitIn
    <2>2. CASE i = 1
      BY <1>1, <2>1, <2>2
    <2>3. CASE i # 1
      <3>1. i - 1 \in 1..Len(Tail(s)) /\ (i - 1) + 1 = i
        BY <1>1, <2>3
      <3>2. Tail(s)[i - 1].type = "exit"
        BY <1>2, <2>1, <3>1
      <3>3. i - 1 \in DOMAIN Tail(s)
        BY <1>1, <3>1
      <3> QED BY <3>2, <3>3 DEF ExitIn
    <2> QED BY <2>2, <2>3
  <1>4. ASSUME Head(s).type = "exit" PROVE ExitIn(s)
    BY <1>1, <1>4 DEF ExitIn
  <1>5. ASSUME ExitIn(Tail(s)) PROVE ExitIn(s)
    BY <1>1, <1>2, <1>5 DEF ExitIn
  <1> QED BY <1>3, <1>4, <1>5

\* When no exit is in the stream all are among the callbacks.
LEMMA ExitsAreCallbacks ==
  ASSUME NEW q \in Seq(Events), NEW s \in Seq(Events), ~ExitIn(s),
         NEW i \in DOMAIN (q \o s), (q \o s)[i].type = "exit"
  PROVE  i \in 1..Len(q)
  <1>1. i \in 1..(Len(q) + Len(s))
    BY PipelineAt
  <1>2. CASE i \notin 1..Len(q)
    <2>1. i - Len(q) \in 1..Len(s) /\ (q \o s)[i] = s[i - Len(q)]
      BY <1>1, <1>2
    <2> QED BY <2>1 DEF ExitIn
  <1> QED BY <1>2

\* libcontainerd queues an event of a container in its client map, and takes the container
\* out of the map with its exit; other events are dropped.
LEMMA HandleEventProc ==
  ASSUME LifeInv, ProcInv, HandleEvent
  PROVE  ProcInv'
  <1>1. /\ UNCHANGED <<config, st, registered, stack, wait, proc>>
        /\ stream # <<>> /\ stream' = Tail(stream)
        /\ queue' = IF active THEN Append(queue, Head(stream)) ELSE queue
        /\ active' = (active /\ Head(stream).type # "exit")
    BY DEF HandleEvent
  <1>2. queue \in Seq(Events) /\ stream \in Seq(Events) /\ active \in BOOLEAN
    BY DEF LifeInv, TypeOK
  <1>3. Known' = Known
    BY <1>1 DEF Known
  <1>4. ExitInv /\ UpInv /\ PauseInv
    BY DEF ProcInv
  <1>5. ExitIn(stream) <=> Head(stream).type = "exit" \/ ExitIn(Tail(stream))
    BY <1>1, <1>2, StreamTail
  <1>6. Tail(stream) \in Seq(Events)
    BY <1>1, <1>2, EmptySeq
  <1>7. CASE active
    <2>1. Pipeline' = Pipeline
      BY <1>1, <1>2, <1>7, PipelineMoves DEF Pipeline
    <2>2. ASSUME Head(stream).type = "exit", ExitIn(Tail(stream)) PROVE FALSE
      <3>1. PICK i \in 1..Len(Tail(stream)) : Tail(stream)[i].type = "exit"
        BY <2>2 DEF ExitIn
      <3>2. i + 1 \in 1..Len(stream) /\ i + 1 # 1 /\ stream[i + 1].type = "exit"
        BY <1>2, <1>6, <3>1
      <3>3. 1 \in 1..Len(stream) /\ stream[1].type = "exit"
        BY <1>1, <1>2, <2>2, EmptySeq
      <3>4. /\ Pipeline[Len(queue) + (i + 1)] = stream[i + 1]
            /\ Pipeline[Len(queue) + 1] = stream[1]
            /\ Len(queue) + (i + 1) \in DOMAIN Pipeline /\ Len(queue) + 1 \in DOMAIN Pipeline
        BY <1>2, <3>2, <3>3, PipelineAt DEF Pipeline
      <3>5. Len(queue) + (i + 1) = Len(queue) + 1
        BY <1>4, <3>2, <3>3, <3>4 DEF ExitInv
      <3> QED BY <1>2, <3>2, <3>5
    <2>3. Head(stream).type = "exit" => ~Known
      <3>1. 1 \in 1..Len(stream) /\ stream[1] = Head(stream)
        BY <1>1, <1>2, EmptySeq
      <3>2. Pipeline[Len(queue) + 1] = stream[1] /\ Len(queue) + 1 \in DOMAIN Pipeline
        BY <1>2, <3>1, PipelineAt DEF Pipeline
      <3> QED BY <1>4, <3>1, <3>2 DEF ExitInv
    <2>4. active' <=> Known' \/ ExitIn(stream')
      BY <1>1, <1>3, <1>4, <1>5, <1>7, <2>2, <2>3 DEF ExitInv
    <2>5. ExitInv'
      BY <1>1, <1>3, <1>4, <2>1, <2>4 DEF ExitInv
    <2>6. UpInv'
      BY <1>1, <1>3, <1>4, <2>1 DEF UpInv, Up
    <2>7. PauseInv'
      <3>1. \A t : Coming(t) => Coming(t)'
        BY <1>3, <2>1 DEF Coming
      <3> QED BY <1>1, <1>4, <3>1 DEF PauseInv
    <2> QED BY <1>1, <2>5, <2>6, <2>7, OutsideKeeps DEF ProcInv
  <1>8. CASE ~active
    <2>1. ~Known /\ ~ExitIn(stream) /\ ~ExitIn(Tail(stream))
      BY <1>4, <1>5, <1>8 DEF ExitInv
    <2>2. Pipeline' = queue \o Tail(stream) /\ queue' = queue
      BY <1>1, <1>8 DEF Pipeline
    <2>3. ExitIn(Pipeline') <=> ExitIn(Pipeline)
      BY <1>2, <1>6, <2>1, <2>2, PipelineExit DEF Pipeline
    <2>4. \A i \in 1..Len(queue) : /\ i \in DOMAIN Pipeline' /\ i \in DOMAIN Pipeline
                                   /\ Pipeline'[i] = Pipeline[i]
      <3>1. \A i \in 1..Len(queue) : i \in DOMAIN Pipeline
        BY <1>2, PipelineAt DEF Pipeline
      <3> QED BY <1>1, <1>2, <2>2, <3>1, PipelineDrops DEF Pipeline
    <2>5. \A i \in DOMAIN Pipeline' : Pipeline'[i].type = "exit" => i \in 1..Len(queue)
      BY <1>2, <1>6, <2>1, <2>2, ExitsAreCallbacks
    <2>6. \A i \in DOMAIN Pipeline : Pipeline[i].type = "exit" => i \in 1..Len(queue)
      BY <1>2, <2>1, ExitsAreCallbacks DEF Pipeline
    <2>7. ExitInv'
      <3>1. active' <=> Known' \/ ExitIn(stream')
        BY <1>1, <1>3, <1>8, <2>1
      <3> QED BY <1>1, <1>3, <1>4, <2>4, <2>5, <3>1 DEF ExitInv
    <2>8. UpInv'
      BY <1>1, <1>3, <1>4, <2>3 DEF UpInv, Up
    <2>9. PauseInv'
      <3>1. ASSUME NEW t, Coming(t) PROVE Coming(t)'
        <4>1. PICK i \in DOMAIN Pipeline : /\ Pipeline[i].type = t
                                           /\ \A j \in 1..i : Pipeline[j].type # "exit"
                                           /\ \E j \in DOMAIN Pipeline : j > i /\ Pipeline[j].type = "exit"
          BY <2>1, <3>1 DEF Coming
        <4>2. PICK j \in DOMAIN Pipeline : j > i /\ Pipeline[j].type = "exit"
          BY <4>1
        <4>3. j \in 1..Len(queue) /\ i \in Nat /\ i >= 1
          BY <1>2, <2>6, <4>1, <4>2, PipelineAt DEF Pipeline
        <4>4. i \in 1..Len(queue) /\ 1..i \subseteq 1..Len(queue)
          BY <1>2, <4>2, <4>3
        <4>5. \A k \in 1..i : Pipeline'[k].type # "exit"
          BY <2>4, <4>1, <4>4
        <4>6. i \in DOMAIN Pipeline' /\ Pipeline'[i].type = t
          BY <2>4, <4>1, <4>4
        <4>7. j \in DOMAIN Pipeline' /\ Pipeline'[j].type = "exit"
          BY <2>4, <4>2, <4>3
        <4> QED BY <4>2, <4>5, <4>6, <4>7 DEF Coming
      <3> QED BY <1>1, <1>4, <3>1 DEF PauseInv
    <2> QED BY <1>1, <2>7, <2>8, <2>9, OutsideKeeps DEF ProcInv
  <1> QED BY <1>2, <1>7, <1>8
--------------------------------------------------------------------------------
(* StateChanged *)

\* An exit that reaches StateChanged is the only one, and nobody waits for a pause.
LEMMA ExitTaken ==
  ASSUME LifeInv, ProcInv, StateExit
  PROVE  /\ ~Known /\ UNCHANGED <<config, registered, proc>> /\ Known' = Known
         /\ ~ExitIn(Pipeline') /\ ExitInv'
         /\ registered => Up
         /\ \A a \in Others : \A i \in DOMAIN stack[a] : stack[a][i].pc = "event" =>
              stack[a][i].fn \notin {"Pause", "Unpause"}
  <1>1. /\ UNCHANGED <<config, registered, proc, active, stream>> /\ queue' = Tail(queue)
        /\ queue # <<>> /\ Head(queue).type = "exit"
    BY DEF StateExit, Callback
  <1>2. queue \in Seq(Events) /\ stream \in Seq(Events) /\ ExitInv /\ UpInv /\ PauseInv
    BY DEF LifeInv, TypeOK, ProcInv
  <1>3. /\ \A i \in DOMAIN Pipeline' : i + 1 \in DOMAIN Pipeline /\ Pipeline'[i] = Pipeline[i + 1]
        /\ 1 \in DOMAIN Pipeline /\ Pipeline[1].type = "exit"
        /\ DOMAIN Pipeline' = 1..(Len(queue) + Len(stream) - 1)
    BY <1>1, <1>2, PipelineTail DEF Pipeline
  <1>4. ~Known /\ ExitIn(Pipeline) /\ Known' = Known
    BY <1>1, <1>2, <1>3 DEF ExitInv, ExitIn, Known
  <1>5. \A i \in DOMAIN Pipeline' : Pipeline'[i].type # "exit"
    <2>1. ASSUME NEW i \in DOMAIN Pipeline', Pipeline'[i].type = "exit" PROVE FALSE
      <3>1. i + 1 = 1
        BY <1>2, <1>3, <2>1 DEF ExitInv
      <3>2. i \in 1..(Len(queue) + Len(stream) - 1)
        BY <1>3
      <3> QED BY <3>1, <3>2
    <2> QED BY <2>1
  <1>6. ~ExitIn(Pipeline')
    BY <1>5 DEF ExitIn
  <1>7. ExitInv'
    BY <1>1, <1>2, <1>4, <1>5 DEF ExitInv
  <1>8. registered => Up
    BY <1>2, <1>4 DEF UpInv
  <1>9. \A type : ~Coming(type)
    <2>1. ASSUME NEW type, NEW i \in DOMAIN Pipeline, \A j \in 1..i : Pipeline[j].type # "exit"
          PROVE  FALSE
      <3>1. i \in Nat /\ i >= 1
        BY <1>2, PipelineAt DEF Pipeline
      <3>2. 1 \in 1..i
        BY <3>1
      <3> QED BY <1>3, <2>1, <3>2
    <2> QED BY <2>1 DEF Coming
  <1>10. \A a \in Others : \A i \in DOMAIN stack[a] : stack[a][i].pc = "event" =>
           stack[a][i].fn \notin {"Pause", "Unpause"}
    BY <1>2, <1>9 DEF PauseInv
  <1> QED BY <1>1, <1>4, <1>6, <1>7, <1>8, <1>10

\* StateExit of a container that is in the index: it was up; now it is stopped, or waits to
\* be restarted, and whoever waited has been told.
LEMMA StateExitProc ==
  ASSUME LifeInv, ProcInv, StateExit
  PROVE  ProcInv'
  <1>1. /\ ~Known /\ UNCHANGED <<config, registered, proc>> /\ Known' = Known
        /\ ~ExitIn(Pipeline') /\ ExitInv'
        /\ registered => Up
        /\ \A a \in Others : \A i \in DOMAIN stack[a] : stack[a][i].pc = "event" =>
             stack[a][i].fn \notin {"Pause", "Unpause"}
    BY ExitTaken
  <1>2. /\ TypeOK /\ st \in States /\ Worker \in Others /\ Worker \in Actors /\ Monitor \in Actors
        /\ stack \in [Actors -> Seq(Frames)] /\ wait \in [Actors -> {"no", "waiting", "fired"}]
    BY ActorsAssumption DEF LifeInv, TypeOK, Others, Actors
  <1>3. stack[Worker] = <<>>
    BY DEF StateExit, Callback
  <1>4. CASE ~registered /\ UNCHANGED <<st, rm, ch, stack, wait>>
    <2>1. UpInv' /\ WaitInv'
      BY <1>1, <1>4 DEF UpInv, WaitInv
    <2>2. PauseInv'
      BY <1>1, <1>4 DEF PauseInv
    <2> QED BY <1>1, <1>4, <2>1, <2>2, OutsideKeeps DEF ProcInv
  <1>5. ASSUME registered, FireWaiters, ~Up', st'.pid = 0 PROVE UpInv' /\ WaitInv'
    <2>1. UpInv'
      BY <1>1, <1>5 DEF UpInv
    <2>2. WaitInv'
      BY <1>2, <1>5 DEF WaitInv, FireWaiters
    <2> QED BY <2>1, <2>2
  <1>6. CASE /\ registered /\ LockFree /\ FireWaiters /\ config.policy # "no"
             /\ st' = SetRestarting(st)
             /\ stack' = [stack EXCEPT ![Monitor] = <<Frame("Monitor", FALSE)>> \o @]
    <2> DEFINE s == stack[Monitor]
               t == stack'[Monitor]
               f == [fn |-> "Monitor", pc |-> "begin", flag |-> FALSE]
    <2>1. st'.running /\ st'.restarting /\ st'.pid = 0 /\ st'.autoRemove = st.autoRemove
      BY <1>2, <1>6, StoppedIs
    <2>2. UpInv' /\ WaitInv'
      BY <1>5, <1>6, <2>1 DEF Up
    <2>3. f \in Frames /\ f.fn = "Monitor" /\ f.pc = "begin"
      BY DEF Frames, Fns, Pcs
    <2>4. t = <<f>> \o s /\ \A b \in Others : stack'[b] = stack[b]
      BY <1>2, <1>6 DEF Others, Frame
    <2>5. s \in Seq(Frames) /\ \A i \in DOMAIN s : MonitorFrame(s, i)
      BY <1>2 DEF ProcInv, MonitorInv
    <2>6. \A i \in DOMAIN s : s[i].fn # "Monitor"
      BY <1>1, <1>6 DEF ProcInv, RestartingInv, Up
    <2> HIDE DEF f
    <2>7. /\ 1 \in DOMAIN t /\ t[1] = f
          /\ \A i \in DOMAIN t : i = 1 \/ (i - 1 \in DOMAIN s /\ t[i] = s[i - 1])
      BY <2>3, <2>4, <2>5, GrownAt
    <2> HIDE DEF s, t
    <2>8. \A i \in DOMAIN s : s[i].fn = "AutoRm" /\ s[i].pc = "begin"
      BY <2>5, <2>6 DEF MonitorFrame
    <2>9. \A i \in DOMAIN t : MonitorFrame(t, i)
      BY <2>3, <2>7, <2>8 DEF MonitorFrame
    <2>10. MonitorInv' /\ RestartingInv'
      BY <1>1, <1>6, <2>1, <2>3, <2>7, <2>9 DEF MonitorInv, RestartingInv, t
    <2>11. AutoInv'
      BY <1>1, <2>1, <2>4 DEF ProcInv, AutoInv
    <2>12. ClientStartInv'
      <3>1. \A a \in Actors : \A i \in DOMAIN stack[a] : ~Creating(stack[a][i])
        BY <1>6, NobodyHolds DEF LockFree
      <3> QED BY <2>4, <3>1 DEF ProcInv, ClientStartInv, Others
    <2>13. PauseInv'
      BY <1>1, <2>4 DEF PauseInv
    <2> QED BY <1>1, <2>2, <2>10, <2>11, <2>12, <2>13 DEF ProcInv
  <1>7. CASE /\ registered /\ FireWaiters /\ st' = SetStopped(st)
             /\ stack' = [stack EXCEPT ![Worker] = <<Frame("AutoRm", FALSE)>>]
    <2> DEFINE f == Frame("AutoRm", FALSE)
    <2>1. ~st'.running /\ ~st'.restarting /\ st'.pid = 0 /\ st'.autoRemove = st.autoRemove
      BY <1>2, <1>7, StoppedIs
    <2>2. UpInv' /\ WaitInv'
      BY <1>5, <1>7, <2>1 DEF Up
    <2>3. f \in QuietFrames
      BY CalledQuiet DEF Fns
    <2> HIDE DEF f
    <2>4. stack'[Worker] = <<f>> /\ \A b \in Actors : b # Worker => stack'[b] = stack[b]
      BY <1>2, <1>7 DEF f
    <2>5. \A b \in Others : \A i \in DOMAIN stack'[b] :
            stack'[b][i] \in QuietFrames \/ (i \in DOMAIN stack[b] /\ stack'[b][i] = stack[b][i])
      BY <2>3, <2>4 DEF Others
    <2>6. stack'[Monitor] = stack[Monitor]
      BY <1>2, <2>4, ActorsAssumption
    <2>7. MonitorInv' /\ RestartingInv'
      BY <1>1, <1>7, <2>1, <2>6 DEF ProcInv, MonitorInv, MonitorFrame, RestartingInv, Up
    <2>8. AutoInv'
      BY <1>1, <2>1, <2>5 DEF ProcInv, AutoInv, QuietFrames
    <2>9. ClientStartInv'
      BY <2>1, <2>5 DEF ProcInv, ClientStartInv, QuietFrames
    <2>10. PauseInv'
      BY <1>1, <2>5 DEF PauseInv, QuietFrames
    <2> QED BY <1>1, <2>2, <2>7, <2>8, <2>9, <2>10 DEF ProcInv
  <1>8. \/ ~registered /\ UNCHANGED <<st, rm, ch, stack, wait>>
        \/ /\ registered /\ LockFree /\ FireWaiters /\ config.policy # "no"
           /\ st' = SetRestarting(st)
           /\ stack' = [stack EXCEPT ![Monitor] = <<Frame("Monitor", FALSE)>> \o @]
        \/ /\ registered /\ FireWaiters /\ st' = SetStopped(st)
           /\ stack' = [stack EXCEPT ![Worker] = <<Frame("AutoRm", FALSE)>>]
    BY DEF StateExit, ShouldRestart
  <1> QED BY <1>4, <1>6, <1>7, <1>8

\* Taking a callback that is no exit moves every other event up.
LEMMA EventTaken ==
  ASSUME queue \in Seq(Events), stream \in Seq(Events), queue # <<>>, Head(queue).type # "exit",
         queue' = Tail(queue), stream' = stream
  PROVE  /\ \A i \in DOMAIN Pipeline' : i + 1 \in DOMAIN Pipeline /\ Pipeline'[i] = Pipeline[i + 1]
         /\ \A i \in DOMAIN Pipeline :
              i # 1 => i \in Nat /\ i - 1 \in DOMAIN Pipeline' /\ Pipeline'[i - 1] = Pipeline[i]
         /\ Pipeline[1] = Head(queue)
         /\ \A i \in DOMAIN Pipeline' : i \in Nat
         /\ ExitIn(Pipeline') <=> ExitIn(Pipeline)
         /\ \A type : type # Head(queue).type /\ Coming(type) /\ Known' = Known => Coming(type)'
  <1>1. /\ DOMAIN Pipeline' = 1..(Len(queue) + Len(stream) - 1)
        /\ \A i \in DOMAIN Pipeline' : i + 1 \in DOMAIN Pipeline /\ Pipeline'[i] = Pipeline[i + 1]
        /\ Pipeline[1] = Head(queue)
    BY PipelineTail DEF Pipeline
  <1>2. DOMAIN Pipeline = 1..(Len(queue) + Len(stream))
    BY PipelineAt DEF Pipeline
  <1>3. \A i \in DOMAIN Pipeline :
          i # 1 => i \in Nat /\ i - 1 \in DOMAIN Pipeline' /\ Pipeline'[i - 1] = Pipeline[i]
    <2>1. ASSUME NEW i \in DOMAIN Pipeline, i # 1
          PROVE  i \in Nat /\ i - 1 \in DOMAIN Pipeline' /\ (i - 1) + 1 = i
      BY <1>1, <1>2, <2>1
    <2> QED BY <1>1, <2>1
  <1>4. \A i \in DOMAIN Pipeline' : i \in Nat
    BY <1>1
  <1>5. ExitIn(Pipeline') <=> ExitIn(Pipeline)
    BY <1>1, <1>3 DEF ExitIn
  <1>6. ASSUME NEW type, type # Head(queue).type, Coming(type), Known' = Known
        PROVE  Coming(type)'
    <2>1. PICK i \in DOMAIN Pipeline :
            /\ Pipeline[i].type = type
            /\ \A j \in 1..i : Pipeline[j].type # "exit"
            /\ Known \/ \E j \in DOMAIN Pipeline : j > i /\ Pipeline[j].type = "exit"
      BY <1>6 DEF Coming
    <2>2. i # 1
      BY <1>1, <1>6, <2>1
    <2>3. i \in Nat /\ i - 1 \in DOMAIN Pipeline' /\ Pipeline'[i - 1].type = type
      BY <1>3, <2>1, <2>2
    <2>4. \A j \in 1..(i - 1) : Pipeline'[j].type # "exit"
      <3>1. ASSUME NEW j \in 1..(i - 1) PROVE Pipeline'[j].type # "exit"
        <4>1. j \in DOMAIN Pipeline' /\ j + 1 \in 1..i
          BY <1>1, <2>3
        <4> QED BY <1>1, <2>1, <4>1
      <3> QED BY <3>1
    <2>5. ASSUME NEW j \in DOMAIN Pipeline, j > i, Pipeline[j].type = "exit"
          PROVE  \E k \in DOMAIN Pipeline' : k > i - 1 /\ Pipeline'[k].type = "exit"
      <3>1. j \in Nat /\ j # 1
        BY <1>2, <2>3, <2>5, <2>2
      <3>2. j - 1 \in DOMAIN Pipeline' /\ Pipeline'[j - 1].type = "exit"
        BY <1>3, <2>5, <3>1
      <3>3. j - 1 > i - 1
        BY <2>3, <2>5, <3>1
      <3> QED BY <3>2, <3>3
    <2>6. Known' \/ \E k \in DOMAIN Pipeline' : k > i - 1 /\ Pipeline'[k].type = "exit"
      BY <1>6, <2>1, <2>5
    <2> QED BY <2>3, <2>4, <2>6 DEF Coming
  <1> QED BY <1>1, <1>3, <1>4, <1>5, <1>6

\* StatePause and StateResume: whoever waited for the event goes on.
LEMMA StatePauseProc ==
  ASSUME LifeInv, ProcInv, StatePause
  PROVE  ProcInv'
  <1>1. PICK type \in {"pause", "resume"} :
          /\ Callback(type)
          /\ st' = IF registered THEN [st EXCEPT !.paused = type = "pause"] ELSE st
          /\ stack' = [a \in Actors |->
               IF At(a, IF type = "pause" THEN "Pause" ELSE "Unpause", "event")
               THEN <<[Head(stack[a]) EXCEPT !.pc = "done"]>> ELSE stack[a]]
    BY DEF StatePause
  <1>2. /\ UNCHANGED <<config, registered, wait, proc, active, stream>> /\ queue' = Tail(queue)
        /\ queue # <<>> /\ Head(queue).type = type
    BY <1>1 DEF StatePause, Callback
  <1>3. /\ TypeOK /\ st \in States /\ queue \in Seq(Events) /\ stream \in Seq(Events)
        /\ Known' = Known /\ ExitInv /\ UpInv /\ PauseInv
    BY <1>2 DEF LifeInv, TypeOK, Known, ProcInv
  <1>4. /\ \A i \in DOMAIN Pipeline' : i + 1 \in DOMAIN Pipeline /\ Pipeline'[i] = Pipeline[i + 1]
        /\ \A i \in DOMAIN Pipeline' : i \in Nat
        /\ ExitIn(Pipeline') <=> ExitIn(Pipeline)
        /\ \A t : t # type /\ Coming(t) => Coming(t)'
    BY <1>1, <1>2, <1>3, EventTaken
  <1>5. /\ st'.running = st.running /\ st'.restarting = st.restarting
        /\ st'.pid = st.pid /\ st'.autoRemove = st.autoRemove
    BY <1>1, <1>3 DEF States
  <1>6. ExitInv'
    <2>1. ASSUME NEW i \in DOMAIN Pipeline', NEW j \in DOMAIN Pipeline',
                 Pipeline'[i].type = "exit", Pipeline'[j].type = "exit"
          PROVE  i = j
      <3>1. i + 1 = j + 1
        BY <1>3, <1>4, <2>1 DEF ExitInv
      <3> QED BY <1>4, <3>1
    <2>2. \A i \in DOMAIN Pipeline' :
            Pipeline'[i].type = "exit" => Pipeline'[i].gen = proc'.gen /\ ~Known'
      BY <1>2, <1>3, <1>4 DEF ExitInv
    <2> QED BY <1>2, <1>3, <2>1, <2>2 DEF ExitInv
  <1>7. UpInv' /\ WaitInv'
    BY <1>2, <1>3, <1>4, <1>5 DEF UpInv, Up, ProcInv, WaitInv
  <1>8. ASSUME NEW a \in Actors
        PROVE  \/ /\ stack'[a] = stack[a]
                  /\ ~At(a, IF type = "pause" THEN "Pause" ELSE "Unpause", "event")
               \/ /\ stack[a] # <<>> /\ Head(stack[a]).fn \in {"Pause", "Unpause"}
                  /\ \A i \in DOMAIN stack'[a] :
                       stack'[a][i].fn \in {"Pause", "Unpause"} /\ stack'[a][i].pc = "done"
    <2>1. CASE At(a, IF type = "pause" THEN "Pause" ELSE "Unpause", "event")
      <3> DEFINE f == [Head(stack[a]) EXCEPT !.pc = "done"]
      <3>1. stack[a] # <<>> /\ Head(stack[a]).fn \in {"Pause", "Unpause"}
        BY <2>1 DEF At
      <3>2. f.fn = Head(stack[a]).fn /\ f.pc = "done"
        BY <1>3, <3>1, HeadFrame, FrameAt DEF Pcs
      <3>3. stack'[a] = <<f>>
        BY <1>1, <2>1
      <3> HIDE DEF f
      <3> QED BY <3>1, <3>2, <3>3
    <2>2. CASE ~At(a, IF type = "pause" THEN "Pause" ELSE "Unpause", "event")
      BY <1>1, <2>2
    <2> QED BY <2>1, <2>2
  <1>9. stack'[Monitor] = stack[Monitor]
    <2>1. stack[Monitor] # <<>> => Head(stack[Monitor]).fn \in {"AutoRm", "Monitor", "Start"}
      BY MonitorTop DEF MonitorFrame
    <2> QED BY <1>8, <2>1 DEF Actors
  <1>10. MonitorInv' /\ RestartingInv'
    BY <1>2, <1>5, <1>9 DEF ProcInv, MonitorInv, MonitorFrame, RestartingInv
  <1>11. AutoInv'
    BY <1>2, <1>5, <1>8 DEF ProcInv, AutoInv, Saves, Others
  <1>12. ClientStartInv'
    BY <1>2, <1>5, <1>8 DEF ProcInv, ClientStartInv, Creating, Others
  <1>13. PauseInv'
    <2>1. ASSUME NEW a \in Others, NEW i \in DOMAIN stack'[a], stack'[a][i].pc = "event",
                 stack'[a][i].fn \in {"Pause", "Unpause"}
          PROVE  /\ stack'[a] = stack[a]
                 /\ stack'[a][i].fn = IF type = "pause" THEN "Unpause" ELSE "Pause"
      <3>1. a \in Actors /\ stack'[a] = stack[a]
            /\ ~At(a, IF type = "pause" THEN "Pause" ELSE "Unpause", "event")
        BY <1>8, <2>1 DEF Others
      <3>2. i = 1 /\ stack[a] # <<>>
        BY <2>1, <3>1 DEF LifeInv, LockInv, Holding, Pausing
      <3>3. Head(stack[a]) = stack[a][i]
        BY <1>3, <3>1, <3>2, HeadFrame
      <3> QED BY <2>1, <3>1, <3>2, <3>3 DEF At
    <2>2. "pause" # "resume" /\ "Pause" # "Unpause"
      OBVIOUS
    <2> QED BY <1>3, <1>4, <2>1, <2>2 DEF PauseInv
  <1> QED BY <1>6, <1>7, <1>10, <1>11, <1>12, <1>13 DEF ProcInv
--------------------------------------------------------------------------------
(* The theorems *)

\* At first there is no process and nothing under way.
LEMMA ProcessInit == Init => ProcInv
  <1> SUFFICES ASSUME Init PROVE ProcInv
    OBVIOUS
  <1>1. /\ \A a \in Actors : stack[a] = <<>> /\ wait[a] = "no"
        /\ stack[Monitor] = <<>>
        /\ ~st.running /\ ~st.restarting /\ st.pid = 0 /\ st.autoRemove = config.autoRemove
        /\ ~Known /\ ~active /\ stream = <<>> /\ queue = <<>>
    BY DEF Init, Actors, Known
  <1>2. MonitorInv /\ RestartingInv
    BY <1>1 DEF MonitorInv, RestartingInv
  <1>3. AutoInv /\ ClientStartInv /\ PauseInv
    BY <1>1 DEF AutoInv, ClientStartInv, PauseInv, Others
  <1>4. Pipeline = <<>> /\ ~ExitIn(Pipeline) /\ ~ExitIn(stream)
    BY <1>1 DEF Pipeline, ExitIn
  <1>5. ExitInv /\ UpInv /\ WaitInv
    BY <1>1, <1>4 DEF ExitInv, UpInv, Up, WaitInv
  <1> QED BY <1>2, <1>3, <1>5 DEF ProcInv

\* A step of an actor inside its calls.
LEMMA StepProc ==
  ASSUME LifeInv, LifeInv', ProcInv, Saved, NEW a \in Actors, Step(a)
  PROVE  ProcInv'
  <1>1. ~StartSaveFails(a)
    BY DEF StartSaveFails, Saved, Faults
  <1>2. CASE a \in Others
    BY <1>1, <1>2, WaitProc, StartBeginProc, StartFailProc, StartCreateProc, SignalProc,
       DecideProc, KillDirectlyProc, RmProc, RestartProc, PauseBeginProc DEF Step
  <1>3. CASE a = Monitor
    BY <1>1, <1>3, MonitorSteps, MonitorBeginProc, MonitorFailsProc, MonitorCreateProc,
       MonitorAutoRmProc
  <1> QED BY <1>2, <1>3 DEF Others

\* Nothing changes the configuration, and a container that left the index does not come back.
LEMMA ConfigStays ==
  ASSUME [Next]_vars
  PROVE  config' = config /\ (registered' => registered)
  <1>1. CASE UNCHANGED vars
    BY <1>1 DEF vars
  <1>2. ASSUME NEW a \in Actors, Step(a) PROVE config' = config /\ (registered' => registered)
    <2>1. CASE RmDestroy(a)
      <3>1. config' = config
        BY <2>1 DEF RmDestroy
      <3>2. registered' => registered
        <4>1. registered' = FALSE \/ registered' = (registered /\ ~Head(stack[a]).flag)
          BY <2>1 DEF RmDestroy
        <4> QED BY <4>1, Zenon
      <3> QED BY <3>1, <3>2
    <2>2. CASE ~RmDestroy(a)
      <3>1. config' = config /\ registered' = registered
        BY <1>2, <2>2
        DEF Step, WaitEnter, WaitLeave, StartBegin, StartPrepareFails, StartCreateFails,
            StartCreate, StartSaveFails, StartRemoved, KillWithSignal, KillBegin, KillDirectly,
            StopBegin, StopKill, RmLookup, RmMark, RmRunning, RmStop, RmDead, RmReset,
            RestartBegin, RestartSave, RestartRestore, RestartStart, PauseBegin, UnpauseBegin,
            PauseReturn, AutoRm, ApiStart, ApiStop
      <3> QED BY <3>1
    <2> QED BY <2>1, <2>2
  <1>3. ASSUME NEW a \in Ops, NEW r \in Requests, Request(a, r)
        PROVE  config' = config /\ registered' = registered
    BY <1>3 DEF Request
  <1>4. ASSUME \/ MonitorStep \/ RestartTimer \/ ProcessExit \/ ContainerdExit
               \/ HandleEvent \/ StateExit \/ StatePause
        PROVE  config' = config /\ registered' = registered
    BY <1>4 DEF MonitorStep, MonitorWake, MonitorStop, RestartTimer, ProcessExit,
                ContainerdExit, HandleEvent, StateExit, StatePause
  <1> QED BY <1>1, <1>2, <1>3, <1>4 DEF Next

\* Every step preserves the invariant.
LEMMA NextProc == Inv /\ [Next]_vars => Inv'
  <1> SUFFICES ASSUME Inv, [Next]_vars PROVE Inv'
    OBVIOUS
  <1>1. LifeInv /\ LifeInv'
    BY NextPreserves DEF Inv
  <1>2. config' = config
    BY ConfigStays
  <1>3. ASSUME Saved, ProcInv PROVE ProcInv'
    <2>1. CASE UNCHANGED vars
      <3>1. /\ UNCHANGED <<config, st, registered, stack, wait, proc, active, stream, queue>>
        BY <2>1 DEF vars
      <3>2. (ExitInv /\ UpInv /\ PauseInv)'
        BY <1>3, <3>1 DEF ProcInv, ExitInv, UpInv, Up, PauseInv, Coming, Pipeline, Known
      <3> QED BY <1>3, <3>1, <3>2, OutsideKeeps DEF ProcInv
    <2>2. CASE Next
      BY <1>1, <1>3, <2>2, StepProc, RequestProc, MonitorWakeProc, MonitorStopProc, ExitsProc,
         ContainerdExitProc, HandleEventProc, StateExitProc, StatePauseProc DEF Next, MonitorStep
    <2> QED BY <2>1, <2>2
  <1>4. Saved' = Saved
    BY <1>2 DEF Saved
  <1> QED BY <1>1, <1>3, <1>4 DEF Inv

\* The inductive invariant holds of every behaviour: whatever clients, policy and faults, in
\* a configuration in which every start can be saved the state says what the process does.
THEOREM ProcessInvariant == Spec => []Inv
  <1>1. Init => Inv
    BY InitEstablishes, ProcessInit DEF Inv
  <1> QED BY <1>1, NextProc, PTL DEF Spec

\* An event a pause waits for, with the lock held, is behind no exit: an exit's
\* callback would need that lock (pause.go:26, monitor.go:45).
THEOREM PauseEvents == Spec => []PauseEventIsNext
  <1>1. Inv => PauseEventIsNext
    <2> SUFFICES ASSUME LifeInv, ProcInv, NEW a \in Ops,
                        At(a, "Pause", "event") \/ At(a, "Unpause", "event")
                 PROVE  Pipeline # <<>> /\ Head(Pipeline).type # "exit"
      BY DEF Inv, Saved, PauseEventIsNext
    <2>1. a \in Others /\ a \in Actors /\ TypeOK
      BY ActorsAssumption DEF Others, Actors, LifeInv
    <2>2. 1 \in DOMAIN stack[a] /\ Head(stack[a]) = stack[a][1]
      BY <2>1, HeadFrame DEF At
    <2>3. Coming("pause") \/ Coming("resume")
      BY <2>1, <2>2 DEF At, ProcInv, PauseInv
    <2>4. PICK i \in DOMAIN Pipeline : \A j \in 1..i : Pipeline[j].type # "exit"
      BY <2>3 DEF Coming
    <2>5. queue \in Seq(Events) /\ stream \in Seq(Events)
      BY <2>1 DEF TypeOK
    <2>6. Pipeline \in Seq(Events) /\ DOMAIN Pipeline = 1..Len(Pipeline)
      BY <2>5, PipelineAt DEF Pipeline
    <2>7. i \in 1..Len(Pipeline) /\ Len(Pipeline) \in Nat
      BY <2>6
    <2>8. 1 \in 1..i /\ Pipeline # <<>> /\ Head(Pipeline) = Pipeline[1]
      BY <2>6, <2>7
    <2> QED BY <2>4, <2>8
  <1> QED BY <1>1, ProcessInvariant, PTL

\* What holds of containers whose starts can all be saved.
LEMMA SavedInvariant ==
  ASSUME \A c \in Configs : "disk" \notin c.faults
  PROVE  Spec => [](LifeInv /\ ProcInv)
  <1>1. Inv => LifeInv /\ ProcInv
    BY DEF Inv, Saved, LifeInv, TypeOK
  <1> QED BY <1>1, ProcessInvariant, PTL

\* dockerd's state says of the process what is true whenever nobody holds the container's
\* lock (SetRunning at monitor.go:110, SetRestarting and SetStopped at monitor.go:52, and the
\* unlocked SetStopped at monitor.go:76).
THEOREM StateTellsProcess ==
  ASSUME \A c \in Configs : "disk" \notin c.faults
  PROVE  Spec => []StateMatchesProcess
  <1>1. LifeInv /\ ProcInv => StateMatchesProcess
    BY DEF ProcInv, UpInv, Up, ExitIn, StateMatchesProcess
  <1> QED BY <1>1, SavedInvariant, PTL

\* An exit is applied to the process it is about, not to a successor (monitor.go:49).
THEOREM ExitsAreCurrent ==
  ASSUME \A c \in Configs : "disk" \notin c.faults
  PROVE  Spec => []ExitIsForCurrentProcess
  <1>1. LifeInv /\ ProcInv => ExitIsForCurrentProcess
    BY DEF ProcInv, ExitInv, UpInv, ExitIn, ExitIsForCurrentProcess
  <1> QED BY <1>1, SavedInvariant, PTL

\* Whoever waits for the container to stop waits for something that is still to come:
\* no SetStopped or SetRestarting leaves a waiter behind (state.go:271, monitor.go:76).
THEOREM WaitersAreTold ==
  ASSUME \A c \in Configs : "disk" \notin c.faults
  PROVE  Spec => []NoLostWaiter
  <1>1. LifeInv /\ ProcInv => NoLostWaiter
    <2> SUFFICES ASSUME LifeInv, ProcInv, registered, NEW a \in Actors, wait[a] = "waiting"
                 PROVE  \/ Known
                        \/ \E i \in DOMAIN Pipeline : Pipeline[i].type = "exit"
                        \/ stack[Monitor] # <<>>
      BY DEF NoLostWaiter, WaitEnds
    <2>1. st.running
      BY DEF ProcInv, WaitInv
    <2>2. CASE st.restarting
      BY <2>2 DEF ProcInv, RestartingInv
    <2>3. CASE ~st.restarting
      BY <2>1, <2>3 DEF ProcInv, UpInv, Up, ExitIn
    <2> QED BY <2>2, <2>3
  <1> QED BY <1>1, SavedInvariant, PTL

\* There is one restart goroutine, and a container that waits to be restarted has it
\* (monitor.go:68).
THEOREM OneRestarter ==
  ASSUME \A c \in Configs : "disk" \notin c.faults
  PROVE  Spec => []OneRestartGoroutine
  <1>1. LifeInv /\ ProcInv => OneRestartGoroutine
    <2> SUFFICES ASSUME LifeInv, ProcInv PROVE OneRestartGoroutine
      OBVIOUS
    <2>1. \A i \in DOMAIN stack[Monitor] : MonitorFrame(stack[Monitor], i)
      BY DEF ProcInv, MonitorInv
    <2>2. ASSUME NEW i \in DOMAIN stack[Monitor], NEW j \in DOMAIN stack[Monitor],
                 stack[Monitor][i].fn = "Monitor", stack[Monitor][j].fn = "Monitor"
          PROVE  i = j
      <3>1. i \in {1, 2} /\ j \in {1, 2}
        BY <2>1, <2>2 DEF MonitorFrame
      <3>2. i = 2 \/ j = 2 => stack[Monitor][1].fn = "Start"
        BY <2>1, <2>2 DEF MonitorFrame
      <3> QED BY <2>2, <3>1, <3>2
    <2>3. st.restarting => stack[Monitor] # <<>>
      BY DEF ProcInv, RestartingInv
    <2> QED BY <2>2, <2>3 DEF OneRestartGoroutine
  <1> QED BY <1>1, SavedInvariant, PTL
--------------------------------------------------------------------------------
(* A container that removes itself *)

\* There is one client: another's restart may save, and give back, an AutoRemove that is
\* already off (restart.go:47, restart.go:52).
OneClient == \A a, b \in Ops : a = b

\* The configurations AutoRemoved is about.
Alone == StartsAndStops /\ config.autoRemove

\* Function f was called from g and g goes on where it is when f returns.
Calls(f, g) ==
  \/ f.fn = "Kill" /\ g.fn \in {"Stop", "Rm"} /\ g.pc = "killed"
  \/ f.fn = "Stop" /\ g.fn = "Rm" /\ g.pc = "stopped"
  \/ f.fn = "Stop" /\ g.fn = "Restart" /\ g.pc = "restore"
  \/ f.fn = "Start" /\ g.fn = "Restart" /\ g.pc = "started"
  \/ f.fn = "Rm" /\ g.fn = "Start" /\ g.pc = "removed"

\* In a stack of calls each frame was called from the next.
Nested(s) == \A i, j \in DOMAIN s : j = i + 1 => Calls(s[i], s[j])

\* A removal that has marked the container and not yet given up.
Marked(f) == f.fn = "Rm" /\ f.pc \in {"check", "running", "killed", "stopped", "dead", "destroy"}

\* A restart that keeps AutoRemove while it stops the container.
Restoring(f) == f.fn = "Restart" /\ f.pc = "restore"

\* A frame that sees to it that the container is removed, or started again.
Removes(f) ==
  \/ f.fn \in {"AutoRm", "Rm"}
  \/ f.fn = "Restart" /\ f.pc \in {"restore", "start"}
  \/ f.fn = "Start" /\ f.pc \in {"begin", "create"}

\* Such a frame among an actor's calls.
HasMarked(a) == \E i \in DOMAIN stack[a] : Marked(stack[a][i])
HasRestoring(a) == \E i \in DOMAIN stack[a] : Restoring(stack[a][i])
HasRemoves(a) == \E i \in DOMAIN stack[a] : Removes(stack[a][i])

\* What frame f of actor a says of the container's state s: only the worker removes it, by
\* force, or a client whose start has failed; whoever has marked it is the reason that it counts
\* as being removed; the worker stops it only for that; containerStop succeeds; and AutoRemove
\* was on when a restart saved it.
FrameOf(a, f, s) ==
  /\ IF a = Worker THEN f.fn \in {"AutoRm", "Rm", "Stop", "Kill"}
                   ELSE f.fn \notin {"AutoRm", "Pause", "Unpause", "Monitor"}
  /\ f.fn = "Rm" => f.flag /\ f.pc \notin {"reseterr", "resetnil"}
  /\ Marked(f) => s.removing
  /\ a = Worker /\ f.fn \in {"Stop", "Kill"} => s.removing
  /\ a # Worker /\ f.fn = "Rm" => ~s.running
  /\ f.fn = "Stop" => f.pc # "force"
  /\ Restoring(f) => f.flag

\* Where an actor is that waits, or has waited, in WaitStop.
Waits(a) == \E w \in WaitPoints : At(a, w.fn, w.pc)

\* What the innermost frame knows: containerStop comes to "grace" only when the container
\* has stopped, no removal or restart sees an error, and a removal kills the container while
\* it runs.
TopOf(a) ==
  /\ wait[a] # "no" => Waits(a)
  /\ At(a, "Stop", "grace") => ~st.running /\ wait[a] = "no"
  /\ At(a, "Rm", "killed") \/ At(a, "Rm", "stopped") \/ At(a, "Restart", "restore") => ret[a] = "nil"
  /\ 2 \in DOMAIN stack[a] /\ stack[a][2].fn = "Rm" /\ stack[a][2].pc = "killed" =>
       st.running /\ Head(stack[a]).pc \in {"begin", "signal", "direct", "pid", "last"}

\* An actor's calls.
StackOf(a) ==
  /\ Nested(stack[a])
  /\ \A i \in DOMAIN stack[a] : FrameOf(a, stack[a][i], st)
  /\ TopOf(a)

\* Whoever marked the container for removal has not given up.
MarkInv ==
  /\ st.dead => st.removing
  /\ st.removing => \E a \in Others : HasMarked(a)

\* AutoRemove is off only while a restart keeps it.
OnInv == st.autoRemove \/ \E a \in Others : HasRestoring(a)

\* All that containerd reports is exits.
ExitsOnly == ~st.paused /\ \A i \in DOMAIN Pipeline : Pipeline[i].type = "exit"

\* When the container has run and stopped somebody sees to its removal, or to another start.
Promise == proc.state = "gone" /\ ~st.running => \E a \in Others : HasRemoves(a)

\* What is always true of a container that is in the index and removes itself.
Tidy == (\A a \in Others : StackOf(a)) /\ MarkInv /\ OnInv /\ ExitsOnly /\ Promise

RemovalInv == Alone /\ registered => Tidy
--------------------------------------------------------------------------------
\* What the configuration says.
LEMMA AloneFacts ==
  ASSUME Inv, Alone
  PROVE  /\ LifeInv /\ ProcInv /\ TypeOK
         /\ config.policy = "no" /\ stack[Monitor] = <<>> /\ ~st.restarting
         /\ Faults \subseteq {"start"}
         /\ Requests \subseteq {"start", "stop", "kill", "signal", "restart"}
  <1>1. /\ config \in Configs
        /\ config.autoRemove /\ config.faults \subseteq {"start"}
        /\ config.requests \cap {"rm", "rmforce", "pause", "unpause"} = {}
    BY DEF Inv, LifeInv, TypeOK, Alone, StartsAndStops
  <1>2. LifeInv /\ ProcInv /\ TypeOK
    BY <1>1 DEF Inv, Saved, LifeInv
  <1>3. config.policy = "no" /\ config.requests \subseteq AllRequests
    BY <1>1, ConfigAssumption
  <1>4. stack[Monitor] = <<>>
    BY <1>2, <1>3 DEF ProcInv, MonitorInv
  <1>5. ~st.restarting
    BY <1>2, <1>4 DEF ProcInv, RestartingInv
  <1> QED BY <1>1, <1>2, <1>3, <1>4, <1>5 DEF Faults, Requests, AllRequests

\* The call stack of an actor as a sequence.
LEMMA StackAt ==
  ASSUME TypeOK, NEW a \in Actors, stack[a] # <<>>
  PROVE  /\ stack[a] \in Seq(Frames) /\ Len(stack[a]) \in Nat /\ Len(stack[a]) >= 1
         /\ DOMAIN stack[a] = 1..Len(stack[a])
         /\ Head(stack[a]) = stack[a][1] /\ 1 \in DOMAIN stack[a] /\ Head(stack[a]) \in Frames
  <1>1. stack[a] \in Seq(Frames) /\ Len(stack[a]) >= 1
    BY EmptySeq DEF TypeOK
  <1> QED BY <1>1

\* Whom only a request or the worker calls has nobody below.
LEMMA OnlyFrame ==
  ASSUME TypeOK, NEW a \in Actors, stack[a] # <<>>, Nested(stack[a]),
         Head(stack[a]).fn \in {"Restart", "ApiStart", "ApiStop", "AutoRm", "Signal"}
  PROVE  Len(stack[a]) = 1 /\ Tail(stack[a]) = <<>>
  <1>1. /\ stack[a] \in Seq(Frames) /\ Len(stack[a]) \in Nat /\ Len(stack[a]) >= 1
        /\ DOMAIN stack[a] = 1..Len(stack[a]) /\ Head(stack[a]) = stack[a][1]
    BY StackAt
  <1>2. ASSUME Len(stack[a]) # 1 PROVE FALSE
    <2>0. PICK n \in Nat : n = Len(stack[a])
      BY <1>1
    <2>3. n >= 1 /\ n # 1
      BY <1>1, <1>2, <2>0
    <2>4. 1 \in 1..n /\ 2 \in 1..n
      BY <2>3
    <2>1. 1 \in DOMAIN stack[a] /\ 2 \in DOMAIN stack[a] /\ 2 = 1 + 1
      BY <1>1, <2>0, <2>4
    <2>2. Calls(stack[a][1], stack[a][2])
      BY <1>1, <2>1 DEF Nested
    <2> QED BY <1>1, <2>2 DEF Calls
  <1>3. Len(stack[a]) = 1
    BY <1>2
  <1>4. Tail(stack[a]) \in Seq(Frames) /\ Len(Tail(stack[a])) = 0
    BY <1>1, <1>3
  <1> QED BY <1>3, <1>4, EmptySeq

\* The innermost frame is replaced by one of the same function, or is all there is.
LEMMA ReplacedNested ==
  ASSUME TypeOK, NEW a \in Actors, stack[a] # <<>>, Nested(stack[a]), NEW f \in Frames,
         \/ f.fn = Head(stack[a]).fn
         \/ Head(stack[a]).fn \in {"Restart", "ApiStart", "ApiStop", "AutoRm", "Signal"},
         stack' = [stack EXCEPT ![a] = <<f>> \o Tail(@)]
  PROVE  /\ Nested(stack'[a])
         /\ DOMAIN stack'[a] = DOMAIN stack[a] /\ 1 \in DOMAIN stack'[a] /\ stack'[a] # <<>>
         /\ stack'[a][1] = f /\ Head(stack'[a]) = f
         /\ \A i \in DOMAIN stack'[a] : i # 1 => stack'[a][i] = stack[a][i]
         /\ \A b \in Actors : b # a => stack'[b] = stack[b]
  <1>1. /\ stack[a] \in Seq(Frames) /\ Len(stack[a]) \in Nat /\ Len(stack[a]) >= 1
        /\ DOMAIN stack[a] = 1..Len(stack[a]) /\ Head(stack[a]) = stack[a][1]
    BY StackAt
  <1>2. stack'[a] = <<f>> \o Tail(stack[a]) /\ \A b \in Actors : b # a => stack'[b] = stack[b]
    BY DEF TypeOK
  <1>3. /\ DOMAIN stack'[a] = DOMAIN stack[a] /\ 1 \in DOMAIN stack'[a] /\ stack'[a][1] = f
        /\ \A i \in DOMAIN stack'[a] : i # 1 => stack'[a][i] = stack[a][i]
    BY <1>1, <1>2, ReplacedAt
  <1>4. Head(stack'[a]) = f /\ stack'[a] # <<>>
    BY <1>1, <1>2
  <1>5. ASSUME NEW i \in DOMAIN stack'[a], NEW j \in DOMAIN stack'[a], j = i + 1
        PROVE  Calls(stack'[a][i], stack'[a][j])
    <2>1. Calls(stack[a][i], stack[a][j]) /\ i \in 1..Len(stack[a])
      BY <1>1, <1>3, <1>5 DEF Nested
    <2>2. j # 1 /\ stack'[a][j] = stack[a][j]
      BY <1>3, <1>5, <2>1
    <2>3. CASE i = 1
      <3>1. stack'[a][i] = f /\ stack[a][i] = Head(stack[a])
        BY <1>1, <1>3, <2>3
      <3>2. f.fn = Head(stack[a]).fn
        BY <2>1, <3>1 DEF Calls
      <3> QED BY <2>1, <2>2, <3>1, <3>2 DEF Calls
    <2>4. CASE i # 1
      BY <1>3, <1>5, <2>1, <2>2, <2>4
    <2> QED BY <2>3, <2>4
  <1> QED BY <1>2, <1>3, <1>4, <1>5 DEF Nested

\* f was called from g, which replaces the innermost frame.
Pushed(a, f, g) ==
  /\ Nested(stack'[a]) /\ stack'[a] # <<>>
  /\ {1, 2} \subseteq DOMAIN stack'[a]
  /\ stack'[a][1] = f /\ stack'[a][2] = g /\ Head(stack'[a]) = f
  /\ \A i \in DOMAIN stack'[a] :
       i \in {1, 2} \/ (i - 1 \in DOMAIN stack[a] /\ i - 1 # 1 /\ stack'[a][i] = stack[a][i - 1])
  /\ \A i \in DOMAIN stack[a] : i # 1 => i + 1 \in DOMAIN stack'[a] /\ stack'[a][i + 1] = stack[a][i]

\* The innermost frame, now g, calls f.
LEMMA PushedNested ==
  ASSUME TypeOK, NEW a \in Actors, stack[a] # <<>>, Nested(stack[a]),
         NEW f \in Frames, NEW g \in Frames, g.fn = Head(stack[a]).fn, Calls(f, g),
         stack' = [stack EXCEPT ![a] = <<f, g>> \o Tail(@)]
  PROVE  Pushed(a, f, g)
  <1>1. /\ stack[a] \in Seq(Frames) /\ Len(stack[a]) \in Nat /\ Len(stack[a]) >= 1
        /\ DOMAIN stack[a] = 1..Len(stack[a]) /\ Head(stack[a]) = stack[a][1]
    BY StackAt
  <1>2. stack'[a] = <<f, g>> \o Tail(stack[a]) /\ \A b \in Actors : b # a => stack'[b] = stack[b]
    BY DEF TypeOK
  <1>3. /\ 1 \in DOMAIN stack'[a] /\ 2 \in DOMAIN stack'[a] /\ stack'[a][1] = f /\ stack'[a][2] = g
        /\ \A i \in DOMAIN stack'[a] :
             i \in {1, 2} \/ (i - 1 \in DOMAIN stack[a] /\ i - 1 # 1 /\ stack'[a][i] = stack[a][i - 1])
    BY <1>1, <1>2, PushedAt
  <1>4. /\ Head(stack'[a]) = f /\ stack'[a] # <<>> /\ DOMAIN stack'[a] = 1..(Len(stack[a]) + 1)
    BY <1>1, <1>2
  <1>5. ASSUME NEW i \in DOMAIN stack[a], i # 1
        PROVE  i + 1 \in DOMAIN stack'[a] /\ stack'[a][i + 1] = stack[a][i]
    <2>1. i + 1 \in DOMAIN stack'[a] /\ i + 1 \notin {1, 2} /\ (i + 1) - 1 = i
      BY <1>1, <1>4, <1>5
    <2> QED BY <1>3, <2>1
  <1>6. ASSUME NEW i \in DOMAIN stack'[a], NEW j \in DOMAIN stack'[a], j = i + 1
        PROVE  Calls(stack'[a][i], stack'[a][j])
    <2>0. i \in Nat /\ i >= 1 /\ i <= Len(stack[a])
      BY <1>1, <1>4, <1>6
    <2>1. CASE i = 1
      BY <1>3, <1>6, <2>1
    <2>2. CASE i = 2
      <3>1. j = 3 /\ j \notin {1, 2} /\ j - 1 = 2
        BY <1>6, <2>2
      <3>2. 2 \in DOMAIN stack[a] /\ stack'[a][j] = stack[a][2]
        BY <1>3, <3>1
      <3>4. 1 \in DOMAIN stack[a] /\ 2 = 1 + 1
        BY <1>1
      <3>3. Calls(stack[a][1], stack[a][2])
        BY <3>2, <3>4 DEF Nested
      <3> QED BY <1>1, <1>3, <2>2, <3>2, <3>3 DEF Calls
    <2>3. CASE i > 2
      <3>1. i - 1 \in DOMAIN stack[a] /\ stack'[a][i] = stack[a][i - 1]
        BY <1>3, <1>6, <2>3
      <3>2. j - 1 \in DOMAIN stack[a] /\ stack'[a][j] = stack[a][j - 1]
        <4>1. j \notin {1, 2}
          BY <1>6, <2>0, <2>3
        <4> QED BY <1>3, <4>1
      <3>3. j - 1 = (i - 1) + 1
        BY <1>6, <2>0
      <3> QED BY <3>1, <3>2, <3>3 DEF Nested
    <2> QED BY <2>0, <2>1, <2>2, <2>3
  <1> QED BY <1>2, <1>3, <1>4, <1>5, <1>6 DEF Nested, Pushed

\* The innermost frame is gone.
LEMMA PoppedNested ==
  ASSUME TypeOK, NEW a \in Actors, stack[a] # <<>>, Nested(stack[a]),
         stack' = [stack EXCEPT ![a] = Tail(@)]
  PROVE  /\ Nested(stack'[a])
         /\ \A i \in DOMAIN stack'[a] : i + 1 \in DOMAIN stack[a] /\ stack'[a][i] = stack[a][i + 1]
         /\ \A i \in DOMAIN stack[a] : i # 1 => i - 1 \in DOMAIN stack'[a] /\ stack'[a][i - 1] = stack[a][i]
         /\ stack'[a] # <<>> => /\ 1 \in DOMAIN stack'[a] /\ Head(stack'[a]) = stack[a][2]
                                /\ 2 \in DOMAIN stack[a] /\ Calls(stack[a][1], stack[a][2])
         /\ \A b \in Actors : b # a => stack'[b] = stack[b]
  <1>1. /\ stack[a] \in Seq(Frames) /\ Len(stack[a]) \in Nat /\ Len(stack[a]) >= 1
        /\ DOMAIN stack[a] = 1..Len(stack[a]) /\ Head(stack[a]) = stack[a][1]
    BY StackAt
  <1>2. stack'[a] = Tail(stack[a]) /\ \A b \in Actors : b # a => stack'[b] = stack[b]
    BY DEF TypeOK
  <1> DEFINE s == stack[a]
  <1>8. /\ Tail(s) \in Seq(Frames) /\ Len(Tail(s)) = Len(s) - 1
        /\ DOMAIN Tail(s) = 1..(Len(s) - 1)
        /\ \A i \in 1..(Len(s) - 1) : Tail(s)[i] = s[i + 1]
    BY <1>1
  <1>3. /\ stack'[a] \in Seq(Frames) /\ Len(stack'[a]) = Len(stack[a]) - 1
        /\ DOMAIN stack'[a] = 1..(Len(stack[a]) - 1)
        /\ \A i \in 1..(Len(stack[a]) - 1) : stack'[a][i] = stack[a][i + 1]
    BY <1>2, <1>8
  <1>4. ASSUME NEW i \in DOMAIN stack'[a]
        PROVE  i + 1 \in DOMAIN stack[a] /\ stack'[a][i] = stack[a][i + 1]
    BY <1>1, <1>3
  <1>5. ASSUME NEW i \in DOMAIN stack[a], i # 1
        PROVE  i - 1 \in DOMAIN stack'[a] /\ stack'[a][i - 1] = stack[a][i]
    <2>1. i - 1 \in DOMAIN stack'[a] /\ (i - 1) + 1 = i
      BY <1>1, <1>3, <1>5
    <2> QED BY <1>4, <2>1
  <1>6. ASSUME stack'[a] # <<>>
        PROVE  /\ 1 \in DOMAIN stack'[a] /\ Head(stack'[a]) = stack[a][2]
               /\ 2 \in DOMAIN stack[a] /\ Calls(stack[a][1], stack[a][2])
    <2>1. Len(stack'[a]) >= 1 /\ Head(stack'[a]) = stack'[a][1]
      BY <1>3, <1>6, EmptySeq
    <2>2. 1 \in DOMAIN stack'[a] /\ 2 \in DOMAIN stack[a] /\ 1 \in DOMAIN stack[a] /\ 2 = 1 + 1
      BY <1>1, <1>3, <2>1
    <2>3. Calls(stack[a][1], stack[a][2])
      BY <2>2 DEF Nested
    <2> QED BY <1>4, <2>1, <2>2, <2>3
  <1>7. ASSUME NEW i \in DOMAIN stack'[a], NEW j \in DOMAIN stack'[a], j = i + 1
        PROVE  Calls(stack'[a][i], stack'[a][j])
    <2>1. i + 1 \in DOMAIN stack[a] /\ j + 1 \in DOMAIN stack[a]
          /\ stack'[a][i] = stack[a][i + 1] /\ stack'[a][j] = stack[a][j + 1]
      BY <1>4, <1>7
    <2>2. j + 1 = (i + 1) + 1
      BY <1>7
    <2> QED BY <2>1, <2>2 DEF Nested
  <1> QED BY <1>2, <1>4, <1>5, <1>6, <1>7 DEF Nested

\* The invariants of a container that is in the index and removes itself.
Self == Inv /\ Alone /\ registered /\ Tidy

\* A step of a after which the container runs if and only if it did, no mark is gone, and
\* the others are where they were.
Calm(a) ==
  /\ registered' = registered /\ proc'.state = proc.state
  /\ queue' = queue /\ stream' = stream
  /\ st'.running = st.running /\ st'.paused = st.paused
  /\ st.removing => st'.removing
  /\ st'.dead => st'.removing
  /\ \A b \in Actors : b # a => stack'[b] = stack[b] /\ wait'[b] = wait[b] /\ ret'[b] = ret[b]

\* What is true of an actor that does not move stays true while the container goes on
\* running, or not, and no mark is taken away.
LEMMA StackStays ==
  ASSUME NEW b \in Others, StackOf(b),
         stack'[b] = stack[b], wait'[b] = wait[b], ret'[b] = ret[b],
         st.removing => st'.removing, st'.running = st.running
  PROVE  StackOf(b)'
  <1>1. Nested(stack'[b])
    BY DEF StackOf
  <1>2. \A i \in DOMAIN stack'[b] : FrameOf(b, stack'[b][i], st')
    BY DEF StackOf, FrameOf, Marked, Restoring
  <1>3. \A fn, pc : At(b, fn, pc)' <=> At(b, fn, pc)
    BY DEF At
  <1>4. Waits(b)' <=> Waits(b)
    BY <1>3 DEF Waits
  <1>5. TopOf(b)'
    BY <1>3, <1>4 DEF StackOf, TopOf
  <1> QED BY <1>1, <1>2, <1>5 DEF StackOf

\* A calm step keeps the invariant when the stack of the actor that moves is right, and when
\* it takes away no mark, no kept AutoRemove and no removal that was promised.
LEMMA CalmKeeps ==
  ASSUME Self, NEW a \in Others, Calm(a), StackOf(a)',
         HasMarked(a) => HasMarked(a)', st'.removing => st.removing \/ HasMarked(a)',
         \/ st'.autoRemove \/ HasRestoring(a)'
         \/ st'.autoRemove = st.autoRemove /\ (HasRestoring(a) => HasRestoring(a)'),
         HasRemoves(a) /\ ~st.running => \E b \in Others : HasRemoves(b)'
  PROVE  Tidy'
  <1>0. Others \subseteq Actors
    BY DEF Others
  <1>1. ASSUME NEW b \in Others, b # a
        PROVE  /\ StackOf(b)' /\ HasMarked(b)' = HasMarked(b)
               /\ HasRestoring(b)' = HasRestoring(b) /\ HasRemoves(b)' = HasRemoves(b)
    <2>1. stack'[b] = stack[b] /\ wait'[b] = wait[b] /\ ret'[b] = ret[b]
      BY <1>0, <1>1 DEF Calm
    <2> QED BY <2>1, StackStays DEF Calm, Self, Tidy, HasMarked, HasRestoring, HasRemoves
  <1>2. MarkInv'
    BY <1>1 DEF MarkInv, Calm, Self, Tidy
  <1>3. OnInv'
    BY <1>1 DEF OnInv, Calm, Self, Tidy
  <1>4. ExitsOnly'
    BY DEF ExitsOnly, Pipeline, Calm, Self, Tidy
  <1>5. Promise'
    BY <1>1 DEF Promise, Calm, Self, Tidy
  <1> QED BY <1>1, <1>2, <1>3, <1>4, <1>5 DEF Tidy

\* Going on at another place.
LEMMA GotoTidy ==
  ASSUME Self, NEW a \in Others, Calm(a), stack[a] # <<>>, wait'[a] = "no",
         NEW pc \in Pcs, Goto(a, pc),
         LET h == Head(stack[a])
             g == [h EXCEPT !.pc = pc]
         IN  /\ FrameOf(a, g, st')
             /\ Marked(h) => Marked(g)
             /\ st'.removing => st.removing \/ Marked(g)
             /\ st'.autoRemove \/ (st'.autoRemove = st.autoRemove /\ ~Restoring(h))
             /\ Removes(h) /\ ~st.running => Removes(g)
             /\ h.fn = "Stop" /\ pc = "grace" => ~st.running
             /\ h.fn = "Kill" /\ 2 \in DOMAIN stack[a] /\ stack[a][2].fn = "Rm" =>
                  pc \in {"begin", "signal", "direct", "pid", "last"}
  PROVE  Tidy'
  <1> DEFINE h == Head(stack[a])
             g == [h EXCEPT !.pc = pc]
  <1>1. TypeOK /\ a \in Actors /\ StackOf(a)
    BY AloneFacts DEF Self, Others, Tidy
  <1>2. h \in Frames /\ h = stack[a][1] /\ 1 \in DOMAIN stack[a] /\ g \in Frames /\ g.fn = h.fn /\ g.pc = pc
    BY <1>1, StackAt, FrameAt
  <1>3. stack' = [stack EXCEPT ![a] = <<g>> \o Tail(@)] /\ ret' = [ret EXCEPT ![a] = "nil"]
    BY DEF Goto
  <1>4. /\ Nested(stack'[a])
        /\ DOMAIN stack'[a] = DOMAIN stack[a] /\ 1 \in DOMAIN stack'[a] /\ stack'[a] # <<>>
        /\ stack'[a][1] = g /\ Head(stack'[a]) = g
        /\ \A i \in DOMAIN stack'[a] : i # 1 => stack'[a][i] = stack[a][i]
    <2> HIDE DEF g
    <2> QED BY <1>1, <1>2, <1>3, ReplacedNested DEF StackOf
  <1>5. ret'[a] = "nil"
    BY <1>1, <1>3 DEF TypeOK
  <1>6. /\ FrameOf(a, g, st') /\ (Marked(h) => Marked(g)) /\ (st'.removing => st.removing \/ Marked(g))
        /\ st'.autoRemove \/ (st'.autoRemove = st.autoRemove /\ ~Restoring(h))
        /\ (Removes(h) /\ ~st.running => Removes(g))
        /\ (h.fn = "Stop" /\ pc = "grace" => ~st.running)
        /\ (h.fn = "Kill" /\ 2 \in DOMAIN stack[a] /\ stack[a][2].fn = "Rm" =>
              pc \in {"begin", "signal", "direct", "pid", "last"})
    OBVIOUS
  <1> HIDE DEF g, h
  <1>7. ASSUME NEW i \in DOMAIN stack'[a] PROVE FrameOf(a, stack'[a][i], st')
    <2>1. CASE i = 1
      BY <1>4, <1>6, <2>1
    <2>2. CASE i # 1
      <3>1. FrameOf(a, stack'[a][i], st)
        BY <1>1, <1>4, <1>7, <2>2 DEF StackOf
      <3> QED BY <3>1 DEF FrameOf, Calm
    <2> QED BY <2>1, <2>2
  <1>8. TopOf(a)'
    <2>1. At(a, "Stop", "grace")' => ~st'.running
      BY <1>2, <1>4, <1>6 DEF At, Calm
    <2>2. ASSUME 2 \in DOMAIN stack'[a], stack'[a][2].fn = "Rm", stack'[a][2].pc = "killed"
          PROVE  st'.running /\ Head(stack'[a]).pc \in {"begin", "signal", "direct", "pid", "last"}
      <3>1. 2 \in DOMAIN stack[a] /\ stack[a][2] = stack'[a][2] /\ st.running
        BY <1>1, <1>4, <2>2 DEF StackOf, TopOf
      <3>2. Calls(stack[a][1], stack[a][2])
        <4>1. 2 = 1 + 1
          OBVIOUS
        <4> QED BY <1>1, <1>2, <3>1, <4>1 DEF StackOf, Nested
      <3>3. h.fn = "Kill"
        BY <1>2, <2>2, <3>1, <3>2 DEF Calls
      <3> QED BY <1>2, <1>4, <1>6, <2>2, <3>1, <3>3 DEF Calm
    <2> QED BY <1>5, <2>1, <2>2 DEF TopOf
  <1>9. StackOf(a)'
    BY <1>4, <1>7, <1>8 DEF StackOf
  <1>10. HasMarked(a) => HasMarked(a)'
    BY <1>2, <1>4, <1>6 DEF HasMarked
  <1>13. st'.removing => st.removing \/ HasMarked(a)'
    BY <1>4, <1>6 DEF HasMarked
  <1>11. st'.autoRemove \/ (st'.autoRemove = st.autoRemove /\ (HasRestoring(a) => HasRestoring(a)'))
    BY <1>2, <1>4, <1>6 DEF HasRestoring
  <1>12. HasRemoves(a) /\ ~st.running => HasRemoves(a)'
    BY <1>2, <1>4, <1>6 DEF HasRemoves
  <1> QED BY <1>9, <1>10, <1>11, <1>12, <1>13, CalmKeeps

\* Returning: who called and looks at the result sees no error.
LEMMA ReturnTidy ==
  ASSUME Self, NEW a \in Others, Calm(a), stack[a] # <<>>, wait'[a] = "no",
         NEW v \in {"nil", "err"}, Return(a, v),
         LET h == Head(stack[a])
         IN  /\ ~Marked(h) /\ st'.removing = st.removing
             /\ st'.autoRemove = st.autoRemove /\ ~Restoring(h)
             /\ Removes(h) /\ ~st.running => \/ \E b \in Others : b # a /\ HasRemoves(b)
                                             \/ \E i \in DOMAIN stack[a] : i # 1 /\ Removes(stack[a][i])
             /\ v = "err" => /\ h.fn # "Stop"
                             /\ h.fn = "Kill" => ~(2 \in DOMAIN stack[a] /\ stack[a][2].fn = "Rm")
  PROVE  Tidy'
  <1> DEFINE h == Head(stack[a])
  <1>1. TypeOK /\ a \in Actors /\ StackOf(a)
    BY AloneFacts DEF Self, Others, Tidy
  <1>2. h = stack[a][1] /\ 1 \in DOMAIN stack[a]
    BY <1>1, StackAt
  <1>3. stack' = [stack EXCEPT ![a] = Tail(@)]
    <2>1. /\ stack[a] \in Seq(Frames) /\ Len(stack[a]) \in Nat /\ Len(stack[a]) >= 1
          /\ DOMAIN stack[a] = 1..Len(stack[a])
      BY <1>1, StackAt
    <2>2. ASSUME Tail(stack[a]) # <<>> PROVE Head(Tail(stack[a])).fn # "Monitor"
      <3>1. Tail(stack[a]) \in Seq(Frames) /\ Len(Tail(stack[a])) = Len(stack[a]) - 1
        BY <2>1
      <3>2. Len(Tail(stack[a])) >= 1
        BY <2>2, <3>1, EmptySeq
      <3>3. 2 \in DOMAIN stack[a] /\ Head(Tail(stack[a])) = stack[a][2]
        BY <2>1, <3>1, <3>2
      <3> QED BY <1>1, <3>3 DEF StackOf, FrameOf
    <2> QED BY <2>2 DEF Return
  <1>4. /\ Nested(stack'[a])
        /\ \A i \in DOMAIN stack'[a] : i + 1 \in DOMAIN stack[a] /\ stack'[a][i] = stack[a][i + 1]
        /\ \A i \in DOMAIN stack[a] : i # 1 => i - 1 \in DOMAIN stack'[a] /\ stack'[a][i - 1] = stack[a][i]
        /\ stack'[a] # <<>> => /\ 1 \in DOMAIN stack'[a] /\ Head(stack'[a]) = stack[a][2]
                               /\ 2 \in DOMAIN stack[a] /\ Calls(stack[a][1], stack[a][2])
    BY <1>1, <1>3, PoppedNested DEF StackOf
  <1>5. stack'[a] # <<>> => ret'[a] = v
    <2>1. ret' = [ret EXCEPT ![a] = IF Tail(stack[a]) = <<>> THEN "nil" ELSE v]
      BY DEF Return
    <2>2. stack'[a] = Tail(stack[a])
      BY <1>1, <1>3 DEF TypeOK
    <2> QED BY <1>1, <2>1, <2>2 DEF TypeOK
  <1>7. ASSUME NEW i \in DOMAIN stack'[a] PROVE FrameOf(a, stack'[a][i], st')
    <2>1. FrameOf(a, stack'[a][i], st)
      BY <1>1, <1>4, <1>7 DEF StackOf
    <2> QED BY <2>1 DEF FrameOf, Calm
  <1>8. TopOf(a)'
    <2>0. ASSUME NEW fn, NEW pc, At(a, fn, pc)'
          PROVE  Calls(h, stack[a][2]) /\ stack[a][2].fn = fn /\ stack[a][2].pc = pc /\ ret'[a] = v
                 /\ 2 \in DOMAIN stack[a]
      BY <1>2, <1>4, <1>5, <2>0 DEF At
    <2>1. ~At(a, "Stop", "grace")'
      BY <2>0 DEF Calls
    <2>2. ~(2 \in DOMAIN stack'[a] /\ stack'[a][2].fn = "Rm" /\ stack'[a][2].pc = "killed")
      <3> SUFFICES ASSUME 2 \in DOMAIN stack'[a], stack'[a][2].fn = "Rm", stack'[a][2].pc = "killed"
                   PROVE  FALSE
        OBVIOUS
      <3>1. 1 \in DOMAIN stack'[a] /\ Head(stack'[a]) = stack'[a][1]
        <4>1. stack'[a] # <<>>
          OBVIOUS
        <4>2. 1 \in DOMAIN stack'[a] /\ Head(stack'[a]) = stack[a][2] /\ stack'[a][1] = stack[a][1 + 1]
          BY <1>4, <4>1
        <4> QED BY <4>2
      <3>2. Calls(stack'[a][1], stack'[a][2])
        BY <1>4, <3>1 DEF Nested
      <3>3. Calls(stack[a][1], stack'[a][1])
        BY <1>4, <3>1
      <3> QED BY <3>2, <3>3 DEF Calls
    <2>3. At(a, "Rm", "killed")' \/ At(a, "Rm", "stopped")' \/ At(a, "Restart", "restore")' => ret'[a] = "nil"
      BY <2>0 DEF Calls
    <2> QED BY <2>1, <2>2, <2>3 DEF TopOf
  <1>9. StackOf(a)'
    BY <1>4, <1>7, <1>8 DEF StackOf
  <1>10. HasMarked(a) => HasMarked(a)'
    BY <1>2, <1>4 DEF HasMarked
  <1>13. st'.removing => st.removing
    OBVIOUS
  <1>11. st'.autoRemove = st.autoRemove /\ (HasRestoring(a) => HasRestoring(a)')
    BY <1>2, <1>4 DEF HasRestoring
  <1>12. HasRemoves(a) /\ ~st.running => \E b \in Others : HasRemoves(b)'
    <2> SUFFICES ASSUME HasRemoves(a), ~st.running PROVE \E b \in Others : HasRemoves(b)'
      OBVIOUS
    <2>1. \/ \E b \in Others : b # a /\ HasRemoves(b)
          \/ \E i \in DOMAIN stack[a] : i # 1 /\ Removes(stack[a][i])
      BY <1>2 DEF HasRemoves
    <2>2. ASSUME NEW b \in Others, b # a, HasRemoves(b) PROVE HasRemoves(b)'
      BY <2>2 DEF HasRemoves, Calm, Others
    <2>3. ASSUME NEW i \in DOMAIN stack[a], i # 1, Removes(stack[a][i]) PROVE HasRemoves(a)'
      BY <1>4, <2>3 DEF HasRemoves
    <2> QED BY <2>1, <2>2, <2>3
  <1> QED BY <1>9, <1>10, <1>11, <1>12, <1>13, CalmKeeps

\* Calling f from g, the innermost frame at the place where it goes on.
LEMMA PushTidy ==
  ASSUME Self, NEW a \in Others, Calm(a), stack[a] # <<>>, wait'[a] = "no",
         NEW f \in Frames, NEW g \in Frames, g.fn = Head(stack[a]).fn, Calls(f, g), f.pc = "begin",
         stack' = [stack EXCEPT ![a] = <<f, g>> \o Tail(@)],
         FrameOf(a, f, st'), FrameOf(a, g, st'),
         Marked(Head(stack[a])) => Marked(g), st'.removing = st.removing,
         Restoring(g) \/ (st'.autoRemove = st.autoRemove /\ ~Restoring(Head(stack[a]))),
         Removes(Head(stack[a])) /\ ~st.running => Removes(f) \/ Removes(g),
         g.fn = "Rm" /\ g.pc = "killed" => st.running
  PROVE  Tidy'
  <1> DEFINE h == Head(stack[a])
  <1>1. TypeOK /\ a \in Actors /\ StackOf(a)
    BY AloneFacts DEF Self, Others, Tidy
  <1>2. h = stack[a][1] /\ 1 \in DOMAIN stack[a]
    BY <1>1, StackAt
  <1>3. Pushed(a, f, g)
    BY <1>1, PushedNested DEF StackOf
  <1>4. /\ Nested(stack'[a]) /\ stack'[a] # <<>>
        /\ {1, 2} \subseteq DOMAIN stack'[a]
        /\ stack'[a][1] = f /\ stack'[a][2] = g /\ Head(stack'[a]) = f
        /\ \A i \in DOMAIN stack'[a] :
             i \in {1, 2} \/ (i - 1 \in DOMAIN stack[a] /\ i - 1 # 1 /\ stack'[a][i] = stack[a][i - 1])
        /\ \A i \in DOMAIN stack[a] : i # 1 => i + 1 \in DOMAIN stack'[a] /\ stack'[a][i + 1] = stack[a][i]
    BY <1>3 DEF Pushed
  <1>7. ASSUME NEW i \in DOMAIN stack'[a] PROVE FrameOf(a, stack'[a][i], st')
    <2>1. CASE i \in {1, 2}
      BY <1>4, <2>1
    <2>2. CASE i \notin {1, 2}
      <3>1. FrameOf(a, stack'[a][i], st)
        BY <1>1, <1>4, <1>7, <2>2 DEF StackOf
      <3> QED BY <3>1 DEF FrameOf, Calm
    <2> QED BY <2>1, <2>2
  <1>8. TopOf(a)'
    BY <1>4 DEF TopOf, At, Calm
  <1>9. StackOf(a)'
    BY <1>4, <1>7, <1>8 DEF StackOf
  <1>10. HasMarked(a) => HasMarked(a)'
    BY <1>2, <1>4 DEF HasMarked
  <1>11. HasRestoring(a)' \/ (st'.autoRemove = st.autoRemove /\ (HasRestoring(a) => HasRestoring(a)'))
    BY <1>2, <1>4 DEF HasRestoring
  <1>12. HasRemoves(a) /\ ~st.running => HasRemoves(a)'
    BY <1>2, <1>4 DEF HasRemoves
  <1> QED BY <1>9, <1>10, <1>11, <1>12, CalmKeeps

\* The same for CallThen.
LEMMA CallTidy ==
  ASSUME Self, NEW a \in Others, Calm(a), stack[a] # <<>>, wait'[a] = "no",
         NEW pc \in Pcs, NEW fn \in Fns, NEW flag \in BOOLEAN, CallThen(a, pc, fn, flag),
         st'.removing = st.removing, st'.autoRemove = st.autoRemove,
         LET h == Head(stack[a])
             f == Frame(fn, flag)
             g == [h EXCEPT !.pc = pc]
         IN  /\ Calls(f, g) /\ FrameOf(a, f, st') /\ FrameOf(a, g, st')
             /\ Marked(h) => Marked(g)
             /\ ~Restoring(h)
             /\ Removes(h) /\ ~st.running => Removes(f) \/ Removes(g)
             /\ g.fn = "Rm" /\ g.pc = "killed" => st.running
  PROVE  Tidy'
  <1> DEFINE h == Head(stack[a])
             f == Frame(fn, flag)
             g == [h EXCEPT !.pc = pc]
  <1>1. TypeOK /\ a \in Actors
    BY AloneFacts DEF Self, Others
  <1>2. h \in Frames /\ g \in Frames /\ g.fn = h.fn
    BY <1>1, HeadFrame, FrameAt
  <1>3. f \in Frames /\ f.pc = "begin"
    BY FrameType DEF PlainFrames, Frame
  <1>4. stack' = [stack EXCEPT ![a] = <<f, g>> \o Tail(@)]
    BY DEF CallThen
  <1>5. /\ Calls(f, g) /\ FrameOf(a, f, st') /\ FrameOf(a, g, st')
        /\ Marked(h) => Marked(g)
        /\ ~Restoring(h)
        /\ Removes(h) /\ ~st.running => Removes(f) \/ Removes(g)
        /\ g.fn = "Rm" /\ g.pc = "killed" => st.running
    OBVIOUS
  <1> HIDE DEF f, g
  <1> QED BY <1>2, <1>3, <1>4, <1>5, PushTidy

\* A request, or the worker's callback, becomes the call it ends in.
LEMMA TailTidy ==
  ASSUME Self, NEW a \in Others, Calm(a), stack[a] # <<>>, wait'[a] = "no",
         NEW fn \in Fns, NEW flag \in BOOLEAN, TailCall(a, fn, flag),
         st'.removing = st.removing, st'.autoRemove = st.autoRemove,
         LET h == Head(stack[a])
             f == Frame(fn, flag)
         IN  /\ h.fn \in {"ApiStart", "ApiStop", "AutoRm"}
             /\ FrameOf(a, f, st')
             /\ Removes(h) => Removes(f)
  PROVE  Tidy'
  <1> DEFINE h == Head(stack[a])
             f == Frame(fn, flag)
  <1>1. TypeOK /\ a \in Actors /\ StackOf(a)
    BY AloneFacts DEF Self, Others, Tidy
  <1>2. h = stack[a][1] /\ 1 \in DOMAIN stack[a] /\ DOMAIN stack[a] = {1}
    <2>1. h = stack[a][1] /\ 1 \in DOMAIN stack[a] /\ DOMAIN stack[a] = 1..Len(stack[a])
      BY <1>1, StackAt
    <2>2. Len(stack[a]) = 1
      BY <1>1, OnlyFrame DEF StackOf
    <2> QED BY <2>1, <2>2
  <1>3. f \in Frames /\ f.pc = "begin"
    BY FrameType DEF PlainFrames, Frame
  <1>4. stack' = [stack EXCEPT ![a] = <<f>> \o Tail(@)]
    BY DEF TailCall
  <1>5. FrameOf(a, f, st') /\ (Removes(h) => Removes(f)) /\ h.fn \in {"ApiStart", "ApiStop", "AutoRm"}
    OBVIOUS
  <1> HIDE DEF f
  <1>6. /\ Nested(stack'[a])
        /\ DOMAIN stack'[a] = {1} /\ stack'[a] # <<>>
        /\ stack'[a][1] = f /\ Head(stack'[a]) = f
    BY <1>1, <1>2, <1>3, <1>4, <1>5, ReplacedNested DEF StackOf
  <1>7. \A i \in DOMAIN stack'[a] : FrameOf(a, stack'[a][i], st')
    BY <1>5, <1>6
  <1>8. TopOf(a)'
    BY <1>3, <1>6 DEF TopOf, At
  <1>9. StackOf(a)'
    BY <1>6, <1>7, <1>8 DEF StackOf
  <1>10. ~HasMarked(a) /\ ~HasRestoring(a)
    BY <1>2, <1>5 DEF HasMarked, HasRestoring, Marked, Restoring
  <1>11. HasRemoves(a) => HasRemoves(a)'
    BY <1>2, <1>5, <1>6 DEF HasRemoves
  <1> QED BY <1>9, <1>10, <1>11, CalmKeeps
--------------------------------------------------------------------------------
(* The steps of a client and of the worker *)

\* An actor inside a call.
LEMMA SelfFacts ==
  ASSUME Self, NEW a \in Others, stack[a] # <<>>
  PROVE  /\ a \in Actors /\ TypeOK /\ StackOf(a)
         /\ Head(stack[a]) \in Frames /\ Head(stack[a]).flag \in BOOLEAN
         /\ Head(stack[a]) = stack[a][1] /\ 1 \in DOMAIN stack[a]
         /\ FrameOf(a, Head(stack[a]), st)
  <1>1. a \in Actors /\ TypeOK /\ StackOf(a)
    BY AloneFacts DEF Self, Others, Tidy
  <1>2. /\ Head(stack[a]) \in Frames /\ Head(stack[a]).flag \in BOOLEAN
        /\ Head(stack[a]) = stack[a][1] /\ 1 \in DOMAIN stack[a]
    BY <1>1, HeadFrame
  <1> QED BY <1>1, <1>2 DEF StackOf

\* Nobody waits outside WaitStop.
LEMMA NoWait ==
  ASSUME Self, NEW a \in Others, NEW fn, NEW pc, At(a, fn, pc),
         fn \notin {"Kill", "Stop"} \/ pc \notin {"grace", "direct", "wait", "last"}
  PROVE  wait[a] = "no"
  <1>1. ~Waits(a)
    BY DEF Waits, WaitPoints, At
  <1>2. TopOf(a)
    BY DEF Self, Tidy, StackOf
  <1> QED BY <1>1, <1>2 DEF TopOf

\* A removal kills the container only while it runs, and that kill goes well.
LEMMA RemovalKills ==
  ASSUME Self, NEW a \in Others, stack[a] # <<>>, Head(stack[a]).fn = "Kill",
         2 \in DOMAIN stack[a], stack[a][2].fn = "Rm"
  PROVE  st.running /\ Head(stack[a]).pc \in {"begin", "signal", "direct", "pid", "last"}
  <1>1. StackOf(a) /\ 1 \in DOMAIN stack[a] /\ 2 = 1 + 1 /\ Head(stack[a]) = stack[a][1]
    BY SelfFacts
  <1>2. Calls(stack[a][1], stack[a][2])
    BY <1>1 DEF StackOf, Nested
  <1> QED BY <1>1, <1>2 DEF Calls, StackOf, TopOf

\* A step that leaves the state alone.
LEMMA CalmWhen ==
  ASSUME Self, NEW a \in Others,
         \A b \in Actors : b # a => stack'[b] = stack[b] /\ wait'[b] = wait[b] /\ ret'[b] = ret[b],
         registered' = registered, proc'.state = proc.state, queue' = queue, stream' = stream,
         st'.running = st.running, st'.paused = st.paused,
         st'.removing = st.removing, st'.dead = st.dead
  PROVE  Calm(a)
  BY DEF Calm, Self, Tidy, MarkInv

\* Only the actor that moves has another stack.
LEMMA OthersStay ==
  ASSUME TypeOK, NEW a \in Actors,
         \/ \E pc : Goto(a, pc)
         \/ \E v : Return(a, v) \/ Continue(a, v)
         \/ \E pc, fn, flag : CallThen(a, pc, fn, flag)
         \/ \E fn, flag : TailCall(a, fn, flag)
  PROVE  \A b \in Actors : b # a => stack'[b] = stack[b] /\ ret'[b] = ret[b]
  BY DEF Goto, Return, Continue, CallThen, TailCall, TypeOK

\* Somebody else's mark, or one further out, promises the removal.
LEMMA MarkPromises ==
  ASSUME Self, NEW a \in Others, st.removing, stack[a] # <<>>, ~Marked(Head(stack[a]))
  PROVE  \/ \E b \in Others : b # a /\ HasRemoves(b)
         \/ \E i \in DOMAIN stack[a] : i # 1 /\ Removes(stack[a][i])
  <1>1. PICK b \in Others : HasMarked(b)
    BY DEF Self, Tidy, MarkInv
  <1>2. PICK i \in DOMAIN stack[b] : Marked(stack[b][i])
    BY <1>1 DEF HasMarked
  <1>3. Removes(stack[b][i])
    BY <1>2 DEF Marked, Removes
  <1>4. Head(stack[a]) = stack[a][1]
    BY SelfFacts
  <1> QED BY <1>2, <1>3, <1>4 DEF HasRemoves

\* With one client AutoRemove is off only while that client is in containerRestart.
LEMMA OnUnless ==
  ASSUME Self, OneClient, NEW a \in Ops, ~st.autoRemove
  PROVE  HasRestoring(a)
  <1>1. PICK b \in Others : HasRestoring(b)
    BY DEF Self, Tidy, OnInv
  <1>2. PICK i \in DOMAIN stack[b] : Restoring(stack[b][i])
    BY <1>1 DEF HasRestoring
  <1>3. FrameOf(b, stack[b][i], st)
    BY DEF Self, Tidy, StackOf
  <1>4. b # Worker
    BY <1>2, <1>3 DEF FrameOf, Restoring
  <1>5. b \in Ops
    BY <1>4 DEF Others, Actors
  <1> QED BY <1>1, <1>5 DEF OneClient

\* A start is called from containerRestart or by nobody.
LEMMA StartCalled ==
  ASSUME Self, NEW a \in Others, stack[a] # <<>>, Head(stack[a]).fn = "Start"
  PROVE  \A i \in DOMAIN stack[a] :
           i # 1 => i = 2 /\ stack[a][2].fn = "Restart" /\ stack[a][2].pc = "started"
  <1>1. /\ StackOf(a) /\ Head(stack[a]) = stack[a][1] /\ 1 \in DOMAIN stack[a]
        /\ stack[a] \in Seq(Frames) /\ DOMAIN stack[a] = 1..Len(stack[a])
    BY SelfFacts, StackAt
  <1> SUFFICES ASSUME NEW i \in DOMAIN stack[a], i # 1
               PROVE  i = 2 /\ stack[a][2].fn = "Restart" /\ stack[a][2].pc = "started"
    OBVIOUS
  <1>2. i \in Nat /\ i >= 2 /\ i <= Len(stack[a]) /\ Len(stack[a]) \in Nat
    BY <1>1
  <1>3. 2 \in DOMAIN stack[a] /\ 2 = 1 + 1
    BY <1>1, <1>2
  <1>4. Calls(stack[a][1], stack[a][2])
    BY <1>1, <1>3 DEF StackOf, Nested
  <1>5. stack[a][2].fn = "Restart" /\ stack[a][2].pc = "started"
    BY <1>1, <1>4 DEF Calls
  <1>6. ASSUME i # 2 PROVE FALSE
    <2>1. 3 \in DOMAIN stack[a] /\ 3 = 2 + 1
      BY <1>1, <1>2, <1>6
    <2>2. Calls(stack[a][2], stack[a][3])
      BY <1>1, <1>3, <2>1 DEF StackOf, Nested
    <2> QED BY <1>5, <2>2 DEF Calls
  <1> QED BY <1>5, <1>6

\* The place an actor goes on at is a place, and the functions are functions.
LEMMA Places ==
  /\ {"create", "started", "removed", "signal", "grace", "direct", "pid", "last", "wait", "kill",
      "killed", "mark", "check", "running", "stopped", "dead", "destroy", "save", "restore",
      "start"} \subseteq Pcs
  /\ {"Start", "Stop", "Kill", "Rm"} \subseteq Fns
  BY DEF Pcs, Fns

\* A frame at another place.
LEMMA FrameIs ==
  ASSUME NEW h \in Frames, NEW pc \in Pcs
  PROVE  /\ [h EXCEPT !.pc = pc] \in Frames /\ [h EXCEPT !.pc = pc].fn = h.fn
         /\ [h EXCEPT !.pc = pc].pc = pc /\ [h EXCEPT !.pc = pc].flag = h.flag
  <1>1. [h EXCEPT !.pc = pc].flag = h.flag
    BY DEF Frames
  <1> QED BY <1>1, FrameAt

\* A frame that was just called.
LEMMA CalledIs ==
  ASSUME NEW fn, NEW flag
  PROVE  Frame(fn, flag).fn = fn /\ Frame(fn, flag).pc = "begin" /\ Frame(fn, flag).flag = flag
  BY DEF Frame

\* Kill and containerStop look whether the container runs.
LEMMA BeginsTidy ==
  ASSUME Self, NEW a \in Others, KillBegin(a) \/ StopBegin(a)
  PROVE  Tidy'
  <1> DEFINE h == Head(stack[a])
             g == [h EXCEPT !.pc = "signal"]
  <1>1. stack[a] # <<>> /\ h.fn \in {"Kill", "Stop"} /\ h.pc = "begin"
    BY DEF KillBegin, StopBegin, At
  <1>2. a \in Actors /\ TypeOK /\ StackOf(a) /\ h \in Frames /\ FrameOf(a, h, st)
    BY <1>1, SelfFacts
  <1>3. wait[a] = "no"
    BY NoWait DEF KillBegin, StopBegin
  <1>4. UNCHANGED <<st, registered, wait, proc, stream, queue>>
    BY DEF KillBegin, StopBegin
  <1>5. Calm(a)
    BY <1>2, <1>4, OthersStay, CalmWhen DEF KillBegin, StopBegin
  <1>6. CASE Goto(a, "signal")
    <2>1. g \in Frames /\ g.fn = h.fn /\ g.pc = "signal"
      BY <1>2, FrameIs, Places
    <2>2. FrameOf(a, g, st') /\ ~Marked(h) /\ ~Restoring(h) /\ ~Removes(h)
      BY <1>1, <1>2, <1>4, <2>1 DEF FrameOf, Marked, Restoring, Removes
    <2> HIDE DEF g
    <2> QED BY <1>1, <1>3, <1>4, <1>5, <1>6, <2>2, GotoTidy, Places DEF g
  <1>7. ASSUME NEW v \in {"nil", "err"}, Return(a, v), v = "err" => h.fn = "Kill" /\ ~st.running
        PROVE  Tidy'
    <2>1. ~Marked(h) /\ ~Restoring(h) /\ ~Removes(h)
      BY <1>1 DEF Marked, Restoring, Removes
    <2>2. v = "err" => h.fn # "Stop" /\ ~(2 \in DOMAIN stack[a] /\ stack[a][2].fn = "Rm")
      BY <1>1, <1>7, RemovalKills
    <2> QED BY <1>1, <1>3, <1>4, <1>5, <1>7, <2>1, <2>2, ReturnTidy
  <1>8. \/ Goto(a, "signal")
        \/ Return(a, "err") /\ ~st.running /\ h.fn = "Kill"
        \/ Return(a, "nil")
    BY DEF KillBegin, StopBegin, Continue, At
  <1> QED BY <1>6, <1>7, <1>8

\* A failed start's removal is over.
LEMMA StartRemovedTidy ==
  ASSUME Self, NEW a \in Others, StartRemoved(a)
  PROVE  Tidy'
  <1> DEFINE h == Head(stack[a])
  <1>1. stack[a] # <<>> /\ h.fn = "Start" /\ h.pc = "removed" /\ Return(a, "err")
    BY DEF StartRemoved, At
  <1>2. a \in Actors /\ TypeOK
    BY <1>1, SelfFacts
  <1>3. wait[a] = "no"
    BY NoWait DEF StartRemoved
  <1>4. UNCHANGED <<st, registered, wait, proc, stream, queue>>
    BY DEF StartRemoved
  <1>5. Calm(a)
    BY <1>1, <1>2, <1>4, OthersStay, CalmWhen
  <1>6. ~Marked(h) /\ ~Restoring(h) /\ ~Removes(h)
    BY <1>1 DEF Marked, Restoring, Removes
  <1> QED BY <1>1, <1>3, <1>4, <1>5, <1>6, ReturnTidy

\* containerStop kills the container.
LEMMA StopKillTidy ==
  ASSUME Self, NEW a \in Others, StopKill(a)
  PROVE  Tidy'
  <1> DEFINE h == Head(stack[a])
             f == Frame("Kill", FALSE)
             k == [h EXCEPT !.pc = "killed"]
             l == [h EXCEPT !.pc = "last"]
  <1>1. stack[a] # <<>> /\ h.fn = "Stop" /\ h.pc \in {"kill", "killed"}
    BY DEF StopKill, At
  <1>2. a \in Actors /\ TypeOK /\ StackOf(a) /\ h \in Frames /\ FrameOf(a, h, st)
    BY <1>1, SelfFacts
  <1>3. wait[a] = "no"
    BY NoWait DEF StopKill
  <1>4. UNCHANGED <<st, registered, wait, proc, stream, queue>>
    BY DEF StopKill
  <1>5. Calm(a)
    BY <1>2, <1>4, OthersStay, CalmWhen DEF StopKill
  <1>6. ~Marked(h) /\ ~Restoring(h) /\ ~Removes(h)
    BY <1>1 DEF Marked, Restoring, Removes
  <1>7. /\ k \in Frames /\ k.fn = "Stop" /\ k.pc = "killed"
        /\ l \in Frames /\ l.fn = "Stop" /\ l.pc = "last"
        /\ f.fn = "Kill" /\ f.pc = "begin"
    <2>1. "killed" \in Pcs /\ "last" \in Pcs
      BY Places
    <2>2. k \in Frames /\ k.fn = h.fn /\ k.pc = "killed"
      BY <1>2, <2>1, FrameIs
    <2>3. l \in Frames /\ l.fn = h.fn /\ l.pc = "last"
      BY <1>2, <2>1, FrameIs
    <2>4. f.fn = "Kill" /\ f.pc = "begin"
      BY CalledIs
    <2> HIDE DEF f, k, l
    <2> QED BY <1>1, <2>2, <2>3, <2>4
  <1>8. /\ Calls(f, k) /\ FrameOf(a, f, st') /\ FrameOf(a, k, st') /\ FrameOf(a, l, st')
    BY <1>1, <1>2, <1>4, <1>7 DEF FrameOf, Marked, Restoring, Calls
  <1>9. k.fn # "Rm"
    BY <1>7
  <1> HIDE DEF f, k, l
  <1>10. CASE CallThen(a, "killed", "Kill", FALSE)
    BY <1>1, <1>3, <1>4, <1>5, <1>6, <1>8, <1>9, <1>10, CallTidy, Places DEF f, k
  <1>11. CASE Return(a, "nil")
    BY <1>1, <1>3, <1>4, <1>5, <1>6, <1>11, ReturnTidy
  <1>12. CASE Goto(a, "last")
    BY <1>1, <1>3, <1>4, <1>5, <1>6, <1>8, <1>12, GotoTidy, Places DEF l
  <1> QED BY <1>10, <1>11, <1>12 DEF StopKill, Continue

\* A removal finds the container in the index.
LEMMA RmLookupTidy ==
  ASSUME Self, NEW a \in Others, RmLookup(a)
  PROVE  Tidy'
  <1> DEFINE h == Head(stack[a])
  <1>1. stack[a] # <<>> /\ h.fn = "Rm" /\ h.pc \in {"begin", "check"}
    BY DEF RmLookup, At
  <1>2. a \in Actors /\ TypeOK /\ StackOf(a) /\ h \in Frames /\ FrameOf(a, h, st)
    BY <1>1, SelfFacts
  <1>3. wait[a] = "no"
    BY NoWait DEF RmLookup
  <1>4. UNCHANGED <<st, registered, wait, proc, stream, queue>>
    BY DEF RmLookup
  <1>5. Calm(a)
    BY <1>2, <1>4, OthersStay, CalmWhen DEF RmLookup
  <1>6. PICK pc \in {"mark", "running"} : Goto(a, pc) /\ (Marked(h) <=> pc = "running")
    BY <1>1 DEF RmLookup, Continue, At, Self, Marked
  <1> DEFINE g == [h EXCEPT !.pc = pc]
  <1>7. pc \in Pcs
    BY <1>6, Places
  <1>8. g \in Frames /\ g.fn = h.fn /\ g.pc = pc /\ g.flag = h.flag
    BY <1>2, <1>7, FrameIs
  <1>9. /\ FrameOf(a, g, st') /\ (Marked(h) => Marked(g)) /\ ~Restoring(h) /\ Removes(g)
        /\ h.fn # "Kill" /\ h.fn # "Stop"
    <2> HIDE DEF g, h
    <2> QED BY <1>1, <1>2, <1>4, <1>6, <1>8 DEF FrameOf, Marked, Restoring, Removes
  <1> HIDE DEF g
  <1> QED BY <1>1, <1>3, <1>4, <1>5, <1>6, <1>7, <1>9, GotoTidy DEF g

\* SetRemovalInProgress: somebody else's removal has promised the same.
LEMMA RmMarkTidy ==
  ASSUME Self, NEW a \in Others, RmMark(a)
  PROVE  Tidy'
  <1> DEFINE h == Head(stack[a])
             g == [h EXCEPT !.pc = "check"]
  <1>1. stack[a] # <<>> /\ h.fn = "Rm" /\ h.pc = "mark"
    BY DEF RmMark, At
  <1>2. a \in Actors /\ TypeOK /\ StackOf(a) /\ h \in Frames /\ FrameOf(a, h, st)
    BY <1>1, SelfFacts
  <1>3. wait[a] = "no"
    BY NoWait DEF RmMark
  <1>4. UNCHANGED <<registered, wait, proc, stream, queue>>
    BY DEF RmMark
  <1>5. \A b \in Actors : b # a => stack'[b] = stack[b] /\ wait'[b] = wait[b] /\ ret'[b] = ret[b]
    BY <1>2, <1>4, OthersStay DEF RmMark
  <1>6. ~Marked(h) /\ ~Restoring(h) /\ h.fn # "Kill" /\ h.fn # "Stop"
    BY <1>1 DEF Marked, Restoring
  <1>7. CASE st.removing /\ Return(a, "err") /\ UNCHANGED st
    <2>1. Calm(a)
      BY <1>4, <1>5, <1>7, CalmWhen
    <2>2. \/ \E b \in Others : b # a /\ HasRemoves(b)
          \/ \E i \in DOMAIN stack[a] : i # 1 /\ Removes(stack[a][i])
      BY <1>1, <1>6, <1>7, MarkPromises
    <2> QED BY <1>1, <1>3, <1>4, <1>6, <1>7, <2>1, <2>2, ReturnTidy
  <1>8. CASE ~st.removing /\ Goto(a, "check") /\ st' = [st EXCEPT !.removing = TRUE]
    <2>1. /\ st'.removing /\ st'.running = st.running /\ st'.paused = st.paused /\ st'.dead = st.dead
          /\ st'.autoRemove = st.autoRemove
      BY <1>2, <1>8 DEF TypeOK, States
    <2>2. Calm(a)
      BY <1>4, <1>5, <2>1 DEF Calm
    <2>3. "check" \in Pcs
      BY Places
    <2>4. g \in Frames /\ g.fn = h.fn /\ g.pc = "check" /\ g.flag = h.flag
      BY <1>2, <2>3, FrameIs
    <2>5. FrameOf(a, g, st') /\ Marked(g) /\ Removes(g)
      <3> HIDE DEF g, h
      <3> QED BY <1>1, <1>2, <2>1, <2>4 DEF FrameOf, Marked, Restoring, Removes
    <2> HIDE DEF g
    <2> QED BY <1>1, <1>3, <1>4, <1>6, <1>8, <2>1, <2>2, <2>3, <2>5, GotoTidy DEF g
  <1> QED BY <1>7, <1>8 DEF RmMark

\* cleanupContainer kills, then stops the container.
LEMMA RmCallsTidy ==
  ASSUME Self, NEW a \in Others, RmRunning(a) \/ RmStop(a)
  PROVE  Tidy'
  <1> DEFINE h == Head(stack[a])
  <1>1. stack[a] # <<>> /\ h.fn = "Rm" /\ h.pc \in {"running", "killed", "stopped"}
    BY DEF RmRunning, RmStop, At
  <1>2. a \in Actors /\ TypeOK /\ StackOf(a) /\ h \in Frames /\ FrameOf(a, h, st)
    BY <1>1, SelfFacts
  <1>3. wait[a] = "no"
    BY NoWait DEF RmRunning, RmStop
  <1>4. UNCHANGED <<st, registered, wait, proc, stream, queue>>
    BY DEF RmRunning, RmStop
  <1>5. Calm(a)
    BY <1>2, <1>4, OthersStay, CalmWhen DEF RmRunning, RmStop
  <1>6. h.flag /\ st.removing /\ ~Restoring(h)
    BY <1>1, <1>2 DEF FrameOf, Marked, Restoring
  <1>7. h.pc \in {"killed", "stopped"} => ret[a] = "nil"
    BY <1>1, <1>2 DEF StackOf, TopOf, At
  <1>8. \/ CallThen(a, "killed", "Kill", FALSE) /\ st.running
        \/ CallThen(a, "stopped", "Stop", FALSE)
        \/ Goto(a, "dead")
    BY <1>1, <1>6, <1>7 DEF RmRunning, RmStop, At
  <1>9. ASSUME NEW pc \in Pcs, NEW fn \in Fns, CallThen(a, pc, fn, FALSE),
               \/ pc = "killed" /\ fn = "Kill" /\ st.running
               \/ pc = "stopped" /\ fn = "Stop"
        PROVE  Tidy'
    <2> DEFINE f == Frame(fn, FALSE)
               g == [h EXCEPT !.pc = pc]
    <2>1. g \in Frames /\ g.fn = h.fn /\ g.pc = pc /\ g.flag = h.flag
      BY <1>2, <1>9, FrameIs
    <2>2. f.fn = fn /\ f.pc = "begin"
      BY CalledIs
    <2>3. /\ Calls(f, g) /\ FrameOf(a, f, st') /\ FrameOf(a, g, st') /\ Marked(g) /\ Removes(g)
          /\ (g.fn = "Rm" /\ g.pc = "killed" => st.running)
      <3> HIDE DEF f, g, h
      <3> QED BY <1>1, <1>2, <1>4, <1>6, <1>9, <2>1, <2>2
              DEF FrameOf, Marked, Restoring, Removes, Calls
    <2> HIDE DEF f, g
    <2> QED BY <1>1, <1>3, <1>4, <1>5, <1>6, <1>9, <2>3, CallTidy DEF f, g
  <1>10. CASE Goto(a, "dead")
    <2> DEFINE g == [h EXCEPT !.pc = "dead"]
    <2>0. "dead" \in Pcs
      BY Places
    <2>1. g \in Frames /\ g.fn = h.fn /\ g.pc = "dead" /\ g.flag = h.flag
      BY <1>2, <2>0, FrameIs
    <2>3. FrameOf(a, g, st') /\ Marked(g) /\ Removes(g) /\ h.fn # "Kill" /\ h.fn # "Stop"
      <3> HIDE DEF g, h
      <3> QED BY <1>1, <1>2, <1>4, <1>6, <2>1 DEF FrameOf, Marked, Restoring, Removes
    <2> HIDE DEF g
    <2> QED BY <1>1, <1>3, <1>4, <1>5, <1>6, <1>10, <2>0, <2>3, GotoTidy DEF g
  <1>11. {"killed", "stopped"} \subseteq Pcs /\ {"Kill", "Stop"} \subseteq Fns
    BY Places
  <1> QED BY <1>8, <1>9, <1>10, <1>11

\* SetDead marks a container that is being removed.
LEMMA RmDeadTidy ==
  ASSUME Self, NEW a \in Others, RmDead(a)
  PROVE  Tidy'
  <1> DEFINE h == Head(stack[a])
             g == [h EXCEPT !.pc = "destroy"]
  <1>1. stack[a] # <<>> /\ h.fn = "Rm" /\ h.pc = "dead" /\ Goto(a, "destroy")
    BY DEF RmDead, At
  <1>2. a \in Actors /\ TypeOK /\ StackOf(a) /\ h \in Frames /\ FrameOf(a, h, st)
    BY <1>1, SelfFacts
  <1>3. wait[a] = "no"
    BY NoWait DEF RmDead
  <1>4. UNCHANGED <<registered, wait, proc, stream, queue>> /\ st' = [st EXCEPT !.dead = TRUE]
    BY DEF RmDead
  <1>5. \A b \in Actors : b # a => stack'[b] = stack[b] /\ wait'[b] = wait[b] /\ ret'[b] = ret[b]
    BY <1>1, <1>2, <1>4, OthersStay
  <1>6. Marked(h) /\ ~Restoring(h) /\ h.fn # "Kill" /\ h.fn # "Stop" /\ st.removing
    BY <1>1, <1>2 DEF FrameOf, Marked, Restoring
  <1>7. /\ st'.removing = st.removing /\ st'.running = st.running /\ st'.paused = st.paused
        /\ st'.autoRemove = st.autoRemove
    BY <1>2, <1>4 DEF TypeOK, States
  <1>8. Calm(a)
    BY <1>4, <1>5, <1>6, <1>7 DEF Calm
  <1>9. "destroy" \in Pcs
    BY Places
  <1>10. g \in Frames /\ g.fn = h.fn /\ g.pc = "destroy" /\ g.flag = h.flag
    BY <1>2, <1>9, FrameIs
  <1>11. FrameOf(a, g, st') /\ Marked(g) /\ Removes(g)
    <2> HIDE DEF g, h
    <2> QED BY <1>1, <1>2, <1>6, <1>7, <1>10 DEF FrameOf, Marked, Restoring, Removes
  <1> HIDE DEF g
  <1> QED BY <1>1, <1>3, <1>4, <1>6, <1>7, <1>8, <1>9, <1>11, GotoTidy DEF g

\* Destroying always works here, and then the container is gone from the index; a removal
\* that has to give up is not there.
LEMMA RmEndsTidy ==
  ASSUME Self, NEW a \in Others, RmDestroy(a) \/ RmReset(a)
  PROVE  ~registered'
  <1>1. stack[a] # <<>>
    BY DEF RmDestroy, RmReset, At
  <1>2. FrameOf(a, Head(stack[a]), st)
    BY <1>1, SelfFacts
  <1>3. ~RmReset(a)
    BY <1>2 DEF RmReset, At, FrameOf
  <1>4. "remove" \notin Faults
    BY AloneFacts DEF Self
  <1> QED BY <1>3, <1>4 DEF RmDestroy

\* containerRestart goes on to stop the container or to start it.
LEMMA RestartBeginTidy ==
  ASSUME Self, NEW a \in Others, RestartBegin(a)
  PROVE  Tidy'
  <1> DEFINE h == Head(stack[a])
  <1>1. stack[a] # <<>> /\ h.fn = "Restart" /\ h.pc = "begin"
    BY DEF RestartBegin, At
  <1>2. a \in Actors /\ TypeOK /\ StackOf(a) /\ h \in Frames /\ FrameOf(a, h, st)
    BY <1>1, SelfFacts
  <1>3. wait[a] = "no"
    BY NoWait DEF RestartBegin
  <1>4. UNCHANGED <<st, registered, wait, proc, stream, queue>>
    BY DEF RestartBegin
  <1>5. Calm(a)
    BY <1>2, <1>4, OthersStay, CalmWhen DEF RestartBegin
  <1>6. PICK pc \in {"save", "start"} : Goto(a, pc)
    BY DEF RestartBegin
  <1> DEFINE g == [h EXCEPT !.pc = pc]
  <1>7. pc \in Pcs
    BY <1>6, Places
  <1>8. g \in Frames /\ g.fn = h.fn /\ g.pc = pc /\ g.flag = h.flag
    BY <1>2, <1>7, FrameIs
  <1>9. /\ FrameOf(a, g, st') /\ ~Marked(h) /\ ~Restoring(h) /\ ~Removes(h)
        /\ h.fn # "Kill" /\ h.fn # "Stop"
    <2> HIDE DEF g, h
    <2> QED BY <1>1, <1>2, <1>4, <1>6, <1>8 DEF FrameOf, Marked, Restoring, Removes
  <1> HIDE DEF g
  <1> QED BY <1>1, <1>3, <1>4, <1>5, <1>6, <1>7, <1>9, GotoTidy DEF g

\* AutoRemove is on when the one client's containerRestart saves it.
LEMMA RestartSaveTidy ==
  ASSUME Self, OneClient, NEW a \in Others, RestartSave(a)
  PROVE  Tidy'
  <1> DEFINE h == Head(stack[a])
             f == Frame("Stop", FALSE)
             g == [h EXCEPT !.pc = "restore", !.flag = st.autoRemove]
  <1>1. stack[a] # <<>> /\ h.fn = "Restart" /\ h.pc = "save"
    BY DEF RestartSave, At
  <1>2. a \in Actors /\ TypeOK /\ StackOf(a) /\ h \in Frames /\ FrameOf(a, h, st)
        /\ h = stack[a][1] /\ 1 \in DOMAIN stack[a]
    BY <1>1, SelfFacts
  <1>3. wait[a] = "no"
    BY NoWait DEF RestartSave
  <1>4. /\ UNCHANGED <<registered, wait, proc, stream, queue, ret>>
        /\ st' = [st EXCEPT !.autoRemove = FALSE]
        /\ stack' = [stack EXCEPT ![a] = <<f, g>> \o Tail(@)]
    BY DEF RestartSave
  <1>5. a # Worker /\ a \in Ops
    BY <1>1, <1>2 DEF FrameOf, Others, Actors
  <1>6. st.autoRemove
    <2> SUFFICES ASSUME ~st.autoRemove PROVE FALSE
      OBVIOUS
    <2>1. PICK i \in DOMAIN stack[a] : Restoring(stack[a][i])
      BY <1>5, OnUnless DEF HasRestoring
    <2>2. DOMAIN stack[a] = 1..Len(stack[a]) /\ Len(stack[a]) = 1
      BY <1>1, <1>2, StackAt, OnlyFrame DEF StackOf
    <2>3. i = 1
      BY <2>1, <2>2
    <2> QED BY <1>1, <1>2, <2>1, <2>3 DEF Restoring
  <1>7. /\ st'.removing = st.removing /\ st'.running = st.running /\ st'.paused = st.paused
        /\ st'.dead = st.dead
    BY <1>2, <1>4 DEF TypeOK, States
  <1>8. \A b \in Actors : b # a => stack'[b] = stack[b] /\ wait'[b] = wait[b] /\ ret'[b] = ret[b]
    BY <1>2, <1>4 DEF TypeOK
  <1>9. Calm(a)
    BY <1>4, <1>7, <1>8, CalmWhen
  <1>10. "restore" \in Pcs
    BY Places
  <1>11. g \in Frames /\ g.fn = h.fn /\ g.pc = "restore" /\ g.flag
    BY <1>2, <1>6, <1>10 DEF Frames
  <1>12. f \in Frames /\ f.fn = "Stop" /\ f.pc = "begin"
    BY FrameType, CalledIs, Places DEF PlainFrames
  <1>13. /\ Calls(f, g) /\ FrameOf(a, f, st') /\ FrameOf(a, g, st') /\ Restoring(g) /\ Removes(g)
         /\ ~Marked(h) /\ g.fn # "Rm"
    <2> HIDE DEF g, h, f
    <2> QED BY <1>1, <1>2, <1>5, <1>11, <1>12 DEF FrameOf, Marked, Restoring, Removes, Calls
  <1> HIDE DEF f, g
  <1> QED BY <1>1, <1>3, <1>4, <1>7, <1>9, <1>11, <1>12, <1>13, PushTidy

\* It gives AutoRemove back and goes on to start the container: the stop went well.
LEMMA RestartRestoreTidy ==
  ASSUME Self, NEW a \in Others, RestartRestore(a)
  PROVE  Tidy'
  <1> DEFINE h == Head(stack[a])
             g == [h EXCEPT !.pc = "start"]
  <1>1. stack[a] # <<>> /\ h.fn = "Restart" /\ h.pc = "restore"
    BY DEF RestartRestore, At
  <1>2. a \in Actors /\ TypeOK /\ StackOf(a) /\ h \in Frames /\ FrameOf(a, h, st)
    BY <1>1, SelfFacts
  <1>3. wait[a] = "no"
    BY NoWait DEF RestartRestore
  <1>4. UNCHANGED <<registered, wait, proc, stream, queue>> /\ st' = [st EXCEPT !.autoRemove = h.flag]
    BY DEF RestartRestore
  <1>5. h.flag
    BY <1>1, <1>2 DEF FrameOf, Restoring
  <1>6. ret[a] = "nil"
    BY <1>1, <1>2 DEF StackOf, TopOf, At
  <1>7. Goto(a, "start")
    BY <1>6 DEF RestartRestore, Continue
  <1>8. /\ st'.removing = st.removing /\ st'.running = st.running /\ st'.paused = st.paused
        /\ st'.dead = st.dead /\ st'.autoRemove
    BY <1>2, <1>4, <1>5 DEF TypeOK, States
  <1>9. Calm(a)
    BY <1>2, <1>4, <1>7, <1>8, OthersStay, CalmWhen
  <1>10. "start" \in Pcs
    BY Places
  <1>11. g \in Frames /\ g.fn = h.fn /\ g.pc = "start" /\ g.flag = h.flag
    BY <1>2, <1>10, FrameIs
  <1>12. /\ FrameOf(a, g, st') /\ ~Marked(h) /\ Removes(g) /\ h.fn # "Kill" /\ h.fn # "Stop"
    <2> HIDE DEF g, h
    <2> QED BY <1>1, <1>2, <1>5, <1>11 DEF FrameOf, Marked, Restoring, Removes
  <1> HIDE DEF g
  <1> QED BY <1>1, <1>3, <1>4, <1>7, <1>8, <1>9, <1>10, <1>12, GotoTidy DEF g

\* It starts the container, and returns what the start returned.
LEMMA RestartStartTidy ==
  ASSUME Self, NEW a \in Others, RestartStart(a)
  PROVE  Tidy'
  <1> DEFINE h == Head(stack[a])
             f == Frame("Start", TRUE)
             g == [h EXCEPT !.pc = "started"]
  <1>1. stack[a] # <<>> /\ h.fn = "Restart" /\ h.pc \in {"start", "started"}
    BY DEF RestartStart, At
  <1>2. a \in Actors /\ TypeOK /\ StackOf(a) /\ h \in Frames /\ FrameOf(a, h, st)
    BY <1>1, SelfFacts
  <1>3. wait[a] = "no"
    BY NoWait DEF RestartStart
  <1>4. UNCHANGED <<st, registered, wait, proc, stream, queue>>
    BY DEF RestartStart
  <1>5. Calm(a)
    BY <1>2, <1>4, OthersStay, CalmWhen DEF RestartStart
  <1>6. ~Marked(h) /\ ~Restoring(h)
    BY <1>1 DEF Marked, Restoring
  <1>7. CASE CallThen(a, "started", "Start", TRUE)
    <2>0. "started" \in Pcs /\ "Start" \in Fns
      BY Places
    <2>1. g \in Frames /\ g.fn = h.fn /\ g.pc = "started" /\ g.flag = h.flag
      BY <1>2, <2>0, FrameIs
    <2>2. f.fn = "Start" /\ f.pc = "begin"
      BY CalledIs
    <2>3. Calls(f, g) /\ FrameOf(a, f, st') /\ FrameOf(a, g, st') /\ Removes(f) /\ g.fn # "Rm"
      <3> HIDE DEF f, g, h
      <3> QED BY <1>1, <1>2, <1>4, <2>1, <2>2 DEF FrameOf, Marked, Restoring, Removes, Calls
    <2> HIDE DEF f, g
    <2> QED BY <1>1, <1>3, <1>4, <1>5, <1>6, <1>7, <2>0, <2>3, CallTidy DEF f, g
  <1>8. CASE h.pc = "started" /\ Return(a, ret[a])
    <2>1. ret[a] \in {"nil", "err"}
      BY <1>2 DEF TypeOK
    <2>2. ~Removes(h) /\ h.fn # "Kill" /\ h.fn # "Stop"
      BY <1>1, <1>8 DEF Removes
    <2> QED BY <1>1, <1>3, <1>4, <1>5, <1>6, <1>8, <2>1, <2>2, ReturnTidy
  <1> QED BY <1>7, <1>8 DEF RestartStart, At

\* autoRemove removes the container, unless a restart has turned AutoRemove off.
LEMMA AutoRmTidy ==
  ASSUME Self, NEW a \in Others, AutoRm(a)
  PROVE  Tidy'
  <1> DEFINE h == Head(stack[a])
             f == Frame("Rm", TRUE)
  <1>1. stack[a] # <<>> /\ h.fn = "AutoRm" /\ h.pc = "begin"
    BY DEF AutoRm, At
  <1>2. a \in Actors /\ TypeOK /\ StackOf(a) /\ h \in Frames /\ FrameOf(a, h, st)
    BY <1>1, SelfFacts
  <1>3. wait[a] = "no"
    BY NoWait DEF AutoRm
  <1>4. UNCHANGED <<st, registered, wait, proc, stream, queue>>
    BY DEF AutoRm
  <1>5. Calm(a)
    BY <1>2, <1>4, OthersStay, CalmWhen DEF AutoRm
  <1>6. a = Worker
    BY <1>1, <1>2 DEF FrameOf
  <1>7. CASE TailCall(a, "Rm", TRUE)
    <2>1. f.fn = "Rm" /\ f.pc = "begin" /\ f.flag
      BY CalledIs
    <2>2. FrameOf(a, f, st') /\ Removes(f)
      <3> HIDE DEF f
      <3> QED BY <1>6, <2>1 DEF FrameOf, Marked, Restoring, Removes
    <2> HIDE DEF f
    <2> QED BY <1>1, <1>3, <1>4, <1>5, <1>7, <2>2, TailTidy, Places DEF f
  <1>8. CASE ~st.autoRemove /\ Return(a, "nil")
    <2>1. PICK b \in Others : HasRestoring(b)
      BY <1>8 DEF Self, Tidy, OnInv
    <2>2. PICK i \in DOMAIN stack[b] : Restoring(stack[b][i])
      BY <2>1 DEF HasRestoring
    <2>3. FrameOf(b, stack[b][i], st) /\ Removes(stack[b][i])
      BY <2>2 DEF Self, Tidy, StackOf, Removes, Restoring
    <2>4. b # a
      BY <1>6, <2>2, <2>3 DEF FrameOf, Restoring
    <2>5. ~Marked(h) /\ ~Restoring(h)
      BY <1>1 DEF Marked, Restoring
    <2>6. b # a /\ HasRemoves(b)
      BY <2>3, <2>4 DEF HasRemoves
    <2> QED BY <1>1, <1>3, <1>4, <1>5, <1>8, <2>5, <2>6, ReturnTidy
  <1> QED BY <1>7, <1>8 DEF AutoRm

\* The requests to start and to stop.
LEMMA ApiTidy ==
  ASSUME Self, NEW a \in Others, ApiStart(a) \/ ApiStop(a)
  PROVE  Tidy'
  <1> DEFINE h == Head(stack[a])
  <1>1. stack[a] # <<>> /\ h.fn \in {"ApiStart", "ApiStop"} /\ h.pc = "begin"
    BY DEF ApiStart, ApiStop, At
  <1>2. a \in Actors /\ TypeOK /\ StackOf(a) /\ h \in Frames /\ FrameOf(a, h, st)
    BY <1>1, SelfFacts
  <1>3. wait[a] = "no"
    BY NoWait DEF ApiStart, ApiStop
  <1>4. UNCHANGED <<st, registered, wait, proc, stream, queue>>
    BY DEF ApiStart, ApiStop
  <1>5. Calm(a)
    BY <1>2, <1>4, OthersStay, CalmWhen DEF ApiStart, ApiStop
  <1>6. ~Marked(h) /\ ~Restoring(h) /\ ~Removes(h) /\ a # Worker
    BY <1>1, <1>2 DEF FrameOf, Marked, Restoring, Removes
  <1>7. ASSUME NEW fn \in {"Start", "Stop"}, NEW flag \in BOOLEAN, TailCall(a, fn, flag)
        PROVE  Tidy'
    <2> DEFINE f == Frame(fn, flag)
    <2>1. f.fn = fn /\ f.pc = "begin"
      BY CalledIs
    <2>2. FrameOf(a, f, st')
      <3> HIDE DEF f
      <3> QED BY <1>6, <1>7, <2>1 DEF FrameOf, Marked, Restoring
    <2>3. fn \in Fns
      BY <1>7, Places
    <2> HIDE DEF f
    <2> QED BY <1>1, <1>3, <1>4, <1>5, <1>6, <1>7, <2>2, <2>3, TailTidy DEF f
  <1>8. CASE Return(a, "err")
    BY <1>1, <1>3, <1>4, <1>5, <1>6, <1>8, ReturnTidy
  <1> QED BY <1>7, <1>8 DEF ApiStart, ApiStop

\* Continue in Kill, containerStop or a signal: an error is told to no removal, and
\* containerStop does not fail.
LEMMA ContinueTidy ==
  ASSUME Self, NEW a \in Others, Calm(a), stack[a] # <<>>, wait'[a] = "no",
         st'.removing = st.removing, st'.autoRemove = st.autoRemove,
         NEW k \in {"nil", "err", "grace", "direct", "pid", "last", "wait", "kill"}, Continue(a, k),
         LET h == Head(stack[a])
         IN  /\ h.fn \in {"Kill", "Stop", "Signal"}
             /\ h.fn = "Stop" => k # "err" /\ (k = "grace" => ~st.running)
             /\ h.fn = "Kill" /\ k \notin {"nil", "direct", "pid", "last"} =>
                  ~(2 \in DOMAIN stack[a] /\ stack[a][2].fn = "Rm")
  PROVE  Tidy'
  <1> DEFINE h == Head(stack[a])
             g == [h EXCEPT !.pc = k]
  <1>1. /\ h.fn \in {"Kill", "Stop", "Signal"}
        /\ h.fn = "Stop" => k # "err" /\ (k = "grace" => ~st.running)
        /\ h.fn = "Kill" /\ k \notin {"nil", "direct", "pid", "last"} =>
             ~(2 \in DOMAIN stack[a] /\ stack[a][2].fn = "Rm")
    OBVIOUS
  <1>2. a \in Actors /\ TypeOK /\ StackOf(a) /\ h \in Frames /\ FrameOf(a, h, st)
    BY SelfFacts
  <1>3. ~Marked(h) /\ ~Restoring(h) /\ ~Removes(h)
    BY <1>1 DEF Marked, Restoring, Removes
  <1>4. CASE k \in {"nil", "err"}
    <2>1. Return(a, k)
      BY <1>4 DEF Continue
    <2>2. k = "err" => h.fn # "Stop" /\ (h.fn = "Kill" => ~(2 \in DOMAIN stack[a] /\ stack[a][2].fn = "Rm"))
      BY <1>1
    <2> QED BY <1>3, <1>4, <2>1, <2>2, ReturnTidy
  <1>5. CASE k \notin {"nil", "err"}
    <2>1. Goto(a, k) /\ k \in Pcs
      BY <1>5, Places DEF Continue
    <2>2. g \in Frames /\ g.fn = h.fn /\ g.pc = k /\ g.flag = h.flag
      BY <1>2, <2>1, FrameIs
    <2>3. FrameOf(a, g, st')
      <3> HIDE DEF g, h
      <3> QED BY <1>1, <1>2, <1>5, <2>2 DEF FrameOf, Marked, Restoring
    <2> HIDE DEF g
    <2> QED BY <1>1, <1>3, <1>5, <2>1, <2>3, GotoTidy DEF g
  <1> QED BY <1>4, <1>5

\* The places WaitStop is called from and goes on at.
LEMMA WaitPointsAre ==
  ASSUME NEW w \in WaitPoints
  PROVE  /\ w.fn \in {"Kill", "Stop"}
         /\ w.fn = "Kill" => w.pc \in {"grace", "direct", "last"}
         /\ w.ok \in {"nil", "direct", "last", "wait"}
         /\ w.fn = "Kill" => w.ok \in {"nil", "direct", "last"}
         /\ w.late \in {"never", "err", "pid", "force", "kill"}
         /\ w.fn = "Stop" => w.late \in {"never", "force", "kill"}
         /\ w.fn = "Stop" /\ w.late = "force" => w.pc = "grace"
         /\ w.fn = "Kill" => w.late \in {"never", "err", "pid"}
         /\ w.fn = "Kill" /\ w.late = "err" => w.pc = "grace"
  BY DEF WaitPoints

\* Waiting for the container to stop.
LEMMA WaitTidy ==
  ASSUME Self, NEW a \in Others, WaitEnter(a) \/ WaitLeave(a)
  PROVE  Tidy'
  <1> DEFINE h == Head(stack[a])
  <1>1. UNCHANGED <<st, registered, proc, stream, queue>>
    BY DEF WaitEnter, WaitLeave
  <1>2. PICK w \in WaitPoints :
          /\ At(a, w.fn, w.pc)
          /\ \/ wait[a] = "no" /\ wait'[a] = "no" /\ Continue(a, w.ok) /\ wait' = wait
             \/ /\ wait[a] = "no" /\ st.running /\ wait' = [wait EXCEPT ![a] = "waiting"]
                /\ UNCHANGED <<stack, ret>>
             \/ wait[a] # "no" /\ Continue(a, w.ok) /\ wait' = [wait EXCEPT ![a] = "no"]
             \/ /\ wait[a] # "no" /\ w.late # "never" /\ Continue(a, w.late)
                /\ wait' = [wait EXCEPT ![a] = "no"]
    BY DEF WaitEnter, WaitLeave
  <1>3. stack[a] # <<>> /\ h.fn = w.fn /\ h.pc = w.pc
    BY <1>2 DEF At
  <1>4. a \in Actors /\ TypeOK /\ StackOf(a)
    BY <1>3, SelfFacts
  <1>5. wait \in [Actors -> {"no", "waiting", "fired"}]
    BY <1>4 DEF TypeOK
  <1>6. \A b \in Actors : b # a => stack'[b] = stack[b] /\ wait'[b] = wait[b] /\ ret'[b] = ret[b]
    BY <1>2, <1>4, <1>5, OthersStay
  <1>7. Calm(a)
    BY <1>1, <1>6, CalmWhen
  <1>8. ASSUME NEW k \in {"nil", "err", "direct", "pid", "last", "wait", "kill"}, Continue(a, k),
               wait'[a] = "no",
               h.fn = "Stop" => k # "err",
               h.fn = "Kill" => k # "wait" /\ k # "kill" /\ (k = "err" => h.pc = "grace")
        PROVE  Tidy'
    <2>1. h.fn = "Kill" /\ k \notin {"nil", "direct", "pid", "last"} =>
             ~(2 \in DOMAIN stack[a] /\ stack[a][2].fn = "Rm")
      BY <1>3, <1>8, RemovalKills
    <2>2. h.fn \in {"Kill", "Stop", "Signal"}
      BY <1>3, WaitPointsAre
    <2> QED BY <1>1, <1>3, <1>7, <1>8, <2>1, <2>2, ContinueTidy
  <1>9. CASE Continue(a, w.ok) /\ wait'[a] = "no"
    BY <1>3, <1>8, <1>9, WaitPointsAre
  <1>10. CASE wait[a] # "no" /\ w.late # "never" /\ Continue(a, w.late) /\ wait'[a] = "no"
    <2>1. ~(h.fn = "Stop" /\ h.pc = "grace")
      BY <1>2, <1>3, <1>4, <1>10 DEF StackOf, TopOf, At
    <2>2. w.late \in {"err", "pid", "kill"}
      BY <1>3, <1>10, <2>1, WaitPointsAre
    <2> QED BY <1>3, <1>8, <1>10, <2>2, WaitPointsAre
  <1>11. CASE wait[a] = "no" /\ st.running /\ wait' = [wait EXCEPT ![a] = "waiting"] /\ UNCHANGED <<stack, ret>>
    <2>1. \A fn, pc : At(a, fn, pc)' <=> At(a, fn, pc)
      BY <1>11 DEF At
    <2>2. Waits(a)'
      BY <1>2, <2>1 DEF Waits
    <2>3. TopOf(a)'
      BY <1>1, <1>4, <1>11, <2>1, <2>2 DEF StackOf, TopOf
    <2>4. StackOf(a)'
      BY <1>1, <1>4, <1>11, <2>3 DEF StackOf
    <2>5. HasMarked(a)' = HasMarked(a) /\ HasRestoring(a)' = HasRestoring(a) /\ HasRemoves(a)' = HasRemoves(a)
      BY <1>11 DEF HasMarked, HasRestoring, HasRemoves
    <2> QED BY <1>1, <1>7, <2>4, <2>5, CalmKeeps
  <1>12. wait' = [wait EXCEPT ![a] = "no"] => wait'[a] = "no"
    BY <1>4, <1>5
  <1> QED BY <1>2, <1>9, <1>10, <1>11, <1>12

\* A signal reaches a container that runs; containerStop comes to its grace period only when
\* the container has stopped, and no removal's kill does.
LEMMA SignalTidy ==
  ASSUME Self, NEW a \in Others, KillWithSignal(a)
  PROVE  Tidy'
  <1> DEFINE h == Head(stack[a])
  <1>1. ~st.paused /\ "rpc" \notin Faults
    BY AloneFacts DEF Self, Tidy, ExitsOnly
  <1>2. PICK p \in SignalPoints :
          /\ At(a, p.fn, p.pc)
          /\ \/ ~st.running /\ Continue(a, p.bad) /\ UNCHANGED <<st, proc>>
             \/ /\ st.running /\ Continue(a, p.ok)
                /\ st' = [st EXCEPT !.manual = TRUE]
                /\ proc' = [proc EXCEPT !.killed =
                              @ \/ (~st.restarting /\ p.sig = "KILL" /\ proc.state = "alive")]
    BY <1>1 DEF KillWithSignal
  <1>3. stack[a] # <<>> /\ h.fn = p.fn /\ h.pc = p.pc
    BY <1>2 DEF At
  <1>4. a \in Actors /\ TypeOK /\ StackOf(a) /\ FrameOf(a, h, st)
    BY <1>3, SelfFacts
  <1>5. UNCHANGED <<registered, wait, stream, queue>>
    BY DEF KillWithSignal
  <1>6. /\ st'.removing = st.removing /\ st'.running = st.running /\ st'.paused = st.paused
        /\ st'.dead = st.dead /\ st'.autoRemove = st.autoRemove /\ proc'.state = proc.state
    BY <1>2, <1>4 DEF TypeOK, States
  <1>7. Calm(a)
    BY <1>2, <1>4, <1>5, <1>6, OthersStay, CalmWhen
  <1>8. /\ p.pc \in {"signal", "force", "begin"} /\ p.fn \in {"Kill", "Stop", "Signal"}
        /\ p.ok \in {"direct", "wait", "nil"} /\ p.bad \in {"grace", "err"}
        /\ p.fn = "Kill" => p.ok = "direct" /\ p.bad = "grace"
        /\ p.fn = "Stop" => p.ok = "wait" /\ (p.pc # "force" => p.bad = "grace")
    BY DEF SignalPoints
  <1>9. h.fn = "Stop" => h.pc # "force"
    BY <1>4 DEF FrameOf
  <1>10. wait'[a] = "no"
    BY <1>2, <1>5, <1>8, NoWait
  <1>11. CASE st.running /\ Continue(a, p.ok)
    BY <1>3, <1>6, <1>7, <1>8, <1>10, <1>11, ContinueTidy
  <1>12. CASE ~st.running /\ Continue(a, p.bad)
    <2>1. h.fn = "Kill" => ~(2 \in DOMAIN stack[a] /\ stack[a][2].fn = "Rm")
      BY <1>3, <1>12, RemovalKills
    <2> QED BY <1>3, <1>6, <1>7, <1>8, <1>9, <1>10, <1>12, <2>1, ContinueTidy
  <1> QED BY <1>2, <1>11, <1>12

\* SIGKILL to the pid never fails.
LEMMA KillDirectlyTidy ==
  ASSUME Self, NEW a \in Others, KillDirectly(a)
  PROVE  Tidy'
  <1> DEFINE h == Head(stack[a])
  <1>1. stack[a] # <<>> /\ h.fn = "Kill" /\ h.pc = "pid"
    BY DEF KillDirectly, At
  <1>2. a \in Actors /\ TypeOK /\ StackOf(a)
    BY <1>1, SelfFacts
  <1>3. wait[a] = "no"
    BY NoWait DEF KillDirectly
  <1>4. UNCHANGED <<st, registered, wait, stream, queue>>
    BY DEF KillDirectly
  <1>5. proc'.state = proc.state
    BY <1>2 DEF KillDirectly, TypeOK
  <1>6. PICK k \in {"last", "nil"} : Continue(a, k)
    BY DEF KillDirectly, Continue
  <1>7. Calm(a)
    BY <1>2, <1>4, <1>5, <1>6, OthersStay, CalmWhen
  <1> QED BY <1>1, <1>3, <1>4, <1>6, <1>7, ContinueTidy

\* containerStart refuses a container that runs, or that is being removed by somebody who
\* will see to it.
LEMMA StartBeginTidy ==
  ASSUME Self, NEW a \in Others, StartBegin(a)
  PROVE  Tidy'
  <1> DEFINE h == Head(stack[a])
             g == [h EXCEPT !.pc = "create"]
  <1>1. stack[a] # <<>> /\ h.fn = "Start" /\ h.pc = "begin"
    BY DEF StartBegin, At
  <1>2. a \in Actors /\ TypeOK /\ StackOf(a) /\ h \in Frames /\ FrameOf(a, h, st)
    BY <1>1, SelfFacts
  <1>3. wait[a] = "no"
    BY NoWait DEF StartBegin
  <1>4. UNCHANGED <<st, registered, wait, proc, stream, queue>>
    BY DEF StartBegin
  <1>5. Calm(a)
    BY <1>2, <1>4, OthersStay, CalmWhen DEF StartBegin
  <1>6. ~Marked(h) /\ ~Restoring(h)
    BY <1>1 DEF Marked, Restoring
  <1>7. CASE st.running /\ Return(a, "nil")
    BY <1>1, <1>3, <1>4, <1>5, <1>6, <1>7, ReturnTidy
  <1>8. CASE (st.removing \/ st.dead) /\ Return(a, "err")
    <2>1. st.removing
      BY <1>8 DEF Self, Tidy, MarkInv
    <2>2. \/ \E b \in Others : b # a /\ HasRemoves(b)
          \/ \E i \in DOMAIN stack[a] : i # 1 /\ Removes(stack[a][i])
      BY <1>1, <1>6, <2>1, MarkPromises
    <2> QED BY <1>1, <1>3, <1>4, <1>5, <1>6, <1>8, <2>2, ReturnTidy
  <1>9. CASE Goto(a, "create")
    <2>1. "create" \in Pcs
      BY Places
    <2>2. g \in Frames /\ g.fn = h.fn /\ g.pc = "create" /\ g.flag = h.flag
      BY <1>2, <2>1, FrameIs
    <2>3. FrameOf(a, g, st') /\ Removes(g)
      <3> HIDE DEF g, h
      <3> QED BY <1>1, <1>2, <1>4, <2>2 DEF FrameOf, Marked, Restoring, Removes
    <2> HIDE DEF g
    <2> QED BY <1>1, <1>3, <1>4, <1>5, <1>6, <1>9, <2>1, <2>3, GotoTidy DEF g
  <1> QED BY <1>7, <1>8, <1>9 DEF StartBegin

\* The one client, while it starts the container: AutoRemove is on, nobody removes the
\* container, and it does not run.
LEMMA StartingFacts ==
  ASSUME Self, OneClient, NEW a \in Others, At(a, "Start", "create")
  PROVE  /\ a \in Ops /\ a # Worker /\ Others = {a, Worker}
         /\ st.autoRemove /\ ~st.removing /\ ~st.dead /\ ~st.running
  <1>1. stack[a] # <<>> /\ Head(stack[a]).fn = "Start" /\ Head(stack[a]).pc = "create"
    BY DEF At
  <1>2. /\ FrameOf(a, Head(stack[a]), st) /\ Head(stack[a]) = stack[a][1] /\ 1 \in DOMAIN stack[a]
        /\ a \in Actors
    BY <1>1, SelfFacts
  <1>3. a # Worker /\ a \in Ops
    BY <1>1, <1>2 DEF FrameOf, Others, Actors
  <1>4. Others = {a, Worker}
    BY <1>3, ActorsAssumption DEF OneClient, Others, Actors
  <1>5. Creating(stack[a][1])
    BY <1>1, <1>2 DEF Creating
  <1>6. LifeInv /\ ProcInv
    BY AloneFacts DEF Self
  <1>7. ~st.removing /\ ~st.dead
    BY <1>2, <1>5, <1>6 DEF LifeInv, StartInv
  <1>8. ~st.running
    BY <1>2, <1>5, <1>6 DEF ProcInv, ClientStartInv
  <1>9. st.autoRemove
    <2> SUFFICES ASSUME ~st.autoRemove PROVE FALSE
      OBVIOUS
    <2>1. PICK i \in DOMAIN stack[a] : Restoring(stack[a][i])
      BY <1>3, OnUnless DEF HasRestoring
    <2>2. i # 1
      BY <1>1, <1>2, <2>1 DEF Restoring
    <2>3. stack[a][i].pc = "started"
      BY <1>1, <2>2, StartCalled
    <2> QED BY <2>1, <2>3 DEF Restoring
  <1> QED BY <1>3, <1>4, <1>7, <1>8, <1>9

\* A start that fails removes the container.
LEMMA StartFailsTidy ==
  ASSUME Self, OneClient, NEW a \in Others, StartPrepareFails(a) \/ StartCreateFails(a)
  PROVE  Tidy'
  <1> DEFINE h == Head(stack[a])
             f == Frame("Rm", TRUE)
             g == [h EXCEPT !.pc = "removed"]
  <1>1. At(a, "Start", "create") /\ stack[a] # <<>> /\ h.fn = "Start" /\ h.pc = "create"
    BY DEF StartPrepareFails, StartCreateFails, At
  <1>2. a \in Actors /\ TypeOK /\ StackOf(a) /\ h \in Frames /\ FrameOf(a, h, st)
    BY <1>1, SelfFacts
  <1>3. wait[a] = "no"
    BY <1>1, NoWait
  <1>4. UNCHANGED <<registered, wait, proc, stream, queue>>
    BY DEF StartPrepareFails, StartCreateFails
  <1>5. st.autoRemove /\ ~st.running /\ a # Worker
    BY <1>1, StartingFacts
  <1>6. CallThen(a, "removed", "Rm", TRUE)
    BY <1>5 DEF StartPrepareFails, StartCreateFails, FailStart
  <1>7. /\ st'.removing = st.removing /\ st'.running = st.running /\ st'.paused = st.paused
        /\ st'.dead = st.dead /\ st'.autoRemove = st.autoRemove
    BY <1>2 DEF StartPrepareFails, StartCreateFails, Reset, TypeOK, States
  <1>8. Calm(a)
    BY <1>2, <1>4, <1>6, <1>7, OthersStay, CalmWhen
  <1>9. "removed" \in Pcs /\ "Rm" \in Fns
    BY Places
  <1>10. g \in Frames /\ g.fn = h.fn /\ g.pc = "removed" /\ g.flag = h.flag
    BY <1>2, <1>9, FrameIs
  <1>11. f.fn = "Rm" /\ f.pc = "begin" /\ f.flag
    BY CalledIs
  <1>12. /\ Calls(f, g) /\ FrameOf(a, f, st') /\ FrameOf(a, g, st') /\ Removes(f)
         /\ ~Marked(h) /\ ~Restoring(h) /\ g.fn # "Rm"
    <2> HIDE DEF f, g, h
    <2> QED BY <1>1, <1>2, <1>5, <1>7, <1>10, <1>11 DEF FrameOf, Marked, Restoring, Removes, Calls
  <1> HIDE DEF f, g
  <1> QED BY <1>1, <1>3, <1>4, <1>6, <1>7, <1>8, <1>9, <1>12, CallTidy DEF f, g

\* A start that works: a process is there again.
LEMMA StartCreateTidy ==
  ASSUME Self, OneClient, NEW a \in Others, StartCreate(a)
  PROVE  Tidy'
  <1> DEFINE h == Head(stack[a])
  <1>1. At(a, "Start", "create") /\ stack[a] # <<>> /\ h.fn = "Start" /\ h.pc = "create"
    BY DEF StartCreate, At
  <1>2. a \in Actors /\ TypeOK /\ StackOf(a) /\ FrameOf(a, h, st) /\ h = stack[a][1] /\ 1 \in DOMAIN stack[a]
    BY <1>1, SelfFacts
  <1>3. wait[a] = "no"
    BY <1>1, NoWait
  <1>4. UNCHANGED <<registered, wait, stream, queue>> /\ Return(a, "nil")
    BY DEF StartCreate
  <1>5. a # Worker /\ Others = {a, Worker} /\ st.autoRemove /\ ~st.removing /\ ~st.dead
    BY <1>1, StartingFacts
  <1>6. /\ st'.removing = st.removing /\ st'.running /\ st'.paused = st.paused
        /\ st'.dead = st.dead /\ st'.autoRemove = st.autoRemove /\ proc'.state = "alive"
    BY <1>2 DEF StartCreate, SetRunning, Reset, TypeOK, States
  <1>7. /\ stack'[Worker] = stack[Worker] /\ ret'[Worker] = ret[Worker]
    BY <1>2, <1>4, <1>5, OthersStay DEF Others
  <1>8. StackOf(Worker)'
    <2>1. StackOf(Worker)
      BY <1>5 DEF Self, Tidy
    <2>2. \A i \in DOMAIN stack'[Worker] : FrameOf(Worker, stack'[Worker][i], st')
      BY <1>6, <1>7, <2>1 DEF StackOf, FrameOf
    <2>3. \A fn, pc : At(Worker, fn, pc)' <=> At(Worker, fn, pc)
      BY <1>7 DEF At
    <2>4. Waits(Worker)' <=> Waits(Worker)
      BY <2>3 DEF Waits
    <2>5. ~At(Worker, "Stop", "grace")
      <3> SUFFICES ASSUME At(Worker, "Stop", "grace") PROVE FALSE
        OBVIOUS
      <3>1. stack[Worker] # <<>> /\ Head(stack[Worker]).fn = "Stop"
        BY DEF At
      <3>2. FrameOf(Worker, Head(stack[Worker]), st)
        BY <1>5, <3>1, SelfFacts
      <3> QED BY <1>5, <3>1, <3>2 DEF FrameOf
    <2>6. TopOf(Worker)'
      BY <1>4, <1>6, <1>7, <2>1, <2>3, <2>4, <2>5 DEF StackOf, TopOf
    <2> QED BY <1>7, <2>1, <2>2, <2>6 DEF StackOf
  <1>9. /\ stack'[a] \in {<<>>, Tail(stack[a])}
        /\ stack' \in [Actors -> Seq(Frames)]
        /\ \A i \in DOMAIN stack'[a] : stack'[a][i].fn = "Restart" /\ stack'[a][i].pc = "started" /\ i = 1
    <2>1. stack[a] \in Seq(Frames) /\ Len(stack[a]) >= 1 /\ Len(stack[a]) \in Nat
          /\ DOMAIN stack[a] = 1..Len(stack[a])
      BY <1>1, <1>2, StackAt
    <2>2. stack'[a] \in {<<>>, Tail(stack[a])}
      BY <1>2, <1>4 DEF Return, TypeOK
    <2>3. stack' \in [Actors -> Seq(Frames)]
      BY <1>1, <1>2, <1>4, ReturnPlain DEF Plain, Moves
    <2>4. ASSUME NEW i \in DOMAIN stack'[a]
          PROVE  stack'[a][i].fn = "Restart" /\ stack'[a][i].pc = "started" /\ i = 1
      <3>0. stack'[a] # <<>>
        BY <2>4
      <3>1. stack'[a] = Tail(stack[a])
        BY <2>2, <3>0
      <3>2. i \in 1..(Len(stack[a]) - 1) /\ stack'[a][i] = stack[a][i + 1]
        BY <2>1, <2>4, <3>1
      <3>3. i + 1 \in DOMAIN stack[a] /\ i + 1 # 1
        BY <2>1, <3>2
      <3>4. i + 1 = 2 /\ stack[a][2].fn = "Restart" /\ stack[a][2].pc = "started"
        BY <1>1, <3>3, StartCalled
      <3> QED BY <3>2, <3>4
    <2> QED BY <2>2, <2>3, <2>4
  <1>10. StackOf(a)'
    <2>1. Nested(stack'[a])
      BY <1>9 DEF Nested
    <2>2. \A i \in DOMAIN stack'[a] : FrameOf(a, stack'[a][i], st')
      BY <1>5, <1>9 DEF FrameOf, Marked, Restoring
    <2>3. ASSUME NEW fn, NEW pc, At(a, fn, pc)' PROVE fn = "Restart" /\ pc = "started"
      <3>1. stack'[a] # <<>> /\ Head(stack'[a]).fn = fn /\ Head(stack'[a]).pc = pc
        BY <2>3 DEF At
      <3>2. stack'[a] \in Seq(Frames)
        BY <1>2, <1>9
      <3>3. 1 \in DOMAIN stack'[a] /\ Head(stack'[a]) = stack'[a][1]
        BY <3>1, <3>2, EmptySeq
      <3> QED BY <1>9, <3>1, <3>3
    <2>4. 2 \notin DOMAIN stack'[a]
      BY <1>9
    <2>5. TopOf(a)'
      BY <1>3, <1>4, <2>3, <2>4 DEF TopOf
    <2> QED BY <2>1, <2>2, <2>5 DEF StackOf
  <1>11. \A b \in Others : StackOf(b)'
    BY <1>5, <1>8, <1>10
  <1>12. ExitsOnly'
    BY <1>4, <1>6 DEF Self, Tidy, ExitsOnly, Pipeline
  <1> QED BY <1>5, <1>6, <1>11, <1>12 DEF Tidy, MarkInv, OnInv, Promise
--------------------------------------------------------------------------------
(* Requests, the process, containerd and its events *)

\* The restart goroutine is not there, and nobody pauses.
LEMMA ActorsStep ==
  ASSUME Self, OneClient, NEW a \in Actors, Step(a), registered'
  PROVE  Tidy'
  <1>1. stack[Monitor] = <<>> /\ TypeOK /\ Faults \subseteq {"start"}
    BY AloneFacts DEF Self
  <1>2. \A fn, pc : ~At(Monitor, fn, pc)
    BY <1>1 DEF At
  <1>3. CASE a = Monitor
    BY <1>2, <1>3
    DEF Step, WaitEnter, WaitLeave, StartBegin, StartPrepareFails, StartCreateFails, StartCreate,
        StartSaveFails, StartRemoved, KillWithSignal, KillBegin, KillDirectly, StopBegin, StopKill,
        RmLookup, RmMark, RmRunning, RmStop, RmDead, RmDestroy, RmReset, RestartBegin, RestartSave,
        RestartRestore, RestartStart, PauseBegin, UnpauseBegin, PauseReturn, AutoRm, ApiStart, ApiStop
  <1>4. CASE a \in Others
    <2>1. ASSUME NEW fn \in {"Pause", "Unpause"}, NEW pc, At(a, fn, pc) PROVE FALSE
      <3>1. stack[a] # <<>> /\ Head(stack[a]).fn = fn
        BY <2>1 DEF At
      <3>2. FrameOf(a, Head(stack[a]), st)
        BY <1>4, <3>1, SelfFacts
      <3> QED BY <3>1, <3>2 DEF FrameOf
    <2>2. ~PauseBegin(a) /\ ~UnpauseBegin(a) /\ ~PauseReturn(a)
      BY <2>1 DEF PauseBegin, UnpauseBegin, PauseReturn
    <2>3. ~StartSaveFails(a)
      BY <1>1 DEF StartSaveFails
    <2> QED BY <1>4, <2>2, <2>3, WaitTidy, StartBeginTidy, StartFailsTidy, StartCreateTidy,
               StartRemovedTidy, SignalTidy, BeginsTidy, KillDirectlyTidy, StopKillTidy,
               RmLookupTidy, RmMarkTidy, RmCallsTidy, RmDeadTidy, RmEndsTidy, RestartBeginTidy,
               RestartSaveTidy, RestartRestoreTidy, RestartStartTidy, AutoRmTidy, ApiTidy
            DEF Step
  <1> QED BY <1>3, <1>4 DEF Others

\* A request comes to a client that has none.
LEMMA RequestTidy ==
  ASSUME Self, NEW a \in Ops, NEW r \in Requests, Request(a, r)
  PROVE  Tidy'
  <1> DEFINE f == Entry[r]
  <1>1. a \in Others /\ a \in Actors /\ a # Worker
    BY ActorsAssumption DEF Others, Actors
  <1>2. TypeOK /\ Requests \subseteq {"start", "stop", "kill", "signal", "restart"}
    BY AloneFacts DEF Self
  <1>3. /\ stack[a] = <<>> /\ stack' = [stack EXCEPT ![a] = <<f>>]
        /\ UNCHANGED <<st, registered, ret, wait, proc, stream, queue>>
    BY DEF Request
  <1>4. f.fn \in {"ApiStart", "ApiStop", "Kill", "Signal", "Restart"} /\ f.pc = "begin"
    BY <1>2 DEF Entry, Frame
  <1> HIDE DEF f
  <1>5. stack'[a] = <<f>> /\ DOMAIN stack'[a] = {1} /\ stack'[a][1] = f /\ Head(stack'[a]) = f
    BY <1>1, <1>2, <1>3 DEF TypeOK
  <1>6. \A b \in Actors : b # a => stack'[b] = stack[b] /\ wait'[b] = wait[b] /\ ret'[b] = ret[b]
    BY <1>1, <1>2, <1>3 DEF TypeOK
  <1>7. Calm(a)
    BY <1>1, <1>3, <1>6, CalmWhen
  <1>8. ~HasMarked(a) /\ ~HasRestoring(a) /\ ~HasRemoves(a)
    BY <1>3 DEF HasMarked, HasRestoring, HasRemoves
  <1>9. wait'[a] = "no"
    <2>1. ~Waits(a)
      BY <1>3 DEF Waits, At
    <2> QED BY <1>1, <1>3, <2>1 DEF Self, Tidy, StackOf, TopOf
  <1>10. StackOf(a)'
    <2>1. Nested(stack'[a])
      BY <1>5 DEF Nested
    <2>2. \A i \in DOMAIN stack'[a] : FrameOf(a, stack'[a][i], st')
      BY <1>1, <1>4, <1>5 DEF FrameOf, Marked, Restoring
    <2>3. TopOf(a)'
      BY <1>4, <1>5, <1>9 DEF TopOf, At
    <2> QED BY <2>1, <2>2, <2>3 DEF StackOf
  <1> QED BY <1>1, <1>3, <1>7, <1>8, <1>10, CalmKeeps

\* What containerd and libcontainerd do changes no stack.
LEMMA OutsideTidy ==
  ASSUME Self, UNCHANGED <<st, stack, wait, ret>>,
         \A i \in DOMAIN Pipeline' : Pipeline'[i].type = "exit",
         proc'.state = "gone" => proc.state = "gone" \/ st.running
  PROVE  Tidy'
  <1>1. ASSUME NEW b \in Others PROVE StackOf(b)'
    BY StackStays DEF Self, Tidy
  <1>2. MarkInv' /\ OnInv'
    BY DEF Self, Tidy, MarkInv, OnInv, HasMarked, HasRestoring
  <1>3. ExitsOnly'
    BY DEF Self, Tidy, ExitsOnly
  <1>4. Promise'
    BY DEF Self, Tidy, Promise, HasRemoves
  <1> QED BY <1>1, <1>2, <1>3, <1>4 DEF Tidy

\* Where all that is under way is exits, containerd and libcontainerd add nothing else.
LEMMA OnlyExits ==
  ASSUME LifeInv, \A i \in DOMAIN Pipeline : Pipeline[i].type = "exit",
         RestartTimer \/ ProcessExit \/ ContainerdExit \/ HandleEvent
  PROVE  \A i \in DOMAIN Pipeline' : Pipeline'[i].type = "exit"
  <1>1. TypeOK /\ queue \in Seq(Events) /\ stream \in Seq(Events)
    BY DEF LifeInv, TypeOK
  <1>2. \A i \in DOMAIN Pipeline : Pipeline[i].type = "exit"
    OBVIOUS
  <1>3. CASE RestartTimer \/ ProcessExit
    BY <1>2, <1>3 DEF RestartTimer, ProcessExit, Pipeline
  <1>4. CASE ContainerdExit
    <2>1. PICK code \in {0, 1} : stream' = Append(stream, Event("exit", code)) /\ queue' = queue
      BY <1>4 DEF ContainerdExit
    <2> DEFINE e == Event("exit", code)
    <2>2. proc.gen \in 1..MaxStarts
      <3>1. proc.gen \in 0..MaxStarts /\ proc.gen >= 1 /\ MaxStarts \in Nat
        BY <1>1, <1>4, ConfigAssumption DEF TypeOK, LifeInv, GenInv, ContainerdExit
      <3> QED BY <3>1
    <2>3. e \in Events /\ e.type = "exit"
      BY <2>1, <2>2 DEF Event, Events
    <2> HIDE DEF e
    <2>4. /\ DOMAIN (queue \o Append(stream, e)) = 1..(Len(queue) + Len(stream) + 1)
          /\ \A i \in 1..(Len(queue) + Len(stream)) : (queue \o Append(stream, e))[i] = Pipeline[i]
          /\ (queue \o Append(stream, e))[Len(queue) + Len(stream) + 1] = e
      BY <1>1, <2>3, PipelineAppend DEF Pipeline
    <2>5. DOMAIN Pipeline = 1..(Len(queue) + Len(stream)) /\ Len(queue) \in Nat /\ Len(stream) \in Nat
      BY <1>1, PipelineAt DEF Pipeline
    <2>6. Pipeline' = queue \o Append(stream, e)
      BY <2>1 DEF Pipeline, e
    <2>7. ASSUME NEW i \in DOMAIN (queue \o Append(stream, e))
          PROVE  (queue \o Append(stream, e))[i].type = "exit"
      <3>1. CASE i = Len(queue) + Len(stream) + 1
        BY <2>3, <2>4, <3>1
      <3>2. CASE i # Len(queue) + Len(stream) + 1
        <4>1. i \in 1..(Len(queue) + Len(stream))
          BY <2>4, <2>5, <2>7, <3>2
        <4> QED BY <1>2, <2>4, <2>5, <4>1
      <3> QED BY <3>1, <3>2
    <2> QED BY <2>6, <2>7
  <1>5. CASE HandleEvent
    <2>1. /\ stream # <<>> /\ stream' = Tail(stream)
          /\ queue' = IF active THEN Append(queue, Head(stream)) ELSE queue
      BY <1>5 DEF HandleEvent
    <2>2. CASE active
      BY <1>1, <1>2, <2>1, <2>2, PipelineMoves DEF Pipeline
    <2>3. CASE ~active
      <3>1. Pipeline' = queue \o Tail(stream)
        BY <2>1, <2>3 DEF Pipeline
      <3>2. Tail(stream) \in Seq(Events) /\ Len(Tail(stream)) = Len(stream) - 1
            /\ \A i \in 1..Len(Tail(stream)) : Tail(stream)[i] = stream[i + 1]
            /\ Len(stream) \in Nat /\ Len(stream) >= 1 /\ Len(queue) \in Nat
        BY <1>1, <2>1, EmptySeq
      <3>3. /\ DOMAIN Pipeline' = 1..(Len(queue) + Len(Tail(stream)))
            /\ \A i \in 1..Len(queue) : Pipeline'[i] = queue[i]
            /\ \A i \in 1..Len(Tail(stream)) : Pipeline'[Len(queue) + i] = Tail(stream)[i]
        BY <1>1, <3>1, <3>2, PipelineAt
      <3>4. /\ DOMAIN Pipeline = 1..(Len(queue) + Len(stream))
            /\ \A i \in 1..Len(queue) : Pipeline[i] = queue[i]
            /\ \A i \in 1..Len(stream) : Pipeline[Len(queue) + i] = stream[i]
        BY <1>1, PipelineAt DEF Pipeline
      <3>5. ASSUME NEW i \in DOMAIN Pipeline' PROVE Pipeline'[i].type = "exit"
        <4>1. CASE i <= Len(queue)
          <5>1. i \in 1..Len(queue) /\ i \in DOMAIN Pipeline
            BY <3>2, <3>3, <3>4, <3>5, <4>1
          <5> QED BY <1>2, <3>3, <3>4, <5>1
        <4>2. CASE i > Len(queue)
          <5>1. PICK j \in 1..Len(Tail(stream)) : i = Len(queue) + j
            <6>1. i - Len(queue) \in 1..Len(Tail(stream)) /\ i = Len(queue) + (i - Len(queue))
              BY <3>2, <3>3, <3>5, <4>2
            <6> QED BY <6>1
          <5>2. j + 1 \in 1..Len(stream) /\ Len(queue) + (j + 1) \in DOMAIN Pipeline
            BY <3>2, <3>4, <5>1
          <5>3. Pipeline'[i] = stream[j + 1] /\ Pipeline[Len(queue) + (j + 1)] = stream[j + 1]
            BY <3>2, <3>3, <3>4, <5>1, <5>2
          <5> QED BY <1>2, <5>2, <5>3
        <4> QED BY <3>2, <3>3, <3>5, <4>1, <4>2
      <3> QED BY <3>5
    <2> QED BY <2>2, <2>3
  <1> QED BY <1>3, <1>4, <1>5

\* The process exits, containerd reports it, libcontainerd queues the report, a timer fires.
LEMMA OutsideSteps ==
  ASSUME Self, RestartTimer \/ ProcessExit \/ ContainerdExit \/ HandleEvent
  PROVE  Tidy'
  <1>1. /\ TypeOK /\ ProcInv
        /\ queue \in Seq(Events) /\ stream \in Seq(Events)
    BY AloneFacts DEF Self, TypeOK
  <1>2. UNCHANGED <<st, stack, wait, ret>>
    BY DEF RestartTimer, ProcessExit, ContainerdExit, HandleEvent
  <1>3. \A i \in DOMAIN Pipeline : Pipeline[i].type = "exit"
    BY DEF Self, Tidy, ExitsOnly
  <1>4. proc'.state = "gone" => proc.state = "gone" \/ st.running
    <2>1. CASE RestartTimer \/ HandleEvent \/ ProcessExit
      BY <1>1, <2>1 DEF RestartTimer, HandleEvent, ProcessExit, TypeOK
    <2>2. CASE ContainerdExit
      BY <1>1, <2>2 DEF ContainerdExit, Self, ProcInv, UpInv, Up, Known
    <2> QED BY <2>1, <2>2
  <1>5. \A i \in DOMAIN Pipeline' : Pipeline'[i].type = "exit"
    BY <1>1, <1>3, AloneFacts, OnlyExits DEF Self
  <1> QED BY <1>2, <1>4, <1>5, OutsideTidy

\* Nothing pauses.
LEMMA NoPauses ==
  ASSUME Self
  PROVE  ~StatePause /\ ~MonitorStep
  <1>1. queue \in Seq(Events) /\ stream \in Seq(Events) /\ stack[Monitor] = <<>>
    BY AloneFacts DEF Self, TypeOK
  <1>2. ASSUME queue # <<>> PROVE Head(queue).type = "exit"
    <2>1. 1 \in DOMAIN Pipeline /\ Pipeline[1] = Head(queue)
      BY <1>1, <1>2, PipelineTail DEF Pipeline
    <2> QED BY <2>1 DEF Self, Tidy, ExitsOnly
  <1> QED BY <1>1, <1>2 DEF StatePause, Callback, MonitorStep, MonitorWake, MonitorStop, At

\* An exit stops the container, and its callback goes on to remove it.
LEMMA StateExitTidy ==
  ASSUME Self, StateExit
  PROVE  Tidy'
  <1> DEFINE f == Frame("AutoRm", FALSE)
  <1>1. /\ TypeOK /\ config.policy = "no"
        /\ queue \in Seq(Events) /\ stream \in Seq(Events)
    BY AloneFacts DEF Self, TypeOK
  <1>2. /\ stack[Worker] = <<>> /\ queue # <<>> /\ queue' = Tail(queue)
        /\ FireWaiters /\ st' = SetStopped(st)
        /\ stack' = [stack EXCEPT ![Worker] = <<f>>]
        /\ UNCHANGED <<registered, ret, proc, stream>>
    BY <1>1 DEF StateExit, Callback, ShouldRestart, Self
  <1>3. Worker \in Others /\ Others \subseteq Actors
    BY ActorsAssumption DEF Others, Actors
  <1>4. f.fn = "AutoRm" /\ f.pc = "begin"
    BY CalledIs
  <1> HIDE DEF f
  <1>5. stack'[Worker] = <<f>> /\ \A b \in Actors : b # Worker => stack'[b] = stack[b]
    BY <1>1, <1>2, <1>3 DEF TypeOK
  <1>6. DOMAIN stack'[Worker] = {1} /\ stack'[Worker][1] = f /\ Head(stack'[Worker]) = f
    BY <1>5
  <1>7. \A b \in Actors : wait'[b] # "no" => wait[b] # "no"
    BY <1>1, <1>2 DEF FireWaiters, TypeOK
  <1>8. /\ ~st'.running /\ ~st'.paused /\ st'.removing = st.removing /\ st'.dead = st.dead
        /\ st'.autoRemove = st.autoRemove
    BY <1>1, <1>2 DEF SetStopped, TypeOK, States
  <1>9. StackOf(Worker)'
    <2>1. Nested(stack'[Worker])
      BY <1>6 DEF Nested
    <2>2. \A i \in DOMAIN stack'[Worker] : FrameOf(Worker, stack'[Worker][i], st')
      BY <1>4, <1>6 DEF FrameOf, Marked, Restoring
    <2>3. wait'[Worker] = "no"
      <3>1. ~Waits(Worker) /\ TopOf(Worker)
        BY <1>2, <1>3 DEF Waits, At, Self, Tidy, StackOf
      <3> QED BY <1>3, <1>7, <3>1 DEF TopOf
    <2>4. TopOf(Worker)'
      BY <1>4, <1>6, <2>3 DEF TopOf, At
    <2> QED BY <2>1, <2>2, <2>4 DEF StackOf
  <1>10. ASSUME NEW b \in Others, b # Worker
         PROVE  /\ StackOf(b)'
                /\ HasMarked(b)' = HasMarked(b) /\ HasRestoring(b)' = HasRestoring(b)
    <2>1. StackOf(b) /\ stack'[b] = stack[b] /\ ret'[b] = ret[b]
      BY <1>2, <1>3, <1>5, <1>10 DEF Self, Tidy
    <2>2. \A i \in DOMAIN stack'[b] : FrameOf(b, stack'[b][i], st')
      BY <1>8, <1>10, <2>1 DEF StackOf, FrameOf
    <2>3. \A fn, pc : At(b, fn, pc)' <=> At(b, fn, pc)
      BY <2>1 DEF At
    <2>4. Waits(b)' <=> Waits(b)
      BY <2>3 DEF Waits
    <2>5. ~(2 \in DOMAIN stack[b] /\ stack[b][2].fn = "Rm" /\ stack[b][2].pc = "killed")
      BY <1>10, <2>1 DEF StackOf, TopOf, FrameOf
    <2>6. TopOf(b)'
      BY <1>3, <1>7, <1>8, <2>1, <2>3, <2>4, <2>5 DEF StackOf, TopOf
    <2>7. StackOf(b)'
      BY <2>1, <2>2, <2>6 DEF StackOf
    <2> QED BY <2>1, <2>7 DEF HasMarked, HasRestoring
  <1>11. ~HasMarked(Worker) /\ ~HasRestoring(Worker)
    BY <1>2 DEF HasMarked, HasRestoring
  <1>12. MarkInv' /\ OnInv'
    BY <1>8, <1>10, <1>11 DEF Self, Tidy, MarkInv, OnInv
  <1>13. ExitsOnly'
    <2>1. Pipeline' = Tail(queue) \o stream
      BY <1>2 DEF Pipeline
    <2>2. \A i \in DOMAIN Pipeline' : \E j \in DOMAIN Pipeline : Pipeline'[i] = Pipeline[j]
      BY <1>1, <1>2, <2>1, PipelineTail DEF Pipeline
    <2> QED BY <1>8, <2>2 DEF Self, Tidy, ExitsOnly
  <1>14. HasRemoves(Worker)'
    BY <1>4, <1>6 DEF HasRemoves, Removes
  <1> QED BY <1>3, <1>9, <1>10, <1>12, <1>13, <1>14 DEF Tidy, Promise

\* At the start nothing has happened.
LEMMA TidyInit == Init => RemovalInv
  <1> SUFFICES ASSUME Init PROVE Alone => Tidy
    BY DEF RemovalInv
  <1>1. /\ \A a \in Others : stack[a] = <<>> /\ wait[a] = "no"
        /\ ~st.running /\ ~st.paused /\ ~st.removing /\ ~st.dead /\ st.autoRemove = config.autoRemove
        /\ proc.state = "none" /\ stream = <<>> /\ queue = <<>>
    BY DEF Init, Others, Actors
  <1>2. \A a \in Others : StackOf(a)
    BY <1>1 DEF StackOf, Nested, TopOf, At
  <1>3. Pipeline = <<>>
    BY <1>1 DEF Pipeline
  <1> QED BY <1>1, <1>2, <1>3 DEF Tidy, MarkInv, OnInv, ExitsOnly, Promise, Alone

\* Every step keeps the invariant.
LEMMA TidyNext ==
  ASSUME OneClient
  PROVE  Inv /\ RemovalInv /\ [Next]_vars => RemovalInv'
  <1> SUFFICES ASSUME Inv, RemovalInv, [Next]_vars, Alone', registered' PROVE Tidy'
    BY DEF RemovalInv
  <1>1. config' = config /\ registered
    BY ConfigStays DEF Inv
  <1>2. Self
    BY <1>1 DEF Self, RemovalInv, Alone, StartsAndStops
  <1>3. CASE UNCHANGED vars
    <2>1. UNCHANGED <<st, stack, wait, ret, queue, stream, proc>>
      BY <1>3 DEF vars
    <2> QED BY <1>2, <2>1, OutsideTidy DEF Self, Tidy, ExitsOnly, Pipeline
  <1>4. CASE Next
    BY <1>2, <1>4, ActorsStep, RequestTidy, OutsideSteps, NoPauses, StateExitTidy DEF Next
  <1> QED BY <1>3, <1>4

\* The invariant of a container that removes itself holds with one client.
LEMMA RemovalInvariant ==
  ASSUME OneClient
  PROVE  Spec => []RemovalInv
  BY TidyInit, TidyNext, ProcessInvariant, PTL DEF Spec

\* A container created with AutoRemove, whose one client only starts and stops it, is gone from
\* the index when it has run and nothing is under way any more: whoever takes the removal over
\* from the exit's callback carries it out (monitor.go:33, restart.go:52, start.go:129).
THEOREM RemovesItself ==
  ASSUME OneClient
  PROVE  Spec => []AutoRemoved
  <1>1. Inv /\ RemovalInv => AutoRemoved
    <2> SUFFICES ASSUME Inv, RemovalInv, StartsAndStops, config.autoRemove, proc.state = "gone", Quiet,
                        registered
                 PROVE  FALSE
      BY DEF AutoRemoved
    <2>1. Tidy /\ ProcInv
      BY AloneFacts DEF RemovalInv, Alone
    <2>2. ~st.running
      BY <2>1, AloneFacts DEF ProcInv, UpInv, Up, Known, ExitIn, Quiet, Alone
    <2>3. PICK a \in Others : HasRemoves(a)
      BY <2>1, <2>2 DEF Tidy, Promise
    <2> QED BY <2>3 DEF Quiet, HasRemoves, Others
  <1> QED BY <1>1, RemovalInvariant, ProcessInvariant, PTL
--------------------------------------------------------------------------------
(* What containerStop has reached when it returns *)

\* No process lives, and none will be started: what StopMeansStopped says of the state in
\* which containerStop returns.
Lifeless == proc.state # "alive"
Ending == Lifeless /\ (~st.running \/ (~st.restarting /\ rm.canceled))

\* The restart policy does not start the container again.
Barred == rm.canceled \/ Ending

\* A removal that has marked the container and not yet taken the mark away.
Holds(f) ==
  /\ f.fn = "Rm"
  /\ f.pc \in {"check", "running", "killed", "stopped", "dead", "destroy", "resetnil", "reseterr"}

HasMark(a) == \E i \in DOMAIN stack[a] : Holds(stack[a][i])
HasStop(a) == \E i \in DOMAIN stack[a] : stack[a][i].fn = "Stop"

\* What frame f of actor a says: who removes the container, that containerStop never comes to
\* the force that fails, that it has canceled the restart manager before it waits, and that
\* what is destroyed is not alive.
StopFrame(a, f) ==
  /\ IF a = Worker THEN f.fn \in {"AutoRm", "Rm", "Stop", "Kill"}
                   ELSE f.fn \notin {"AutoRm", "Pause", "Unpause", "Monitor"}
  /\ f.fn = "Rm" => config.autoRemove
  /\ f.fn = "Stop" => f.pc # "force"
  /\ f.fn = "Stop" /\ f.pc = "grace" => ~st.running
  /\ f.fn = "Stop" /\ f.pc \in {"wait", "kill", "killed", "last"} => Barred
  /\ f.fn = "Rm" /\ f.pc \in {"dead", "destroy"} => Lifeless

\* What the innermost frame knows: a wait channel that was closed, and a kill that went well,
\* mean the end of the process.
StopTop(a) ==
  /\ wait[a] # "no" => Waits(a)
  /\ wait[a] = "fired" /\ HasStop(a) => Ending
  /\ At(a, "Stop", "grace") => wait[a] = "no"
  /\ At(a, "Stop", "killed") /\ ret[a] = "nil" => Ending
  /\ At(a, "Rm", "stopped") /\ ret[a] = "nil" => Lifeless

\* An actor's calls; the worker stops and kills the container to remove it.
StopOf(a) ==
  /\ Nested(stack[a])
  /\ \A i \in DOMAIN stack[a] : StopFrame(a, stack[a][i])
  /\ StopTop(a)
  /\ a = Worker => \A i \in DOMAIN stack[a] : stack[a][i].fn \in {"Stop", "Kill"} => HasMark(a)

\* One removal at a time has marked the container.
MarkedOnce ==
  /\ \A a \in Others : HasMark(a) => st.removing
  /\ \A a, b \in Others : HasMark(a) /\ HasMark(b) => a = b

\* Only what removes itself leaves the index, and then it does not live.
LeftIndex == ~registered => Lifeless /\ config.autoRemove

Sure == (\A a \in Others : StopOf(a)) /\ MarkedOnce /\ ExitsOnly /\ LeftIndex

StopInv == StartsAndStops => Sure

\* The invariants of a container that its client starts and stops.
Settled == Inv /\ StartsAndStops /\ Sure

\* What the configuration says.
LEMMA SettledFacts ==
  ASSUME Settled
  PROVE  /\ LifeInv /\ ProcInv /\ TypeOK
         /\ Faults \subseteq {"start"}
         /\ Requests \subseteq {"start", "stop", "kill", "signal", "restart"}
         /\ config.autoRemove => config.policy = "no" /\ stack[Monitor] = <<>> /\ ~st.restarting
  <1>1. config \in Configs /\ config.faults \subseteq {"start"}
        /\ config.requests \cap {"rm", "rmforce", "pause", "unpause"} = {}
    BY DEF Settled, Inv, LifeInv, TypeOK, StartsAndStops
  <1>2. LifeInv /\ ProcInv /\ TypeOK
    BY <1>1 DEF Settled, Inv, Saved, LifeInv
  <1>3. config.requests \subseteq AllRequests /\ (config.autoRemove => config.policy = "no")
    BY <1>1, ConfigAssumption
  <1>4. config.autoRemove => stack[Monitor] = <<>>
    BY <1>2, <1>3 DEF ProcInv, MonitorInv
  <1>5. config.autoRemove => ~st.restarting
    BY <1>2, <1>4 DEF ProcInv, RestartingInv
  <1> QED BY <1>1, <1>2, <1>3, <1>4, <1>5 DEF Faults, Requests, AllRequests

\* An actor inside a call.
LEMMA SettledActor ==
  ASSUME Settled, NEW a \in Others, stack[a] # <<>>
  PROVE  /\ a \in Actors /\ TypeOK /\ StopOf(a)
         /\ Head(stack[a]) \in Frames /\ Head(stack[a]).flag \in BOOLEAN
         /\ Head(stack[a]) = stack[a][1] /\ 1 \in DOMAIN stack[a]
         /\ StopFrame(a, Head(stack[a]))
  <1>1. a \in Actors /\ TypeOK /\ StopOf(a)
    BY SettledFacts DEF Settled, Others, Sure
  <1>2. /\ Head(stack[a]) \in Frames /\ Head(stack[a]).flag \in BOOLEAN
        /\ Head(stack[a]) = stack[a][1] /\ 1 \in DOMAIN stack[a]
    BY <1>1, HeadFrame
  <1> QED BY <1>1, <1>2 DEF StopOf

\* Nobody waits outside WaitStop.
LEMMA WaitsNot ==
  ASSUME Settled, NEW a \in Others, NEW fn, NEW pc, At(a, fn, pc),
         fn \notin {"Kill", "Stop"} \/ pc \notin {"grace", "direct", "wait", "last"}
  PROVE  wait[a] = "no"
  <1>1. ~Waits(a)
    BY DEF Waits, WaitPoints, At
  <1>2. StopTop(a)
    BY DEF Settled, Sure, StopOf
  <1> QED BY <1>1, <1>2 DEF StopTop

\* A step after which what actor b relies on still holds.
Soft(b) ==
  /\ HasStop(b) => (Ending => Ending') /\ (Barred => Barred') /\ (~st.running => ~st'.running)
  /\ HasMark(b) => (Lifeless => Lifeless')

\* A step that starts nothing, stops nothing and leaves the restart manager alone.
LEMMA SoftWhen ==
  ASSUME proc'.state = proc.state, st'.running = st.running, st'.restarting = st.restarting,
         rm.canceled => rm'.canceled, NEW b \in Others
  PROVE  Soft(b)
  BY DEF Soft, Ending, Barred, Lifeless

\* What is true of an actor that does not move stays true.
LEMMA StopStays ==
  ASSUME TypeOK, NEW b \in Others, StopOf(b), Soft(b),
         stack'[b] = stack[b], ret'[b] = ret[b], config' = config,
         \/ wait'[b] = wait[b]
         \/ wait[b] = "waiting" /\ wait'[b] = "fired" /\ (HasStop(b) => Ending')
  PROVE  StopOf(b)' /\ HasMark(b)' = HasMark(b)
  <1>1. Nested(stack'[b]) /\ HasMark(b)' = HasMark(b) /\ HasStop(b)' = HasStop(b)
    BY DEF StopOf, HasMark, HasStop
  <1>2. ASSUME NEW i \in DOMAIN stack'[b] PROVE StopFrame(b, stack[b][i])'
    <2>1. StopFrame(b, stack[b][i])
      BY <1>2 DEF StopOf
    <2>2. stack[b][i].fn = "Stop" => HasStop(b)
      BY <1>2 DEF HasStop
    <2>3. stack[b][i].fn = "Rm" /\ stack[b][i].pc \in {"dead", "destroy"} => HasMark(b)
      BY <1>2 DEF HasMark, Holds
    <2> QED BY <2>1, <2>2, <2>3 DEF StopFrame, Soft
  <1>3. \A fn, pc : At(b, fn, pc)' <=> At(b, fn, pc)
    BY DEF At
  <1>4. Waits(b)' <=> Waits(b)
    BY <1>3 DEF Waits
  <1>5. StopTop(b)'
    <2>1. StopTop(b)
      BY DEF StopOf
    <2>0. stack[b] # <<>> => Head(stack[b]) = stack[b][1] /\ 1 \in DOMAIN stack[b]
      BY StackAt DEF Others
    <2>2. At(b, "Stop", "killed") => HasStop(b)
      BY <2>0 DEF At, HasStop
    <2>3. At(b, "Rm", "stopped") => HasMark(b)
      BY <2>0 DEF At, HasMark, Holds
    <2>4. wait'[b] = "fired" /\ HasStop(b) => Ending'
      BY <2>1 DEF StopTop, Soft
    <2>5. At(b, "Stop", "grace") => wait'[b] = "no"
      BY <2>1 DEF StopTop
    <2>6. wait'[b] # "no" => Waits(b)
      BY <2>1 DEF StopTop
    <2> QED BY <1>1, <1>3, <1>4, <2>1, <2>2, <2>3, <2>4, <2>5, <2>6 DEF StopTop, Soft
  <1> QED BY <1>1, <1>2, <1>3, <1>5 DEF StopOf

\* Where a removal has its mark.
HoldPcs == {"check", "running", "killed", "stopped", "dead", "destroy", "resetnil", "reseterr"}

\* Going on at another place.
LEMMA GotoStop ==
  ASSUME Settled, NEW a \in Others, Soft(a), config' = config, stack[a] # <<>>, wait'[a] = "no",
         NEW pc \in Pcs, Goto(a, pc), pc \notin {"killed", "stopped", "force"},
         LET h == Head(stack[a])
         IN  /\ h.fn = "Stop" /\ pc = "grace" => ~st'.running
             /\ h.fn = "Stop" /\ pc \in {"wait", "kill", "last"} => Barred'
             /\ h.fn = "Rm" /\ pc \in {"dead", "destroy"} => Lifeless'
             /\ Holds(h) => pc \in HoldPcs
  PROVE  /\ StopOf(a)'
         /\ HasMark(a)' => HasMark(a) \/ (Head(stack[a]).fn = "Rm" /\ pc \in HoldPcs)
  <1>1. a \in Actors /\ TypeOK /\ StopOf(a) /\ Head(stack[a]) = stack[a][1] /\ 1 \in DOMAIN stack[a]
        /\ Head(stack[a]) \in Frames /\ StopFrame(a, Head(stack[a]))
    BY SettledActor
  <1>2. PICK h \in Frames : h = Head(stack[a])
    BY <1>1
  <1>3. PICK g \in Frames : g = [h EXCEPT !.pc = pc]
    BY <1>2, FrameIs
  <1>4. g.fn = h.fn /\ g.pc = pc /\ g.flag = h.flag
    BY <1>3, FrameIs
  <1>5. stack' = [stack EXCEPT ![a] = <<g>> \o Tail(@)] /\ ret' = [ret EXCEPT ![a] = "nil"]
    BY <1>2, <1>3 DEF Goto
  <1>6. /\ Nested(stack'[a])
        /\ DOMAIN stack'[a] = DOMAIN stack[a] /\ 1 \in DOMAIN stack'[a] /\ stack'[a] # <<>>
        /\ stack'[a][1] = g /\ Head(stack'[a]) = g
        /\ \A i \in DOMAIN stack'[a] : i # 1 => stack'[a][i] = stack[a][i]
    <2>1. Nested(stack[a]) /\ g.fn = Head(stack[a]).fn
      BY <1>1, <1>2, <1>4 DEF StopOf
    <2> QED BY <1>1, <1>5, <2>1, ReplacedNested
  <1>7. /\ h.fn = "Stop" /\ pc = "grace" => ~st'.running
        /\ h.fn = "Stop" /\ pc \in {"wait", "kill", "last"} => Barred'
        /\ h.fn = "Rm" /\ pc \in {"dead", "destroy"} => Lifeless'
        /\ Holds(h) => pc \in HoldPcs
    BY <1>2
  <1>8. StopFrame(a, g)'
    BY <1>1, <1>2, <1>4, <1>7 DEF StopFrame
  <1>9. ASSUME NEW i \in DOMAIN stack'[a] PROVE StopFrame(a, stack[a][i])'
    <2>1. CASE i = 1
      BY <1>6, <1>8, <2>1 DEF StopFrame
    <2>2. CASE i # 1
      <3>1. PICK f : f = stack[a][i]
        OBVIOUS
      <3>2. StopFrame(a, f) /\ i \in DOMAIN stack[a] /\ stack'[a][i] = f
        BY <1>1, <1>6, <1>9, <2>2, <3>1 DEF StopOf
      <3>3. f.fn = "Stop" => HasStop(a)
        BY <3>1, <3>2 DEF HasStop
      <3>4. f.fn = "Rm" /\ f.pc \in {"dead", "destroy"} => HasMark(a)
        BY <3>1, <3>2 DEF HasMark, Holds
      <3>5. StopFrame(a, f)'
        BY <3>2, <3>3, <3>4 DEF StopFrame, Soft
      <3> QED BY <3>2, <3>5 DEF StopFrame
    <2> QED BY <2>1, <2>2
  <1>10. StopTop(a)'
    BY <1>4, <1>6, <1>7 DEF StopTop, At
  <1>11. HasMark(a) => HasMark(a)'
    BY <1>1, <1>2, <1>4, <1>6, <1>7 DEF HasMark, Holds, HoldPcs
  <1>12. a = Worker => \A i \in DOMAIN stack'[a] : stack'[a][i].fn \in {"Stop", "Kill"} => HasMark(a)'
    <2>1. \A i \in DOMAIN stack'[a] : stack'[a][i].fn = stack[a][i].fn /\ i \in DOMAIN stack[a]
      BY <1>1, <1>2, <1>4, <1>6
    <2> QED BY <1>1, <1>11, <2>1 DEF StopOf
  <1>13. HasMark(a)' => HasMark(a) \/ (h.fn = "Rm" /\ pc \in HoldPcs)
    BY <1>4, <1>6 DEF HasMark, Holds, HoldPcs
  <1> QED BY <1>2, <1>6, <1>9, <1>10, <1>12, <1>13 DEF StopOf

\* Returning to a caller that looks at the result: a containerStop, or its kill, that went well
\* has seen the end of the process.
LEMMA ReturnStop ==
  ASSUME Settled, NEW a \in Others, Soft(a), config' = config, stack[a] # <<>>, wait'[a] = "no",
         NEW v \in {"nil", "err"}, Return(a, v),
         Head(stack[a]).fn = "Stop" /\ v = "nil" => Lifeless',
         Head(stack[a]).fn = "Kill" /\ HasStop(a) /\ v = "nil" => Ending'
  PROVE  StopOf(a)' /\ (HasMark(a)' => HasMark(a)) /\ (Head(stack[a]).fn = "Rm" => ~HasMark(a)')
  <1>1. a \in Actors /\ TypeOK /\ StopOf(a) /\ Head(stack[a]) = stack[a][1] /\ 1 \in DOMAIN stack[a]
        /\ Head(stack[a]) \in Frames /\ StopFrame(a, Head(stack[a]))
    BY SettledActor
  <1>2. PICK h \in Frames : h = Head(stack[a])
    BY <1>1
  <1>3. stack' = [stack EXCEPT ![a] = Tail(@)]
    <2>1. /\ stack[a] \in Seq(Frames) /\ Len(stack[a]) \in Nat /\ Len(stack[a]) >= 1
          /\ DOMAIN stack[a] = 1..Len(stack[a])
      BY <1>1, StackAt
    <2>2. ASSUME Tail(stack[a]) # <<>> PROVE Head(Tail(stack[a])).fn # "Monitor"
      <3>1. Tail(stack[a]) \in Seq(Frames) /\ Len(Tail(stack[a])) = Len(stack[a]) - 1
        BY <2>1
      <3>2. Len(Tail(stack[a])) >= 1
        BY <2>2, <3>1, EmptySeq
      <3>3. 2 \in DOMAIN stack[a] /\ Head(Tail(stack[a])) = stack[a][2]
        BY <2>1, <3>1, <3>2
      <3> QED BY <1>1, <3>3 DEF StopOf, StopFrame
    <2> QED BY <2>2 DEF Return
  <1>4. /\ Nested(stack'[a])
        /\ \A i \in DOMAIN stack'[a] : i + 1 \in DOMAIN stack[a] /\ stack'[a][i] = stack[a][i + 1]
        /\ \A i \in DOMAIN stack[a] : i # 1 => i - 1 \in DOMAIN stack'[a] /\ stack'[a][i - 1] = stack[a][i]
        /\ stack'[a] # <<>> => /\ 1 \in DOMAIN stack'[a] /\ Head(stack'[a]) = stack[a][2]
                               /\ 2 \in DOMAIN stack[a] /\ Calls(stack[a][1], stack[a][2])
    BY <1>1, <1>3, PoppedNested DEF StopOf
  <1>5. stack'[a] # <<>> => ret'[a] = v
    <2>1. ret' = [ret EXCEPT ![a] = IF Tail(stack[a]) = <<>> THEN "nil" ELSE v]
      BY DEF Return
    <2>2. stack'[a] = Tail(stack[a])
      BY <1>1, <1>3 DEF TypeOK
    <2> QED BY <1>1, <2>1, <2>2 DEF TypeOK
  <1>6. ASSUME NEW i \in DOMAIN stack'[a] PROVE StopFrame(a, stack[a][i])'
    <2>1. PICK f : f = stack[a][i + 1]
      OBVIOUS
    <2>2. StopFrame(a, f) /\ i + 1 \in DOMAIN stack[a] /\ stack'[a][i] = f
      BY <1>1, <1>4, <1>6, <2>1 DEF StopOf
    <2>3. f.fn = "Stop" => HasStop(a)
      BY <2>1, <2>2 DEF HasStop
    <2>4. f.fn = "Rm" /\ f.pc \in {"dead", "destroy"} => HasMark(a)
      BY <2>1, <2>2 DEF HasMark, Holds
    <2>5. StopFrame(a, f)'
      BY <2>2, <2>3, <2>4 DEF StopFrame, Soft
    <2> QED BY <2>2, <2>5 DEF StopFrame
  <1>7. StopTop(a)'
    <2>1. ASSUME NEW fn, NEW pc, At(a, fn, pc)'
          PROVE  /\ Calls(h, stack[a][2]) /\ stack[a][2].fn = fn /\ stack[a][2].pc = pc /\ ret'[a] = v
                 /\ 2 \in DOMAIN stack[a]
      BY <1>1, <1>2, <1>4, <1>5, <2>1 DEF At
    <2>2. ~At(a, "Stop", "grace")'
      BY <2>1 DEF Calls
    <2>3. At(a, "Stop", "killed")' /\ ret'[a] = "nil" => Ending'
      <3> SUFFICES ASSUME At(a, "Stop", "killed")', ret'[a] = "nil" PROVE Ending'
        OBVIOUS
      <3>1. h.fn = "Kill" /\ v = "nil" /\ HasStop(a)
        BY <2>1 DEF Calls, HasStop
      <3> QED BY <1>2, <3>1
    <2>4. At(a, "Rm", "stopped")' /\ ret'[a] = "nil" => Lifeless'
      <3> SUFFICES ASSUME At(a, "Rm", "stopped")', ret'[a] = "nil" PROVE Lifeless'
        OBVIOUS
      <3>1. h.fn = "Stop" /\ v = "nil"
        BY <2>1 DEF Calls
      <3> QED BY <1>2, <3>1
    <2> QED BY <2>2, <2>3, <2>4 DEF StopTop
  <1>8. HasMark(a)' => HasMark(a)
    BY <1>4 DEF HasMark
  <1>9. h.fn = "Rm" => ~HasMark(a)'
    <2> SUFFICES ASSUME h.fn = "Rm", NEW i \in DOMAIN stack'[a], Holds(stack'[a][i]) PROVE FALSE
      BY DEF HasMark
    <2>1. stack'[a] # <<>> /\ stack'[a] \in Seq(Frames)
      <3>1. stack[a] \in Seq(Frames) /\ stack'[a] = Tail(stack[a]) /\ Len(stack[a]) >= 1
        BY <1>1, <1>3, StackAt DEF TypeOK
      <3>2. stack'[a] \in Seq(Frames)
        BY <3>1
      <3> QED BY <3>2
    <2>2. Calls(h, stack[a][2]) /\ stack[a][2] = stack'[a][1] /\ 1 \in DOMAIN stack'[a]
      BY <1>1, <1>2, <1>4, <2>1
    <2>3. stack'[a][1].fn = "Start"
      BY <2>2 DEF Calls
    <2>4. i # 1 /\ i \in Nat /\ DOMAIN stack'[a] = 1..Len(stack'[a]) /\ Len(stack'[a]) \in Nat
      BY <2>1, <2>3 DEF Holds
    <2>5. 2 \in DOMAIN stack'[a] /\ 2 = 1 + 1
      BY <2>4
    <2>6. stack'[a][2].fn = "Restart"
      BY <1>4, <2>2, <2>3, <2>5 DEF Nested, Calls
    <2>7. i # 2 /\ 3 \in DOMAIN stack'[a] /\ 3 = 2 + 1
      <3>1. i # 2
        BY <2>6 DEF Holds
      <3> QED BY <2>4, <3>1
    <2> QED BY <1>4, <2>5, <2>6, <2>7 DEF Nested, Calls
  <1>10. a = Worker => \A i \in DOMAIN stack'[a] : stack'[a][i].fn \in {"Stop", "Kill"} => HasMark(a)'
    <2> SUFFICES ASSUME a = Worker, NEW i \in DOMAIN stack'[a], stack'[a][i].fn \in {"Stop", "Kill"}
                 PROVE  HasMark(a)'
      OBVIOUS
    <2>1. HasMark(a)
      BY <1>1, <1>4 DEF StopOf
    <2>2. PICK j \in DOMAIN stack[a] : Holds(stack[a][j])
      BY <2>1 DEF HasMark
    <2>3. CASE j # 1
      BY <1>4, <2>2, <2>3 DEF HasMark
    <2>4. CASE j = 1
      <3>1. h.fn = "Rm"
        BY <1>1, <1>2, <2>2, <2>4 DEF Holds
      <3>2. stack'[a] # <<>>
        <4>1. stack[a] \in Seq(Frames) /\ stack'[a] = Tail(stack[a]) /\ Len(stack[a]) >= 1
          BY <1>1, <1>3, StackAt DEF TypeOK
        <4>2. stack'[a] \in Seq(Frames)
          BY <4>1
        <4> QED BY <4>2
      <3>3. Calls(h, stack[a][2]) /\ 2 \in DOMAIN stack[a]
        BY <1>1, <1>2, <1>4, <3>2
      <3>4. stack[a][2].fn = "Start" /\ StopFrame(a, stack[a][2])
        BY <1>1, <3>1, <3>3 DEF Calls, StopOf
      <3> QED BY <3>4 DEF StopFrame
    <2> QED BY <2>3, <2>4
  <1> QED BY <1>2, <1>4, <1>6, <1>7, <1>8, <1>9, <1>10 DEF StopOf

\* Calling f from g, the innermost frame at the place where it goes on.
LEMMA PushStop ==
  ASSUME Settled, NEW a \in Others, Soft(a), config' = config, stack[a] # <<>>, wait'[a] = "no",
         NEW f \in Frames, NEW g \in Frames, g.fn = Head(stack[a]).fn, Calls(f, g), f.pc = "begin",
         stack' = [stack EXCEPT ![a] = <<f, g>> \o Tail(@)],
         StopFrame(a, f)', StopFrame(a, g)'
  PROVE  StopOf(a)' /\ (HasMark(a)' => HasMark(a) \/ Holds(g))
  <1>1. a \in Actors /\ TypeOK /\ StopOf(a) /\ Head(stack[a]) = stack[a][1] /\ 1 \in DOMAIN stack[a]
        /\ Head(stack[a]) \in Frames /\ StopFrame(a, Head(stack[a]))
    BY SettledActor
  <1>2. PICK h \in Frames : h = Head(stack[a])
    BY <1>1
  <1>3. Pushed(a, f, g)
    BY <1>1, PushedNested DEF StopOf
  <1>4. /\ Nested(stack'[a]) /\ stack'[a] # <<>>
        /\ {1, 2} \subseteq DOMAIN stack'[a]
        /\ stack'[a][1] = f /\ stack'[a][2] = g /\ Head(stack'[a]) = f
        /\ \A i \in DOMAIN stack'[a] :
             i \in {1, 2} \/ (i - 1 \in DOMAIN stack[a] /\ i - 1 # 1 /\ stack'[a][i] = stack[a][i - 1])
        /\ \A i \in DOMAIN stack[a] : i # 1 => i + 1 \in DOMAIN stack'[a] /\ stack'[a][i + 1] = stack[a][i]
    BY <1>3 DEF Pushed
  <1>5. ASSUME NEW i \in DOMAIN stack'[a] PROVE StopFrame(a, stack[a][i])'
    <2>1. CASE i \in {1, 2}
      BY <1>4, <2>1 DEF StopFrame
    <2>2. CASE i \notin {1, 2}
      <3>1. PICK e : e = stack[a][i - 1]
        OBVIOUS
      <3>2. StopFrame(a, e) /\ i - 1 \in DOMAIN stack[a] /\ stack'[a][i] = e
        BY <1>1, <1>4, <1>5, <2>2, <3>1 DEF StopOf
      <3>3. e.fn = "Stop" => HasStop(a)
        BY <3>1, <3>2 DEF HasStop
      <3>4. e.fn = "Rm" /\ e.pc \in {"dead", "destroy"} => HasMark(a)
        BY <3>1, <3>2 DEF HasMark, Holds
      <3>5. StopFrame(a, e)'
        BY <3>2, <3>3, <3>4 DEF StopFrame, Soft
      <3> QED BY <3>2, <3>5 DEF StopFrame
    <2> QED BY <2>1, <2>2
  <1>6. StopTop(a)'
    BY <1>4 DEF StopTop, At
  <1>7. HasMark(a) => HasMark(a)' \/ Holds(h)
    BY <1>1, <1>2, <1>4 DEF HasMark
  <1>8. Holds(g) => HasMark(a)'
    BY <1>4 DEF HasMark
  <1>9. HasMark(a)' => HasMark(a) \/ Holds(g)
    <2> SUFFICES ASSUME NEW i \in DOMAIN stack'[a], Holds(stack'[a][i]) PROVE HasMark(a) \/ Holds(g)
      BY DEF HasMark
    <2>1. i # 1
      BY <1>4 DEF Holds, Calls
    <2> QED BY <1>4, <2>1 DEF HasMark
  <1>10. Holds(h) => Holds(g)
    BY <1>2 DEF Holds, Calls
  <1>11. a = Worker => \A i \in DOMAIN stack'[a] : stack'[a][i].fn \in {"Stop", "Kill"} => HasMark(a)'
    <2> SUFFICES ASSUME a = Worker, NEW i \in DOMAIN stack'[a], stack'[a][i].fn \in {"Stop", "Kill"},
                        ~Holds(g)
                 PROVE  HasMark(a)'
      BY <1>8
    <2>1. CASE i \notin {1, 2}
      <3>1. HasMark(a)
        BY <1>1, <1>4, <2>1 DEF StopOf
      <3> QED BY <1>7, <1>8, <1>10, <3>1
    <2>2. CASE i \in {1, 2}
      <3>1. g.fn \in {"Stop", "Kill"}
        BY <1>4, <2>2 DEF Calls, Holds, StopFrame
      <3>2. HasMark(a)
        BY <1>1, <1>2, <3>1 DEF StopOf
      <3> QED BY <1>7, <1>8, <1>10, <3>2
    <2> QED BY <2>1, <2>2
  <1> QED BY <1>4, <1>5, <1>6, <1>9, <1>11 DEF StopOf

\* The same for CallThen.
LEMMA CallStop ==
  ASSUME Settled, NEW a \in Others, Soft(a), config' = config, stack[a] # <<>>, wait'[a] = "no",
         NEW pc \in Pcs, NEW fn \in Fns, NEW flag \in BOOLEAN, CallThen(a, pc, fn, flag),
         LET h == Head(stack[a])
         IN  /\ \/ fn = "Kill" /\ h.fn = "Stop" /\ pc = "killed" /\ Barred'
                \/ fn = "Kill" /\ h.fn = "Rm" /\ pc = "killed"
                \/ fn = "Stop" /\ h.fn = "Rm" /\ pc = "stopped"
                \/ fn = "Start" /\ h.fn = "Restart" /\ pc = "started"
                \/ fn = "Rm" /\ h.fn = "Start" /\ pc = "removed" /\ config.autoRemove
             /\ h.fn = "Rm" => Holds(h)
  PROVE  StopOf(a)' /\ (HasMark(a)' => HasMark(a))
  <1>1. a \in Actors /\ TypeOK /\ StopOf(a) /\ Head(stack[a]) = stack[a][1] /\ 1 \in DOMAIN stack[a]
        /\ Head(stack[a]) \in Frames /\ StopFrame(a, Head(stack[a]))
    BY SettledActor
  <1>2. PICK h \in Frames : h = Head(stack[a])
    BY <1>1
  <1>3. PICK g \in Frames : g = [h EXCEPT !.pc = pc]
    BY <1>2, FrameIs
  <1>4. g.fn = h.fn /\ g.pc = pc /\ g.flag = h.flag
    BY <1>3, FrameIs
  <1>5. PICK f \in Frames : f = Frame(fn, flag)
    <2>1. Frame(fn, flag) \in Frames
      BY FrameType DEF PlainFrames
    <2> QED BY <2>1
  <1>6. f.fn = fn /\ f.pc = "begin"
    BY <1>5, CalledIs
  <1>7. stack' = [stack EXCEPT ![a] = <<f, g>> \o Tail(@)]
    BY <1>2, <1>3, <1>5 DEF CallThen
  <1>8. /\ \/ fn = "Kill" /\ h.fn = "Stop" /\ pc = "killed" /\ Barred'
           \/ fn = "Kill" /\ h.fn = "Rm" /\ pc = "killed"
           \/ fn = "Stop" /\ h.fn = "Rm" /\ pc = "stopped"
           \/ fn = "Start" /\ h.fn = "Restart" /\ pc = "started"
           \/ fn = "Rm" /\ h.fn = "Start" /\ pc = "removed" /\ config.autoRemove
        /\ h.fn = "Rm" => Holds(h)
    BY <1>2
  <1>9. Calls(f, g)
    BY <1>4, <1>6, <1>8 DEF Calls
  <1>10. StopFrame(a, f)' /\ StopFrame(a, g)'
    BY <1>1, <1>2, <1>4, <1>6, <1>8 DEF StopFrame
  <1>11. Holds(g) => HasMark(a)
    BY <1>1, <1>2, <1>4, <1>8 DEF Holds, HasMark
  <1> QED BY <1>2, <1>4, <1>6, <1>7, <1>9, <1>10, <1>11, PushStop

\* A request, or the worker's callback, becomes the call it ends in.
LEMMA TailStop ==
  ASSUME Settled, NEW a \in Others, Soft(a), config' = config, stack[a] # <<>>, wait'[a] = "no",
         NEW fn \in {"Start", "Stop", "Rm"}, NEW flag \in BOOLEAN, TailCall(a, fn, flag),
         Head(stack[a]).fn \in {"ApiStart", "ApiStop", "AutoRm"},
         IF a = Worker THEN fn = "Rm" ELSE fn # "Rm", fn = "Rm" => config.autoRemove
  PROVE  StopOf(a)' /\ ~HasMark(a)'
  <1>1. a \in Actors /\ TypeOK /\ StopOf(a) /\ Head(stack[a]) = stack[a][1] /\ 1 \in DOMAIN stack[a]
        /\ Head(stack[a]) \in Frames /\ StopFrame(a, Head(stack[a]))
    BY SettledActor
  <1>2. DOMAIN stack[a] = {1}
    <2>1. DOMAIN stack[a] = 1..Len(stack[a])
      BY <1>1, StackAt
    <2>2. Len(stack[a]) = 1
      BY <1>1, OnlyFrame DEF StopOf
    <2> QED BY <2>1, <2>2
  <1>3. PICK f \in Frames : f = Frame(fn, flag)
    <2>1. Frame(fn, flag) \in Frames
      BY FrameType, Places DEF PlainFrames
    <2> QED BY <2>1
  <1>4. f.fn = fn /\ f.pc = "begin"
    BY <1>3, CalledIs
  <1>5. stack' = [stack EXCEPT ![a] = <<f>> \o Tail(@)]
    BY <1>3 DEF TailCall
  <1>6. /\ Nested(stack'[a])
        /\ DOMAIN stack'[a] = {1} /\ stack'[a] # <<>>
        /\ stack'[a][1] = f /\ Head(stack'[a]) = f
    BY <1>1, <1>2, <1>5, ReplacedNested DEF StopOf
  <1>7. StopFrame(a, f)'
    BY <1>4 DEF StopFrame
  <1>8. \A i \in DOMAIN stack'[a] : StopFrame(a, stack[a][i])'
    BY <1>6, <1>7 DEF StopFrame
  <1>9. StopTop(a)'
    BY <1>4, <1>6 DEF StopTop, At
  <1>10. ~HasMark(a)'
    BY <1>4, <1>6 DEF HasMark, Holds
  <1>11. a = Worker => \A i \in DOMAIN stack'[a] : stack'[a][i].fn \notin {"Stop", "Kill"}
    BY <1>4, <1>6
  <1> QED BY <1>6, <1>8, <1>9, <1>10, <1>11 DEF StopOf

\* A step of a keeps the invariant when it leaves to the others what they rely on and takes no
\* mark but its own away.
LEMMA StepKeeps ==
  ASSUME Settled, NEW a \in Others, StopOf(a)', config' = config,
         \A b \in Others : Soft(b),
         \A b \in Actors : b # a => stack'[b] = stack[b] /\ wait'[b] = wait[b] /\ ret'[b] = ret[b],
         st'.paused = st.paused, queue' = queue, stream' = stream,
         HasMark(a)' => st'.removing /\ (HasMark(a) \/ ~st.removing),
         st.removing => st'.removing \/ HasMark(a),
         ~registered' => Lifeless' /\ config.autoRemove
  PROVE  Sure'
  <1>1. ASSUME NEW b \in Others, b # a PROVE StopOf(b)' /\ HasMark(b)' = HasMark(b)
    <2>1. stack'[b] = stack[b] /\ wait'[b] = wait[b] /\ ret'[b] = ret[b]
      BY <1>1 DEF Others
    <2>2. TypeOK /\ StopOf(b) /\ Soft(b)
      BY SettledFacts DEF Settled, Sure
    <2> QED BY <2>1, <2>2, StopStays
  <1>2. MarkedOnce'
    BY <1>1 DEF MarkedOnce, Settled, Sure
  <1>3. ExitsOnly'
    BY DEF ExitsOnly, Pipeline, Settled, Sure
  <1> QED BY <1>1, <1>2, <1>3 DEF Sure, LeftIndex

\* A step of a that starts and stops nothing, whose own calls are in order and that marks
\* nothing, keeps the invariant.
Gentle(a) ==
  /\ \A b \in Actors : b # a => stack'[b] = stack[b] /\ wait'[b] = wait[b] /\ ret'[b] = ret[b]
  /\ UNCHANGED <<config, registered, queue, stream>>
  /\ proc'.state = proc.state
  /\ st'.running = st.running /\ st'.restarting = st.restarting
  /\ st'.paused = st.paused /\ st'.removing = st.removing
  /\ rm.canceled => rm'.canceled

LEMMA GentleSoft ==
  ASSUME NEW a \in Others, Gentle(a)
  PROVE  \A b \in Others : Soft(b)
  BY SoftWhen DEF Gentle

LEMMA GentleKeeps ==
  ASSUME Settled, NEW a \in Others, Gentle(a), StopOf(a)', HasMark(a)' => HasMark(a)
  PROVE  Sure'
  <1>1. \A b \in Others : Soft(b)
    BY GentleSoft
  <1>2. HasMark(a) => st.removing
    BY DEF Settled, Sure, MarkedOnce
  <1>3. ~registered => Lifeless /\ config.autoRemove
    BY DEF Settled, Sure, LeftIndex
  <1> QED BY <1>1, <1>2, <1>3, StepKeeps DEF Gentle, Lifeless

\* Such a step goes on at another place of the same call,
LEMMA GotoKeeps ==
  ASSUME Settled, NEW a \in Others, Gentle(a), stack[a] # <<>>, wait'[a] = "no",
         NEW pc \in Pcs, Goto(a, pc), pc \notin {"killed", "stopped", "force"},
         LET h == Head(stack[a])
         IN  /\ h.fn = "Stop" /\ pc = "grace" => ~st.running
             /\ h.fn = "Stop" /\ pc \in {"wait", "kill", "last"} => Barred'
             /\ h.fn = "Rm" /\ pc \in {"dead", "destroy"} => Lifeless
             /\ h.fn = "Rm" => (Holds(h) <=> pc \in HoldPcs)
  PROVE  Sure'
  <1> DEFINE h == Head(stack[a])
  <1>1. Soft(a) /\ config' = config
    BY GentleSoft DEF Gentle
  <1>2. h = stack[a][1] /\ 1 \in DOMAIN stack[a]
    BY SettledActor
  <1>3. (st'.running = st.running) /\ (Lifeless' <=> Lifeless)
    BY DEF Gentle, Lifeless
  <1>4. StopOf(a)' /\ (HasMark(a)' => HasMark(a) \/ (h.fn = "Rm" /\ pc \in HoldPcs))
    <2>1. Holds(h) => pc \in HoldPcs
      BY DEF Holds
    <2> QED BY <1>1, <1>3, <2>1, GotoStop
  <1>5. HasMark(a)' => HasMark(a)
    BY <1>2, <1>4 DEF HasMark
  <1> QED BY <1>4, <1>5, GentleKeeps

\* or returns,
LEMMA ReturnKeeps ==
  ASSUME Settled, NEW a \in Others, Gentle(a), stack[a] # <<>>, wait'[a] = "no",
         NEW v \in {"nil", "err"}, Return(a, v),
         Head(stack[a]).fn = "Stop" /\ v = "nil" => Lifeless,
         Head(stack[a]).fn = "Kill" /\ HasStop(a) /\ v = "nil" => Ending
  PROVE  Sure'
  <1>1. Soft(a) /\ config' = config
    BY GentleSoft DEF Gentle
  <1>2. (Lifeless' <=> Lifeless) /\ (Ending => Ending')
    BY DEF Gentle, Lifeless, Ending
  <1>3. StopOf(a)' /\ (HasMark(a)' => HasMark(a))
    BY <1>1, <1>2, ReturnStop
  <1> QED BY <1>3, GentleKeeps

\* or calls.
LEMMA CallKeeps ==
  ASSUME Settled, NEW a \in Others, Gentle(a), stack[a] # <<>>, wait'[a] = "no",
         NEW pc \in Pcs, NEW fn \in Fns, NEW flag \in BOOLEAN, CallThen(a, pc, fn, flag),
         LET h == Head(stack[a])
         IN  /\ \/ fn = "Kill" /\ h.fn = "Stop" /\ pc = "killed" /\ Barred'
                \/ fn = "Kill" /\ h.fn = "Rm" /\ pc = "killed"
                \/ fn = "Stop" /\ h.fn = "Rm" /\ pc = "stopped"
                \/ fn = "Start" /\ h.fn = "Restart" /\ pc = "started"
                \/ fn = "Rm" /\ h.fn = "Start" /\ pc = "removed" /\ config.autoRemove
             /\ h.fn = "Rm" => Holds(h)
  PROVE  Sure'
  <1>1. Soft(a) /\ config' = config
    BY GentleSoft DEF Gentle
  <1>2. StopOf(a)' /\ (HasMark(a)' => HasMark(a))
    BY <1>1, CallStop
  <1> QED BY <1>2, GentleKeeps

\* The other actors, and what the step leaves alone.
LEMMA GentleWhen ==
  ASSUME TypeOK, NEW a \in Actors, UNCHANGED <<config, registered, queue, stream, wait>>,
         \/ \E pc : Goto(a, pc)
         \/ \E v : Return(a, v) \/ Continue(a, v)
         \/ \E pc, fn, flag : CallThen(a, pc, fn, flag)
         \/ \E fn, flag : TailCall(a, fn, flag),
         proc'.state = proc.state, st'.running = st.running, st'.restarting = st.restarting,
         st'.paused = st.paused, st'.removing = st.removing, rm.canceled => rm'.canceled
  PROVE  Gentle(a)
  BY OthersStay DEF Gentle

\* A container that does not count as running has no process.
LEMMA StoppedEnds ==
  ASSUME Settled, ~st.running
  PROVE  Lifeless /\ Ending /\ Barred
  <1>1. Lifeless
    <2>1. CASE registered
      BY <2>1, SettledFacts DEF ProcInv, UpInv, Up, Known, Lifeless
    <2>2. CASE ~registered
      BY <2>2 DEF Settled, Sure, LeftIndex
    <2> QED BY <2>1, <2>2
  <1> QED BY <1>1 DEF Ending, Barred

\* Below another call containerStop has called Kill: the restart manager is canceled.
LEMMA StopBelow ==
  ASSUME Settled, NEW a \in Others, stack[a] # <<>>, HasStop(a), Head(stack[a]).fn # "Stop"
  PROVE  Barred
  <1>1. /\ StopOf(a) /\ Head(stack[a]) = stack[a][1] /\ 1 \in DOMAIN stack[a]
        /\ stack[a] \in Seq(Frames) /\ DOMAIN stack[a] = 1..Len(stack[a]) /\ Len(stack[a]) \in Nat
    BY SettledActor, StackAt
  <1>2. PICK i \in DOMAIN stack[a] : stack[a][i].fn = "Stop"
    BY DEF HasStop
  <1>3. i # 1
    BY <1>1, <1>2
  <1>4. i - 1 \in DOMAIN stack[a] /\ i = (i - 1) + 1
    BY <1>1, <1>3
  <1>5. Calls(stack[a][i - 1], stack[a][i])
    BY <1>1, <1>4 DEF StopOf, Nested
  <1>6. stack[a][i].pc = "killed"
    BY <1>2, <1>5 DEF Calls
  <1>7. StopFrame(a, stack[a][i])
    BY <1>1 DEF StopOf
  <1> QED BY <1>2, <1>6, <1>7 DEF StopFrame

\* Inside a containerStop that is at its wait, or has called Kill.
LEMMA StopWaiting ==
  ASSUME Settled, NEW a \in Others, wait[a] # "no", HasStop(a)
  PROVE  Barred
  <1>1. Waits(a) /\ ~At(a, "Stop", "grace")
    BY DEF Settled, Sure, StopOf, StopTop
  <1>2. PICK w \in WaitPoints : At(a, w.fn, w.pc)
    BY <1>1 DEF Waits
  <1>3. stack[a] # <<>> /\ Head(stack[a]).fn = w.fn /\ Head(stack[a]).pc = w.pc
    BY <1>2 DEF At
  <1>4. CASE w.fn # "Stop"
    BY <1>3, <1>4, StopBelow
  <1>5. CASE w.fn = "Stop"
    <2>1. w.pc \in {"wait", "last"}
      BY <1>1, <1>2, <1>5 DEF WaitPoints
    <2> QED BY <1>3, <1>5, <2>1, SettledActor DEF StopFrame
  <1> QED BY <1>4, <1>5
--------------------------------------------------------------------------------
(* The steps of a client and of the worker, once more *)

\* Going on somewhere, or returning, where Continue says which.
LEMMA ContinueKeeps ==
  ASSUME Settled, NEW a \in Others, Gentle(a), stack[a] # <<>>, wait'[a] = "no",
         NEW k \in {"nil", "err", "grace", "direct", "pid", "last", "wait", "kill", "signal"},
         Continue(a, k),
         LET h == Head(stack[a])
         IN  /\ h.fn \in {"Kill", "Stop", "Signal"}
             /\ h.fn = "Stop" /\ k = "grace" => ~st.running
             /\ h.fn = "Stop" /\ k \in {"wait", "kill", "last"} => Barred'
             /\ h.fn = "Stop" /\ k = "nil" => Lifeless
             /\ h.fn = "Kill" /\ HasStop(a) /\ k = "nil" => Ending
  PROVE  Sure'
  <1>1. CASE k \in {"nil", "err"}
    <2>1. Return(a, k)
      BY <1>1 DEF Continue
    <2> QED BY <1>1, <2>1, ReturnKeeps
  <1>2. CASE k \notin {"nil", "err"}
    <2>1. Goto(a, k) /\ k \in Pcs
      BY <1>2, Places DEF Continue
    <2> QED BY <1>2, <2>1, GotoKeeps
  <1> QED BY <1>1, <1>2

\* Kill and containerStop look whether the container runs.
LEMMA BeginsStop ==
  ASSUME Settled, NEW a \in Others, KillBegin(a) \/ StopBegin(a)
  PROVE  Sure'
  <1> DEFINE h == Head(stack[a])
  <1>1. stack[a] # <<>> /\ h.fn \in {"Kill", "Stop"} /\ h.pc = "begin"
    BY DEF KillBegin, StopBegin, At
  <1>2. a \in Actors /\ TypeOK
    BY <1>1, SettledActor
  <1>3. wait[a] = "no"
    BY WaitsNot DEF KillBegin, StopBegin
  <1>4. Gentle(a) /\ wait'[a] = "no"
    BY <1>2, <1>3, GentleWhen DEF KillBegin, StopBegin
  <1>5. PICK k \in {"signal", "nil", "err"} :
          Continue(a, k) /\ (k = "nil" => h.fn = "Stop" /\ ~st.running)
    BY <1>1 DEF KillBegin, StopBegin, At
  <1> QED BY <1>1, <1>4, <1>5, StoppedEnds, ContinueKeeps

\* A failed start's removal is over.
LEMMA StartRemovedStop ==
  ASSUME Settled, NEW a \in Others, StartRemoved(a)
  PROVE  Sure'
  <1>1. stack[a] # <<>> /\ Head(stack[a]).fn = "Start" /\ Return(a, "err")
    BY DEF StartRemoved, At
  <1>2. a \in Actors /\ TypeOK
    BY <1>1, SettledActor
  <1>3. wait[a] = "no"
    BY WaitsNot DEF StartRemoved
  <1>4. Gentle(a) /\ wait'[a] = "no"
    BY <1>1, <1>2, <1>3, GentleWhen DEF StartRemoved
  <1> QED BY <1>1, <1>4, ReturnKeeps

\* containerStop kills the container, and believes the kill that went well.
LEMMA StopKillStop ==
  ASSUME Settled, NEW a \in Others, StopKill(a)
  PROVE  Sure'
  <1> DEFINE h == Head(stack[a])
  <1>1. stack[a] # <<>> /\ h.fn = "Stop" /\ h.pc \in {"kill", "killed"}
    BY DEF StopKill, At
  <1>2. a \in Actors /\ TypeOK /\ StopOf(a) /\ StopFrame(a, h)
    BY <1>1, SettledActor
  <1>3. wait[a] = "no"
    BY WaitsNot DEF StopKill
  <1>4. Gentle(a) /\ wait'[a] = "no"
    BY <1>2, <1>3, GentleWhen DEF StopKill
  <1>5. Barred'
    <2>1. Barred
      BY <1>1, <1>2 DEF StopFrame
    <2> QED BY <2>1 DEF StopKill, Barred, Ending, Lifeless
  <1>6. CASE CallThen(a, "killed", "Kill", FALSE)
    BY <1>1, <1>4, <1>5, <1>6, CallKeeps, Places
  <1>7. CASE At(a, "Stop", "killed") /\ Continue(a, IF ret[a] = "nil" THEN "nil" ELSE "last")
    <2>1. ret[a] = "nil" => Lifeless
      BY <1>2, <1>7 DEF StopOf, StopTop, Ending
    <2>2. CASE ret[a] = "nil"
      BY <1>1, <1>4, <1>7, <2>1, <2>2, ContinueKeeps
    <2>3. CASE ret[a] # "nil"
      BY <1>1, <1>4, <1>5, <1>7, <2>3, ContinueKeeps
    <2> QED BY <2>2, <2>3
  <1> QED BY <1>6, <1>7 DEF StopKill

\* Waiting for the container to stop.
LEMMA WaitStop ==
  ASSUME Settled, NEW a \in Others, WaitEnter(a) \/ WaitLeave(a)
  PROVE  Sure'
  <1> DEFINE h == Head(stack[a])
  <1>1. UNCHANGED <<config, st, registered, rm, proc, stream, queue>>
    BY DEF WaitEnter, WaitLeave
  <1>2. PICK w \in WaitPoints :
          /\ At(a, w.fn, w.pc)
          /\ \/ wait[a] = "no" /\ ~st.running /\ Continue(a, w.ok) /\ wait' = wait
             \/ /\ wait[a] = "no" /\ st.running /\ wait' = [wait EXCEPT ![a] = "waiting"]
                /\ UNCHANGED <<stack, ret>>
             \/ wait[a] = "fired" /\ Continue(a, w.ok) /\ wait' = [wait EXCEPT ![a] = "no"]
             \/ /\ wait[a] # "no" /\ w.late # "never" /\ Continue(a, w.late)
                /\ wait' = [wait EXCEPT ![a] = "no"]
    BY DEF WaitEnter, WaitLeave
  <1>3. stack[a] # <<>> /\ h.fn = w.fn /\ h.pc = w.pc
    BY <1>2 DEF At
  <1>4. a \in Actors /\ TypeOK /\ StopOf(a) /\ h = stack[a][1] /\ 1 \in DOMAIN stack[a]
    BY <1>3, SettledActor
  <1>5. wait \in [Actors -> {"no", "waiting", "fired"}]
    BY <1>4 DEF TypeOK
  <1>6. \A b \in Actors : b # a => stack'[b] = stack[b] /\ wait'[b] = wait[b] /\ ret'[b] = ret[b]
    BY <1>2, <1>4, <1>5, OthersStay
  <1>7. Gentle(a)
    BY <1>1, <1>6 DEF Gentle
  <1>8. h.fn = "Stop" => HasStop(a)
    BY <1>4 DEF HasStop
  <1>9. CASE Continue(a, w.ok) /\ wait'[a] = "no" /\ (~st.running \/ wait[a] = "fired")
    <2>1. h.fn = "Stop" \/ HasStop(a) => Ending
      <3>1. CASE ~st.running
        BY <3>1, StoppedEnds
      <3>2. CASE wait[a] = "fired"
        BY <1>4, <1>8, <3>2 DEF StopOf, StopTop
      <3> QED BY <1>9, <3>1, <3>2
    <2>2. Ending => Lifeless /\ Barred'
      BY <1>1 DEF Ending, Barred, Lifeless
    <2>3. w.ok \in {"nil", "direct", "last", "wait"} /\ h.fn \in {"Kill", "Stop"}
      BY <1>3, WaitPointsAre
    <2> QED BY <1>3, <1>7, <1>9, <2>1, <2>2, <2>3, ContinueKeeps
  <1>10. CASE wait[a] # "no" /\ w.late # "never" /\ Continue(a, w.late) /\ wait'[a] = "no"
    <2>1. ~(h.fn = "Stop" /\ h.pc = "grace")
      BY <1>2, <1>3, <1>4, <1>10 DEF StopOf, StopTop, At
    <2>2. w.late \in {"err", "pid", "kill"} /\ h.fn \in {"Kill", "Stop"}
      BY <1>3, <1>10, <2>1, WaitPointsAre
    <2>3. h.fn = "Stop" => Barred
      BY <1>8, <1>10, StopWaiting
    <2>4. Barred => Barred'
      BY <1>1 DEF Barred, Ending, Lifeless
    <2> QED BY <1>3, <1>7, <1>10, <2>2, <2>3, <2>4, ContinueKeeps
  <1>11. CASE wait[a] = "no" /\ st.running /\ wait' = [wait EXCEPT ![a] = "waiting"] /\ UNCHANGED <<stack, ret>>
    <2>1. \A fn, pc : At(a, fn, pc)' <=> At(a, fn, pc)
      BY <1>11 DEF At
    <2>2. Waits(a)'
      BY <1>2, <2>1 DEF Waits
    <2>3. ~At(a, "Stop", "grace")
      BY <1>3, <1>4, <1>11, SettledActor DEF StopFrame, At
    <2>4. (Ending' <=> Ending) /\ (Lifeless' <=> Lifeless) /\ (Barred' <=> Barred)
      BY <1>1 DEF Ending, Lifeless, Barred
    <2>5. wait'[a] = "waiting"
      BY <1>4, <1>5, <1>11
    <2>6. StopTop(a)'
      BY <1>4, <1>11, <2>1, <2>2, <2>3, <2>4, <2>5 DEF StopOf, StopTop
    <2>7. ASSUME NEW i \in DOMAIN stack'[a] PROVE StopFrame(a, stack[a][i])'
      <3>1. StopFrame(a, stack[a][i]) /\ stack'[a][i] = stack[a][i]
        BY <1>4, <1>11, <2>7 DEF StopOf
      <3> QED BY <1>1, <2>4, <3>1 DEF StopFrame
    <2>8. HasMark(a)' = HasMark(a)
      BY <1>11 DEF HasMark
    <2>9. StopOf(a)'
      BY <1>4, <1>11, <2>6, <2>7, <2>8 DEF StopOf
    <2> QED BY <1>7, <2>8, <2>9, GentleKeeps
  <1>12. wait' = [wait EXCEPT ![a] = "no"] => wait'[a] = "no"
    BY <1>4, <1>5
  <1>13. wait' = wait /\ wait[a] = "no" => wait'[a] = "no"
    OBVIOUS
  <1> QED BY <1>2, <1>9, <1>10, <1>11, <1>12, <1>13

\* The stop signal cancels the restart manager; containerStop comes to its grace period only
\* when the container has stopped.
LEMMA SignalStop ==
  ASSUME Settled, NEW a \in Others, KillWithSignal(a)
  PROVE  Sure'
  <1> DEFINE h == Head(stack[a])
  <1>1. ~st.paused /\ "rpc" \notin Faults
    BY SettledFacts DEF Settled, Sure, ExitsOnly
  <1>2. PICK p \in SignalPoints :
          /\ At(a, p.fn, p.pc)
          /\ \/ ~st.running /\ Continue(a, p.bad) /\ UNCHANGED <<st, rm, proc>>
             \/ /\ st.running /\ Continue(a, p.ok)
                /\ rm' = IF SignalCancels(p.sig) THEN Cancel(rm) ELSE rm
                /\ st' = [st EXCEPT !.manual = TRUE]
                /\ proc' = [proc EXCEPT !.killed =
                              @ \/ (~st.restarting /\ p.sig = "KILL" /\ proc.state = "alive")]
    BY <1>1 DEF KillWithSignal
  <1>3. stack[a] # <<>> /\ h.fn = p.fn /\ h.pc = p.pc
    BY <1>2 DEF At
  <1>4. a \in Actors /\ TypeOK /\ StopFrame(a, h)
    BY <1>3, SettledActor
  <1>5. UNCHANGED <<config, registered, wait, stream, queue>>
    BY DEF KillWithSignal
  <1>6. /\ st'.running = st.running /\ st'.restarting = st.restarting /\ st'.paused = st.paused
        /\ st'.removing = st.removing /\ proc'.state = proc.state
        /\ rm.canceled => rm'.canceled
    BY <1>2, <1>4 DEF TypeOK, States, Cancel
  <1>7. Gentle(a)
    BY <1>2, <1>4, <1>5, <1>6, GentleWhen
  <1>8. /\ p.pc \in {"signal", "force", "begin"} /\ p.fn \in {"Kill", "Stop", "Signal"}
        /\ p.ok \in {"direct", "wait", "nil"} /\ p.bad \in {"grace", "err"}
        /\ p.fn = "Kill" => p.ok = "direct" /\ p.bad = "grace"
        /\ p.fn = "Stop" => p.ok = "wait"
        /\ p.fn = "Stop" /\ p.pc # "force" => p.bad = "grace" /\ p.sig = "STOP"
    BY DEF SignalPoints
  <1>9. h.fn = "Stop" => h.pc # "force"
    BY <1>4 DEF StopFrame
  <1>10. wait'[a] = "no"
    BY <1>2, <1>5, <1>8, WaitsNot
  <1>11. CASE /\ st.running /\ Continue(a, p.ok)
              /\ rm' = IF SignalCancels(p.sig) THEN Cancel(rm) ELSE rm
    <2>1. h.fn = "Stop" => rm'.canceled
      <3>1. h.fn = "Stop" => rm' = Cancel(rm)
        BY <1>3, <1>8, <1>9, <1>11 DEF SignalCancels
      <3>2. rm \in [canceled : BOOLEAN, active : BOOLEAN, count : Nat]
        BY <1>4 DEF TypeOK
      <3> QED BY <3>1, <3>2 DEF Cancel
    <2> QED BY <1>3, <1>7, <1>8, <1>10, <1>11, <2>1, ContinueKeeps DEF Barred
  <1>12. CASE ~st.running /\ Continue(a, p.bad)
    BY <1>3, <1>7, <1>8, <1>9, <1>10, <1>12, ContinueKeeps
  <1> QED BY <1>2, <1>11, <1>12

\* SIGKILL to the pid: the process that is not there any more has ended.
LEMMA KillDirectlyStop ==
  ASSUME Settled, NEW a \in Others, KillDirectly(a)
  PROVE  Sure'
  <1> DEFINE h == Head(stack[a])
  <1>1. stack[a] # <<>> /\ h.fn = "Kill" /\ h.pc = "pid"
    BY DEF KillDirectly, At
  <1>2. a \in Actors /\ TypeOK
    BY <1>1, SettledActor
  <1>3. wait[a] = "no"
    BY WaitsNot DEF KillDirectly
  <1>4. UNCHANGED <<config, st, registered, rm, wait, stream, queue>>
    BY DEF KillDirectly
  <1>5. proc'.state = proc.state
    BY <1>2 DEF KillDirectly, TypeOK
  <1>6. \/ Continue(a, "last")
        \/ Continue(a, "nil") /\ st.pid # 0 /\ ~(Known /\ st.pid = proc.gen)
    BY DEF KillDirectly, Continue
  <1>7. Gentle(a)
    BY <1>2, <1>4, <1>5, <1>6, GentleWhen
  <1>8. CASE Continue(a, "nil") /\ st.pid # 0 /\ ~(Known /\ st.pid = proc.gen)
    <2>1. Lifeless /\ ~st.restarting
      <3>1. CASE registered
        BY <1>8, <3>1, SettledFacts DEF ProcInv, UpInv, Up, Known, Lifeless
      <3>2. CASE ~registered
        BY <3>2, SettledFacts DEF Settled, Sure, LeftIndex
      <3> QED BY <3>1, <3>2
    <2>2. HasStop(a) => Ending
      BY <1>1, <2>1, StopBelow DEF Barred, Ending
    <2> QED BY <1>1, <1>3, <1>4, <1>7, <1>8, <2>2, ContinueKeeps
  <1> QED BY <1>1, <1>3, <1>4, <1>6, <1>7, <1>8, ContinueKeeps

\* A removal looks the container up, kills and stops it, and gives up or goes on.
LEMMA RmCallsStop ==
  ASSUME Settled, NEW a \in Others, RmLookup(a) \/ RmRunning(a) \/ RmStop(a)
  PROVE  Sure'
  <1> DEFINE h == Head(stack[a])
  <1>1. stack[a] # <<>> /\ h.fn = "Rm" /\ h.pc \in {"begin", "check", "running", "killed", "stopped"}
    BY DEF RmLookup, RmRunning, RmStop, At
  <1>2. a \in Actors /\ TypeOK /\ StopOf(a)
    BY <1>1, SettledActor
  <1>3. wait[a] = "no"
    BY WaitsNot DEF RmLookup, RmRunning, RmStop
  <1>4. Gentle(a) /\ wait'[a] = "no"
    BY <1>2, <1>3, GentleWhen DEF RmLookup, RmRunning, RmStop
  <1>5. \/ h.pc = "begin" /\ (Goto(a, "mark") \/ Return(a, "err"))
        \/ h.pc = "check" /\ (Goto(a, "running") \/ Goto(a, "resetnil"))
        \/ /\ h.pc \in {"running", "killed"}
           /\ \/ Goto(a, "reseterr")
              \/ CallThen(a, "killed", "Kill", FALSE) \/ CallThen(a, "stopped", "Stop", FALSE)
        \/ /\ h.pc = "stopped"
           /\ Goto(a, "reseterr") \/ (Goto(a, "dead") /\ At(a, "Rm", "stopped") /\ ret[a] # "err")
    BY DEF RmLookup, RmRunning, RmStop, Continue, At
  <1>6. Goto(a, "dead") /\ At(a, "Rm", "stopped") /\ ret[a] # "err" => Lifeless
    BY <1>2 DEF StopOf, StopTop, TypeOK
  <1>7. Holds(h) <=> h.pc # "begin"
    BY <1>1 DEF Holds
  <1>8. {"reseterr", "resetnil"} \subseteq Pcs /\ Holds(h) = (h.fn = "Rm" /\ h.pc \in HoldPcs)
    BY DEF Pcs, Holds, HoldPcs
  <1>9. CASE h.pc = "begin"
    <2>1. CASE Goto(a, "mark")
      BY <1>1, <1>4, <1>7, <1>9, <2>1, GotoKeeps, Places DEF HoldPcs
    <2>2. CASE Return(a, "err")
      BY <1>1, <1>4, <2>2, ReturnKeeps
    <2> QED BY <1>5, <1>9, <2>1, <2>2
  <1>10. CASE h.pc = "check"
    <2>1. PICK pc \in {"running", "resetnil"} : Goto(a, pc)
      BY <1>5, <1>10
    <2> QED BY <1>1, <1>4, <1>7, <1>8, <1>10, <2>1, GotoKeeps, Places DEF HoldPcs
  <1>11. CASE h.pc \in {"running", "killed", "stopped"}
    <2>1. CASE Goto(a, "reseterr")
      BY <1>1, <1>4, <1>7, <1>8, <1>11, <2>1, GotoKeeps DEF HoldPcs
    <2>2. CASE Goto(a, "dead") /\ Lifeless
      BY <1>1, <1>4, <1>7, <1>8, <1>11, <2>2, GotoKeeps, Places DEF HoldPcs
    <2>3. CASE CallThen(a, "killed", "Kill", FALSE)
      BY <1>1, <1>4, <1>7, <1>11, <2>3, CallKeeps, Places
    <2>4. CASE CallThen(a, "stopped", "Stop", FALSE)
      BY <1>1, <1>4, <1>7, <1>11, <2>4, CallKeeps, Places
    <2> QED BY <1>5, <1>6, <1>11, <2>1, <2>2, <2>3, <2>4
  <1> QED BY <1>1, <1>9, <1>10, <1>11

\* A removal marks the container unless another one has.
LEMMA RmMarkStop ==
  ASSUME Settled, NEW a \in Others, RmMark(a)
  PROVE  Sure'
  <1> DEFINE h == Head(stack[a])
  <1>1. stack[a] # <<>> /\ h.fn = "Rm" /\ h.pc = "mark"
    BY DEF RmMark, At
  <1>2. a \in Actors /\ TypeOK
    BY <1>1, SettledActor
  <1>3. wait[a] = "no"
    BY WaitsNot DEF RmMark
  <1>4. UNCHANGED <<config, registered, rm, wait, proc, queue, stream>>
    BY DEF RmMark
  <1>5. CASE Return(a, "err") /\ UNCHANGED st
    <2>1. Gentle(a)
      BY <1>2, <1>4, <1>5, GentleWhen
    <2> QED BY <1>1, <1>3, <1>4, <1>5, <2>1, ReturnKeeps
  <1>6. CASE ~st.removing /\ Goto(a, "check") /\ st' = [st EXCEPT !.removing = TRUE]
    <2>1. /\ st'.running = st.running /\ st'.restarting = st.restarting /\ st'.paused = st.paused
          /\ st'.removing
      BY <1>2, <1>6 DEF TypeOK, States
    <2>2. \A b \in Others : Soft(b)
      BY <1>4, <2>1, SoftWhen
    <2>3. StopOf(a)'
      BY <1>1, <1>3, <1>4, <1>6, <2>2, GotoStop, Places DEF HoldPcs
    <2>4. \A b \in Actors : b # a => stack'[b] = stack[b] /\ wait'[b] = wait[b] /\ ret'[b] = ret[b]
      BY <1>2, <1>4, <1>6, OthersStay
    <2>5. ~registered' => Lifeless' /\ config.autoRemove
      BY <1>4 DEF Settled, Sure, LeftIndex, Lifeless
    <2> QED BY <1>4, <1>6, <2>1, <2>2, <2>3, <2>4, <2>5, StepKeeps
  <1> QED BY <1>5, <1>6 DEF RmMark

\* What is dead does not live, and leaves the index.
LEMMA RmDeadStop ==
  ASSUME Settled, NEW a \in Others, RmDead(a) \/ RmDestroy(a)
  PROVE  Sure'
  <1> DEFINE h == Head(stack[a])
  <1>1. stack[a] # <<>> /\ h.fn = "Rm" /\ h.pc \in {"dead", "destroy"}
    BY DEF RmDead, RmDestroy, At
  <1>2. a \in Actors /\ TypeOK /\ StopFrame(a, h) /\ h = stack[a][1] /\ 1 \in DOMAIN stack[a]
    BY <1>1, SettledActor
  <1>3. wait[a] = "no"
    BY WaitsNot DEF RmDead, RmDestroy
  <1>4. UNCHANGED <<config, rm, wait, proc, queue, stream>>
    BY DEF RmDead, RmDestroy
  <1>5. Lifeless /\ config.autoRemove
    BY <1>1, <1>2 DEF StopFrame
  <1>6. /\ st'.running = st.running /\ st'.restarting = st.restarting /\ st'.paused = st.paused
        /\ st'.removing = st.removing
    BY <1>2 DEF RmDead, RmDestroy, TypeOK, States
  <1>7. \A b \in Others : Soft(b)
    BY <1>4, <1>6, SoftWhen
  <1>8. PICK pc \in {"destroy", "resetnil", "reseterr"} : Goto(a, pc)
    BY DEF RmDead, RmDestroy
  <1>9. pc \in Pcs /\ pc \in HoldPcs
    BY DEF Pcs, HoldPcs
  <1>10. Lifeless'
    BY <1>4, <1>5 DEF Lifeless
  <1>11. StopOf(a)'
    BY <1>1, <1>3, <1>4, <1>7, <1>8, <1>9, <1>10, GotoStop
  <1>12. HasMark(a)
    BY <1>1, <1>2 DEF HasMark, Holds
  <1>13. st.removing
    BY <1>12 DEF Settled, Sure, MarkedOnce
  <1>14. \A b \in Actors : b # a => stack'[b] = stack[b] /\ wait'[b] = wait[b] /\ ret'[b] = ret[b]
    BY <1>2, <1>4, <1>8, OthersStay
  <1> QED BY <1>4, <1>5, <1>6, <1>7, <1>10, <1>11, <1>12, <1>13, <1>14, StepKeeps

\* A removal that is over, or gave up, takes its mark away.
LEMMA RmResetStop ==
  ASSUME Settled, NEW a \in Others, RmReset(a)
  PROVE  Sure'
  <1> DEFINE h == Head(stack[a])
  <1>1. stack[a] # <<>> /\ h.fn = "Rm" /\ h.pc \in {"resetnil", "reseterr"}
    BY DEF RmReset, At
  <1>2. a \in Actors /\ TypeOK /\ h = stack[a][1] /\ 1 \in DOMAIN stack[a]
    BY <1>1, SettledActor
  <1>3. wait[a] = "no"
    BY WaitsNot DEF RmReset
  <1>4. UNCHANGED <<config, registered, rm, wait, proc, queue, stream>>
    BY DEF RmReset
  <1>5. st'.running = st.running /\ st'.restarting = st.restarting /\ st'.paused = st.paused
    BY <1>2 DEF RmReset, TypeOK, States
  <1>6. \A b \in Others : Soft(b)
    BY <1>4, <1>5, SoftWhen
  <1>7. PICK v \in {"nil", "err"} : Return(a, v)
    BY DEF RmReset
  <1>8. StopOf(a)' /\ ~HasMark(a)'
    BY <1>1, <1>3, <1>4, <1>6, <1>7, ReturnStop
  <1>9. HasMark(a)
    BY <1>1, <1>2 DEF HasMark, Holds
  <1>10. \A b \in Actors : b # a => stack'[b] = stack[b] /\ wait'[b] = wait[b] /\ ret'[b] = ret[b]
    BY <1>2, <1>4, <1>7, OthersStay
  <1>11. ~registered' => Lifeless' /\ config.autoRemove
    BY <1>4 DEF Settled, Sure, LeftIndex, Lifeless
  <1> QED BY <1>4, <1>5, <1>6, <1>8, <1>9, <1>10, <1>11, StepKeeps

\* containerRestart stops the container when it runs, and starts it.
LEMMA RestartStop ==
  ASSUME Settled, NEW a \in Others, RestartBegin(a) \/ RestartRestore(a) \/ RestartStart(a)
  PROVE  Sure'
  <1> DEFINE h == Head(stack[a])
  <1>1. stack[a] # <<>> /\ h.fn = "Restart"
    BY DEF RestartBegin, RestartRestore, RestartStart, At
  <1>2. a \in Actors /\ TypeOK
    BY <1>1, SettledActor
  <1>3. wait[a] = "no"
    BY WaitsNot DEF RestartBegin, RestartRestore, RestartStart
  <1>4. UNCHANGED <<config, registered, rm, wait, proc, queue, stream>>
    BY DEF RestartBegin, RestartRestore, RestartStart
  <1>5. /\ st'.running = st.running /\ st'.restarting = st.restarting /\ st'.paused = st.paused
        /\ st'.removing = st.removing
    BY <1>2 DEF RestartBegin, RestartRestore, RestartStart, TypeOK, States
  <1>6. \/ \E pc \in {"save", "start"} : Goto(a, pc)
        \/ \E v \in {"nil", "err"} : Return(a, v)
        \/ CallThen(a, "started", "Start", TRUE)
    BY <1>2 DEF RestartBegin, RestartRestore, RestartStart, Continue, TypeOK
  <1>7. Gentle(a) /\ wait'[a] = "no"
    BY <1>2, <1>3, <1>4, <1>5, <1>6, GentleWhen
  <1>8. CASE \E pc \in {"save", "start"} : Goto(a, pc)
    BY <1>1, <1>7, <1>8, GotoKeeps, Places
  <1>9. CASE \E v \in {"nil", "err"} : Return(a, v)
    BY <1>1, <1>7, <1>9, ReturnKeeps
  <1>10. CASE CallThen(a, "started", "Start", TRUE)
    BY <1>1, <1>7, <1>10, CallKeeps, Places
  <1> QED BY <1>6, <1>8, <1>9, <1>10

\* It keeps AutoRemove while it stops the container.
LEMMA RestartSaveStop ==
  ASSUME Settled, NEW a \in Others, RestartSave(a)
  PROVE  Sure'
  <1>1. stack[a] # <<>> /\ Head(stack[a]).fn = "Restart"
    BY DEF RestartSave, At
  <1>2. a \in Actors /\ TypeOK /\ StopFrame(a, Head(stack[a])) /\ Head(stack[a]) \in Frames
    BY <1>1, SettledActor
  <1>3. wait[a] = "no"
    BY WaitsNot DEF RestartSave
  <1>4. UNCHANGED <<config, registered, rm, wait, ret, proc, queue, stream>>
    BY DEF RestartSave
  <1>5. PICK h \in Frames : h = Head(stack[a])
    BY <1>2
  <1>6. PICK f \in Frames : f = Frame("Stop", FALSE)
    <2>1. Frame("Stop", FALSE) \in Frames
      BY FrameType, Places DEF PlainFrames
    <2> QED BY <2>1
  <1>7. PICK g \in Frames : g = [h EXCEPT !.pc = "restore", !.flag = st.autoRemove]
    <2>1. [h EXCEPT !.pc = "restore", !.flag = st.autoRemove] \in Frames
      BY <1>2, Places DEF Frames, TypeOK, States
    <2> QED BY <2>1
  <1>8. f.fn = "Stop" /\ f.pc = "begin" /\ g.fn = "Restart" /\ g.pc = "restore"
    <2>1. f.fn = "Stop" /\ f.pc = "begin"
      BY <1>6, CalledIs
    <2>2. g.fn = h.fn /\ g.pc = "restore"
      BY <1>7 DEF Frames
    <2> QED BY <1>1, <1>5, <2>1, <2>2
  <1>9. stack' = [stack EXCEPT ![a] = <<f, g>> \o Tail(@)]
    BY <1>5, <1>6, <1>7 DEF RestartSave
  <1>10. /\ st'.running = st.running /\ st'.restarting = st.restarting /\ st'.paused = st.paused
         /\ st'.removing = st.removing
    BY <1>2 DEF RestartSave, TypeOK, States
  <1>11. \A b \in Actors : b # a => stack'[b] = stack[b]
    BY <1>2, <1>9 DEF TypeOK
  <1>12. Gentle(a)
    BY <1>4, <1>10, <1>11 DEF Gentle
  <1>13. Calls(f, g) /\ StopFrame(a, f)' /\ StopFrame(a, g)' /\ ~Holds(g)
    <2>1. a # Worker
      BY <1>1, <1>2 DEF StopFrame
    <2> QED BY <1>8, <2>1 DEF Calls, StopFrame, Holds
  <1>14. StopOf(a)' /\ (HasMark(a)' => HasMark(a))
    <2>1. Soft(a)
      BY <1>12, GentleSoft
    <2> QED BY <1>1, <1>3, <1>4, <1>8, <1>9, <1>13, <2>1, PushStop
  <1> QED BY <1>12, <1>14, GentleKeeps

\* A request, or the worker's callback, becomes the call it ends in, or returns.
LEMMA TailKeeps ==
  ASSUME Settled, NEW a \in Others, AutoRm(a) \/ ApiStart(a) \/ ApiStop(a)
  PROVE  Sure'
  <1> DEFINE h == Head(stack[a])
  <1>1. stack[a] # <<>> /\ h.fn \in {"AutoRm", "ApiStart", "ApiStop"}
    BY DEF AutoRm, ApiStart, ApiStop, At
  <1>2. a \in Actors /\ TypeOK /\ StopFrame(a, h)
    BY <1>1, SettledActor
  <1>3. wait[a] = "no"
    BY WaitsNot DEF AutoRm, ApiStart, ApiStop
  <1>4. Gentle(a) /\ wait'[a] = "no"
    BY <1>2, <1>3, GentleWhen DEF AutoRm, ApiStart, ApiStop
  <1>5. \/ h.fn = "AutoRm" /\ st.autoRemove /\ TailCall(a, "Rm", TRUE)
        \/ h.fn = "ApiStart" /\ TailCall(a, "Start", TRUE)
        \/ h.fn = "ApiStop" /\ TailCall(a, "Stop", FALSE)
        \/ \E v \in {"nil", "err"} : Return(a, v)
    BY DEF AutoRm, ApiStart, ApiStop, At
  <1>6. CASE \E v \in {"nil", "err"} : Return(a, v)
    BY <1>1, <1>4, <1>6, ReturnKeeps
  <1>7. CASE ~\E v \in {"nil", "err"} : Return(a, v)
    <2>1. PICK fn \in {"Start", "Stop", "Rm"}, flag \in BOOLEAN :
            /\ TailCall(a, fn, flag)
            /\ IF h.fn = "AutoRm" THEN fn = "Rm" ELSE fn # "Rm"
            /\ fn = "Rm" => st.autoRemove
      BY <1>5, <1>7
    <2>2. st.autoRemove => config.autoRemove
      BY SettledFacts DEF ProcInv, AutoInv
    <2>3. a = Worker <=> h.fn = "AutoRm"
      BY <1>1, <1>2 DEF StopFrame
    <2>4. Soft(a) /\ config' = config
      BY <1>4, GentleSoft DEF Gentle
    <2>5. StopOf(a)' /\ ~HasMark(a)'
      BY <1>1, <1>4, <2>1, <2>2, <2>3, <2>4, TailStop
    <2> QED BY <1>4, <2>5, GentleKeeps
  <1> QED BY <1>6, <1>7

\* containerStart refuses a container that runs or is being removed.
LEMMA StartBeginStop ==
  ASSUME Settled, NEW a \in Others, StartBegin(a)
  PROVE  Sure'
  <1>1. stack[a] # <<>> /\ Head(stack[a]).fn = "Start"
    BY DEF StartBegin, At
  <1>2. a \in Actors /\ TypeOK
    BY <1>1, SettledActor
  <1>3. wait[a] = "no"
    BY WaitsNot DEF StartBegin
  <1>4. Gentle(a) /\ wait'[a] = "no"
    BY <1>2, <1>3, GentleWhen DEF StartBegin
  <1>5. Goto(a, "create") \/ \E v \in {"nil", "err"} : Return(a, v)
    BY DEF StartBegin
  <1> QED BY <1>1, <1>4, <1>5, GotoKeeps, ReturnKeeps, Places

\* While the one client creates the process nobody stops or removes the container.
LEMMA StartingAlone ==
  ASSUME Settled, OneClient, NEW a \in Others, At(a, "Start", "create")
  PROVE  /\ a \in Actors /\ stack[a] # <<>> /\ Head(stack[a]).fn = "Start" /\ ~st.removing
         /\ \A b \in Others : ~HasStop(b) /\ ~HasMark(b)
  <1>1. stack[a] # <<>> /\ Head(stack[a]).fn = "Start" /\ Head(stack[a]).pc = "create"
    BY DEF At
  <1>2. /\ a \in Actors /\ StopOf(a) /\ StopFrame(a, Head(stack[a]))
        /\ Head(stack[a]) = stack[a][1] /\ 1 \in DOMAIN stack[a]
        /\ stack[a] \in Seq(Frames) /\ DOMAIN stack[a] = 1..Len(stack[a]) /\ Len(stack[a]) \in Nat
    BY <1>1, SettledActor, StackAt
  <1>3. a # Worker /\ a \in Ops
    BY <1>1, <1>2 DEF StopFrame, Others, Actors
  <1>4. Others = {a, Worker}
    BY <1>3, ActorsAssumption DEF OneClient, Others, Actors
  <1>5. ~st.removing
    BY <1>1, <1>2, SettledFacts DEF LifeInv, StartInv, Creating
  <1>6. \A b \in Others : ~HasMark(b)
    BY <1>5 DEF Settled, Sure, MarkedOnce
  <1>7. ~HasStop(a)
    <2> SUFFICES ASSUME NEW i \in DOMAIN stack[a], stack[a][i].fn = "Stop" PROVE FALSE
      BY DEF HasStop
    <2>1. i \in Nat /\ i >= 2 /\ i <= Len(stack[a])
      BY <1>1, <1>2
    <2>2. 2 \in DOMAIN stack[a] /\ 2 = 1 + 1
      BY <1>2, <2>1
    <2>3. Calls(stack[a][1], stack[a][2])
      BY <1>2, <2>2 DEF StopOf, Nested
    <2>4. stack[a][2].fn = "Restart"
      BY <1>1, <1>2, <2>3 DEF Calls
    <2>5. 3 \in DOMAIN stack[a] /\ 3 = 2 + 1
      BY <1>2, <2>1, <2>4
    <2>6. Calls(stack[a][2], stack[a][3])
      BY <1>2, <2>2, <2>5 DEF StopOf, Nested
    <2> QED BY <2>4, <2>6 DEF Calls
  <1>8. ~HasStop(Worker)
    <2>1. ~HasMark(Worker) /\ StopOf(Worker)
      BY <1>4, <1>6 DEF Settled, Sure
    <2> QED BY <2>1 DEF StopOf, HasStop
  <1> QED BY <1>1, <1>2, <1>4, <1>5, <1>6, <1>7, <1>8

\* A start that fails, and one that works.
LEMMA StartStop ==
  ASSUME Settled, OneClient, NEW a \in Others,
         StartPrepareFails(a) \/ StartCreateFails(a) \/ StartCreate(a)
  PROVE  Sure'
  <1>1. /\ At(a, "Start", "create")
        /\ UNCHANGED <<config, registered, wait, queue, stream>>
    BY DEF StartPrepareFails, StartCreateFails, StartCreate
  <1>2. /\ a \in Actors /\ stack[a] # <<>> /\ Head(stack[a]).fn = "Start" /\ ~st.removing
        /\ \A b \in Others : ~HasStop(b) /\ ~HasMark(b)
    BY <1>1, StartingAlone
  <1>3. TypeOK /\ wait[a] = "no"
    BY <1>1, SettledFacts, WaitsNot
  <1>4. \A b \in Others : Soft(b)
    BY <1>2 DEF Soft
  <1>5. st.autoRemove => config.autoRemove
    BY SettledFacts DEF ProcInv, AutoInv
  <1>6. \/ st.autoRemove /\ CallThen(a, "removed", "Rm", TRUE)
        \/ \E v \in {"nil", "err"} : Return(a, v)
    BY DEF StartPrepareFails, StartCreateFails, StartCreate, FailStart
  <1>7. StopOf(a)' /\ ~HasMark(a)'
    <2>1. CASE st.autoRemove /\ CallThen(a, "removed", "Rm", TRUE)
      BY <1>1, <1>2, <1>3, <1>4, <1>5, <2>1, CallStop, Places
    <2>2. CASE \E v \in {"nil", "err"} : Return(a, v)
      BY <1>1, <1>2, <1>3, <1>4, <2>2, ReturnStop
    <2> QED BY <1>6, <2>1, <2>2
  <1>8. \A b \in Actors : b # a => stack'[b] = stack[b] /\ wait'[b] = wait[b] /\ ret'[b] = ret[b]
    BY <1>1, <1>2, <1>3, <1>6, OthersStay
  <1>9. st'.paused = st.paused
    BY <1>3 DEF StartPrepareFails, StartCreateFails, StartCreate, SetRunning, Reset, TypeOK, States
  <1>10. ~registered' => Lifeless' /\ config.autoRemove
    <2>1. CASE StartCreate(a)
      BY <1>1, <2>1 DEF StartCreate
    <2>2. CASE StartPrepareFails(a) \/ StartCreateFails(a)
      BY <1>1, <2>2 DEF StartPrepareFails, StartCreateFails, Settled, Sure, LeftIndex, Lifeless
    <2> QED BY <2>1, <2>2
  <1> QED BY <1>1, <1>2, <1>4, <1>7, <1>8, <1>9, <1>10, StepKeeps

\* The steps of a client and of the worker.
LEMMA OthersStop ==
  ASSUME Settled, OneClient, NEW a \in Others, Step(a)
  PROVE  Sure'
  <1>1. ASSUME NEW fn \in {"Pause", "Unpause"}, NEW pc, At(a, fn, pc) PROVE FALSE
    <2>1. stack[a] # <<>> /\ Head(stack[a]).fn = fn
      BY <1>1 DEF At
    <2> QED BY <2>1, SettledActor DEF StopFrame
  <1>2. ~PauseBegin(a) /\ ~UnpauseBegin(a) /\ ~PauseReturn(a)
    BY <1>1 DEF PauseBegin, UnpauseBegin, PauseReturn
  <1>3. ~StartSaveFails(a)
    BY SettledFacts DEF StartSaveFails
  <1> QED BY <1>2, <1>3, WaitStop, StartBeginStop, StartStop, StartRemovedStop, SignalStop, BeginsStop,
             KillDirectlyStop, StopKillStop, RmCallsStop, RmMarkStop, RmDeadStop, RmResetStop,
             RestartStop, RestartSaveStop, TailKeeps
          DEF Step

\* A request comes to a client that has none.
LEMMA RequestStop ==
  ASSUME Settled, NEW a \in Ops, NEW r \in Requests, Request(a, r)
  PROVE  Sure'
  <1> DEFINE f == Entry[r]
  <1>1. a \in Others /\ a \in Actors /\ a # Worker
    BY ActorsAssumption DEF Others, Actors
  <1>2. TypeOK /\ Requests \subseteq {"start", "stop", "kill", "signal", "restart"}
    BY SettledFacts
  <1>3. /\ stack[a] = <<>> /\ stack' = [stack EXCEPT ![a] = <<f>>]
        /\ UNCHANGED <<config, st, registered, rm, ret, wait, proc, stream, queue>>
    BY DEF Request
  <1>4. f.fn \in {"ApiStart", "ApiStop", "Kill", "Signal", "Restart"} /\ f.pc = "begin"
    BY <1>2 DEF Entry, Frame
  <1> HIDE DEF f
  <1>5. stack'[a] = <<f>> /\ DOMAIN stack'[a] = {1} /\ stack'[a][1] = f /\ Head(stack'[a]) = f
    BY <1>1, <1>2, <1>3 DEF TypeOK
  <1>6. Gentle(a)
    BY <1>1, <1>2, <1>3 DEF Gentle, TypeOK
  <1>7. wait'[a] = "no"
    <2>1. ~Waits(a)
      BY <1>3 DEF Waits, At
    <2> QED BY <1>1, <1>3, <2>1 DEF Settled, Sure, StopOf, StopTop
  <1>8. StopOf(a)' /\ ~HasMark(a)'
    <2>1. Nested(stack'[a])
      BY <1>5 DEF Nested
    <2>2. StopFrame(a, f)'
      BY <1>1, <1>4 DEF StopFrame
    <2>3. \A i \in DOMAIN stack'[a] : StopFrame(a, stack[a][i])'
      BY <1>5, <2>2 DEF StopFrame
    <2>4. StopTop(a)'
      BY <1>4, <1>5, <1>7 DEF StopTop, At
    <2>5. ~HasMark(a)'
      BY <1>4, <1>5 DEF HasMark, Holds
    <2> QED BY <1>1, <2>1, <2>3, <2>4, <2>5 DEF StopOf
  <1> QED BY <1>1, <1>6, <1>8, GentleKeeps
--------------------------------------------------------------------------------
(* The restart goroutine and the outside, once more *)

\* What moves no client's and no worker's calls.
LEMMA OutsideStop ==
  ASSUME Settled, UNCHANGED <<config, registered>>,
         \A b \in Others :
           /\ Soft(b) /\ stack'[b] = stack[b] /\ ret'[b] = ret[b]
           /\ \/ wait'[b] = wait[b]
              \/ wait[b] = "waiting" /\ wait'[b] = "fired" /\ (HasStop(b) => Ending'),
         st'.removing = st.removing, ~st'.paused,
         \A i \in DOMAIN Pipeline' : Pipeline'[i].type = "exit",
         ~registered => Lifeless'
  PROVE  Sure'
  <1>1. ASSUME NEW b \in Others PROVE StopOf(b)' /\ HasMark(b)' = HasMark(b)
    <2>1. TypeOK /\ StopOf(b)
      BY SettledFacts DEF Settled, Sure
    <2> QED BY <2>1, StopStays
  <1>2. MarkedOnce' /\ LeftIndex'
    BY <1>1 DEF Settled, Sure, MarkedOnce, LeftIndex
  <1>3. ExitsOnly'
    BY DEF ExitsOnly
  <1> QED BY <1>1, <1>2, <1>3 DEF Sure

\* The restart goroutine is there for a container that is in the index and that nobody removes.
LEMMA MonitorAlone ==
  ASSUME Settled, stack[Monitor] # <<>>
  PROVE  registered /\ ~st.autoRemove /\ \A b \in Others : ~HasMark(b)
  <1>1. ~config.autoRemove
    BY SettledFacts
  <1>2. registered /\ ~st.autoRemove
    BY <1>1, SettledFacts DEF Settled, Sure, LeftIndex, ProcInv, AutoInv
  <1>3. ASSUME NEW b \in Others, HasMark(b) PROVE FALSE
    <2>1. PICK i \in DOMAIN stack[b] : Holds(stack[b][i])
      BY <1>3 DEF HasMark
    <2> QED BY <1>1, <2>1 DEF Holds, Settled, Sure, StopOf, StopFrame
  <1> QED BY <1>2, <1>3

\* While it is at its own frame, or starts the container, the container waits to be restarted,
\* and then has no process.
LEMMA MonitorRestarts ==
  ASSUME Settled, NEW fn \in {"Start", "Monitor"}, NEW pc, At(Monitor, fn, pc)
  PROVE  /\ stack[Monitor] # <<>> /\ st.running /\ st.restarting /\ Lifeless
         /\ fn = "Start" => ~Head(stack[Monitor]).flag
  <1>1. stack[Monitor] # <<>> /\ Head(stack[Monitor]).fn = fn
    BY DEF At
  <1>2. /\ Head(stack[Monitor]) = stack[Monitor][1] /\ 1 \in DOMAIN stack[Monitor]
        /\ MonitorFrame(stack[Monitor], 1)
    BY <1>1, SettledFacts, MonitorTop
  <1>3. \E i \in DOMAIN stack[Monitor] : stack[Monitor][i].fn = "Monitor"
    BY <1>1, <1>2 DEF MonitorFrame
  <1>4. st.running /\ st.restarting
    BY <1>3, SettledFacts DEF ProcInv, RestartingInv
  <1>5. Lifeless
    BY <1>1, <1>4, MonitorAlone, SettledFacts DEF ProcInv, UpInv, Up, Known, Lifeless
  <1> QED BY <1>1, <1>2, <1>4, <1>5 DEF MonitorFrame

\* A restart that is made or fails: the restart manager stays as it is.
LEMMA MonitorStepStop ==
  ASSUME Settled, Step(Monitor)
  PROVE  Sure'
  <1>1. \/ StartBegin(Monitor) \/ StartPrepareFails(Monitor) \/ StartCreateFails(Monitor)
        \/ StartCreate(Monitor) \/ AutoRm(Monitor)
    BY SettledFacts, MonitorSteps DEF StartSaveFails
  <1>2. /\ stack[Monitor] # <<>> /\ Monitor \in Actors /\ TypeOK
        /\ registered /\ ~st.autoRemove /\ \A b \in Others : ~HasMark(b)
    <2>1. stack[Monitor] # <<>>
      BY <1>1 DEF StartBegin, StartPrepareFails, StartCreateFails, StartCreate, AutoRm, At
    <2> QED BY <2>1, MonitorAlone, SettledFacts DEF Actors
  <1>3. UNCHANGED <<config, registered, wait, queue, stream>>
    BY <1>1 DEF StartBegin, StartPrepareFails, StartCreateFails, StartCreate, AutoRm
  <1>4. Goto(Monitor, "create") \/ \E v : Return(Monitor, v)
    BY <1>1, <1>2 DEF StartBegin, StartPrepareFails, StartCreateFails, StartCreate, AutoRm, FailStart
  <1>5. \A b \in Others : stack'[b] = stack[b] /\ ret'[b] = ret[b]
    BY <1>2, <1>4, OthersStay DEF Others
  <1>6. \A i \in DOMAIN Pipeline' : Pipeline'[i].type = "exit"
    BY <1>3 DEF Settled, Sure, ExitsOnly, Pipeline
  <1>7. CASE StartCreate(Monitor)
    <2>1. /\ st.running /\ st.restarting /\ ~Head(stack[Monitor]).flag
      BY <1>7, MonitorRestarts DEF StartCreate
    <2>2. rm' = rm /\ st' = SetRunning(st, proc.gen + 1)
      BY <1>7, <2>1 DEF StartCreate, ResetRestartManager, Reset
    <2>3. st'.removing = st.removing /\ st'.paused = st.paused
      BY <1>2, <2>2 DEF SetRunning, TypeOK, States
    <2>4. ASSUME NEW b \in Others PROVE Soft(b)
      BY <1>2, <2>1, <2>2 DEF Soft, Ending, Barred
    <2>5. ~st'.paused
      BY <2>3 DEF Settled, Sure, ExitsOnly
    <2> QED BY <1>2, <1>3, <1>5, <1>6, <2>3, <2>4, <2>5, OutsideStop
  <1>8. CASE ~StartCreate(Monitor)
    <2>1. StartCreateFails(Monitor) => ~Head(stack[Monitor]).flag
      BY MonitorRestarts DEF StartCreateFails
    <2>2. UNCHANGED <<st, rm, proc>>
      BY <1>1, <1>8, <2>1
      DEF StartBegin, StartPrepareFails, StartCreateFails, AutoRm, ResetRestartManager, Reset
    <2>3. \A b \in Others : Soft(b)
      BY <2>2, SoftWhen
    <2>4. ~st'.paused
      BY <2>2 DEF Settled, Sure, ExitsOnly
    <2> QED BY <1>2, <1>3, <1>5, <1>6, <2>2, <2>3, <2>4, OutsideStop
  <1> QED BY <1>7, <1>8

\* It wakes up, or records that the container stopped.
LEMMA MonitorTells ==
  ASSUME Settled, MonitorStep
  PROVE  Sure'
  <1>1. \E pc : At(Monitor, "Monitor", pc)
    BY DEF MonitorStep, MonitorWake, MonitorStop
  <1>2. /\ stack[Monitor] # <<>> /\ Monitor \in Actors /\ TypeOK /\ Lifeless
        /\ registered /\ \A b \in Others : ~HasMark(b)
    BY <1>1, MonitorRestarts, MonitorAlone, SettledFacts DEF Actors
  <1>3. UNCHANGED <<config, registered, queue, stream, rm, proc>>
    BY DEF MonitorStep, MonitorWake, MonitorStop
  <1>4. \/ \E pc : Goto(Monitor, pc)
        \/ \E pc, fn, flag : CallThen(Monitor, pc, fn, flag)
        \/ \E fn, flag : TailCall(Monitor, fn, flag)
    BY DEF MonitorStep, MonitorWake, MonitorStop
  <1>5. \A b \in Others : stack'[b] = stack[b] /\ ret'[b] = ret[b]
    BY <1>2, <1>4, OthersStay DEF Others
  <1>6. \A i \in DOMAIN Pipeline' : Pipeline'[i].type = "exit"
    BY <1>3 DEF Settled, Sure, ExitsOnly, Pipeline
  <1>7. CASE MonitorWake
    <2>1. st' = st /\ wait' = wait
      BY <1>7 DEF MonitorWake
    <2>2. \A b \in Others : Soft(b)
      BY <1>3, <2>1, SoftWhen
    <2>3. ~st'.paused
      BY <2>1 DEF Settled, Sure, ExitsOnly
    <2> QED BY <1>2, <1>3, <1>5, <1>6, <2>1, <2>2, <2>3, OutsideStop
  <1>8. CASE MonitorStop
    <2>1. FireWaiters /\ st' = SetStopped(st)
      BY <1>8 DEF MonitorStop
    <2>2. ~st'.running /\ ~st'.paused /\ st'.removing = st.removing
      BY <1>2, <2>1 DEF SetStopped, TypeOK, States
    <2>3. Ending'
      BY <1>2, <1>3, <2>2 DEF Ending, Lifeless
    <2>4. \A b \in Others : Soft(b)
      BY <1>2, <2>2, <2>3 DEF Soft, Barred
    <2>5. \A b \in Others : wait'[b] = wait[b] \/ (wait[b] = "waiting" /\ wait'[b] = "fired")
      BY <2>1 DEF FireWaiters, Others
    <2> QED BY <1>2, <1>3, <1>5, <1>6, <2>2, <2>3, <2>4, <2>5, OutsideStop
  <1> QED BY <1>7, <1>8 DEF MonitorStep

\* The process exits, containerd reports it, libcontainerd queues the report, a timer fires.
LEMMA EnvironmentStop ==
  ASSUME Settled, RestartTimer \/ ProcessExit \/ ContainerdExit \/ HandleEvent
  PROVE  Sure'
  <1>1. UNCHANGED <<config, registered, st, stack, wait, ret>>
    BY DEF RestartTimer, ProcessExit, ContainerdExit, HandleEvent
  <1>2. LifeInv /\ TypeOK /\ ExitsOnly
    BY SettledFacts DEF Settled, Sure
  <1>3. (Lifeless => Lifeless') /\ (rm'.canceled <=> rm.canceled)
    BY <1>2 DEF RestartTimer, ProcessExit, ContainerdExit, HandleEvent, Lifeless, TypeOK
  <1>4. \A b \in Others : Soft(b)
    BY <1>1, <1>3 DEF Soft, Barred, Ending
  <1>5. \A i \in DOMAIN Pipeline' : Pipeline'[i].type = "exit"
    BY <1>2, OnlyExits DEF ExitsOnly
  <1>6. ~st'.paused /\ (~registered => Lifeless')
    BY <1>1, <1>2, <1>3 DEF ExitsOnly, Settled, Sure, LeftIndex
  <1> QED BY <1>1, <1>4, <1>5, <1>6, OutsideStop

\* Nothing pauses.
LEMMA NothingPauses ==
  ASSUME Settled
  PROVE  ~StatePause
  <1>1. queue \in Seq(Events) /\ stream \in Seq(Events)
    BY SettledFacts DEF TypeOK
  <1>2. ASSUME queue # <<>> PROVE Head(queue).type = "exit"
    <2>1. 1 \in DOMAIN Pipeline /\ Pipeline[1] = Head(queue)
      BY <1>1, <1>2, PipelineTail DEF Pipeline
    <2> QED BY <2>1 DEF Settled, Sure, ExitsOnly
  <1> QED BY <1>2 DEF StatePause, Callback

\* An exit tells the waiters.  The container is restarted only when nobody stops it, for
\* whoever does has canceled the restart manager before it waits.
LEMMA StateExitStop ==
  ASSUME Settled, StateExit
  PROVE  Sure'
  <1>1. /\ Lifeless /\ UNCHANGED <<config, registered, proc, ret, stream>>
        /\ registered => Up
    BY SettledFacts, ExitTaken DEF Known, Lifeless, StateExit
  <1>2. /\ TypeOK /\ queue \in Seq(Events) /\ stream \in Seq(Events)
        /\ Worker \in Others /\ Worker \in Actors /\ Monitor \in Actors /\ Others \subseteq Actors
        /\ stack \in [Actors -> Seq(Frames)] /\ wait \in [Actors -> {"no", "waiting", "fired"}]
    BY SettledFacts, ActorsAssumption DEF TypeOK, Others, Actors
  <1>3. /\ \A i \in DOMAIN Pipeline' : Pipeline'[i].type = "exit"
        /\ ~st.paused /\ Lifeless'
    <2>1. queue # <<>> /\ Pipeline' = Tail(queue) \o stream
      BY <1>1 DEF StateExit, Callback, Pipeline
    <2>2. \A i \in DOMAIN Pipeline' : \E j \in DOMAIN Pipeline : Pipeline'[i] = Pipeline[j]
      <3>1. /\ \A i \in DOMAIN (Tail(queue) \o stream) :
                 i + 1 \in DOMAIN (queue \o stream) /\ (Tail(queue) \o stream)[i] = (queue \o stream)[i + 1]
        BY <1>2, <2>1, PipelineTail
      <3>2. Pipeline = queue \o stream
        BY DEF Pipeline
      <3> QED BY <2>1, <3>1, <3>2
    <2> QED BY <1>1, <2>2 DEF Settled, Sure, ExitsOnly, Lifeless
  <1>4. CASE ~registered
    <2>1. UNCHANGED <<st, rm, stack, wait>>
      BY <1>4 DEF StateExit
    <2>2. \A b \in Others : Soft(b)
      BY <1>1, <2>1, SoftWhen
    <2> QED BY <1>1, <1>3, <2>1, <2>2, OutsideStop
  <1>5. CASE registered /\ ShouldRestart(Head(queue).code)
    <2>1. /\ st.running /\ ~st.restarting /\ ~rm.canceled /\ FireWaiters
          /\ st' = SetRestarting(st)
          /\ stack' = [stack EXCEPT ![Monitor] = <<Frame("Monitor", FALSE)>> \o @]
      BY <1>1, <1>5 DEF StateExit, ShouldRestart, Up
    <2>2. ~Ending /\ ~Barred
      BY <2>1 DEF Ending, Barred
    <2>3. st'.removing = st.removing /\ st'.paused = st.paused
      BY <1>2, <2>1 DEF SetRestarting, TypeOK, States
    <2>4. ASSUME NEW b \in Others
          PROVE  /\ Soft(b) /\ stack'[b] = stack[b]
                 /\ \/ wait'[b] = wait[b]
                    \/ wait[b] = "waiting" /\ wait'[b] = "fired" /\ (HasStop(b) => Ending')
      <3>1. Soft(b)
        BY <1>3, <2>1, <2>2 DEF Soft
      <3>2. stack'[b] = stack[b]
        BY <1>2, <2>1 DEF Others
      <3>3. wait'[b] = wait[b] \/ (wait[b] = "waiting" /\ wait'[b] = "fired")
        BY <1>2, <2>1 DEF FireWaiters
      <3>4. wait[b] = "waiting" => ~HasStop(b)
        BY <2>2, StopWaiting
      <3> QED BY <3>1, <3>2, <3>3, <3>4
    <2> QED BY <1>1, <1>3, <1>5, <2>3, <2>4, OutsideStop
  <1>6. CASE registered /\ ~ShouldRestart(Head(queue).code)
    <2> DEFINE f == Frame("AutoRm", FALSE)
    <2>1. /\ stack[Worker] = <<>> /\ FireWaiters /\ st' = SetStopped(st)
          /\ stack' = [stack EXCEPT ![Worker] = <<f>>]
      BY <1>6 DEF StateExit, Callback
    <2>2. ~st'.running /\ ~st'.paused /\ st'.removing = st.removing
      BY <1>2, <2>1 DEF SetStopped, TypeOK, States
    <2>3. Ending' /\ Barred'
      BY <1>3, <2>2 DEF Ending, Barred
    <2>4. f.fn = "AutoRm" /\ f.pc = "begin"
      BY CalledIs
    <2> HIDE DEF f
    <2>5. stack'[Worker] = <<f>> /\ \A b \in Actors : b # Worker => stack'[b] = stack[b]
      BY <1>2, <2>1
    <2>6. DOMAIN stack'[Worker] = {1} /\ stack'[Worker][1] = f /\ Head(stack'[Worker]) = f
      BY <2>5
    <2>7. StopOf(Worker)' /\ ~HasMark(Worker)'
      <3>1. wait'[Worker] = "no"
        <4>1. ~Waits(Worker)
          BY <2>1 DEF Waits, At
        <4>2. wait[Worker] = "no"
          BY <1>2, <4>1 DEF Settled, Sure, StopOf, StopTop
        <4> QED BY <1>2, <2>1, <4>2 DEF FireWaiters
      <3>2. StopTop(Worker)'
        BY <2>4, <2>6, <3>1 DEF StopTop, At
      <3>3. StopFrame(Worker, f)'
        BY <2>4 DEF StopFrame
      <3>4. \A i \in DOMAIN stack'[Worker] : StopFrame(Worker, stack[Worker][i])'
        BY <2>6, <3>3 DEF StopFrame
      <3>5. Nested(stack'[Worker])
        BY <2>6 DEF Nested
      <3> QED BY <2>4, <2>6, <3>2, <3>4, <3>5 DEF StopOf, HasMark, Holds
    <2>8. ASSUME NEW b \in Others, b # Worker PROVE StopOf(b)' /\ HasMark(b)' = HasMark(b)
      <3>1. Soft(b)
        BY <1>3, <2>2, <2>3 DEF Soft
      <3>2. wait'[b] = wait[b] \/ (wait[b] = "waiting" /\ wait'[b] = "fired")
        BY <1>2, <2>1 DEF FireWaiters
      <3>3. stack'[b] = stack[b] /\ StopOf(b)
        BY <1>2, <2>5, <2>8 DEF Settled, Sure
      <3> QED BY <1>1, <1>2, <2>3, <3>1, <3>2, <3>3, StopStays
    <2>9. MarkedOnce' /\ LeftIndex'
      BY <1>1, <1>6, <2>2, <2>7, <2>8 DEF Settled, Sure, MarkedOnce, LeftIndex
    <2>10. ExitsOnly'
      BY <1>3, <2>2 DEF ExitsOnly
    <2> QED BY <2>7, <2>8, <2>9, <2>10 DEF Sure
  <1> QED BY <1>4, <1>5, <1>6

\* At the start nothing has happened.
LEMMA StopInit == Init => StopInv
  <1> SUFFICES ASSUME Init PROVE Sure
    BY DEF StopInv
  <1>1. /\ \A a \in Others : stack[a] = <<>> /\ wait[a] = "no"
        /\ ~st.paused /\ registered /\ stream = <<>> /\ queue = <<>>
    BY DEF Init, Others, Actors
  <1>2. \A a \in Others : StopOf(a) /\ ~HasMark(a)
    BY <1>1 DEF StopOf, HasMark, Nested, StopTop, At
  <1>3. Pipeline = <<>>
    BY <1>1 DEF Pipeline
  <1> QED BY <1>1, <1>2, <1>3 DEF Sure, MarkedOnce, ExitsOnly, LeftIndex

\* Every step keeps the invariant.
LEMMA StopNext ==
  ASSUME OneClient
  PROVE  Inv /\ StopInv /\ [Next]_vars => StopInv'
  <1> SUFFICES ASSUME Inv, StopInv, [Next]_vars, StartsAndStops' PROVE Sure'
    BY DEF StopInv
  <1>1. config' = config
    BY ConfigStays DEF Inv
  <1>2. Settled
    BY <1>1 DEF Settled, StopInv, StartsAndStops
  <1>3. CASE UNCHANGED vars
    <2>1. UNCHANGED <<config, registered, st, rm, stack, wait, ret, queue, stream, proc>>
      BY <1>3 DEF vars
    <2>2. \A b \in Others : Soft(b)
      BY <2>1, SoftWhen
    <2>3. /\ ~st'.paused /\ (~registered => Lifeless')
          /\ \A i \in DOMAIN Pipeline' : Pipeline'[i].type = "exit"
      BY <1>2, <2>1 DEF Settled, Sure, ExitsOnly, LeftIndex, Lifeless, Pipeline
    <2> QED BY <1>2, <2>1, <2>2, <2>3, OutsideStop
  <1>4. CASE Next
    <2>1. \A a \in Actors : Step(a) => Sure'
      BY <1>2, OthersStop, MonitorStepStop DEF Others
    <2> QED BY <1>2, <1>4, <2>1, RequestStop, MonitorTells, EnvironmentStop, NothingPauses, StateExitStop
            DEF Next
  <1> QED BY <1>3, <1>4

\* The invariant of a container that its one client starts and stops.
LEMMA StopInvariant ==
  ASSUME OneClient
  PROVE  Spec => []StopInv
  BY StopInit, StopNext, ProcessInvariant, PTL DEF Spec

\* Going on at another place is not a return, and only the outermost call returns from all.
LEMMA GoesOn ==
  ASSUME Settled, NEW a \in Others, stack[a] # <<>>, NEW pc, Goto(a, pc)
  PROVE  stack'[a] # <<>>
  <1>1. a \in Actors /\ stack \in [Actors -> Seq(Frames)] /\ stack[a] \in Seq(Frames) /\ Len(stack[a]) >= 1
    BY SettledActor, StackAt DEF TypeOK
  <1> DEFINE g == [Head(stack[a]) EXCEPT !.pc = pc]
             t == Tail(stack[a])
  <1>2. stack'[a] = <<g>> \o t
    BY <1>1 DEF Goto
  <1>3. t \in Seq(Frames)
    BY <1>1
  <1> HIDE DEF g, t
  <1>4. <<g>> \o t # <<>>
    BY <1>3
  <1> QED BY <1>2, <1>4

\* No other actor's step changes an actor's calls.
LEMMA StepsAlone ==
  ASSUME TypeOK, NEW b \in Actors, Step(b)
  PROVE  \A a \in Actors : a # b => stack'[a] = stack[a]
  <1>1. CASE WaitEnter(b) \/ WaitLeave(b) \/ KillWithSignal(b)
    <2>1. UNCHANGED stack \/ \E v : Continue(b, v)
      BY <1>1 DEF WaitEnter, WaitLeave, KillWithSignal
    <2> QED BY <2>1, OthersStay
  <1>2. CASE StartBegin(b) \/ StartPrepareFails(b) \/ StartCreateFails(b) \/ StartCreate(b)
             \/ StartSaveFails(b) \/ StartRemoved(b)
    BY <1>2, OthersStay
    DEF StartBegin, StartPrepareFails, StartCreateFails, StartCreate, StartSaveFails, StartRemoved, FailStart
  <1>3. CASE KillBegin(b) \/ KillDirectly(b) \/ StopBegin(b) \/ StopKill(b)
    BY <1>3, OthersStay DEF KillBegin, KillDirectly, StopBegin, StopKill
  <1>4. CASE RmLookup(b) \/ RmMark(b) \/ RmRunning(b) \/ RmStop(b) \/ RmDead(b) \/ RmDestroy(b) \/ RmReset(b)
    BY <1>4, OthersStay DEF RmLookup, RmMark, RmRunning, RmStop, RmDead, RmDestroy, RmReset
  <1>5. CASE RestartBegin(b) \/ RestartSave(b) \/ RestartRestore(b) \/ RestartStart(b)
    <2>1. CASE RestartSave(b)
      BY <2>1 DEF RestartSave, TypeOK
    <2>2. CASE ~RestartSave(b)
      BY <1>5, <2>2, OthersStay DEF RestartBegin, RestartRestore, RestartStart
    <2> QED BY <2>1, <2>2
  <1>6. CASE PauseBegin(b) \/ UnpauseBegin(b) \/ PauseReturn(b) \/ AutoRm(b) \/ ApiStart(b) \/ ApiStop(b)
    BY <1>6, OthersStay DEF PauseBegin, UnpauseBegin, PauseReturn, AutoRm, ApiStart, ApiStop
  <1> QED BY <1>1, <1>2, <1>3, <1>4, <1>5, <1>6 DEF Step

\* When a client's call ends, the client has taken the step.
LEMMA ReturnsItself ==
  ASSUME Settled, Next, NEW a \in Ops, stack[a] # <<>>, stack'[a] = <<>>
  PROVE  Step(a)
  <1>1. TypeOK /\ a \in Actors /\ a # Worker /\ a # Monitor /\ Worker \in Actors /\ Monitor \in Actors
    BY SettledFacts, ActorsAssumption DEF Actors
  <1>2. stack \in [Actors -> Seq(Frames)]
    BY <1>1 DEF TypeOK
  <1>3. ASSUME NEW b \in Ops, NEW r \in Requests, Request(b, r) PROVE FALSE
    BY <1>1, <1>2, <1>3 DEF Request
  <1>4. ASSUME NEW b \in Actors, Step(b), b # a PROVE FALSE
    BY <1>1, <1>4, StepsAlone
  <1>5. ~MonitorStep
    <2>1. MonitorStep => stack'[a] = stack[a]
      BY <1>1, OthersStay DEF MonitorStep, MonitorWake, MonitorStop
    <2> QED BY <2>1
  <1>6. ~RestartTimer /\ ~ProcessExit /\ ~ContainerdExit /\ ~HandleEvent
    BY DEF RestartTimer, ProcessExit, ContainerdExit, HandleEvent
  <1>7. ~StateExit
    <2>1. StateExit => stack'[a] = stack[a]
      BY <1>1, <1>2 DEF StateExit
    <2> QED BY <2>1
  <1> QED BY <1>3, <1>4, <1>5, <1>6, <1>7, NothingPauses DEF Next

\* containerStop returns when the container has stopped, or its wait channel was closed and
\* the restart manager canceled.
LEMMA StopEnds ==
  ASSUME Settled, NEW a \in Ops, Step(a), StopReturns(a)
  PROVE  Ending'
  <1> DEFINE h == Head(stack[a])
  <1>1. a \in Others
    BY ActorsAssumption DEF Others, Actors
  <1>2. stack[a] # <<>>
    BY DEF StopReturns
  <1>3. /\ h.fn = "Stop" /\ h.pc # "force" /\ stack'[a] = <<>>
        /\ StopOf(a) /\ h = stack[a][1] /\ 1 \in DOMAIN stack[a]
    BY <1>1, <1>2, SettledActor DEF StopReturns
  <1>4. HasStop(a)
    BY <1>3 DEF HasStop
  <1>5. \A pc : ~Goto(a, pc)
    BY <1>1, <1>2, <1>3, GoesOn
  <1>6. \A k : Continue(a, k) => k \in {"nil", "err"}
    BY <1>5 DEF Continue
  <1>7. /\ \A fn, pc : At(a, fn, pc) => fn = "Stop" /\ pc = h.pc
        /\ \A fn \in {"Kill", "Start", "Rm", "Restart", "Pause", "Unpause", "AutoRm", "ApiStart",
                      "ApiStop"} :
             \A pc : ~At(a, fn, pc)
    BY <1>3 DEF At
  <1>8. WaitEnter(a) \/ WaitLeave(a) \/ KillWithSignal(a) \/ StopBegin(a) \/ StopKill(a)
    <2>1. ~StartBegin(a) /\ ~StartPrepareFails(a) /\ ~StartCreateFails(a) /\ ~StartCreate(a)
          /\ ~StartSaveFails(a) /\ ~StartRemoved(a) /\ ~KillBegin(a) /\ ~KillDirectly(a)
      BY <1>7, Zenon DEF StartBegin, StartPrepareFails, StartCreateFails, StartCreate, StartSaveFails,
                  StartRemoved, KillBegin, KillDirectly
    <2>2. ~RmLookup(a) /\ ~RmMark(a) /\ ~RmRunning(a) /\ ~RmStop(a) /\ ~RmDead(a) /\ ~RmDestroy(a)
          /\ ~RmReset(a)
      BY <1>7, Zenon DEF RmLookup, RmMark, RmRunning, RmStop, RmDead, RmDestroy, RmReset
    <2>3. ~RestartBegin(a) /\ ~RestartSave(a) /\ ~RestartRestore(a) /\ ~RestartStart(a)
      BY <1>7, Zenon DEF RestartBegin, RestartSave, RestartRestore, RestartStart
    <2>4. ~PauseBegin(a) /\ ~UnpauseBegin(a) /\ ~PauseReturn(a) /\ ~AutoRm(a) /\ ~ApiStart(a) /\ ~ApiStop(a)
      BY <1>7, Zenon DEF PauseBegin, UnpauseBegin, PauseReturn, AutoRm, ApiStart, ApiStop
    <2> QED BY <2>1, <2>2, <2>3, <2>4 DEF Step
  <1>9. ~KillWithSignal(a)
    <2> SUFFICES ASSUME KillWithSignal(a) PROVE FALSE
      OBVIOUS
    <2>1. PICK p \in SignalPoints : At(a, p.fn, p.pc) /\ (Continue(a, p.ok) \/ Continue(a, p.bad))
      BY DEF KillWithSignal
    <2>2. p.ok = "wait" /\ p.bad = "grace"
      BY <1>3, <1>7, <2>1 DEF SignalPoints
    <2> QED BY <1>6, <2>1, <2>2
  <1>10. CASE WaitEnter(a) \/ WaitLeave(a)
    <2>1. PICK w \in WaitPoints :
            /\ At(a, w.fn, w.pc)
            /\ \/ wait[a] = "no" /\ ~st.running
               \/ stack' = stack
               \/ wait[a] = "fired"
               \/ Continue(a, w.late)
      BY <1>10 DEF WaitEnter, WaitLeave
    <2>2. w.late \notin {"nil", "err"}
      BY <1>7, <2>1 DEF WaitPoints
    <2>3. ~st.running \/ wait[a] = "fired"
      BY <1>2, <1>3, <1>6, <2>1, <2>2
    <2>4. Ending
      BY <1>3, <1>4, <2>3, StoppedEnds DEF StopOf, StopTop
    <2> QED BY <1>10, <2>4 DEF WaitEnter, WaitLeave, Ending, Lifeless
  <1>11. CASE StopBegin(a)
    <2>1. ~st.running
      BY <1>6, <1>11 DEF StopBegin
    <2> QED BY <1>11, <2>1, StoppedEnds DEF StopBegin, Ending, Lifeless
  <1>12. CASE StopKill(a)
    <2>1. ~CallThen(a, "killed", "Kill", FALSE)
      <3> SUFFICES ASSUME CallThen(a, "killed", "Kill", FALSE) PROVE FALSE
        OBVIOUS
      <3>1. a \in Actors /\ stack \in [Actors -> Seq(Frames)] /\ stack[a] \in Seq(Frames)
        BY <1>1, <1>2, SettledActor, StackAt DEF TypeOK
      <3> DEFINE g == [h EXCEPT !.pc = "killed"]
                 f == Frame("Kill", FALSE)
                 t == Tail(stack[a])
      <3>2. stack'[a] = <<f, g>> \o t
        BY <3>1 DEF CallThen
      <3>3. t \in Seq(Frames)
        BY <1>2, <3>1
      <3> HIDE DEF f, g, t
      <3>4. <<f, g>> \o t # <<>>
        BY <3>3
      <3> QED BY <1>3, <3>2, <3>4
    <2>2. At(a, "Stop", "killed") /\ ret[a] = "nil"
      <3>1. At(a, "Stop", "killed") /\ Continue(a, IF ret[a] = "nil" THEN "nil" ELSE "last")
        BY <1>12, <2>1 DEF StopKill
      <3>2. ret[a] # "nil" => ~Continue(a, IF ret[a] = "nil" THEN "nil" ELSE "last")
        BY <1>6
      <3> QED BY <3>1, <3>2
    <2>3. Ending
      BY <1>3, <2>2 DEF StopOf, StopTop
    <2> QED BY <1>12, <2>3 DEF StopKill, Ending, Lifeless
  <1> QED BY <1>8, <1>9, <1>10, <1>11, <1>12

\* When a single client's containerStop returns, the process is gone and neither the restart
\* policy nor a restart under way starts another: for every policy, stop signal and limit
\* (stop.go:45, kill.go:79, restartmanager.go:62).
THEOREM StopIsStopped ==
  ASSUME OneClient
  PROVE  Spec => StopMeansStopped
  <1>1. Inv /\ StopInv /\ [Next]_vars =>
          [\A a \in Ops : StartsAndStops /\ StopReturns(a) =>
             /\ proc'.state # "alive"
             /\ ~st'.running \/ (~st'.restarting /\ rm'.canceled)]_vars
    <2> SUFFICES ASSUME Inv, StopInv, Next, NEW a \in Ops, StartsAndStops, StopReturns(a)
                 PROVE  /\ proc'.state # "alive"
                        /\ ~st'.running \/ (~st'.restarting /\ rm'.canceled)
      OBVIOUS
    <2>1. Settled
      BY DEF Settled, StopInv
    <2>2. stack[a] # <<>> /\ stack'[a] = <<>>
      BY DEF StopReturns
    <2>3. Step(a)
      BY <2>1, <2>2, ReturnsItself
    <2>4. Ending'
      BY <2>1, <2>3, StopEnds
    <2> QED BY <2>4 DEF Ending, Lifeless
  <1> QED BY <1>1, StopInvariant, ProcessInvariant, PTL DEF Spec, StopMeansStopped
================================================================================
