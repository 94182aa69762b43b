----------------------------- MODULE LayerDownload -----------------------------
(***************************************************************************)
(* Pulling the layers of an image: the transfer manager of                 *)
(* distribution/xfer/transfer.go, which shares one transfer between all    *)
(* who want the same layer and limits how many move data, and the          *)
(* LayerDownloadManager of distribution/xfer/download.go on top of it.     *)
(*                                                                         *)
(* Every element of Pulls is one call of Download for an image, the        *)
(* sequence of its blobs, bottom layer first.  A layer's transfer key is   *)
(* the whole stack up to it.  A transfer is an instance: a key may be      *)
(* transferred again once its transfer is gone.                            *)
(* Each instance has a download goroutine, a goroutine of the manager that *)
(* waits for it to become inactive and to finish, and watchers.            *)
(*                                                                         *)
(* Progress messages are left out; what remains of Broadcast is that       *)
(* closing the progress channel closes `running', the Done channel.  The   *)
(* layer store is reduced to who holds a reference to which layer.         *)
(***************************************************************************)
EXTENDS Integers, Sequences, FiniteSets, SequencesExt

CONSTANTS
  Pulls,       \* the calls of Download
  Workloads,   \* what may be pulled: an image for every call, <<>> for a call not made
  Limits,      \* values of concurrencyLimit (0: no limit)
  Faults,      \* "cancel": clients go away, "fetch": registry or disk errors
  MaxAttempts  \* maxDownloadAttempts

Keys == (UNION {UNION {Prefixes(w[p]) : p \in Pulls} : w \in Workloads}) \ {<<>>}

Blobs == UNION {UNION {Range(w[p]) : p \in Pulls} : w \in Workloads}

ASSUME PullsAssumption == \A p \in Pulls : p \notin Nat
ASSUME WorkloadsAssumption ==
  /\ Workloads \subseteq [Pulls -> Seq(Blobs)]
  /\ \A w \in Workloads : \E p \in Pulls : w[p] # <<>>
ASSUME LimitsAssumption == Limits # {} /\ Limits \subseteq Nat
ASSUME AttemptsAssumption == MaxAttempts \in Nat \ {0}
ASSUME FaultsAssumption == Faults \subseteq {"cancel", "fetch"}

VARIABLES
  want,      \* the image every call pulls
  limit,     \* transferManager.concurrencyLimit
  active,    \* transferManager.activeTransfers
  transfers, \* transferManager.transfers: the instance of a key, 0 when there is none
  waiting,   \* transferManager.waitingTransfers: instances whose start is not closed
  xfers,     \* all instances, in the order they were made
  pulls,     \* the calls of Download
  refs       \* who holds a reference to a layer: calls and instances

vars == <<want, limit, active, transfers, waiting, xfers, pulls, refs>>

Instances == 1..Len(xfers)

\* A layer is in the store while somebody holds it or a layer on top of it.
Exists(k) == \E j \in Keys : IsPrefix(k, j) /\ refs[j] # {}

\* What layer k is registered on is there: the layer below, or nothing for the first.
BaseExists(k) == Len(k) = 1 \/ Exists(Front(k))

\* A call of Download that holds nothing: no layer, no downloads.
Call(pc) == [pc |-> pc, layer |-> 0, dls |-> <<>>, todo |-> <<>>, result |-> "none"]

Init ==
  /\ want \in Workloads
  /\ limit \in Limits
  /\ active = 0
  /\ transfers = [k \in Keys |-> 0]
  /\ waiting = <<>>
  /\ xfers = <<>>
  /\ pulls = [p \in Pulls |-> Call(IF want[p] = <<>> THEN "end" ELSE "check")]
  /\ refs = [k \in Keys |-> {}]
--------------------------------------------------------------------------------
(* transfer.go *)

Done(x) == xfers[x].phase = "done"

\* Release: without watchers a transfer the manager has closed is released, any
\* other is cancelled.
Release(t, p) ==
  LET rest == t.watchers \ {p}
  IN [t EXCEPT !.watchers = rest,
               !.released = @ \/ (rest = {} /\ t.manager = "ended"),
               !.cancelled = @ \/ (rest = {} /\ t.manager # "ended")]

\* Variant: a slot is only ever given up; nobody in line gets it.
InactivateForgetsLine(x) ==
  IF ~xfers[x].started THEN [next |-> <<>>, freed |-> 0]
  ELSE [next |-> <<>>, freed |-> 1]

\* inactivate: a transfer that was started gives its slot to the first in line, or up.
Inactivate(x) ==
  IF ~xfers[x].started THEN [next |-> <<>>, freed |-> 0]
  ELSE IF waiting # <<>> THEN [next |-> <<Head(waiting)>>, freed |-> 0]
  ELSE [next |-> <<>>, freed |-> 1]

\* Apply inactivate, with the instance itself becoming t.
DoInactivate(x, t) ==
  LET i == Inactivate(x)
  IN /\ active' = active - i.freed
     /\ waiting' = SubSeq(waiting, Len(i.next) + 1, Len(waiting))
     /\ xfers' = [y \in Instances |->
                    IF y = x THEN t
                    ELSE [xfers[y] EXCEPT !.started = @ \/ \E n \in DOMAIN i.next : i.next[n] = y]]

\* Variant: an inactive transfer is taken out of the map.
SeeInactiveUntracks(x) ==
  /\ xfers[x].manager = "tracking"
  /\ xfers[x].inactive = "closed"
  /\ DoInactivate(x, [xfers[x] EXCEPT !.inactive = "seen"])
  /\ transfers' = [transfers EXCEPT ![xfers[x].key] = 0]
  /\ UNCHANGED <<want, limit, pulls, refs>>

\* The manager's goroutine: the transfer no longer moves data ...
SeeInactive(x) ==
  /\ xfers[x].manager = "tracking"
  /\ xfers[x].inactive = "closed"
  /\ DoInactivate(x, [xfers[x] EXCEPT !.inactive = "seen"])
  /\ UNCHANGED <<want, limit, transfers, pulls, refs>>

\* Variant: the slot is given up again when the transfer finishes.
ReapInactivatesAgain(x) ==
  /\ xfers[x].manager = "tracking"
  /\ Done(x)
  /\ DoInactivate(x, [xfers[x] EXCEPT !.manager = "closing"])
  /\ transfers' = [transfers EXCEPT ![xfers[x].key] = 0]
  /\ UNCHANGED <<want, limit, pulls, refs>>

\* ... or it has finished: take it out of the map.
Reap(x) ==
  /\ xfers[x].manager = "tracking"
  /\ Done(x)
  /\ LET t == [xfers[x] EXCEPT !.manager = "closing"]
     IN IF xfers[x].inactive # "seen" THEN DoInactivate(x, t)
        ELSE xfers' = [xfers EXCEPT ![x] = t] /\ UNCHANGED <<active, waiting>>
  /\ transfers' = [transfers EXCEPT ![xfers[x].key] = 0]
  /\ UNCHANGED <<want, limit, pulls, refs>>

\* Variant: Close never releases; only the last watcher does.
CloseKeeps(x) ==
  /\ xfers[x].manager = "closing"
  /\ xfers' = [xfers EXCEPT ![x].manager = "ended"]
  /\ UNCHANGED <<want, limit, active, transfers, waiting, pulls, refs>>

\* Variant: the transfer is released when it is closed, watched or not.
CloseReleases(x) ==
  /\ xfers[x].manager = "closing"
  /\ xfers' = [xfers EXCEPT ![x].manager = "ended", ![x].released = TRUE]
  /\ UNCHANGED <<want, limit, active, transfers, waiting, pulls, refs>>

\* Close.
Close(x) ==
  /\ xfers[x].manager = "closing"
  /\ xfers' = [xfers EXCEPT ![x].manager = "ended", ![x].released = xfers[x].watchers = {}]
  /\ UNCHANGED <<want, limit, active, transfers, waiting, pulls, refs>>

SetConcurrency(n) ==
  /\ limit # n
  /\ limit' = n
  /\ UNCHANGED <<want, active, transfers, waiting, xfers, pulls, refs>>
--------------------------------------------------------------------------------
(* download.go: Download *)

At(p) == pulls[p].layer + Len(pulls[p].dls) + 1      \* the layer the call is at,
Key(p) == SubSeq(want[p], 1, At(p))                  \* and its transfer key
Top(p) == Last(pulls[p].dls)                         \* topDownload

Put(p, u) == pulls' = [pulls EXCEPT ![p] = u]

\* Go on to the next layer, or past the last one.
Onward(p, u, pc) ==
  [u EXCEPT !.pc = IF At(p) < Len(want[p]) THEN pc ELSE IF u.dls = <<>> THEN "have" ELSE "select"]

\* Is the layer in the store already?  Then hold it, and let go of the one below.
PullCheck(p) ==
  LET k == Key(p)
  IN /\ pulls[p].pc = "check"
     /\ IF Exists(k)
        THEN /\ refs' = [j \in Keys |-> IF j = k THEN refs[j] \cup {p} ELSE refs[j] \ {p}]
             /\ Put(p, Onward(p, [pulls[p] EXCEPT !.layer = At(p)], "check"))
        ELSE Put(p, [pulls[p] EXCEPT !.pc = "transfer"]) /\ UNCHANGED refs
     /\ UNCHANGED <<want, limit, active, transfers, waiting, xfers>>

\* The call watches instance x for its layer and goes on to the next.
Watching(p, x) == Put(p, Onward(p, [pulls[p] EXCEPT !.dls = Append(@, x)], "transfer"))

\* Variant: a transfer that was cancelled is joined like any other.
JoinCancelled(p) ==
  LET x == transfers[Key(p)]
  IN /\ pulls[p].pc = "transfer"
     /\ x # 0
     /\ xfers' = [xfers EXCEPT ![x].watchers = @ \cup {p}]
     /\ Watching(p, x)
     /\ UNCHANGED <<want, limit, active, transfers, waiting, refs>>

\* Transfer: the key is being transferred.  A transfer that was cancelled is not
\* joined: the call waits until it is out of the map.
Join(p) ==
  LET x == transfers[Key(p)]
  IN /\ pulls[p].pc = "transfer"
     /\ x # 0
     /\ ~xfers[x].cancelled
     /\ xfers' = [xfers EXCEPT ![x].watchers = @ \cup {p}]
     /\ Watching(p, x)
     /\ UNCHANGED <<want, limit, active, transfers, waiting, refs>>

\* An earlier layer of this call with the same blob, 0 if there is none.
Source(p) ==
  LET same == {j \in pulls[p].layer + 1 .. At(p) - 1 : want[p][j] = want[p][At(p)]}
  IN IF same = {} THEN 0
     ELSE pulls[p].dls[(CHOOSE j \in same : \A i \in same : j <= i) - pulls[p].layer]

NewTransfer(p, now) ==
  [key |-> Key(p), parent |-> IF pulls[p].dls = <<>> THEN 0 ELSE Top(p), source |-> Source(p),
   watchers |-> {p}, cancelled |-> FALSE, started |-> now, phase |-> "wait", ok |-> FALSE,
   inactive |-> "open", manager |-> "tracking", released |-> FALSE, tries |-> 0]

\* May a new transfer start at once?
MayStart == limit = 0 \/ active < limit

\* Transfer: nobody transfers the key; make a transfer, start it or put it in line.
Create(p) ==
  /\ pulls[p].pc = "transfer"
  /\ transfers[Key(p)] = 0
  /\ xfers' = Append(xfers, NewTransfer(p, MayStart))
  /\ active' = IF MayStart THEN active + 1 ELSE active
  /\ waiting' = IF MayStart THEN waiting ELSE Append(waiting, Len(xfers) + 1)
  /\ transfers' = [transfers EXCEPT ![Key(p)] = Len(xfers) + 1]
  /\ Watching(p, Len(xfers) + 1)
  /\ UNCHANGED <<want, limit, refs>>

\* What the end of Download lets go of, in order: the watcher of the top download
\* unless the call succeeds, the layer held (0), the other watchers, last made first.
Unwind(u, res) ==
  [u EXCEPT !.pc = "unwind", !.result = res,
            !.todo = (IF res = "ok" THEN <<>> ELSE <<Last(u.dls)>>) \o <<0>> \o Reverse(Front(u.dls))]

PullCancelled(p) ==
  /\ pulls[p].pc = "select"
  /\ "cancel" \in Faults
  /\ Put(p, Unwind(pulls[p], "cancelled"))
  /\ UNCHANGED <<want, limit, active, transfers, waiting, xfers, refs>>

PullDone(p) ==
  /\ pulls[p].pc = "select"
  /\ Done(Top(p))
  /\ Put(p, Unwind(pulls[p], IF xfers[Top(p)].ok THEN "ok" ELSE "err"))
  /\ UNCHANGED <<want, limit, active, transfers, waiting, xfers, refs>>

\* One step of letting go; at the end the call has failed, or its caller has the
\* layers until it calls the release function.
LetGo(p) ==
  LET u == pulls[p]
  IN /\ u.pc \in {"unwind", "drop"}
     /\ u.todo # <<>>
     /\ LET x == Head(u.todo)
        IN IF x = 0
           THEN refs' = [k \in Keys |-> refs[k] \ {p}] /\ UNCHANGED xfers
           ELSE xfers' = [xfers EXCEPT ![x] = Release(@, p)] /\ UNCHANGED refs
     /\ Put(p, IF Len(u.todo) > 1 THEN [u EXCEPT !.todo = Tail(@)]
               ELSE IF u.pc = "unwind" /\ u.result = "ok" THEN [u EXCEPT !.todo = <<>>, !.pc = "have"]
               ELSE Call("end"))
     /\ UNCHANGED <<want, limit, active, transfers, waiting>>

\* The caller has made the image, and calls the release function.
PullRelease(p) ==
  /\ pulls[p].pc = "have"
  /\ Put(p, [pulls[p] EXCEPT !.pc = "drop", !.todo = IF pulls[p].dls = <<>> THEN <<0>> ELSE <<Top(p)>>])
  /\ UNCHANGED <<want, limit, active, transfers, waiting, xfers, refs>>
--------------------------------------------------------------------------------
(* download.go: the download goroutines *)

To(x, phase) == xfers' = [xfers EXCEPT ![x].phase = phase]

\* The goroutine returns an error and closes the progress channel.
Fail(x) == To(x, "done")

\* The data is here: close inactive and wait for the layer below.
CloseInactive(x) ==
  xfers' = [xfers EXCEPT ![x].phase = IF xfers[x].parent = 0 THEN "register" ELSE "parent",
                         ![x].inactive = "closed"]

\* Started: a copy of an earlier layer has nothing to fetch; a layer whose parent
\* has failed already fails.
Begin(x) ==
  LET t == xfers[x]
  IN /\ t.phase = "wait"
     /\ t.started
     /\ IF t.source # 0 THEN CloseInactive(x)
        ELSE IF t.parent # 0 /\ Done(t.parent) /\ ~xfers[t.parent].ok THEN Fail(x)
        ELSE To(x, "fetch")
     /\ UNCHANGED <<want, limit, active, transfers, waiting, pulls, refs>>

\* descriptor.Download succeeds; whether or not the transfer was cancelled meanwhile.
Fetch(x) ==
  /\ xfers[x].phase = "fetch"
  /\ CloseInactive(x)
  /\ UNCHANGED <<want, limit, active, transfers, waiting, pulls, refs>>

\* It fails: give up when cancelled, when the error is final or after too many tries.
FetchFails(x) ==
  LET t == xfers[x]
  IN /\ t.phase = "fetch"
     /\ "fetch" \in Faults \/ t.cancelled
     /\ \/ Fail(x)
        \/ /\ ~t.cancelled /\ t.tries + 1 # MaxAttempts
           /\ xfers' = [xfers EXCEPT ![x].phase = "retry", ![x].tries = @ + 1]
     /\ UNCHANGED <<want, limit, active, transfers, waiting, pulls, refs>>

\* The retry delay ends, or the transfer is cancelled during it.
Retry(x) ==
  /\ xfers[x].phase = "retry"
  /\ \/ To(x, "fetch")
     \/ xfers[x].cancelled /\ Fail(x)
  /\ UNCHANGED <<want, limit, active, transfers, waiting, pulls, refs>>

\* Wait for the layer below (and for the source of a copy), or to be cancelled.
AwaitParent(x) ==
  LET t == xfers[x]
      needs == {t.parent, t.source} \ {0}
  IN /\ t.phase = "parent"
     /\ \/ t.cancelled /\ Fail(x)
        \/ Done(t.parent) /\ ~xfers[t.parent].ok /\ Fail(x)
        \/ /\ Done(t.parent) /\ xfers[t.parent].ok
           /\ \A y \in needs : Done(y)
           /\ To(x, IF \A y \in needs : xfers[y].ok THEN "register" ELSE "done")
     /\ UNCHANGED <<want, limit, active, transfers, waiting, pulls, refs>>

\* Register the layer on the one below, which must be in the store.  The goroutine
\* then ends with a reference that it gives back when the transfer is released.
Register(x) ==
  LET t == xfers[x]
  IN /\ t.phase = "register"
     /\ \/ /\ BaseExists(t.key)
           /\ refs' = [refs EXCEPT ![t.key] = @ \cup {x}]
           /\ xfers' = [xfers EXCEPT ![x].phase = "done", ![x].ok = TRUE]
        \/ /\ ~BaseExists(t.key) \/ t.cancelled \/ "fetch" \in Faults
           /\ Fail(x)
           /\ UNCHANGED refs
     /\ UNCHANGED <<want, limit, active, transfers, waiting, pulls>>

ReleaseLayer(x) ==
  /\ xfers[x].released
  /\ x \in refs[xfers[x].key]
  /\ refs' = [refs EXCEPT ![xfers[x].key] = @ \ {x}]
  /\ UNCHANGED <<want, limit, active, transfers, waiting, xfers, pulls>>
--------------------------------------------------------------------------------
PullStep(p) ==
  \/ PullCheck(p) \/ Join(p) \/ Create(p) \/ PullDone(p) \/ LetGo(p) \/ PullRelease(p)

XferStep(x) ==
  \/ Begin(x) \/ Fetch(x) \/ FetchFails(x) \/ Retry(x) \/ AwaitParent(x) \/ Register(x)

ManagerStep(x) == SeeInactive(x) \/ Reap(x) \/ Close(x)

Next ==
  \/ \E p \in Pulls : PullStep(p) \/ PullCancelled(p)
  \/ \E x \in Instances : XferStep(x) \/ ManagerStep(x) \/ ReleaseLayer(x)
  \/ \E n \in Limits : SetConcurrency(n)

Spec == Init /\ [][Next]_vars

\* A call makes at most one transfer per layer.
MaxInstances == Cardinality(Pulls) * Max({Len(k) : k \in Keys})

\* Goroutines that can run do run; a download ends, one way or the other.  No client
\* need go away and nobody need change the limit.
Fairness ==
  /\ \A p \in Pulls : WF_vars(PullStep(p))
  /\ \A x \in 1..MaxInstances :
       /\ WF_vars(x \in Instances /\ XferStep(x))
       /\ WF_vars(x \in Instances /\ ManagerStep(x))
       /\ WF_vars(x \in Instances /\ ReleaseLayer(x))

FairSpec == Spec /\ Fairness
--------------------------------------------------------------------------------
(* Properties *)

\* The transfers that hold a slot: started, and not yet seen to be inactive or done.
HasSlot(x) == xfers[x].started /\ xfers[x].inactive # "seen" /\ xfers[x].manager = "tracking"

\* activeTransfers counts the slots in use, however SeeInactive and Reap interleave
\* with cancellation (transfer.go:366-405): no slot is lost and none is given twice.
SlotsCounted == active = Cardinality({x \in Instances : HasSlot(x)})

\* Downloads of one layer are never made by two transfers at the same time.
OneTransferPerKey ==
  \A x, y \in Instances : x # y /\ xfers[x].key = xfers[y].key => Done(x) \/ Done(y)

\* A transfer that somebody watches is not cancelled by others who leave
\* (transfer.go:90, "a transfer won't be cancelled automatically if the client which
\* requested it is ^C'd").
WatchedIsNotCancelled == \A x \in Instances : xfers[x].cancelled => xfers[x].watchers = {}

\* Whoever has the result of a pull finds every layer in the store until it calls the
\* release function (download.go:97).
LayersPresent == \A p \in Pulls : pulls[p].pc = "have" => Exists(want[p])

\* Every pull ends: slots and dependencies between layers never wait on each other.
PullsEnd == \A p \in Pulls : pulls[p].pc # "end" ~> pulls[p].pc = "end"

\* Every transfer is released in the end, and gives its layer back.
TransfersReleased == (\A p \in Pulls : pulls[p].pc = "end") ~> (\A k \in Keys : refs[k] = {})
================================================================================
