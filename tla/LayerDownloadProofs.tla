-------------------------- MODULE LayerDownloadProofs --------------------------
(***************************************************************************)
(* The safety of pulling layers, for any number of calls, any images, any  *)
(* limits (and changes of the limit), cancellations and errors.            *)
(*                                                                         *)
(* DownloadInv says of every transfer where it is in its life and who      *)
(* knows of it (XferOK), of the map and the line of the transfer manager   *)
(* what is in them (TransfersOK, WaitingOK), and of every call of Download *)
(* which transfers it watches and which layers it holds (PullOK).          *)
(***************************************************************************)
EXTENDS LayerDownload, FiniteSetTheorems, SequenceTheorems, TLAPS

Phases == {"wait", "fetch", "retry", "parent", "register", "done"}

Xfers ==
  [key : Keys, parent : Nat, source : Nat, watchers : SUBSET Pulls, cancelled : BOOLEAN,
   started : BOOLEAN, phase : Phases, ok : BOOLEAN, inactive : {"open", "closed", "seen"},
   manager : {"tracking", "closing", "ended"}, released : BOOLEAN, tries : Nat]

Calls ==
  [pc : {"check", "transfer", "select", "unwind", "have", "drop", "end"}, layer : Nat,
   dls : Seq(Nat), todo : Seq(Nat), result : {"none", "ok", "err", "cancelled"}]

TypeOK ==
  /\ want \in Workloads
  /\ limit \in Limits
  /\ active \in Int
  /\ transfers \in [Keys -> Nat]
  /\ waiting \in Seq(Nat)
  /\ xfers \in Seq(Xfers)
  /\ pulls \in [Pulls -> Calls]
  /\ refs \in [Keys -> SUBSET (Pulls \cup Nat)]

\* A transfer that is not started waits, its slot is not given up before its data is here,
\* the manager tracks it in its map until it is done, it is neither cancelled nor released
\* while it is watched, and what it has registered is held until it is released.
XferOK(x) ==
  LET t == xfers[x]
  IN /\ ~t.started => t.phase = "wait"
     /\ t.phase \in {"wait", "fetch", "retry"} => t.inactive = "open"
     /\ t.manager # "tracking" => t.phase = "done"
     /\ t.manager = "tracking" => transfers[t.key] = x
     /\ t.cancelled => t.watchers = {}
     /\ t.released => t.watchers = {} /\ t.manager = "ended"
     /\ t.ok => t.phase = "done" /\ (x \in refs[t.key] \/ t.released)

\* The map has, for a key, a transfer of that key that the manager tracks.
TransfersOK ==
  \A k \in Keys : transfers[k] # 0 =>
    /\ transfers[k] \in Instances
    /\ xfers[transfers[k]].key = k /\ xfers[transfers[k]].manager = "tracking"

\* In line are transfers that are not started, each once.
WaitingOK ==
  /\ \A i \in DOMAIN waiting : waiting[i] \in Instances /\ ~xfers[waiting[i]].started
  /\ \A i, j \in DOMAIN waiting : waiting[i] = waiting[j] => i = j

\* The call has its layers up to layer, and a download for each of those above it.
DownloadsOK(p) ==
  LET u == pulls[p]
  IN /\ u.layer + Len(u.dls) <= Len(want[p])
     /\ \A i \in DOMAIN u.dls : /\ u.dls[i] \in Instances
                                /\ xfers[u.dls[i]].key = SubSeq(want[p], 1, u.layer + i)
     /\ \A i \in DOMAIN u.todo : u.todo[i] \in Instances \cup {0}

\* How far the call has come.
ProgressOK(p) ==
  LET u == pulls[p]
  IN /\ u.pc \in {"check", "transfer"} => u.layer + Len(u.dls) < Len(want[p])
     /\ u.pc = "check" => u.dls = <<>>
     /\ u.pc \in {"select", "unwind"} => u.dls # <<>>
     /\ u.pc \in {"select", "unwind", "have"} => u.layer + Len(u.dls) = Len(want[p]) /\ want[p] # <<>>

\* The call watches its downloads, and from its success to its end the top one.
WatchesOK(p) ==
  LET u == pulls[p]
  IN /\ u.pc \in {"check", "transfer", "select"} => \A i \in DOMAIN u.dls : p \in xfers[u.dls[i]].watchers
     /\ (u.pc = "have" \/ (u.pc = "unwind" /\ u.result = "ok")) /\ u.dls # <<>> =>
          /\ p \in xfers[Top(p)].watchers /\ xfers[Top(p)].ok
          /\ \A i \in DOMAIN u.todo : u.todo[i] # Top(p)
     /\ u.pc = "have" /\ u.dls = <<>> => p \in refs[want[p]]

PullOK(p) == DownloadsOK(p) /\ ProgressOK(p) /\ WatchesOK(p)

DownloadInv ==
  /\ TypeOK
  /\ \A x \in Instances : XferOK(x)
  /\ TransfersOK
  /\ WaitingOK
  /\ SlotsCounted
  /\ \A p \in Pulls : PullOK(p)
-------------------------------------------------------------------------------
(* Sequences, keys and instances                                                *)

\* An instance is a transfer.
LEMMA InstanceType ==
  ASSUME TypeOK
  PROVE  /\ Len(xfers) \in Nat /\ DOMAIN xfers = Instances /\ Instances \subseteq Nat \ {0}
         /\ \A x \in Instances : xfers[x] \in Xfers
  BY DEF TypeOK, Instances

\* One instance becomes t.
LEMMA OneBecomes ==
  ASSUME TypeOK, NEW x \in Instances, NEW t \in Xfers, xfers' = [xfers EXCEPT ![x] = t]
  PROVE  /\ xfers' \in Seq(Xfers) /\ Len(xfers') = Len(xfers) /\ Instances' = Instances
         /\ xfers'[x] = t /\ \A y \in Instances \ {x} : xfers'[y] = xfers[y]
  BY DEF TypeOK, Instances

\* The stacks of an image that is pulled are keys.
LEMMA StacksAreKeys ==
  ASSUME TypeOK, NEW p \in Pulls, NEW n \in 1..Len(want[p])
  PROVE  /\ SubSeq(want[p], 1, n) \in Keys
         /\ Len(SubSeq(want[p], 1, n)) = n
         /\ want[p] \in Seq(Blobs)
<1>1. want \in [Pulls -> Seq(Blobs)] /\ want[p] \in Seq(Blobs)
  BY WorkloadsAssumption DEF TypeOK
<1>2. Len(SubSeq(want[p], 1, n)) = n
  BY <1>1
<1>3. SubSeq(want[p], 1, n) # <<>>
  BY <1>2
<1>4. SubSeq(want[p], 1, n) \in Prefixes(want[p])
  BY <1>1 DEF Prefixes
<1>5. Prefixes(want[p]) \in {Prefixes(want[q]) : q \in Pulls}
  OBVIOUS
<1>6. SubSeq(want[p], 1, n) \in UNION {Prefixes(want[q]) : q \in Pulls}
  BY <1>4, <1>5
<1>7. UNION {Prefixes(want[q]) : q \in Pulls} \in {UNION {Prefixes(w[q]) : q \in Pulls} : w \in Workloads}
  BY DEF TypeOK
<1>8. SubSeq(want[p], 1, n) \in UNION {UNION {Prefixes(w[q]) : q \in Pulls} : w \in Workloads}
  BY <1>6, <1>7
<1>9. SubSeq(want[p], 1, n) \in Keys
  BY <1>3, <1>8 DEF Keys
<1> QED
  BY <1>1, <1>2, <1>9

\* The image that is pulled is its own stack.
LEMMA WholeStack ==
  ASSUME TypeOK, NEW p \in Pulls, want[p] # <<>>
  PROVE  want[p] \in Keys /\ SubSeq(want[p], 1, Len(want[p])) = want[p] /\ Len(want[p]) \in Nat \ {0}
<1>1. want[p] \in Seq(Blobs)
  BY WorkloadsAssumption DEF TypeOK
<1>2. Len(want[p]) \in Nat \ {0} /\ SubSeq(want[p], 1, Len(want[p])) = want[p]
  BY <1>1
<1>3. Len(want[p]) \in 1..Len(want[p])
  BY <1>2
<1>4. SubSeq(want[p], 1, Len(want[p])) \in Keys
  BY <1>3, StacksAreKeys
<1> QED
  BY <1>2, <1>4

\* The key of the layer a call is at.
LEMMA KeyOfCall ==
  ASSUME TypeOK, NEW p \in Pulls, DownloadsOK(p), ProgressOK(p), pulls[p].pc \in {"check", "transfer"}
  PROVE  /\ Key(p) \in Keys /\ At(p) \in 1..Len(want[p]) /\ Len(want[p]) \in Nat
         /\ Key(p) = SubSeq(want[p], 1, pulls[p].layer + Len(pulls[p].dls) + 1)
<1>1. pulls[p].layer \in Nat /\ Len(pulls[p].dls) \in Nat
  BY DEF TypeOK, Calls
<1>2. want[p] \in Seq(Blobs)
  BY WorkloadsAssumption DEF TypeOK
<1>3. pulls[p].layer + Len(pulls[p].dls) < Len(want[p]) /\ Len(want[p]) \in Nat
  <2>1. Len(want[p]) \in Nat
    BY <1>2
  <2> QED
    BY <2>1 DEF ProgressOK
<1>4. At(p) \in 1..Len(want[p])
  <2>1. \A l, n, m \in Nat : l + n < m => l + n + 1 \in 1..m
    OBVIOUS
  <2> QED
    BY <1>1, <1>3, <2>1 DEF At
<1>5. Key(p) \in Keys
  BY <1>4, StacksAreKeys DEF Key
<1>6. Key(p) = SubSeq(want[p], 1, pulls[p].layer + Len(pulls[p].dls) + 1)
  BY Zenon DEF Key, At
<1> QED
  BY <1>3, <1>4, <1>5, <1>6

\* What a key has of a call that stays as it was.
LEMMA PullKeeps ==
  ASSUME TypeOK, NEW p \in Pulls, PullOK(p), pulls'[p] = pulls[p], want' = want,
         Instances \subseteq Instances',
         \A y \in Instances : /\ xfers'[y].key = xfers[y].key
                              /\ xfers[y].ok => xfers'[y].ok
                              /\ p \in xfers[y].watchers => p \in xfers'[y].watchers,
         \A k \in Keys : p \in refs[k] => p \in refs'[k]
  PROVE  PullOK(p)'
<1>1. DownloadsOK(p)'
  BY DEF PullOK, DownloadsOK
<1>2. ProgressOK(p)'
  BY DEF PullOK, ProgressOK
<1>3. pulls[p].dls \in Seq(Nat)
  BY DEF TypeOK, Calls
<1>4. pulls[p].dls # <<>> => Len(pulls[p].dls) \in DOMAIN pulls[p].dls
  BY <1>3
<1>5. pulls[p].dls # <<>> => Top(p) \in Instances
  BY <1>4 DEF PullOK, DownloadsOK, Top, Last
<1>6. Top(p)' = Top(p)
  BY DEF Top
<1>7. pulls[p].pc = "have" => want[p] \in Keys
  BY WholeStack DEF PullOK, ProgressOK
<1>8. WatchesOK(p)'
  BY <1>5, <1>6, <1>7 DEF PullOK, DownloadsOK, WatchesOK
<1> QED
  BY <1>1, <1>2, <1>8 DEF PullOK

\* A set of numbers has a smallest one.
LEMMA Smallest ==
  ASSUME NEW S, S \subseteq Nat, S # {}
  PROVE  \E x \in S : \A y \in S : x <= y
<1>1. PICK x \in S : \A y \in S : ~ (<<y, x>> \in OpToRel(<, Nat))
  BY NatLessThanWellFounded, WFMin
<1>2. \A y \in S : ~(y < x)
  BY <1>1 DEF OpToRel
<1> QED
  BY <1>2

\* A new transfer is one, with the call as its only watcher.
LEMMA NewTransferType ==
  ASSUME TypeOK, NEW p \in Pulls, DownloadsOK(p), ProgressOK(p), pulls[p].pc \in {"check", "transfer"},
         NEW now \in BOOLEAN
  PROVE  NewTransfer(p, now) \in Xfers
<1>1. pulls[p].layer \in Nat /\ pulls[p].dls \in Seq(Nat)
  BY DEF TypeOK, Calls
<1>2. Key(p) \in Keys /\ At(p) \in 1..Len(want[p]) /\ Len(want[p]) \in Nat
  BY KeyOfCall
<1>3. pulls[p].dls # <<>> => Top(p) \in Nat
  BY <1>1 DEF Top, Last
<1>4. Source(p) \in Nat
  <2> DEFINE same == {j \in pulls[p].layer + 1 .. At(p) - 1 : want[p][j] = want[p][At(p)]}
             j0 == CHOOSE j \in same : \A i \in same : j <= i
  <2>1. CASE same = {}
    BY <2>1 DEF Source
  <2>2. CASE same # {}
    <3>1. same \subseteq Nat
      BY <1>1, <1>2
    <3>2. \E j \in same : \A i \in same : j <= i
      BY <2>2, <3>1, Smallest
    <3>3. j0 \in same
      BY <3>2
    <3>4. j0 \in pulls[p].layer + 1 .. At(p) - 1
      BY <3>3
    <3> HIDE DEF j0, same
    <3>5. j0 - pulls[p].layer \in 1..Len(pulls[p].dls)
      <4>1. Len(pulls[p].dls) \in Nat
        BY <1>1
      <4>2. At(p) - 1 = pulls[p].layer + Len(pulls[p].dls)
        BY <1>1, <4>1 DEF At
      <4>3. \A l, n \in Nat : \A j \in l + 1 .. l + n : j - l \in 1..n
        OBVIOUS
      <4> QED
        BY <1>1, <3>4, <4>1, <4>2, <4>3
    <3>6. pulls[p].dls[j0 - pulls[p].layer] \in Nat
      BY <1>1, <3>5
    <3> QED
      BY <2>2, <3>6 DEF Source, j0, same
  <2> QED
    BY <2>1, <2>2
<1> QED
  BY <1>2, <1>3, <1>4 DEF NewTransfer, Xfers, Phases
-------------------------------------------------------------------------------
(* One transfer moves                                                           *)

\* The transfers with a slot are finitely many.
LEMMA SlotsFinite ==
  ASSUME TypeOK
  PROVE  /\ IsFiniteSet({x \in Instances : HasSlot(x)})
         /\ Cardinality({x \in Instances : HasSlot(x)}) \in Nat
<1>1. IsFiniteSet(Instances)
  BY InstanceType, FS_Interval DEF Instances
<1>2. {x \in Instances : HasSlot(x)} \in SUBSET Instances
  OBVIOUS
<1> QED
  BY <1>1, <1>2, FS_Subset, FS_CardinalityType

\* No slot is taken or given up.
LEMMA SlotsSame ==
  ASSUME SlotsCounted, active' = active, Instances' = Instances,
         \A x \in Instances : HasSlot(x)' = HasSlot(x)
  PROVE  SlotsCounted'
<1>1. {x \in Instances : HasSlot(x)}' = {x \in Instances : HasSlot(x)}
  OBVIOUS
<1> QED
  BY <1>1 DEF SlotsCounted

\* The others are as they were, and hold what they held.
LEMMA OthersKeep ==
  ASSUME TypeOK, NEW y \in Instances, XferOK(y), transfers' = transfers, xfers'[y] = xfers[y],
         \A k \in Keys : y \in refs[k] => y \in refs'[k] \/ xfers[y].released
  PROVE  XferOK(y)'
<1>1. xfers[y].key \in Keys
  BY InstanceType DEF Xfers
<1> QED
  BY <1>1 DEF XferOK

\* A transfer becomes t: it keeps its key and its slot, and what it has registered.
LEMMA OneMoves ==
  ASSUME DownloadInv, NEW x \in Instances, NEW t \in Xfers, xfers' = [xfers EXCEPT ![x] = t],
         t.key = xfers[x].key, t.started = xfers[x].started,
         t.inactive = "seen" <=> xfers[x].inactive = "seen",
         t.manager = "tracking" <=> xfers[x].manager = "tracking",
         UNCHANGED <<want, limit, active, transfers, waiting>>,
         refs' \in [Keys -> SUBSET (Pulls \cup Nat)], pulls' \in [Pulls -> Calls],
         \A y \in Instances, k \in Keys : y \in refs[k] => y \in refs'[k],
         XferOK(x)',
         \A p \in Pulls : PullOK(p)'
  PROVE  DownloadInv'
<1>1. /\ TypeOK /\ xfers' \in Seq(Xfers) /\ Len(xfers') = Len(xfers) /\ Instances' = Instances
      /\ xfers'[x] = t /\ \A y \in Instances \ {x} : xfers'[y] = xfers[y]
  BY OneBecomes DEF DownloadInv
<1>2. TypeOK'
  BY <1>1 DEF TypeOK
<1>3. \A y \in Instances' : XferOK(y)'
  BY <1>1, OthersKeep DEF DownloadInv
<1>4. TransfersOK'
  BY <1>1 DEF DownloadInv, TransfersOK
<1>5. WaitingOK'
  BY <1>1 DEF DownloadInv, WaitingOK
<1>6. \A y \in Instances : HasSlot(y)' = HasSlot(y)
  <2>1. HasSlot(x)' = HasSlot(x)
    BY <1>1 DEF HasSlot
  <2> QED
    BY <1>1, <2>1 DEF HasSlot
<1>7. SlotsCounted'
  BY <1>1, <1>6, SlotsSame DEF DownloadInv
<1> QED
  BY <1>2, <1>3, <1>4, <1>5, <1>7 DEF DownloadInv

\* The download goroutine of a transfer moves on: it has not ended yet, and nobody else
\* takes notice.
LEMMA GoroutineMoves ==
  ASSUME DownloadInv, NEW x \in Instances, NEW t \in Xfers, xfers' = [xfers EXCEPT ![x] = t],
         xfers[x].phase # "done", xfers[x].started,
         t.key = xfers[x].key, t.started = xfers[x].started, t.watchers = xfers[x].watchers,
         t.cancelled = xfers[x].cancelled, t.manager = xfers[x].manager, t.released = xfers[x].released,
         t.inactive = xfers[x].inactive \/ (xfers[x].inactive = "open" /\ t.inactive = "closed"),
         t.phase \in {"wait", "fetch", "retry"} => t.inactive = "open",
         t.ok => t.phase = "done" /\ x \in refs'[t.key],
         UNCHANGED <<want, limit, active, transfers, waiting, pulls>>,
         refs' \in [Keys -> SUBSET (Pulls \cup Nat)],
         \A k \in Keys : refs[k] \subseteq refs'[k]
  PROVE  DownloadInv'
<1>1. /\ TypeOK /\ xfers[x] \in Xfers /\ xfers'[x] = t /\ Instances' = Instances
      /\ \A y \in Instances \ {x} : xfers'[y] = xfers[y]
  BY OneBecomes, InstanceType DEF DownloadInv
<1>2. XferOK(x) /\ ~xfers[x].ok
  BY DEF DownloadInv, XferOK
<1>3. XferOK(x)'
  BY <1>1, <1>2 DEF XferOK
<1>4. \A p \in Pulls : PullOK(p)'
  <2> SUFFICES ASSUME NEW p \in Pulls
               PROVE  PullOK(p)'
    OBVIOUS
  <2>1. \A y \in Instances : /\ xfers'[y].key = xfers[y].key
                             /\ xfers[y].ok => xfers'[y].ok
                             /\ p \in xfers[y].watchers => p \in xfers'[y].watchers
    BY <1>1, <1>2
  <2> QED
    BY <1>1, <2>1, PullKeeps DEF DownloadInv
<1>5. pulls' \in [Pulls -> Calls]
  BY <1>1 DEF TypeOK
<1>6. /\ t.inactive = "seen" <=> xfers[x].inactive = "seen"
      /\ t.manager = "tracking" <=> xfers[x].manager = "tracking"
  OBVIOUS
<1> QED
  BY <1>3, <1>4, <1>5, <1>6, OneMoves
-------------------------------------------------------------------------------
(* The download goroutines                                                      *)

\* Begin, Fetch, FetchFails, Retry and AwaitParent: the goroutine goes on to a phase, or has
\* its data and says so.
LEMMA PhaseKeeps ==
  ASSUME DownloadInv, NEW x \in Instances, NEW t \in Xfers, xfers' = [xfers EXCEPT ![x] = t],
         NEW ph \in Phases, NEW ina \in {"open", "closed", "seen"}, NEW n \in Nat,
         t = [xfers[x] EXCEPT !.phase = ph, !.inactive = ina, !.tries = n],
         xfers[x].phase # "done", xfers[x].started,
         ina = xfers[x].inactive \/ (xfers[x].inactive = "open" /\ ina = "closed"),
         ph \in {"wait", "fetch", "retry"} => ina = "open",
         UNCHANGED <<want, limit, active, transfers, waiting, pulls, refs>>
  PROVE  DownloadInv'
<1>1. xfers[x] \in Xfers
  BY InstanceType DEF DownloadInv
<1>2. XferOK(x) /\ ~xfers[x].ok
  BY DEF DownloadInv, XferOK
<1>3. /\ t.key = xfers[x].key /\ t.started = xfers[x].started /\ t.watchers = xfers[x].watchers
      /\ t.cancelled = xfers[x].cancelled /\ t.manager = xfers[x].manager
      /\ t.released = xfers[x].released /\ t.inactive = ina /\ t.phase = ph /\ ~t.ok
  BY <1>1, <1>2 DEF Xfers
<1>4. refs' \in [Keys -> SUBSET (Pulls \cup Nat)] /\ \A k \in Keys : refs[k] \subseteq refs'[k]
  BY DEF DownloadInv, TypeOK
<1> QED
  BY <1>3, <1>4, GoroutineMoves

\* The goroutine goes on to phase ph and changes nothing else.
LEMMA ToKeeps ==
  ASSUME DownloadInv, NEW x \in Instances, NEW ph \in Phases, To(x, ph),
         xfers[x].phase # "done", xfers[x].started,
         ph \in {"wait", "fetch", "retry"} => xfers[x].inactive = "open",
         UNCHANGED <<want, limit, active, transfers, waiting, pulls, refs>>
  PROVE  DownloadInv'
<1>1. xfers[x] \in Xfers /\ DOMAIN xfers = Instances
  BY InstanceType DEF DownloadInv
<1>2. PICK t : t = [xfers[x] EXCEPT !.phase = ph]
  OBVIOUS
<1>3. /\ t = [xfers[x] EXCEPT !.phase = ph, !.inactive = xfers[x].inactive, !.tries = xfers[x].tries]
      /\ t \in Xfers /\ xfers[x].inactive \in {"open", "closed", "seen"} /\ xfers[x].tries \in Nat
  BY <1>1, <1>2 DEF Xfers
<1>4. xfers' = [xfers EXCEPT ![x] = t]
  BY <1>1, <1>2 DEF To
<1> QED
  BY <1>3, <1>4, PhaseKeeps

\* The data of the layer is there.
LEMMA CloseInactiveKeeps ==
  ASSUME DownloadInv, NEW x \in Instances, CloseInactive(x),
         xfers[x].phase \in {"wait", "fetch"}, xfers[x].started,
         UNCHANGED <<want, limit, active, transfers, waiting, pulls, refs>>
  PROVE  DownloadInv'
<1>1. xfers[x] \in Xfers /\ DOMAIN xfers = Instances
  BY InstanceType DEF DownloadInv
<1>2. PICK ph \in Phases : ph = IF xfers[x].parent = 0 THEN "register" ELSE "parent"
  BY DEF Phases
<1>3. PICK t : t = [xfers[x] EXCEPT !.phase = ph, !.inactive = "closed"]
  OBVIOUS
<1>4. /\ t = [xfers[x] EXCEPT !.phase = ph, !.inactive = "closed", !.tries = xfers[x].tries]
      /\ t \in Xfers /\ xfers[x].tries \in Nat
  BY <1>1, <1>3 DEF Xfers
<1>5. xfers' = [xfers EXCEPT ![x] = t]
  BY <1>1, <1>2, <1>3 DEF CloseInactive
<1>6. xfers[x].inactive = "open" /\ ph \notin {"wait", "fetch", "retry"}
  BY <1>2 DEF DownloadInv, XferOK
<1> QED
  BY <1>4, <1>5, <1>6, PhaseKeeps

\* A goroutine that is past the start of its transfer was started.
LEMMA Started ==
  ASSUME DownloadInv, NEW x \in Instances, xfers[x].phase # "wait"
  PROVE  xfers[x].started
  BY InstanceType DEF DownloadInv, XferOK, Xfers

\* The transfer was started: fetch, copy, or fail with the layer below.
LEMMA BeginKeeps ==
  ASSUME DownloadInv, NEW x \in Instances, Begin(x)
  PROVE  DownloadInv'
<1>1. /\ xfers[x].phase = "wait" /\ xfers[x].started
      /\ UNCHANGED <<want, limit, active, transfers, waiting, pulls, refs>>
      /\ CloseInactive(x) \/ To(x, "done") \/ To(x, "fetch")
  BY DEF Begin, Fail
<1>2. xfers[x].inactive = "open"
  BY <1>1 DEF DownloadInv, XferOK
<1>3. "done" \in Phases /\ "fetch" \in Phases
  BY DEF Phases
<1> QED
  BY <1>1, <1>2, <1>3, CloseInactiveKeeps, ToKeeps

\* The layer is fetched.
LEMMA FetchKeeps ==
  ASSUME DownloadInv, NEW x \in Instances, Fetch(x)
  PROVE  DownloadInv'
  BY Started, CloseInactiveKeeps DEF Fetch

\* Fetching fails for good, or is to be tried again.
LEMMA FetchFailsKeeps ==
  ASSUME DownloadInv, NEW x \in Instances, FetchFails(x)
  PROVE  DownloadInv'
<1>1. /\ xfers[x].phase = "fetch" /\ xfers[x].started
      /\ UNCHANGED <<want, limit, active, transfers, waiting, pulls, refs>>
  BY Started DEF FetchFails
<1>2. "done" \in Phases /\ "retry" \in Phases
  BY DEF Phases
<1>3. CASE Fail(x)
  BY <1>1, <1>2, <1>3, ToKeeps DEF Fail
<1>4. CASE xfers' = [xfers EXCEPT ![x].phase = "retry", ![x].tries = @ + 1]
  <2>1. xfers[x] \in Xfers /\ DOMAIN xfers = Instances
    BY InstanceType DEF DownloadInv
  <2>2. xfers[x].inactive = "open"
    BY <1>1 DEF DownloadInv, XferOK
  <2>3. PICK t : t = [xfers[x] EXCEPT !.phase = "retry", !.tries = @ + 1]
    OBVIOUS
  <2>4. /\ t = [xfers[x] EXCEPT !.phase = "retry", !.inactive = "open", !.tries = xfers[x].tries + 1]
        /\ t \in Xfers /\ xfers[x].tries + 1 \in Nat
    <3>1. PICK n : n = xfers[x].tries + 1
      OBVIOUS
    <3>2. n \in Nat
      BY <2>1, <3>1 DEF Xfers
    <3>3. t = [xfers[x] EXCEPT !.phase = "retry", !.tries = n]
      BY <2>1, <2>3, <3>1 DEF Xfers
    <3>4. t = [xfers[x] EXCEPT !.phase = "retry", !.inactive = "open", !.tries = n]
      BY <2>1, <2>2, <3>3 DEF Xfers
    <3>5. t \in Xfers
      BY <1>2, <2>1, <3>2, <3>3 DEF Xfers
    <3> QED
      BY <3>1, <3>2, <3>4, <3>5
  <2>5. xfers' = [xfers EXCEPT ![x] = t]
    BY <1>4, <2>1, <2>3
  <2> QED
    BY <1>1, <1>2, <2>2, <2>4, <2>5, PhaseKeeps
<1> QED
  BY <1>3, <1>4 DEF FetchFails

\* The delay before another try is over, or cut short.
LEMMA RetryKeeps ==
  ASSUME DownloadInv, NEW x \in Instances, Retry(x)
  PROVE  DownloadInv'
<1>1. /\ xfers[x].phase = "retry" /\ xfers[x].started
      /\ UNCHANGED <<want, limit, active, transfers, waiting, pulls, refs>>
      /\ To(x, "fetch") \/ To(x, "done")
  BY Started DEF Retry, Fail
<1>2. xfers[x].inactive = "open" /\ "done" \in Phases /\ "fetch" \in Phases
  BY <1>1 DEF DownloadInv, XferOK, Phases
<1> QED
  BY <1>1, <1>2, ToKeeps

\* The layer below is there, or will never be.
LEMMA AwaitParentKeeps ==
  ASSUME DownloadInv, NEW x \in Instances, AwaitParent(x)
  PROVE  DownloadInv'
<1>1. /\ xfers[x].phase = "parent" /\ xfers[x].started
      /\ UNCHANGED <<want, limit, active, transfers, waiting, pulls, refs>>
      /\ To(x, "register") \/ To(x, "done")
  BY Started DEF AwaitParent, Fail
<1>2. "done" \in Phases /\ "register" \in Phases
  BY DEF Phases
<1> QED
  BY <1>1, <1>2, ToKeeps

\* The layer is registered, and its transfer holds it.
LEMMA RegisterKeeps ==
  ASSUME DownloadInv, NEW x \in Instances, Register(x)
  PROVE  DownloadInv'
<1>1. /\ xfers[x].phase = "register" /\ xfers[x].started
      /\ UNCHANGED <<want, limit, active, transfers, waiting, pulls>>
  BY Started DEF Register
<1>2. "done" \in Phases
  BY DEF Phases
<1>3. CASE UNCHANGED refs /\ Fail(x)
  BY <1>1, <1>2, <1>3, ToKeeps DEF Fail
<1>4. CASE /\ refs' = [refs EXCEPT ![xfers[x].key] = @ \cup {x}]
           /\ xfers' = [xfers EXCEPT ![x].phase = "done", ![x].ok = TRUE]
  <2>1. xfers[x] \in Xfers /\ DOMAIN xfers = Instances /\ x \in Nat
    BY InstanceType DEF DownloadInv
  <2>2. PICK t : t = [xfers[x] EXCEPT !.phase = "done", !.ok = TRUE]
    OBVIOUS
  <2>3. /\ t \in Xfers /\ t.key = xfers[x].key /\ t.started = xfers[x].started
        /\ t.watchers = xfers[x].watchers /\ t.cancelled = xfers[x].cancelled
        /\ t.manager = xfers[x].manager /\ t.released = xfers[x].released
        /\ t.inactive = xfers[x].inactive /\ t.phase = "done"
    <3>1. t \in Xfers
      BY <1>2, <2>1, <2>2 DEF Xfers
    <3> QED
      BY <2>1, <2>2, <3>1 DEF Xfers
  <2>4. xfers' = [xfers EXCEPT ![x] = t]
    BY <1>4, <2>1, <2>2
  <2>5. xfers[x].key \in Keys /\ refs \in [Keys -> SUBSET (Pulls \cup Nat)]
    BY <2>1 DEF Xfers, DownloadInv, TypeOK
  <2>6. /\ refs' \in [Keys -> SUBSET (Pulls \cup Nat)]
        /\ \A k \in Keys : refs[k] \subseteq refs'[k]
        /\ x \in refs'[t.key]
    BY <1>4, <2>1, <2>3, <2>5
  <2> QED
    BY <1>1, <2>3, <2>4, <2>6, GoroutineMoves
<1> QED
  BY <1>3, <1>4 DEF Register

\* The layer of a released transfer is given back.
LEMMA ReleaseLayerKeeps ==
  ASSUME DownloadInv, NEW x \in Instances, ReleaseLayer(x)
  PROVE  DownloadInv'
<1>1. /\ xfers[x].released /\ refs' = [refs EXCEPT ![xfers[x].key] = @ \ {x}]
      /\ UNCHANGED <<want, limit, active, transfers, waiting, xfers, pulls>>
  BY DEF ReleaseLayer
<1>2. TypeOK /\ x \in Nat /\ Instances' = Instances
  BY <1>1, InstanceType DEF DownloadInv, Instances
<1>3. TypeOK'
  BY <1>1, <1>2 DEF TypeOK
<1>4. \A k \in Keys : refs[k] \ {x} \subseteq refs'[k]
  BY <1>1, <1>2 DEF TypeOK
<1>5. \A y \in Instances' : XferOK(y)'
  <2> SUFFICES ASSUME NEW y \in Instances
               PROVE  XferOK(y)'
    BY <1>2
  <2>1. \A k \in Keys : y \in refs[k] => y \in refs'[k] \/ xfers[y].released
    BY <1>1, <1>4
  <2> QED
    BY <1>1, <1>2, <2>1, OthersKeep DEF DownloadInv
<1>6. \A p \in Pulls : PullOK(p)'
  <2> SUFFICES ASSUME NEW p \in Pulls
               PROVE  PullOK(p)'
    OBVIOUS
  <2>1. \A k \in Keys : p \in refs[k] => p \in refs'[k]
    BY <1>2, <1>4, PullsAssumption
  <2> QED
    BY <1>1, <1>2, <2>1, PullKeeps DEF DownloadInv
<1>7. SlotsCounted'
  BY <1>1, <1>2, SlotsSame DEF DownloadInv, HasSlot
<1>8. TransfersOK' /\ WaitingOK'
  BY <1>1, <1>2 DEF DownloadInv, TransfersOK, WaitingOK
<1> QED
  BY <1>3, <1>5, <1>6, <1>7, <1>8 DEF DownloadInv
-------------------------------------------------------------------------------
(* The manager's goroutine of a transfer                                        *)

\* A record whose field started is set to what it is stays as it is.
LEMMA SetStarted ==
  ASSUME NEW r \in Xfers, NEW b \in BOOLEAN
  PROVE  /\ [r EXCEPT !.started = b] \in Xfers
         /\ b = r.started => [r EXCEPT !.started = b] = r
  BY DEF Xfers

\* A function on 1..n is a sequence of length n.
LEMMA SeqOfInstances ==
  ASSUME NEW n \in Nat, NEW S, NEW f, f = [y \in 1..n |-> f[y]], \A y \in 1..n : f[y] \in S
  PROVE  f \in Seq(S) /\ Len(f) = n
  OBVIOUS

\* A transfer gives up its slot, and becomes t: the first in line starts, or none is.
LEMMA InactivateEffect ==
  ASSUME DownloadInv, NEW x \in Instances, NEW t \in Xfers, xfers[x].started, DoInactivate(x, t)
  PROVE  /\ xfers' \in Seq(Xfers) /\ Instances' = Instances /\ xfers'[x] = t
         /\ \E h \in Instances \cup {0} :
              /\ \A y \in Instances \ {x, h} : xfers'[y] = xfers[y]
              /\ h # 0 => /\ h # x /\ h \in Instances /\ ~xfers[h].started
                          /\ xfers'[h] = [xfers[h] EXCEPT !.started = TRUE]
                          /\ waiting # <<>> /\ h = Head(waiting) /\ waiting' = Tail(waiting)
                          /\ active' = active
              /\ h = 0 => waiting = <<>> /\ waiting' = <<>> /\ active' = active - 1
<1>1. /\ TypeOK /\ Len(xfers) \in Nat /\ Instances = 1..Len(xfers) /\ Instances \subseteq Nat \ {0}
      /\ \A y \in Instances : xfers[y] \in Xfers /\ xfers[y].started \in BOOLEAN
  BY InstanceType DEF DownloadInv, Instances, Xfers
<1>2. waiting \in Seq(Nat) /\ active \in Int
  BY <1>1 DEF TypeOK
<1>3. CASE waiting # <<>>
  <2>1. PICK h \in Nat : h = Head(waiting)
    BY <1>2, <1>3
  <2>2. 1 \in DOMAIN waiting /\ waiting[1] = h
    BY <1>2, <1>3, <2>1
  <2>3. h \in Instances /\ ~xfers[h].started /\ h # x /\ h # 0
    BY <1>1, <2>2 DEF DownloadInv, WaitingOK
  <2>4. Inactivate(x) = [next |-> <<h>>, freed |-> 0]
    BY <1>3, <2>1 DEF Inactivate
  <2>5. /\ active' = active - 0
        /\ waiting' = SubSeq(waiting, 2, Len(waiting))
        /\ xfers' = [y \in Instances |->
                      IF y = x THEN t
                      ELSE [xfers[y] EXCEPT !.started = @ \/ \E n \in DOMAIN <<h>> : <<h>>[n] = y]]
    BY <2>4 DEF DoInactivate
  <2>6. active' = active /\ waiting' = Tail(waiting)
    BY <1>2, <1>3, <2>5
  <2>7. \A y \in Instances : (\E n \in DOMAIN <<h>> : <<h>>[n] = y) <=> y = h
    OBVIOUS
  <2>8. xfers'[x] = t /\ DOMAIN xfers' = Instances
    BY <2>5
  <2>9. xfers'[h] = [xfers[h] EXCEPT !.started = TRUE] /\ xfers'[h] \in Xfers
    <3>1. xfers'[h] = [xfers[h] EXCEPT !.started = (xfers[h].started \/ \E n \in DOMAIN <<h>> : <<h>>[n] = h)]
      BY <2>3, <2>5
    <3>2. (xfers[h].started \/ \E n \in DOMAIN <<h>> : <<h>>[n] = h) = TRUE
      BY <2>3, <2>7
    <3>3. xfers'[h] = [xfers[h] EXCEPT !.started = TRUE]
      BY <3>1, <3>2
    <3> QED
      BY <1>1, <2>3, <3>3, SetStarted
  <2>10. \A y \in Instances \ {x, h} : xfers'[y] = xfers[y]
    <3> SUFFICES ASSUME NEW y \in Instances \ {x, h}
                 PROVE  xfers'[y] = xfers[y]
      OBVIOUS
    <3>1. PICK b \in BOOLEAN : b = (xfers[y].started \/ \E n \in DOMAIN <<h>> : <<h>>[n] = y)
      BY <1>1, <2>7
    <3>2. xfers'[y] = [xfers[y] EXCEPT !.started = b]
      BY <2>5, <3>1
    <3>3. ~(\E n \in DOMAIN <<h>> : <<h>>[n] = y)
      BY <2>7
    <3>4. b = xfers[y].started
      BY <1>1, <3>1, <3>3
    <3> QED
      BY <1>1, <3>2, <3>4, SetStarted
  <2>11. xfers' \in Seq(Xfers) /\ Len(xfers') = Len(xfers)
    <3>1. \A y \in Instances : xfers'[y] \in Xfers
      BY <1>1, <2>8, <2>9, <2>10
    <3>2. xfers' = [y \in Instances |-> xfers'[y]]
      BY <2>5, <2>8, Zenon
    <3> QED
      BY <1>1, <3>1, <3>2, SeqOfInstances
  <2> QED
    BY <1>3, <2>1, <2>3, <2>6, <2>8, <2>9, <2>10, <2>11 DEF Instances
<1>4. CASE waiting = <<>>
  <2>4. Inactivate(x) = [next |-> <<>>, freed |-> 1]
    BY <1>4 DEF Inactivate
  <2>5. /\ active' = active - 1
        /\ waiting' = SubSeq(waiting, 1, Len(waiting))
        /\ xfers' = [y \in Instances |->
                      IF y = x THEN t
                      ELSE [xfers[y] EXCEPT !.started = @ \/ \E n \in DOMAIN <<>> : <<>>[n] = y]]
    BY <2>4 DEF DoInactivate
  <2>6. waiting' = <<>>
    BY <1>4, <2>5
  <2>8. xfers'[x] = t /\ DOMAIN xfers' = Instances
    BY <2>5
  <2>10. \A y \in Instances \ {x} : xfers'[y] = xfers[y]
    <3> SUFFICES ASSUME NEW y \in Instances \ {x}
                 PROVE  xfers'[y] = xfers[y]
      OBVIOUS
    <3>1. PICK b \in BOOLEAN : b = (xfers[y].started \/ \E n \in DOMAIN <<>> : <<>>[n] = y)
      BY <1>1
    <3>2. xfers'[y] = [xfers[y] EXCEPT !.started = b]
      BY <2>5, <3>1
    <3>4. b = xfers[y].started
      BY <1>1, <3>1
    <3> QED
      BY <1>1, <3>2, <3>4, SetStarted
  <2>11. xfers' \in Seq(Xfers) /\ Len(xfers') = Len(xfers)
    <3>1. \A y \in Instances : xfers'[y] \in Xfers
      BY <1>1, <2>8, <2>10
    <3>2. xfers' = [y \in Instances |-> xfers'[y]]
      BY <2>5, <2>8, Zenon
    <3> QED
      BY <1>1, <3>1, <3>2, SeqOfInstances
  <2>12. /\ \A y \in Instances \ {x, 0} : xfers'[y] = xfers[y]
         /\ waiting = <<>> /\ waiting' = <<>> /\ active' = active - 1
    BY <1>4, <2>5, <2>6, <2>10
  <2>13. Instances' = Instances
    BY <2>11 DEF Instances
  <2> QED
    BY <2>8, <2>11, <2>12, <2>13
<1> QED
  BY <1>3, <1>4

\* A transfer that has a slot gives it up.
LEMMA InactivateKeeps ==
  ASSUME DownloadInv, NEW x \in Instances, NEW t \in Xfers, DoInactivate(x, t),
         HasSlot(x), t.inactive = "seen" \/ t.manager # "tracking",
         xfers[x].phase \notin {"wait", "fetch", "retry"},
         t.key = xfers[x].key, t.started = xfers[x].started, t.watchers = xfers[x].watchers,
         t.cancelled = xfers[x].cancelled, t.released = xfers[x].released,
         t.phase = xfers[x].phase, t.ok = xfers[x].ok,
         \/ t.manager = "tracking" /\ transfers' = transfers
         \/ /\ t.manager = "closing" /\ t.phase = "done"
            /\ transfers' = [transfers EXCEPT ![xfers[x].key] = 0],
         UNCHANGED <<want, limit, pulls, refs>>
  PROVE  DownloadInv'
<1>1. /\ TypeOK /\ Instances \subseteq Nat \ {0} /\ DOMAIN waiting = 1..Len(waiting)
      /\ waiting \in Seq(Nat) /\ active \in Int /\ transfers \in [Keys -> Nat]
      /\ \A y \in Instances : xfers[y] \in Xfers /\ xfers[y].key \in Keys
  <2>1. TypeOK /\ Instances \subseteq Nat \ {0} /\ \A y \in Instances : xfers[y] \in Xfers
    BY InstanceType DEF DownloadInv
  <2>2. waiting \in Seq(Nat) /\ active \in Int /\ transfers \in [Keys -> Nat]
    BY <2>1 DEF TypeOK
  <2>3. \A y \in Instances : xfers[y].key \in Keys
    BY <2>1 DEF Xfers
  <2> QED
    BY <2>1, <2>2, <2>3
<1>2. xfers[x].started /\ xfers[x].manager = "tracking" /\ XferOK(x)
  BY DEF HasSlot, DownloadInv
<1>3. xfers' \in Seq(Xfers) /\ Instances' = Instances /\ xfers'[x] = t
  BY <1>2, InactivateEffect
<1>4. PICK h \in Instances \cup {0} :
         /\ \A y \in Instances \ {x, h} : xfers'[y] = xfers[y]
         /\ h # 0 => /\ h # x /\ h \in Instances /\ ~xfers[h].started
                     /\ xfers'[h] = [xfers[h] EXCEPT !.started = TRUE]
                     /\ waiting # <<>> /\ h = Head(waiting) /\ waiting' = Tail(waiting)
                     /\ active' = active
         /\ h = 0 => waiting = <<>> /\ waiting' = <<>> /\ active' = active - 1
  BY <1>2, InactivateEffect
<1>5. h # 0 => /\ xfers'[h].started /\ xfers'[h].key = xfers[h].key
               /\ xfers'[h].watchers = xfers[h].watchers /\ xfers'[h].cancelled = xfers[h].cancelled
               /\ xfers'[h].phase = xfers[h].phase /\ xfers'[h].ok = xfers[h].ok
               /\ xfers'[h].inactive = xfers[h].inactive /\ xfers'[h].manager = xfers[h].manager
               /\ xfers'[h].released = xfers[h].released
               /\ xfers[h].phase = "wait" /\ xfers[h].inactive = "open" /\ xfers[h].manager = "tracking"
  <2> SUFFICES ASSUME h # 0
               PROVE  /\ xfers'[h].started /\ xfers'[h].key = xfers[h].key
                      /\ xfers'[h].watchers = xfers[h].watchers /\ xfers'[h].cancelled = xfers[h].cancelled
                      /\ xfers'[h].phase = xfers[h].phase /\ xfers'[h].ok = xfers[h].ok
                      /\ xfers'[h].inactive = xfers[h].inactive /\ xfers'[h].manager = xfers[h].manager
                      /\ xfers'[h].released = xfers[h].released
                      /\ xfers[h].phase = "wait" /\ xfers[h].inactive = "open" /\ xfers[h].manager = "tracking"
    OBVIOUS
  <2>1. h \in Instances /\ ~xfers[h].started /\ xfers'[h] = [xfers[h] EXCEPT !.started = TRUE]
    BY <1>4
  <2>2. xfers[h] \in Xfers /\ XferOK(h)
    BY <1>1, <2>1 DEF DownloadInv
  <2>3. xfers[h].phase = "wait" /\ xfers[h].inactive = "open" /\ xfers[h].manager = "tracking"
    BY <2>1, <2>2 DEF XferOK
  <2>4. /\ xfers'[h].started /\ xfers'[h].key = xfers[h].key
        /\ xfers'[h].watchers = xfers[h].watchers /\ xfers'[h].cancelled = xfers[h].cancelled
        /\ xfers'[h].phase = xfers[h].phase /\ xfers'[h].ok = xfers[h].ok
        /\ xfers'[h].inactive = xfers[h].inactive /\ xfers'[h].manager = xfers[h].manager
        /\ xfers'[h].released = xfers[h].released
    BY <2>1, <2>2 DEF Xfers
  <2> QED
    BY <2>3, <2>4
<1>6. TypeOK'
  <2>1. waiting' \in Seq(Nat) /\ active' \in Int
    <3>1. CASE h = 0
      BY <1>1, <1>4, <3>1
    <3>2. CASE h # 0
      <4>1. waiting # <<>> /\ waiting' = Tail(waiting) /\ active' = active
        BY <1>4, <3>2
      <4>2. waiting \in Seq(Nat) /\ active \in Int
        BY <1>1
      <4> QED
        BY <4>1, <4>2
    <3> QED
      BY <3>1, <3>2
  <2>2. transfers' \in [Keys -> Nat]
    BY <1>1
  <2> QED
    BY <1>1, <1>3, <2>1, <2>2 DEF TypeOK
<1>7. \A y \in Instances : y # x => XferOK(y)'
  <2> SUFFICES ASSUME NEW y \in Instances, y # x
               PROVE  XferOK(y)'
    OBVIOUS
  <2>1. XferOK(y)
    BY DEF DownloadInv
  <2>2. xfers[y].manager = "tracking" => transfers'[xfers[y].key] = y
    BY <1>1, <1>2, <2>1 DEF XferOK
  <2>3. CASE y = h
    BY <1>1, <1>5, <2>1, <2>2, <2>3 DEF XferOK
  <2>4. CASE y # h
    BY <1>4, <2>1, <2>2, <2>4 DEF XferOK
  <2> QED
    BY <2>3, <2>4
<1>8. XferOK(x)'
  BY <1>1, <1>2, <1>3 DEF XferOK
<1>9. TransfersOK'
  <2> SUFFICES ASSUME NEW k \in Keys, transfers'[k] # 0
               PROVE  /\ transfers'[k] \in Instances
                      /\ xfers'[transfers'[k]].key = k /\ xfers'[transfers'[k]].manager = "tracking"
    BY <1>3 DEF TransfersOK
  <2>1. transfers'[k] = transfers[k] /\ (k = xfers[x].key => t.manager = "tracking")
    BY <1>1
  <2>2. /\ transfers[k] \in Instances
        /\ xfers[transfers[k]].key = k /\ xfers[transfers[k]].manager = "tracking"
    BY <2>1 DEF DownloadInv, TransfersOK
  <2>3. CASE transfers[k] = x
    BY <1>3, <2>1, <2>2, <2>3
  <2>4. CASE transfers[k] # x
    BY <1>4, <1>5, <2>1, <2>2, <2>4
  <2> QED
    BY <2>3, <2>4
<1>10. WaitingOK'
  <2>1. CASE h = 0
    BY <1>4, <2>1 DEF WaitingOK
  <2>2. CASE h # 0
    <3>1. waiting # <<>> /\ waiting[1] = h /\ waiting' = Tail(waiting)
      BY <1>1, <1>4, <2>2
    <3>2. /\ Len(waiting) \in Nat \ {0} /\ DOMAIN waiting' = 1 .. Len(waiting) - 1
          /\ \A i \in DOMAIN waiting' : waiting'[i] = waiting[i + 1] /\ i + 1 \in DOMAIN waiting /\ i + 1 # 1
      BY <1>1, <3>1
    <3>3. 1 \in DOMAIN waiting
      BY <1>1, <3>2
    <3>4. \A i \in DOMAIN waiting' : waiting'[i] # h /\ waiting'[i] \in Instances /\ ~xfers[waiting'[i]].started
      BY <3>1, <3>2, <3>3 DEF DownloadInv, WaitingOK
    <3>5. \A i \in DOMAIN waiting' : xfers'[waiting'[i]] = xfers[waiting'[i]]
      BY <1>2, <1>4, <3>4
    <3>6. \A i, j \in DOMAIN waiting' : waiting'[i] = waiting'[j] => i = j
      <4> SUFFICES ASSUME NEW i \in DOMAIN waiting', NEW j \in DOMAIN waiting', waiting'[i] = waiting'[j]
                   PROVE  i = j
        OBVIOUS
      <4>1. i + 1 = j + 1
        BY <3>2 DEF DownloadInv, WaitingOK
      <4>2. i \in Int /\ j \in Int
        BY <3>2
      <4> QED
        BY <4>1, <4>2
    <3> QED
      BY <1>3, <3>4, <3>5, <3>6 DEF WaitingOK
  <2> QED
    BY <2>1, <2>2
<1>11. SlotsCounted'
  <2> DEFINE S == {y \in Instances : HasSlot(y)}
             After == {y \in Instances : xfers'[y].started /\ xfers'[y].inactive # "seen"
                                           /\ xfers'[y].manager = "tracking"}
  <2>1. IsFiniteSet(S) /\ Cardinality(S) \in Nat /\ active = Cardinality(S) /\ x \in S
    BY <1>1, SlotsFinite DEF DownloadInv, SlotsCounted
  <2>2. SlotsCounted' <=> active' = Cardinality(After)
    BY <1>3 DEF SlotsCounted, HasSlot
  <2>3. x \notin After
    BY <1>3
  <2>4. \A y \in Instances \ {x, h} : y \in After <=> y \in S
    BY <1>4 DEF HasSlot
  <2>5. h # 0 => h \in After /\ h \notin S /\ h # x
    BY <1>4, <1>5 DEF HasSlot
  <2>6. IsFiniteSet(S \ {x}) /\ Cardinality(S \ {x}) = active - 1
    BY <2>1, FS_RemoveElement
  <2>7. CASE h = 0
    <3>1. After = S \ {x}
      BY <1>1, <2>3, <2>4, <2>7
    <3> QED
      BY <1>4, <2>2, <2>6, <2>7, <3>1
  <2>8. CASE h # 0
    <3>1. After = (S \ {x}) \cup {h}
      BY <2>3, <2>4, <2>5, <2>8
    <3>2. h \notin S \ {x}
      BY <2>5, <2>8
    <3>3. Cardinality((S \ {x}) \cup {h}) = active - 1 + 1
      BY <2>6, <3>2, FS_AddElement
    <3>4. active' = active /\ active - 1 + 1 = active
      BY <1>1, <1>4, <2>8
    <3> HIDE DEF S, After
    <3> QED
      BY <2>2, <3>1, <3>3, <3>4
  <2> QED
    BY <2>7, <2>8
<1>12. \A p \in Pulls : PullOK(p)'
  <2> SUFFICES ASSUME NEW p \in Pulls
               PROVE  PullOK(p)'
    OBVIOUS
  <2>1. \A y \in Instances : /\ xfers'[y].key = xfers[y].key
                             /\ xfers[y].ok => xfers'[y].ok
                             /\ p \in xfers[y].watchers => p \in xfers'[y].watchers
    <3> SUFFICES ASSUME NEW y \in Instances
                 PROVE  /\ xfers'[y].key = xfers[y].key
                        /\ xfers[y].ok => xfers'[y].ok
                        /\ p \in xfers[y].watchers => p \in xfers'[y].watchers
      OBVIOUS
    <3>1. CASE y = x
      BY <1>3, <3>1
    <3>2. CASE y = h
      BY <1>1, <1>5, <3>2
    <3>3. CASE y # x /\ y # h
      BY <1>4, <3>3
    <3> QED
      BY <3>1, <3>2, <3>3
  <2> QED
    BY <1>1, <1>3, <2>1, PullKeeps DEF DownloadInv
<1> QED
  BY <1>3, <1>6, <1>7, <1>8, <1>9, <1>10, <1>11, <1>12 DEF DownloadInv

\* The transfer no longer moves data: its slot goes to the first in line.
LEMMA SeeInactiveKeeps ==
  ASSUME DownloadInv, NEW x \in Instances, SeeInactive(x)
  PROVE  DownloadInv'
<1>1. TypeOK /\ xfers[x] \in Xfers /\ XferOK(x)
  BY InstanceType DEF DownloadInv
<1>2. PICK t : t = [xfers[x] EXCEPT !.inactive = "seen"]
  OBVIOUS
<1>3. /\ xfers[x].manager = "tracking" /\ xfers[x].inactive = "closed" /\ DoInactivate(x, t)
      /\ UNCHANGED <<want, limit, transfers, pulls, refs>>
  BY <1>2 DEF SeeInactive
<1>4. xfers[x].phase \notin {"wait", "fetch", "retry"}
  BY <1>1, <1>3 DEF XferOK
<1>5. HasSlot(x)
  BY <1>3, <1>4, Started DEF HasSlot
<1>6. /\ t \in Xfers /\ t.inactive = "seen" /\ t.manager = "tracking"
      /\ t.key = xfers[x].key /\ t.started = xfers[x].started /\ t.watchers = xfers[x].watchers
      /\ t.cancelled = xfers[x].cancelled /\ t.released = xfers[x].released
      /\ t.phase = xfers[x].phase /\ t.ok = xfers[x].ok
  BY <1>1, <1>2, <1>3 DEF Xfers
<1> QED
  BY <1>3, <1>4, <1>5, <1>6, InactivateKeeps

\* The transfer is taken out of the map when its slot was given up before.
LEMMA ReapSeen ==
  ASSUME DownloadInv, NEW x \in Instances, NEW t \in Xfers, xfers' = [xfers EXCEPT ![x] = t],
         xfers[x].manager = "tracking", xfers[x].phase = "done", xfers[x].inactive = "seen",
         t.manager = "closing", t.inactive = "seen",
         t.key = xfers[x].key, t.started = xfers[x].started, t.watchers = xfers[x].watchers,
         t.cancelled = xfers[x].cancelled, t.released = xfers[x].released,
         t.phase = xfers[x].phase, t.ok = xfers[x].ok,
         transfers' = [transfers EXCEPT ![xfers[x].key] = 0],
         UNCHANGED <<want, limit, active, waiting, pulls, refs>>
  PROVE  DownloadInv'
<1>1. /\ TypeOK /\ transfers \in [Keys -> Nat] /\ Instances \subseteq Nat \ {0}
      /\ \A y \in Instances : xfers[y].key \in Keys
  <2>1. TypeOK /\ Instances \subseteq Nat \ {0} /\ \A y \in Instances : xfers[y] \in Xfers
    BY InstanceType DEF DownloadInv
  <2> QED
    BY <2>1 DEF TypeOK, Xfers
<1>2. /\ xfers' \in Seq(Xfers) /\ Instances' = Instances
      /\ xfers'[x] = t /\ \A y \in Instances \ {x} : xfers'[y] = xfers[y]
  BY <1>1, OneBecomes
<1>3. TypeOK'
  <2>1. transfers' \in [Keys -> Nat]
    BY <1>1
  <2> QED
    BY <1>1, <1>2, <2>1 DEF TypeOK
<1>4. \A y \in Instances : y # x => XferOK(y)'
  <2> SUFFICES ASSUME NEW y \in Instances, y # x
               PROVE  XferOK(y)'
    OBVIOUS
  <2>1. XferOK(y) /\ XferOK(x)
    BY DEF DownloadInv
  <2>2. xfers[y].manager = "tracking" => transfers'[xfers[y].key] = y
    BY <1>1, <2>1 DEF XferOK
  <2> QED
    BY <1>2, <2>1, <2>2 DEF XferOK
<1>5. XferOK(x)'
  <2>1. XferOK(x)
    BY DEF DownloadInv
  <2> QED
    BY <1>2, <2>1 DEF XferOK
<1>6. TransfersOK'
  <2> SUFFICES ASSUME NEW k \in Keys, transfers'[k] # 0
               PROVE  /\ transfers'[k] \in Instances
                      /\ xfers'[transfers'[k]].key = k /\ xfers'[transfers'[k]].manager = "tracking"
    BY <1>2 DEF TransfersOK
  <2>1. transfers'[k] = transfers[k] /\ k # xfers[x].key
    BY <1>1
  <2>2. /\ transfers[k] \in Instances
        /\ xfers[transfers[k]].key = k /\ xfers[transfers[k]].manager = "tracking"
    BY <2>1 DEF DownloadInv, TransfersOK
  <2> QED
    BY <1>2, <2>1, <2>2
<1>7. WaitingOK'
  BY <1>2 DEF DownloadInv, WaitingOK
<1>8. SlotsCounted'
  <2>1. \A y \in Instances : HasSlot(y)' = HasSlot(y)
    <3>1. HasSlot(x)' = HasSlot(x)
      BY <1>2 DEF HasSlot
    <3> QED
      BY <1>2, <3>1 DEF HasSlot
  <2> QED
    BY <1>2, <2>1, SlotsSame DEF DownloadInv
<1>9. \A p \in Pulls : PullOK(p)'
  <2> SUFFICES ASSUME NEW p \in Pulls
               PROVE  PullOK(p)'
    OBVIOUS
  <2>1. \A y \in Instances : /\ xfers'[y].key = xfers[y].key
                             /\ xfers[y].ok => xfers'[y].ok
                             /\ p \in xfers[y].watchers => p \in xfers'[y].watchers
    BY <1>2
  <2> QED
    BY <1>1, <1>2, <2>1, PullKeeps DEF DownloadInv
<1> QED
  BY <1>2, <1>3, <1>4, <1>5, <1>6, <1>7, <1>8, <1>9 DEF DownloadInv

\* The transfer has ended: it is taken out of the map, and gives up its slot unless it did.
LEMMA ReapKeeps ==
  ASSUME DownloadInv, NEW x \in Instances, Reap(x)
  PROVE  DownloadInv'
<1>1. TypeOK /\ xfers[x] \in Xfers
  BY InstanceType DEF DownloadInv
<1>2. PICK t : t = [xfers[x] EXCEPT !.manager = "closing"]
  OBVIOUS
<1>3. /\ xfers[x].manager = "tracking" /\ xfers[x].phase = "done"
      /\ transfers' = [transfers EXCEPT ![xfers[x].key] = 0]
      /\ UNCHANGED <<want, limit, pulls, refs>>
      /\ IF xfers[x].inactive # "seen" THEN DoInactivate(x, t)
         ELSE xfers' = [xfers EXCEPT ![x] = t] /\ UNCHANGED <<active, waiting>>
  BY <1>2 DEF Reap, Done
<1>4. /\ t \in Xfers /\ t.inactive = xfers[x].inactive /\ t.manager = "closing"
      /\ t.key = xfers[x].key /\ t.started = xfers[x].started /\ t.watchers = xfers[x].watchers
      /\ t.cancelled = xfers[x].cancelled /\ t.released = xfers[x].released
      /\ t.phase = xfers[x].phase /\ t.ok = xfers[x].ok
  BY <1>1, <1>2 DEF Xfers
<1>5. CASE xfers[x].inactive = "seen"
  BY <1>3, <1>4, <1>5, ReapSeen
<1>6. CASE xfers[x].inactive # "seen"
  <2>1. HasSlot(x)
    BY <1>3, <1>6, Started DEF HasSlot
  <2> QED
    BY <1>3, <1>4, <1>6, <2>1, InactivateKeeps
<1> QED
  BY <1>5, <1>6

\* The manager lets the transfer go, and releases it when nobody watches it.
LEMMA CloseEnds ==
  ASSUME DownloadInv, NEW x \in Instances, Close(x)
  PROVE  DownloadInv'
<1>1. TypeOK /\ xfers[x] \in Xfers /\ XferOK(x) /\ DOMAIN xfers = Instances
  BY InstanceType DEF DownloadInv
<1>2. PICK b \in BOOLEAN : b = (xfers[x].watchers = {})
  OBVIOUS
<1>3. PICK t : t = [xfers[x] EXCEPT !.manager = "ended", !.released = b]
  OBVIOUS
<1>4. xfers[x].manager = "closing" /\ UNCHANGED <<want, limit, active, transfers, waiting, pulls, refs>>
  BY DEF Close
<1>5. xfers' = [xfers EXCEPT ![x] = t]
  BY <1>1, <1>2, <1>3 DEF Close
<1>6. /\ t \in Xfers /\ t.inactive = xfers[x].inactive /\ t.manager = "ended"
      /\ t.key = xfers[x].key /\ t.started = xfers[x].started /\ t.watchers = xfers[x].watchers
      /\ t.cancelled = xfers[x].cancelled /\ t.released = b
      /\ t.phase = xfers[x].phase /\ t.ok = xfers[x].ok
  BY <1>1, <1>3 DEF Xfers
<1>7. /\ xfers'[x] = t /\ Instances' = Instances
      /\ \A y \in Instances \ {x} : xfers'[y] = xfers[y]
  BY <1>1, <1>5, <1>6, OneBecomes
<1>8. XferOK(x)'
  BY <1>1, <1>2, <1>4, <1>6, <1>7 DEF XferOK
<1>9. \A p \in Pulls : PullOK(p)'
  <2> SUFFICES ASSUME NEW p \in Pulls
               PROVE  PullOK(p)'
    OBVIOUS
  <2>1. \A y \in Instances : /\ xfers'[y].key = xfers[y].key
                             /\ xfers[y].ok => xfers'[y].ok
                             /\ p \in xfers[y].watchers => p \in xfers'[y].watchers
    BY <1>6, <1>7
  <2> QED
    BY <1>1, <1>4, <1>7, <2>1, PullKeeps DEF DownloadInv
<1>10. pulls' \in [Pulls -> Calls] /\ refs' \in [Keys -> SUBSET (Pulls \cup Nat)]
  BY <1>1, <1>4 DEF TypeOK
<1>11. \A y \in Instances, k \in Keys : y \in refs[k] => y \in refs'[k]
  BY <1>4
<1> QED
  BY <1>4, <1>5, <1>6, <1>8, <1>9, <1>10, <1>11, OneMoves
-------------------------------------------------------------------------------
(* The calls of Download                                                        *)

\* A step that moves no transfer: calls go on, and take or give back layers.
LEMMA CallMoves ==
  ASSUME DownloadInv, UNCHANGED <<want, active, transfers, waiting, xfers>>, limit' \in Limits,
         pulls' \in [Pulls -> Calls], refs' \in [Keys -> SUBSET (Pulls \cup Nat)],
         \A y \in Instances, k \in Keys : y \in refs[k] => y \in refs'[k],
         \A p \in Pulls : PullOK(p)'
  PROVE  DownloadInv'
<1>1. TypeOK /\ Instances' = Instances
  BY DEF DownloadInv, Instances
<1>2. TypeOK'
  BY <1>1 DEF TypeOK
<1>3. \A y \in Instances' : XferOK(y)'
  BY <1>1, OthersKeep DEF DownloadInv
<1>4. TransfersOK' /\ WaitingOK'
  BY <1>1 DEF DownloadInv, TransfersOK, WaitingOK
<1>5. \A y \in Instances : HasSlot(y)' = HasSlot(y)
  BY DEF HasSlot
<1>6. SlotsCounted'
  BY <1>1, <1>5, SlotsSame DEF DownloadInv
<1> QED
  BY <1>2, <1>3, <1>4, <1>6 DEF DownloadInv

\* One call becomes u.
LEMMA OneCall ==
  ASSUME TypeOK, NEW p \in Pulls, NEW u \in Calls, Put(p, u)
  PROVE  /\ pulls' \in [Pulls -> Calls] /\ pulls'[p] = u
         /\ \A q \in Pulls \ {p} : pulls'[q] = pulls[q]
  BY DEF TypeOK, Put

\* A call becomes u while the layers and the transfers stay as they are.
LEMMA OneCallMoves ==
  ASSUME DownloadInv, NEW p \in Pulls, NEW u \in Calls, Put(p, u), PullOK(p)',
         UNCHANGED <<want, limit, active, transfers, waiting, xfers, refs>>
  PROVE  DownloadInv'
<1>1. /\ TypeOK /\ Instances' = Instances /\ pulls' \in [Pulls -> Calls]
      /\ \A q \in Pulls \ {p} : pulls'[q] = pulls[q]
  BY OneCall DEF DownloadInv, Instances
<1>2. \A q \in Pulls : PullOK(q)'
  <2> SUFFICES ASSUME NEW q \in Pulls, q # p
               PROVE  PullOK(q)'
    OBVIOUS
  <2> QED
    BY <1>1, PullKeeps DEF DownloadInv
<1>3. refs' \in [Keys -> SUBSET (Pulls \cup Nat)] /\ limit' \in Limits
  BY <1>1 DEF TypeOK
<1> QED
  BY <1>1, <1>2, <1>3, CallMoves

\* The limit is changed.
LEMMA SetConcurrencyKeeps ==
  ASSUME DownloadInv, NEW n \in Limits, SetConcurrency(n)
  PROVE  DownloadInv'
<1>1. limit' \in Limits /\ UNCHANGED <<want, active, transfers, waiting, xfers, pulls, refs>>
  BY DEF SetConcurrency
<1>2. TypeOK /\ Instances' = Instances
  BY <1>1 DEF DownloadInv, Instances
<1>3. pulls' \in [Pulls -> Calls] /\ refs' \in [Keys -> SUBSET (Pulls \cup Nat)]
  BY <1>1, <1>2 DEF TypeOK
<1>4. \A p \in Pulls : PullOK(p)'
  BY <1>1, <1>2, PullKeeps DEF DownloadInv
<1> QED
  BY <1>1, <1>3, <1>4, CallMoves

\* The layer is in the store, and the call holds it instead of the one below; or not.
LEMMA PullCheckKeeps ==
  ASSUME DownloadInv, NEW p \in Pulls, PullCheck(p)
  PROVE  DownloadInv'
<1>1. /\ TypeOK /\ PullOK(p) /\ pulls[p] \in Calls /\ pulls[p].pc = "check" /\ pulls[p].dls = <<>>
      /\ refs \in [Keys -> SUBSET (Pulls \cup Nat)]
      /\ UNCHANGED <<want, limit, active, transfers, waiting, xfers>> /\ Instances' = Instances
  BY DEF DownloadInv, TypeOK, PullCheck, PullOK, ProgressOK, Instances
<1>2. /\ Key(p) \in Keys /\ At(p) \in 1..Len(want[p]) /\ Len(want[p]) \in Nat
      /\ Key(p) = SubSeq(want[p], 1, At(p)) /\ At(p) = pulls[p].layer + 1 /\ pulls[p].layer \in Nat
  <2>1. Key(p) \in Keys /\ At(p) \in 1..Len(want[p]) /\ Len(want[p]) \in Nat
    BY <1>1, KeyOfCall DEF PullOK
  <2>2. pulls[p].layer \in Nat /\ Len(pulls[p].dls) = 0
    BY <1>1 DEF Calls
  <2> QED
    BY <2>1, <2>2 DEF Key, At
<1>3. CASE /\ refs' = [j \in Keys |-> IF j = Key(p) THEN refs[j] \cup {p} ELSE refs[j] \ {p}]
           /\ Put(p, Onward(p, [pulls[p] EXCEPT !.layer = At(p)], "check"))
  <2>1. PICK pc : pc = IF At(p) < Len(want[p]) THEN "check" ELSE "have"
    OBVIOUS
  <2>2. PICK u : u = [pulls[p] EXCEPT !.layer = At(p), !.pc = pc]
    OBVIOUS
  <2>3. /\ u \in Calls /\ u.pc = pc /\ u.layer = At(p) /\ u.dls = <<>>
        /\ u.todo = pulls[p].todo
    <3>1. At(p) \in Nat /\ pc \in {"check", "have"}
      BY <1>2, <2>1
    <3> QED
      BY <1>1, <2>2, <3>1 DEF Calls
  <2>4. Onward(p, [pulls[p] EXCEPT !.layer = At(p)], "check") = u
    BY <1>1, <2>1, <2>2 DEF Onward, Calls
  <2>5. /\ pulls' \in [Pulls -> Calls] /\ pulls'[p] = u
        /\ \A q \in Pulls \ {p} : pulls'[q] = pulls[q]
    BY <1>1, <1>3, <2>3, <2>4, OneCall
  <2>6. /\ refs' \in [Keys -> SUBSET (Pulls \cup Nat)] /\ p \in refs'[Key(p)]
        /\ \A k \in Keys : refs[k] \ {p} \subseteq refs'[k]
    BY <1>1, <1>2, <1>3
  <2>7. \A y \in Instances, k \in Keys : y \in refs[k] => y \in refs'[k]
    BY <1>1, <2>6, InstanceType, PullsAssumption
  <2>8. DownloadsOK(p)'
    BY <1>1, <1>2, <2>3, <2>5 DEF PullOK, DownloadsOK
  <2>9. ProgressOK(p)'
    <3>1. want[p] # <<>>
      BY <1>2
    <3> QED
      BY <1>1, <1>2, <2>1, <2>3, <2>5, <3>1 DEF ProgressOK
  <2>10. WatchesOK(p)'
    <3>1. pc = "have" => Key(p) = want[p]
      <4>1. pc = "have" => At(p) = Len(want[p])
        BY <1>2, <2>1
      <4>2. want[p] # <<>>
        BY <1>2
      <4> QED
        BY <1>1, <1>2, <4>1, <4>2, WholeStack
    <3> QED
      BY <1>1, <2>1, <2>3, <2>5, <2>6, <3>1 DEF WatchesOK
  <2>11. \A q \in Pulls : PullOK(q)'
    <3> SUFFICES ASSUME NEW q \in Pulls, q # p
                 PROVE  PullOK(q)'
      BY <2>8, <2>9, <2>10 DEF PullOK
    <3>1. \A k \in Keys : q \in refs[k] => q \in refs'[k]
      BY <2>6
    <3> QED
      BY <1>1, <2>5, <3>1, PullKeeps DEF DownloadInv
  <2>12. limit' \in Limits
    BY <1>1 DEF TypeOK
  <2> QED
    BY <1>1, <2>5, <2>6, <2>7, <2>11, <2>12, CallMoves
<1>4. CASE Put(p, [pulls[p] EXCEPT !.pc = "transfer"]) /\ UNCHANGED refs
  <2>1. PICK u : u = [pulls[p] EXCEPT !.pc = "transfer"]
    OBVIOUS
  <2>2. /\ u \in Calls /\ u.pc = "transfer" /\ u.layer = pulls[p].layer /\ u.dls = <<>>
        /\ u.todo = pulls[p].todo
    BY <1>1, <2>1 DEF Calls
  <2>3. pulls'[p] = u
    BY <1>1, <1>4, <2>1, <2>2, OneCall
  <2>4. PullOK(p)'
    BY <1>1, <1>4, <2>2, <2>3 DEF PullOK, DownloadsOK, ProgressOK, WatchesOK
  <2> QED
    BY <1>1, <1>4, <2>1, <2>2, <2>4, OneCallMoves
<1> QED
  BY <1>3, <1>4 DEF PullCheck

\* What Append gives.
LEMMA Appended ==
  ASSUME NEW S, NEW s \in Seq(S), NEW e \in S
  PROVE  /\ Append(s, e) \in Seq(S) /\ Len(Append(s, e)) = Len(s) + 1 /\ Append(s, e) # <<>>
         /\ DOMAIN Append(s, e) = 1 .. Len(s) + 1
         /\ \A i \in DOMAIN s : Append(s, e)[i] = s[i]
         /\ Append(s, e)[Len(s) + 1] = e
  OBVIOUS

\* A call that watches transfer x for its layer, and goes on.
LEMMA WatchingKeeps ==
  ASSUME TypeOK, NEW p \in Pulls, PullOK(p), pulls[p].pc = "transfer", want' = want,
         NEW x \in Nat, Watching(p, x), Instances \subseteq Instances', x \in Instances',
         xfers'[x].key = Key(p), p \in xfers'[x].watchers,
         \A y \in Instances : /\ xfers'[y].key = xfers[y].key
                              /\ p \in xfers[y].watchers => p \in xfers'[y].watchers
  PROVE  /\ pulls' \in [Pulls -> Calls] /\ PullOK(p)'
         /\ \A q \in Pulls \ {p} : pulls'[q] = pulls[q]
<1>1. /\ pulls[p] \in Calls /\ pulls[p].layer \in Nat /\ pulls[p].dls \in Seq(Nat)
      /\ Len(pulls[p].dls) \in Nat /\ DOMAIN pulls[p].dls = 1..Len(pulls[p].dls)
  BY DEF TypeOK, Calls
<1>2. /\ At(p) \in 1..Len(want[p]) /\ Len(want[p]) \in Nat
      /\ Key(p) = SubSeq(want[p], 1, pulls[p].layer + Len(pulls[p].dls) + 1)
      /\ At(p) = pulls[p].layer + Len(pulls[p].dls) + 1
  BY KeyOfCall DEF PullOK, At
<1>3. PICK d : d = Append(pulls[p].dls, x)
  OBVIOUS
<1>4. /\ d \in Seq(Nat) /\ Len(d) = Len(pulls[p].dls) + 1 /\ d # <<>>
      /\ DOMAIN d = 1 .. Len(pulls[p].dls) + 1
      /\ \A i \in DOMAIN pulls[p].dls : d[i] = pulls[p].dls[i]
      /\ d[Len(pulls[p].dls) + 1] = x
  BY <1>1, <1>3, Appended
<1>5. PICK pc : pc = IF At(p) < Len(want[p]) THEN "transfer" ELSE "select"
  OBVIOUS
<1>6. PICK u : u = [pulls[p] EXCEPT !.dls = d, !.pc = pc]
  OBVIOUS
<1>7. /\ u \in Calls /\ u.pc = pc /\ u.layer = pulls[p].layer /\ u.dls = d
      /\ u.todo = pulls[p].todo
  <2>1. pc \in {"transfer", "select"}
    BY <1>5
  <2> QED
    BY <1>1, <1>4, <1>6, <2>1 DEF Calls
<1>8. Onward(p, [pulls[p] EXCEPT !.dls = Append(@, x)], "transfer") = u
  <2>1. [pulls[p] EXCEPT !.dls = Append(@, x)] = [pulls[p] EXCEPT !.dls = d]
    BY <1>1, <1>3 DEF Calls
  <2>2. [pulls[p] EXCEPT !.dls = d].dls = d
    BY <1>1 DEF Calls
  <2>3. Onward(p, [pulls[p] EXCEPT !.dls = d], "transfer") = [[pulls[p] EXCEPT !.dls = d] EXCEPT !.pc = pc]
    BY <1>4, <1>5, <2>2 DEF Onward
  <2> QED
    BY <1>6, <2>1, <2>3
<1>9. /\ pulls' \in [Pulls -> Calls] /\ pulls'[p] = u
      /\ \A q \in Pulls \ {p} : pulls'[q] = pulls[q]
  BY <1>7, <1>8, OneCall DEF Watching
<1>10. u.layer + Len(u.dls) = At(p) /\ At(p) <= Len(want[p])
  <2>1. \A l, n \in Nat : l + (n + 1) = l + n + 1
    OBVIOUS
  <2>2. u.layer + Len(u.dls) = pulls[p].layer + (Len(pulls[p].dls) + 1)
    BY <1>4, <1>7
  <2>3. u.layer + Len(u.dls) = At(p)
    BY <1>1, <1>2, <2>1, <2>2
  <2> QED
    BY <1>2, <2>3
<1>11. \A i \in DOMAIN d : i \in DOMAIN pulls[p].dls \/ i = Len(pulls[p].dls) + 1
  BY <1>1, <1>4
<1>12. DownloadsOK(p)'
  <2>1. u.layer + Len(u.dls) <= Len(want[p])
    BY <1>10
  <2>2. \A i \in DOMAIN d : d[i] \in Instances' /\ xfers'[d[i]].key = SubSeq(want[p], 1, u.layer + i)
    <3> SUFFICES ASSUME NEW i \in DOMAIN d
                 PROVE  d[i] \in Instances' /\ xfers'[d[i]].key = SubSeq(want[p], 1, u.layer + i)
      OBVIOUS
    <3>1. CASE i \in DOMAIN pulls[p].dls
      BY <1>4, <1>7, <3>1 DEF PullOK, DownloadsOK
    <3>2. CASE i = Len(pulls[p].dls) + 1
      <4>1. u.layer + i = At(p)
        BY <1>4, <1>7, <1>10, <3>2
      <4> QED
        BY <1>2, <1>4, <3>2, <4>1
    <3> QED
      BY <1>11, <3>1, <3>2
  <2>3. \A i \in DOMAIN u.todo : u.todo[i] \in Instances' \cup {0}
    BY <1>7 DEF PullOK, DownloadsOK
  <2> QED
    BY <1>7, <1>9, <2>1, <2>2, <2>3 DEF DownloadsOK
<1>13. ProgressOK(p)'
  <2>1. u.layer + Len(u.dls) = At(p) /\ want[p] # <<>>
    <3>1. Len(want[p]) # 0
      BY <1>2
    <3> QED
      BY <1>10, <3>1
  <2>2. (pc = "transfer" /\ At(p) < Len(want[p])) \/ (pc = "select" /\ At(p) = Len(want[p]))
    <3>1. At(p) \in Nat /\ Len(want[p]) \in Nat /\ At(p) <= Len(want[p])
      BY <1>2
    <3>2. At(p) < Len(want[p]) \/ At(p) = Len(want[p])
      BY <3>1
    <3>3. CASE At(p) < Len(want[p])
      BY <1>5, <3>3, Zenon
    <3>4. CASE ~(At(p) < Len(want[p]))
      BY <1>5, <3>2, <3>4, Zenon
    <3> QED
      BY <3>3, <3>4
  <2> QED
    BY <1>4, <1>7, <1>9, <2>1, <2>2 DEF ProgressOK
<1>14. WatchesOK(p)'
  <2>1. pc \in {"transfer", "select"}
    BY <1>5
  <2>2. \A i \in DOMAIN d : p \in xfers'[d[i]].watchers
    BY <1>4, <1>11 DEF PullOK, DownloadsOK, WatchesOK
  <2> QED
    BY <1>7, <1>9, <2>1, <2>2 DEF WatchesOK
<1> QED
  BY <1>9, <1>12, <1>13, <1>14 DEF PullOK

\* The call joins the transfer of its layer.
LEMMA JoinKeeps ==
  ASSUME DownloadInv, NEW p \in Pulls, Join(p)
  PROVE  DownloadInv'
<1>1. TypeOK /\ PullOK(p) /\ pulls[p].pc = "transfer" /\ Key(p) \in Keys
  BY KeyOfCall DEF DownloadInv, PullOK, Join
<1>2. PICK x : x = transfers[Key(p)]
  OBVIOUS
<1>3. /\ ~xfers[x].cancelled /\ Watching(p, x)
      /\ xfers' = [xfers EXCEPT ![x].watchers = @ \cup {p}]
      /\ UNCHANGED <<want, limit, active, transfers, waiting, refs>>
  BY <1>2 DEF Join
<1>4. /\ x \in Instances /\ x \in Nat /\ xfers[x].key = Key(p) /\ xfers[x].manager = "tracking"
      /\ xfers[x] \in Xfers /\ XferOK(x) /\ DOMAIN xfers = Instances
  <2>1. x \in Instances /\ xfers[x].key = Key(p) /\ xfers[x].manager = "tracking"
    BY <1>1, <1>2 DEF Join, DownloadInv, TransfersOK
  <2> QED
    BY <1>1, <2>1, InstanceType DEF DownloadInv
<1>5. PICK t : t = [xfers[x] EXCEPT !.watchers = @ \cup {p}]
  OBVIOUS
<1>6. /\ t \in Xfers /\ t.inactive = xfers[x].inactive /\ t.manager = "tracking"
      /\ t.key = xfers[x].key /\ t.started = xfers[x].started /\ t.watchers = xfers[x].watchers \cup {p}
      /\ ~t.cancelled /\ t.released = xfers[x].released
      /\ t.phase = xfers[x].phase /\ t.ok = xfers[x].ok
  BY <1>3, <1>4, <1>5 DEF Xfers
<1>7. xfers' = [xfers EXCEPT ![x] = t]
  BY <1>3, <1>4, <1>5
<1>8. /\ xfers'[x] = t /\ Instances' = Instances
      /\ \A y \in Instances \ {x} : xfers'[y] = xfers[y]
  BY <1>1, <1>4, <1>6, <1>7, OneBecomes
<1>9. XferOK(x)'
  BY <1>3, <1>4, <1>6, <1>8 DEF XferOK
<1>10. \A q \in Pulls, y \in Instances : /\ xfers'[y].key = xfers[y].key
                                         /\ xfers[y].ok => xfers'[y].ok
                                         /\ q \in xfers[y].watchers => q \in xfers'[y].watchers
  BY <1>6, <1>8
<1>11. /\ pulls' \in [Pulls -> Calls] /\ PullOK(p)'
       /\ \A q \in Pulls \ {p} : pulls'[q] = pulls[q]
  <2>1. xfers'[x].key = Key(p) /\ p \in xfers'[x].watchers
    BY <1>4, <1>6, <1>8
  <2> QED
    BY <1>1, <1>3, <1>4, <1>8, <1>10, <2>1, WatchingKeeps
<1>12. \A q \in Pulls : PullOK(q)'
  <2> SUFFICES ASSUME NEW q \in Pulls, q # p
               PROVE  PullOK(q)'
    BY <1>11
  <2> QED
    BY <1>1, <1>3, <1>8, <1>10, <1>11, PullKeeps DEF DownloadInv
<1>13. refs' \in [Keys -> SUBSET (Pulls \cup Nat)]
  BY <1>1, <1>3 DEF TypeOK
<1>14. \A y \in Instances, k \in Keys : y \in refs[k] => y \in refs'[k]
  BY <1>3
<1> QED
  BY <1>3, <1>4, <1>6, <1>7, <1>9, <1>11, <1>12, <1>13, <1>14, OneMoves

\* A transfer is made for a layer that nobody transfers.
LEMMA CreateKeeps ==
  ASSUME DownloadInv, NEW p \in Pulls, Create(p)
  PROVE  DownloadInv'
<1>1. /\ TypeOK /\ PullOK(p) /\ pulls[p].pc = "transfer" /\ Key(p) \in Keys
      /\ transfers \in [Keys -> Nat] /\ transfers[Key(p)] = 0 /\ waiting \in Seq(Nat) /\ active \in Int
      /\ xfers \in Seq(Xfers)
  BY KeyOfCall DEF DownloadInv, PullOK, Create, TypeOK
<1>2. /\ Len(xfers) \in Nat /\ Instances = 1..Len(xfers) /\ Instances \subseteq Nat \ {0}
      /\ \A y \in Instances : xfers[y] \in Xfers /\ xfers[y].key \in Keys
  BY <1>1, InstanceType DEF Instances, Xfers
<1>3. PICK n \in Nat : n = Len(xfers) + 1
  BY <1>2
<1>4. PICK b \in BOOLEAN : b = MayStart
  BY Zenon DEF MayStart
<1>5. PICK t : t = NewTransfer(p, b)
  OBVIOUS
<1>6. /\ t \in Xfers /\ t.key = Key(p) /\ t.watchers = {p} /\ ~t.cancelled /\ t.started = b
      /\ t.phase = "wait" /\ ~t.ok /\ t.inactive = "open" /\ t.manager = "tracking" /\ ~t.released
  <2>1. t \in Xfers
    BY <1>1, <1>5, NewTransferType DEF PullOK
  <2> QED
    BY <1>5, <2>1 DEF NewTransfer
<1>7. /\ xfers' = Append(xfers, t)
      /\ active' = IF b THEN active + 1 ELSE active
      /\ waiting' = IF b THEN waiting ELSE Append(waiting, n)
      /\ transfers' = [transfers EXCEPT ![Key(p)] = n]
      /\ Watching(p, n)
      /\ UNCHANGED <<want, limit, refs>>
  BY <1>3, <1>4, <1>5 DEF Create
<1>8. /\ xfers' \in Seq(Xfers) /\ Len(xfers') = n /\ xfers'[n] = t
      /\ \A y \in Instances : xfers'[y] = xfers[y]
  BY <1>1, <1>2, <1>3, <1>6, <1>7
<1>9. Instances' = Instances \cup {n} /\ n \notin Instances /\ n # 0
  BY <1>2, <1>3, <1>8 DEF Instances
<1>10. /\ pulls' \in [Pulls -> Calls] /\ PullOK(p)'
       /\ \A q \in Pulls \ {p} : pulls'[q] = pulls[q]
  <2>1. xfers'[n].key = Key(p) /\ p \in xfers'[n].watchers
    BY <1>6, <1>8
  <2> QED
    BY <1>1, <1>7, <1>8, <1>9, <2>1, WatchingKeeps
<1>11. TypeOK'
  <2>1. waiting' \in Seq(Nat) /\ active' \in Int
    <3>1. CASE b
      BY <1>1, <1>7, <3>1
    <3>2. CASE ~b
      BY <1>1, <1>7, <3>2
    <3> QED
      BY <3>1, <3>2
  <2>2. transfers' \in [Keys -> Nat]
    BY <1>1, <1>7
  <2> QED
    BY <1>1, <1>7, <1>8, <1>10, <2>1, <2>2 DEF TypeOK
<1>12. \A y \in Instances' : XferOK(y)'
  <2>1. XferOK(n)'
    <3>1. transfers'[Key(p)] = n
      BY <1>1, <1>7
    <3> QED
      BY <1>6, <1>8, <3>1 DEF XferOK
  <2> SUFFICES ASSUME NEW y \in Instances
               PROVE  XferOK(y)'
    BY <1>9, <2>1
  <2>2. XferOK(y)
    BY DEF DownloadInv
  <2>3. xfers[y].manager = "tracking" => transfers'[xfers[y].key] = y
    BY <1>1, <1>2, <1>7, <2>2 DEF XferOK
  <2> QED
    BY <1>7, <1>8, <2>2, <2>3 DEF XferOK
<1>13. TransfersOK'
  <2> SUFFICES ASSUME NEW k \in Keys, transfers'[k] # 0
               PROVE  /\ transfers'[k] \in Instances'
                      /\ xfers'[transfers'[k]].key = k /\ xfers'[transfers'[k]].manager = "tracking"
    BY DEF TransfersOK
  <2>1. CASE k = Key(p)
    <3>1. transfers'[k] = n
      BY <1>1, <1>7, <2>1
    <3> QED
      BY <1>6, <1>8, <1>9, <2>1, <3>1
  <2>2. CASE k # Key(p)
    <3>1. transfers'[k] = transfers[k]
      BY <1>1, <1>7, <2>2
    <3>2. /\ transfers[k] \in Instances
          /\ xfers[transfers[k]].key = k /\ xfers[transfers[k]].manager = "tracking"
      BY <3>1 DEF DownloadInv, TransfersOK
    <3> QED
      BY <1>8, <1>9, <3>1, <3>2
  <2> QED
    BY <2>1, <2>2
<1>14. WaitingOK'
  <2>1. \A i \in DOMAIN waiting : waiting[i] \in Instances' /\ ~xfers'[waiting[i]].started /\ waiting[i] # n
    BY <1>8, <1>9 DEF DownloadInv, WaitingOK
  <2>2. \A i, j \in DOMAIN waiting : waiting[i] = waiting[j] => i = j
    BY DEF DownloadInv, WaitingOK
  <2>3. CASE b
    <3>1. waiting' = waiting
      BY <1>7, <2>3
    <3> QED
      BY <2>1, <2>2, <3>1 DEF WaitingOK
  <2>4. CASE ~b
    <3>1. /\ Len(waiting) \in Nat /\ DOMAIN waiting = 1..Len(waiting) /\ DOMAIN waiting' = 1 .. Len(waiting) + 1
          /\ \A i \in DOMAIN waiting : waiting'[i] = waiting[i]
          /\ waiting'[Len(waiting) + 1] = n
      BY <1>1, <1>7, <2>4
    <3>2. \A i \in DOMAIN waiting' : i \in DOMAIN waiting \/ i = Len(waiting) + 1
      BY <3>1
    <3>3. n \in Instances' /\ ~xfers'[n].started
      BY <1>6, <1>8, <1>9, <2>4
    <3>4. \A i \in DOMAIN waiting' : waiting'[i] \in Instances' /\ ~xfers'[waiting'[i]].started
      BY <2>1, <3>1, <3>2, <3>3
    <3>5. \A i, j \in DOMAIN waiting' : waiting'[i] = waiting'[j] => i = j
      BY <2>1, <2>2, <3>1, <3>2
    <3> QED
      BY <3>4, <3>5 DEF WaitingOK
  <2> QED
    BY <2>3, <2>4
<1>15. SlotsCounted'
  <2> DEFINE S == {y \in Instances : HasSlot(y)}
             After == {y \in Instances' : xfers'[y].started /\ xfers'[y].inactive # "seen"
                                           /\ xfers'[y].manager = "tracking"}
  <2>1. IsFiniteSet(S) /\ Cardinality(S) \in Nat /\ active = Cardinality(S) /\ n \notin S
    BY <1>1, <1>9, SlotsFinite DEF DownloadInv, SlotsCounted
  <2>2. SlotsCounted' <=> active' = Cardinality(After)
    BY DEF SlotsCounted, HasSlot
  <2>3. \A y \in Instances : y \in After <=> y \in S
    BY <1>8, <1>9 DEF HasSlot
  <2>4. n \in After <=> b
    BY <1>6, <1>8, <1>9
  <2>5. CASE b
    <3>1. After = S \cup {n}
      BY <1>9, <2>3, <2>4, <2>5
    <3>2. Cardinality(S \cup {n}) = Cardinality(S) + 1
      BY <2>1, FS_AddElement
    <3>3. active' = active + 1
      BY <1>7, <2>5
    <3> HIDE DEF S, After
    <3> QED
      BY <2>1, <2>2, <3>1, <3>2, <3>3
  <2>6. CASE ~b
    <3>1. After = S
      BY <1>9, <2>3, <2>4, <2>6
    <3>2. active' = active
      BY <1>7, <2>6
    <3> HIDE DEF S, After
    <3> QED
      BY <2>1, <2>2, <3>1, <3>2
  <2> QED
    BY <2>5, <2>6
<1>16. \A q \in Pulls : PullOK(q)'
  <2> SUFFICES ASSUME NEW q \in Pulls, q # p
               PROVE  PullOK(q)'
    BY <1>10
  <2>1. \A y \in Instances : /\ xfers'[y].key = xfers[y].key
                             /\ xfers[y].ok => xfers'[y].ok
                             /\ q \in xfers[y].watchers => q \in xfers'[y].watchers
    BY <1>8
  <2> QED
    BY <1>1, <1>7, <1>9, <1>10, <2>1, PullKeeps DEF DownloadInv
<1> QED
  BY <1>11, <1>12, <1>13, <1>14, <1>15, <1>16 DEF DownloadInv

\* The last of a sequence and those before it, the other way round.
LEMMA LastAndRest ==
  ASSUME NEW S, NEW d \in Seq(S), d # <<>>
  PROVE  /\ Len(d) \in DOMAIN d /\ Last(d) = d[Len(d)] /\ Last(d) \in S
         /\ Reverse(Front(d)) \in Seq(S)
         /\ \A i \in DOMAIN Reverse(Front(d)) :
              \E j \in DOMAIN d : j # Len(d) /\ Reverse(Front(d))[i] = d[j]
<1>1. Len(d) \in Nat \ {0} /\ DOMAIN d = 1..Len(d)
  OBVIOUS
<1>2. /\ Front(d) \in Seq(S) /\ Len(Front(d)) = Len(d) - 1
      /\ \A i \in 1 .. Len(d) - 1 : Front(d)[i] = d[i]
  BY <1>1 DEF Front
<1>3. PICK r : r = Reverse(Front(d))
  OBVIOUS
<1>4. r = [i \in 1 .. Len(d) - 1 |-> Front(d)[(Len(d) - 1 - i) + 1]]
  BY <1>2, <1>3 DEF Reverse
<1>5. \A i \in 1 .. Len(d) - 1 : (Len(d) - 1 - i) + 1 \in 1 .. Len(d) - 1
  BY <1>1
<1>6. /\ DOMAIN r = 1 .. Len(d) - 1
      /\ \A i \in 1 .. Len(d) - 1 : r[i] = d[(Len(d) - 1 - i) + 1]
  BY <1>2, <1>4, <1>5
<1>7. \A i \in DOMAIN r : \E j \in DOMAIN d : j # Len(d) /\ r[i] = d[j]
  <2> SUFFICES ASSUME NEW i \in DOMAIN r
               PROVE  \E j \in DOMAIN d : j # Len(d) /\ r[i] = d[j]
    OBVIOUS
  <2>1. PICK j : j = (Len(d) - 1 - i) + 1
    OBVIOUS
  <2>2. j \in 1 .. Len(d) - 1 /\ r[i] = d[j]
    BY <1>5, <1>6, <2>1
  <2>3. \A n \in Nat \ {0} : \A m \in 1 .. n - 1 : m \in 1..n /\ m # n
    OBVIOUS
  <2>4. j \in DOMAIN d /\ j # Len(d)
    BY <1>1, <2>2, <2>3
  <2> QED
    BY <2>2, <2>4
<1>8. r \in Seq(S)
  <2>1. \A i \in 1 .. Len(d) - 1 : r[i] \in S
    BY <1>6, <1>7
  <2>2. Len(d) - 1 \in Nat
    BY <1>1
  <2>3. r = [i \in 1 .. Len(d) - 1 |-> r[i]]
    BY <1>4
  <2> QED
    BY <2>1, <2>2, <2>3, SeqOfInstances
<1> QED
  BY <1>1, <1>3, <1>7, <1>8 DEF Last

\* A call that only lets go, or begins to, keeps its layers and downloads.
LEMMA DownloadsKeep ==
  ASSUME NEW p \in Pulls, DownloadsOK(p), want' = want, Instances' = Instances,
         \A y \in Instances : xfers'[y].key = xfers[y].key,
         pulls'[p].layer = pulls[p].layer, pulls'[p].dls = pulls[p].dls,
         \A i \in DOMAIN pulls'[p].todo : pulls'[p].todo[i] \in Instances \cup {0}
  PROVE  DownloadsOK(p)'
  BY DEF DownloadsOK

\* At the end of Download the call begins to let go.
LEMMA UnwindKeeps ==
  ASSUME DownloadInv, NEW p \in Pulls, pulls[p].pc = "select",
         NEW res \in {"ok", "err", "cancelled"}, Put(p, Unwind(pulls[p], res)),
         res = "ok" => xfers[Top(p)].ok,
         UNCHANGED <<want, limit, active, transfers, waiting, xfers, refs>>
  PROVE  DownloadInv'
<1>1. /\ TypeOK /\ PullOK(p) /\ pulls[p] \in Calls /\ pulls[p].dls \in Seq(Nat) /\ pulls[p].dls # <<>>
      /\ Instances' = Instances /\ Instances \subseteq Nat \ {0}
  <2>1. TypeOK /\ PullOK(p) /\ Instances' = Instances
    BY DEF DownloadInv, Instances
  <2>2. pulls[p] \in Calls /\ pulls[p].dls \in Seq(Nat)
    BY <2>1 DEF TypeOK, Calls
  <2> QED
    BY <2>1, <2>2, InstanceType DEF PullOK, ProgressOK
<1>2. PICK d \in Seq(Nat) : d = pulls[p].dls
  BY <1>1
<1>3. PICK r : r = Reverse(Front(d))
  OBVIOUS
<1>4. /\ Len(d) \in DOMAIN d /\ Top(p) = d[Len(d)] /\ r \in Seq(Nat)
      /\ \A i \in DOMAIN r : \E j \in DOMAIN d : j # Len(d) /\ r[i] = d[j]
  <2>1. d # <<>> /\ Top(p) = Last(d)
    BY <1>1, <1>2 DEF Top
  <2>2. /\ Len(d) \in DOMAIN d /\ Last(d) = d[Len(d)] /\ Reverse(Front(d)) \in Seq(Nat)
        /\ \A i \in DOMAIN Reverse(Front(d)) :
             \E j \in DOMAIN d : j # Len(d) /\ Reverse(Front(d))[i] = d[j]
    BY <2>1, LastAndRest
  <2> QED
    BY <1>3, <2>1, <2>2, Zenon
<1>5. \A i \in DOMAIN d : /\ d[i] \in Instances /\ d[i] \in Nat \ {0}
                          /\ xfers[d[i]].key = SubSeq(want[p], 1, pulls[p].layer + i)
  BY <1>1, <1>2 DEF PullOK, DownloadsOK
<1>6. \A j \in DOMAIN d : j # Len(d) => d[j] # Top(p)
  <2> SUFFICES ASSUME NEW j \in DOMAIN d, j # Len(d), d[j] = Top(p)
               PROVE  FALSE
    OBVIOUS
  <2>1. SubSeq(want[p], 1, pulls[p].layer + j) = SubSeq(want[p], 1, pulls[p].layer + Len(d))
    BY <1>4, <1>5
  <2>2. /\ pulls[p].layer \in Nat /\ j \in Nat \ {0} /\ Len(d) \in Nat \ {0} /\ j < Len(d)
        /\ pulls[p].layer + Len(d) = Len(want[p])
    <3>1. pulls[p].layer \in Nat
      BY <1>1 DEF Calls
    <3>2. DOMAIN d = 1..Len(d) /\ Len(d) \in Nat
      OBVIOUS
    <3>3. pulls[p].layer + Len(d) = Len(want[p])
      BY <1>1, <1>2 DEF PullOK, ProgressOK
    <3> QED
      BY <1>4, <3>1, <3>2, <3>3
  <2>3. pulls[p].layer + j \in 1..Len(want[p]) /\ pulls[p].layer + Len(d) \in 1..Len(want[p])
    <3>1. \A l, i, n, m \in Nat : i # 0 /\ n # 0 /\ i < n /\ l + n = m => l + i \in 1..m /\ l + n \in 1..m
      OBVIOUS
    <3>2. Len(want[p]) \in Nat
      <4>1. \A l, n \in Nat : l + n \in Nat
        OBVIOUS
      <4> QED
        BY <2>2, <4>1
    <3> QED
      BY <2>2, <3>1, <3>2
  <2>4. /\ Len(SubSeq(want[p], 1, pulls[p].layer + j)) = pulls[p].layer + j
        /\ Len(SubSeq(want[p], 1, pulls[p].layer + Len(d))) = pulls[p].layer + Len(d)
    BY <1>1, <2>3, StacksAreKeys
  <2>5. pulls[p].layer + j = pulls[p].layer + Len(d)
    BY <2>1, <2>4
  <2> QED
    BY <2>2, <2>5
<1>7. PICK todo : todo = (IF res = "ok" THEN <<>> ELSE <<Top(p)>>) \o <<0>> \o r
  OBVIOUS
<1>8. /\ todo \in Seq(Nat)
      /\ \A i \in DOMAIN todo : todo[i] \in Instances \cup {0} /\ (res = "ok" => todo[i] # Top(p))
  <2>1. \A i \in DOMAIN r : r[i] \in Instances /\ r[i] # Top(p)
    BY <1>4, <1>5, <1>6
  <2>2. Top(p) \in Instances /\ Top(p) \in Nat \ {0}
    BY <1>4, <1>5
  <2>3. CASE res = "ok"
    <3>1. todo = <<0>> \o r
      BY <1>4, <1>7, <2>3
    <3>2. todo \in Seq(Nat) /\ \A i \in DOMAIN todo : todo[i] = 0 \/ \E j \in DOMAIN r : todo[i] = r[j]
      BY <1>4, <3>1
    <3> QED
      BY <2>1, <2>2, <3>2
  <2>4. CASE res # "ok"
    <3>1. todo = <<Top(p), 0>> \o r
      BY <1>4, <1>7, <2>2, <2>4
    <3>2. /\ todo \in Seq(Nat)
          /\ \A i \in DOMAIN todo : todo[i] = Top(p) \/ todo[i] = 0 \/ \E j \in DOMAIN r : todo[i] = r[j]
      BY <1>4, <2>2, <3>1
    <3> QED
      BY <2>1, <2>2, <2>4, <3>2
  <2> QED
    BY <2>3, <2>4
<1>9. PICK u : u = [pulls[p] EXCEPT !.pc = "unwind", !.result = res, !.todo = todo]
  OBVIOUS
<1>10. Unwind(pulls[p], res) = u
  BY <1>2, <1>3, <1>7, <1>9 DEF Unwind, Top
<1>11. /\ u \in Calls /\ u.pc = "unwind" /\ u.result = res /\ u.todo = todo
       /\ u.layer = pulls[p].layer /\ u.dls = d
  BY <1>1, <1>2, <1>8, <1>9 DEF Calls
<1>12. pulls'[p] = u
  BY <1>1, <1>10, <1>11, OneCall
<1>13. DownloadsOK(p)' /\ ProgressOK(p)'
  <2>1. DownloadsOK(p)'
    BY <1>1, <1>2, <1>8, <1>11, <1>12, DownloadsKeep DEF PullOK
  <2>2. ProgressOK(p)'
    BY <1>1, <1>2, <1>11, <1>12 DEF PullOK, ProgressOK
  <2> QED
    BY <2>1, <2>2
<1>14. WatchesOK(p)'
  <2>1. Top(p)' = Top(p)
    BY <1>2, <1>11, <1>12 DEF Top
  <2>2. p \in xfers[Top(p)].watchers
    BY <1>1, <1>2, <1>4 DEF PullOK, WatchesOK
  <2> QED
    BY <1>8, <1>11, <1>12, <2>1, <2>2 DEF WatchesOK
<1> QED
  BY <1>10, <1>11, <1>13, <1>14, OneCallMoves DEF PullOK

\* The client goes away, or the top layer's transfer has ended.
LEMMA PullCancelledKeeps ==
  ASSUME DownloadInv, NEW p \in Pulls, PullCancelled(p)
  PROVE  DownloadInv'
  BY UnwindKeeps DEF PullCancelled

LEMMA PullDoneKeeps ==
  ASSUME DownloadInv, NEW p \in Pulls, PullDone(p)
  PROVE  DownloadInv'
<1>1. PICK res : res = IF xfers[Top(p)].ok THEN "ok" ELSE "err"
  OBVIOUS
<1>2. res \in {"ok", "err", "cancelled"} /\ (res = "ok" => xfers[Top(p)].ok)
  BY <1>1
<1> QED
  BY <1>1, <1>2, UnwindKeeps DEF PullDone

\* The caller is done with the image.
LEMMA PullReleaseKeeps ==
  ASSUME DownloadInv, NEW p \in Pulls, PullRelease(p)
  PROVE  DownloadInv'
<1>1. /\ TypeOK /\ PullOK(p) /\ pulls[p] \in Calls /\ pulls[p].dls \in Seq(Nat)
      /\ Instances' = Instances /\ Instances \subseteq Nat
      /\ UNCHANGED <<want, limit, active, transfers, waiting, xfers, refs>>
  <2>1. /\ TypeOK /\ PullOK(p) /\ Instances' = Instances
        /\ UNCHANGED <<want, limit, active, transfers, waiting, xfers, refs>>
    BY DEF DownloadInv, Instances, PullRelease
  <2>2. pulls[p] \in Calls /\ pulls[p].dls \in Seq(Nat)
    BY <2>1 DEF TypeOK, Calls
  <2> QED
    BY <2>1, <2>2, InstanceType
<1>2. PICK todo : todo = IF pulls[p].dls = <<>> THEN <<0>> ELSE <<Top(p)>>
  OBVIOUS
<1>3. todo \in Seq(Nat) /\ \A i \in DOMAIN todo : todo[i] \in Instances \cup {0}
  <2>1. pulls[p].dls # <<>> => Top(p) \in Instances
    BY <1>1, LastAndRest DEF Top, PullOK, DownloadsOK
  <2>2. PICK h \in Instances \cup {0} : todo = <<h>>
    BY <1>2, <2>1
  <2> QED
    BY <1>1, <2>2
<1>4. PICK u : u = [pulls[p] EXCEPT !.pc = "drop", !.todo = todo]
  OBVIOUS
<1>5. u \in Calls /\ u.pc = "drop" /\ u.todo = todo /\ u.layer = pulls[p].layer /\ u.dls = pulls[p].dls
  BY <1>1, <1>3, <1>4 DEF Calls
<1>6. Put(p, u)
  BY <1>2, <1>4 DEF PullRelease
<1>7. pulls'[p] = u
  BY <1>1, <1>5, <1>6, OneCall
<1>8. PullOK(p)'
  BY <1>1, <1>3, <1>5, <1>7 DEF PullOK, DownloadsOK, ProgressOK, WatchesOK
<1> QED
  BY <1>1, <1>5, <1>6, <1>8, OneCallMoves

\* What a call that is letting go becomes: it goes on, it has the layers, or it has ended.
LEMMA LettingGo ==
  ASSUME TypeOK, NEW p \in Pulls, PullOK(p), pulls[p].pc \in {"unwind", "drop"}, pulls[p].todo # <<>>,
         Put(p, IF Len(pulls[p].todo) > 1 THEN [pulls[p] EXCEPT !.todo = Tail(@)]
                ELSE IF pulls[p].pc = "unwind" /\ pulls[p].result = "ok"
                     THEN [pulls[p] EXCEPT !.todo = <<>>, !.pc = "have"]
                ELSE Call("end")),
         want' = want, Instances' = Instances,
         \A y \in Instances : /\ xfers'[y].key = xfers[y].key
                              /\ xfers[y].ok => xfers'[y].ok
                              /\ y # Head(pulls[p].todo) /\ p \in xfers[y].watchers
                                   => p \in xfers'[y].watchers
  PROVE  /\ pulls' \in [Pulls -> Calls] /\ PullOK(p)'
         /\ \A q \in Pulls \ {p} : pulls'[q] = pulls[q]
<1>1. pulls[p] \in Calls /\ pulls[p].todo \in Seq(Nat) /\ pulls[p].dls \in Seq(Nat)
  BY DEF TypeOK, Calls
<1>2. PICK todo \in Seq(Nat) : todo = Tail(pulls[p].todo)
  <2>1. \A s \in Seq(Nat) : s # <<>> => Tail(s) \in Seq(Nat)
    OBVIOUS
  <2> QED
    BY <1>1, <2>1
<1>3. /\ 1 \in DOMAIN pulls[p].todo /\ Head(pulls[p].todo) = pulls[p].todo[1]
      /\ \A i \in DOMAIN todo : i + 1 \in DOMAIN pulls[p].todo /\ todo[i] = pulls[p].todo[i + 1]
  BY <1>1, <1>2
<1>4. /\ pulls[p].dls # <<>> => Top(p) \in Instances
      /\ pulls[p].pc = "unwind" => pulls[p].dls # <<>>
  BY <1>1, LastAndRest DEF Top, PullOK, DownloadsOK, ProgressOK
<1>5. pulls[p].pc = "unwind" /\ pulls[p].result = "ok" =>
        /\ p \in xfers'[Top(p)].watchers /\ xfers'[Top(p)].ok
        /\ \A i \in DOMAIN todo : todo[i] # Top(p)
  <2> SUFFICES ASSUME pulls[p].pc = "unwind" /\ pulls[p].result = "ok"
               PROVE  /\ p \in xfers'[Top(p)].watchers /\ xfers'[Top(p)].ok
                      /\ \A i \in DOMAIN todo : todo[i] # Top(p)
    OBVIOUS
  <2>1. /\ Top(p) \in Instances /\ p \in xfers[Top(p)].watchers /\ xfers[Top(p)].ok
        /\ \A i \in DOMAIN pulls[p].todo : pulls[p].todo[i] # Top(p)
    BY <1>4 DEF PullOK, WatchesOK
  <2> QED
    BY <1>3, <2>1
<1>6. CASE Len(pulls[p].todo) > 1
  <2>1. PICK u : u = [pulls[p] EXCEPT !.todo = todo]
    OBVIOUS
  <2>2. /\ u \in Calls /\ u.pc = pulls[p].pc /\ u.todo = todo /\ u.result = pulls[p].result
        /\ u.layer = pulls[p].layer /\ u.dls = pulls[p].dls
    BY <1>1, <2>1 DEF Calls
  <2>3. Put(p, u)
    BY <1>2, <1>6, <2>1
  <2>4. /\ pulls' \in [Pulls -> Calls] /\ pulls'[p] = u
        /\ \A q \in Pulls \ {p} : pulls'[q] = pulls[q]
    BY <2>2, <2>3, OneCall
  <2>5. DownloadsOK(p)' /\ ProgressOK(p)'
    <3>1. DownloadsOK(p)'
      <4>1. \A i \in DOMAIN todo : todo[i] \in Instances \cup {0}
        BY <1>3 DEF PullOK, DownloadsOK
      <4> QED
        BY <2>2, <2>4, <4>1, DownloadsKeep DEF PullOK
    <3>2. ProgressOK(p)'
      BY <2>2, <2>4 DEF PullOK, ProgressOK
    <3> QED
      BY <3>1, <3>2
  <2>6. Top(p)' = Top(p)
    BY <2>2, <2>4 DEF Top
  <2>7. WatchesOK(p)'
    BY <1>5, <2>2, <2>4, <2>6 DEF WatchesOK
  <2> QED
    BY <2>4, <2>5, <2>7 DEF PullOK
<1>7. CASE ~(Len(pulls[p].todo) > 1) /\ pulls[p].pc = "unwind" /\ pulls[p].result = "ok"
  <2>1. PICK u : u = [pulls[p] EXCEPT !.todo = <<>>, !.pc = "have"]
    OBVIOUS
  <2>2. /\ u \in Calls /\ u.pc = "have" /\ u.todo = <<>> /\ u.result = pulls[p].result
        /\ u.layer = pulls[p].layer /\ u.dls = pulls[p].dls
    <3>1. PICK s \in Seq(Nat) : s = <<>>
      BY EmptySeq, Zenon
    <3>2. u = [pulls[p] EXCEPT !.todo = s, !.pc = "have"]
      BY <2>1, <3>1
    <3> QED
      BY <1>1, <3>1, <3>2 DEF Calls
  <2>3. Put(p, u)
    BY <1>7, <2>1
  <2>4. /\ pulls' \in [Pulls -> Calls] /\ pulls'[p] = u
        /\ \A q \in Pulls \ {p} : pulls'[q] = pulls[q]
    BY <2>2, <2>3, OneCall
  <2>5. DownloadsOK(p)' /\ ProgressOK(p)'
    <3>1. DownloadsOK(p)'
      <4>1. \A i \in DOMAIN u.todo : u.todo[i] \in Instances \cup {0}
        BY <2>2, EmptySeq
      <4> QED
        BY <2>2, <2>4, <4>1, DownloadsKeep DEF PullOK
    <3>2. ProgressOK(p)'
      BY <1>7, <2>2, <2>4 DEF PullOK, ProgressOK
    <3> QED
      BY <3>1, <3>2
  <2>6. Top(p)' = Top(p)
    BY <2>2, <2>4 DEF Top
  <2>7. WatchesOK(p)'
    BY <1>4, <1>5, <1>7, <2>2, <2>4, <2>6 DEF WatchesOK
  <2> QED
    BY <2>4, <2>5, <2>7 DEF PullOK
<1>8. CASE ~(Len(pulls[p].todo) > 1) /\ ~(pulls[p].pc = "unwind" /\ pulls[p].result = "ok")
  <2>1. PICK u : u = Call("end")
    OBVIOUS
  <2>2. u \in Calls /\ u.pc = "end" /\ u.layer = 0 /\ u.dls = <<>> /\ u.todo = <<>>
    BY <2>1 DEF Call, Calls
  <2>3. Put(p, u)
    BY <1>8, <2>1
  <2>4. /\ pulls' \in [Pulls -> Calls] /\ pulls'[p] = u
        /\ \A q \in Pulls \ {p} : pulls'[q] = pulls[q]
    BY <2>2, <2>3, OneCall
  <2>5. want[p] \in Seq(Blobs)
    BY WorkloadsAssumption DEF TypeOK
  <2>6. Len(u.dls) = 0 /\ Len(want[p]) \in Nat /\ 0 + 0 <= Len(want[p])
    BY <2>2, <2>5
  <2>7. PullOK(p)'
    BY <2>2, <2>4, <2>6 DEF PullOK, DownloadsOK, ProgressOK, WatchesOK
  <2> QED
    BY <2>4, <2>7
<1> QED
  BY <1>6, <1>7, <1>8

\* The call gives back the layer it holds, or is no longer a watcher of a transfer.
LEMMA LetGoKeeps ==
  ASSUME DownloadInv, NEW p \in Pulls, LetGo(p)
  PROVE  DownloadInv'
<1>1. /\ TypeOK /\ PullOK(p) /\ pulls[p].pc \in {"unwind", "drop"} /\ pulls[p].todo # <<>>
      /\ Put(p, IF Len(pulls[p].todo) > 1 THEN [pulls[p] EXCEPT !.todo = Tail(@)]
                ELSE IF pulls[p].pc = "unwind" /\ pulls[p].result = "ok"
                     THEN [pulls[p] EXCEPT !.todo = <<>>, !.pc = "have"]
                ELSE Call("end"))
      /\ UNCHANGED <<want, limit, active, transfers, waiting>>
  BY DEF DownloadInv, LetGo
<1>2. PICK x : x = Head(pulls[p].todo)
  OBVIOUS
<1>3. x \in Instances \cup {0} /\ Instances \subseteq Nat \ {0}
  <2>1. pulls[p].todo \in Seq(Nat)
    BY <1>1 DEF TypeOK, Calls
  <2>2. 1 \in DOMAIN pulls[p].todo /\ x = pulls[p].todo[1]
    BY <1>1, <1>2, <2>1
  <2> QED
    BY <1>1, <2>2, InstanceType DEF PullOK, DownloadsOK
<1>4. refs \in [Keys -> SUBSET (Pulls \cup Nat)] /\ limit' \in Limits
  BY <1>1 DEF TypeOK
<1>5. CASE x = 0
  <2>1. refs' = [k \in Keys |-> refs[k] \ {p}] /\ xfers' = xfers /\ Instances' = Instances
    BY <1>2, <1>5 DEF LetGo, Instances
  <2>2. /\ pulls' \in [Pulls -> Calls] /\ PullOK(p)'
        /\ \A q \in Pulls \ {p} : pulls'[q] = pulls[q]
    BY <1>1, <2>1, LettingGo
  <2>3. /\ refs' \in [Keys -> SUBSET (Pulls \cup Nat)]
        /\ \A k \in Keys : refs[k] \ {p} \subseteq refs'[k]
    BY <1>4, <2>1
  <2>4. \A q \in Pulls : PullOK(q)'
    <3> SUFFICES ASSUME NEW q \in Pulls, q # p
                 PROVE  PullOK(q)'
      BY <2>2
    <3>1. \A k \in Keys : q \in refs[k] => q \in refs'[k]
      BY <2>3
    <3> QED
      BY <1>1, <2>1, <2>2, <3>1, PullKeeps DEF DownloadInv
  <2>5. \A y \in Instances, k \in Keys : y \in refs[k] => y \in refs'[k]
    BY <1>3, <2>3, PullsAssumption
  <2> QED
    BY <1>1, <1>4, <2>1, <2>2, <2>3, <2>4, <2>5, CallMoves
<1>6. CASE x # 0
  <2>1. /\ x \in Instances /\ xfers[x] \in Xfers /\ XferOK(x) /\ DOMAIN xfers = Instances
        /\ refs' = refs /\ xfers' = [xfers EXCEPT ![x] = Release(@, p)]
    <3>1. x \in Instances /\ refs' = refs /\ xfers' = [xfers EXCEPT ![x] = Release(@, p)]
      BY <1>2, <1>3, <1>6 DEF LetGo
    <3> QED
      BY <1>1, <3>1, InstanceType DEF DownloadInv
  <2>2. PICK rest : rest = xfers[x].watchers \ {p}
    OBVIOUS
  <2>3. PICK r \in BOOLEAN, c \in BOOLEAN :
           /\ r = (xfers[x].released \/ (rest = {} /\ xfers[x].manager = "ended"))
           /\ c = (xfers[x].cancelled \/ (rest = {} /\ xfers[x].manager # "ended"))
    OBVIOUS
  <2>4. PICK t : t = [xfers[x] EXCEPT !.watchers = rest, !.released = r, !.cancelled = c]
    OBVIOUS
  <2>5. Release(xfers[x], p) = t
    BY <2>1, <2>2, <2>3, <2>4 DEF Release
  <2>6. /\ t \in Xfers /\ t.inactive = xfers[x].inactive /\ t.manager = xfers[x].manager
        /\ t.key = xfers[x].key /\ t.started = xfers[x].started /\ t.watchers = rest
        /\ t.cancelled = c /\ t.released = r
        /\ t.phase = xfers[x].phase /\ t.ok = xfers[x].ok
    BY <2>1, <2>2, <2>4 DEF Xfers
  <2>7. xfers' = [xfers EXCEPT ![x] = t]
    BY <2>1, <2>5
  <2>8. /\ xfers'[x] = t /\ Instances' = Instances
        /\ \A y \in Instances \ {x} : xfers'[y] = xfers[y]
    BY <1>1, <2>1, <2>6, <2>7, OneBecomes
  <2>9. XferOK(x)'
    <3>1. c => rest = {}
      BY <2>1, <2>2, <2>3 DEF XferOK
    <3>2. r => rest = {} /\ xfers[x].manager = "ended"
      BY <2>1, <2>2, <2>3 DEF XferOK
    <3>3. xfers[x].released => r
      BY <2>3
    <3> QED
      BY <1>1, <2>1, <2>6, <2>8, <3>1, <3>2, <3>3 DEF XferOK
  <2>10. \A y \in Instances : /\ xfers'[y].key = xfers[y].key
                              /\ xfers[y].ok => xfers'[y].ok
                              /\ y # x /\ p \in xfers[y].watchers => p \in xfers'[y].watchers
                              /\ \A q \in Pulls \ {p} : q \in xfers[y].watchers => q \in xfers'[y].watchers
    BY <2>2, <2>6, <2>8
  <2>11. /\ pulls' \in [Pulls -> Calls] /\ PullOK(p)'
         /\ \A q \in Pulls \ {p} : pulls'[q] = pulls[q]
    BY <1>1, <1>2, <2>8, <2>10, LettingGo
  <2>12. \A q \in Pulls : PullOK(q)'
    <3> SUFFICES ASSUME NEW q \in Pulls, q # p
                 PROVE  PullOK(q)'
      BY <2>11
    <3> QED
      BY <1>1, <2>1, <2>8, <2>10, <2>11, PullKeeps DEF DownloadInv
  <2>13. \A y \in Instances, k \in Keys : y \in refs[k] => y \in refs'[k]
    BY <2>1
  <2>14. /\ t.inactive = "seen" <=> xfers[x].inactive = "seen"
         /\ t.manager = "tracking" <=> xfers[x].manager = "tracking"
         /\ refs' \in [Keys -> SUBSET (Pulls \cup Nat)]
         /\ t \in Xfers /\ t.key = xfers[x].key /\ t.started = xfers[x].started
    BY <1>4, <2>1, <2>6
  <2> QED
    BY <1>1, <2>1, <2>7, <2>9, <2>11, <2>12, <2>13, <2>14, OneMoves
<1> QED
  BY <1>5, <1>6
-------------------------------------------------------------------------------
(* The theorems                                                                 *)

\* No call has begun, and there are no transfers.
LEMMA InitHolds ==
  ASSUME Init
  PROVE  DownloadInv
<1>1. /\ want \in Workloads /\ limit \in Limits /\ active = 0 /\ transfers = [k \in Keys |-> 0]
      /\ waiting = <<>> /\ xfers = <<>> /\ refs = [k \in Keys |-> {}] /\ Instances = {}
  BY DEF Init, Instances
<1>2. \A p \in Pulls : /\ pulls[p] \in Calls /\ pulls[p].layer = 0 /\ pulls[p].dls = <<>>
                       /\ pulls[p].todo = <<>>
                       /\ pulls[p].pc = IF want[p] = <<>> THEN "end" ELSE "check"
  BY DEF Init, Call, Calls
<1>3. pulls \in [Pulls -> Calls]
  <2>1. pulls = [p \in Pulls |-> pulls[p]]
    BY DEF Init
  <2> QED
    BY <1>2, <2>1
<1>4. TypeOK
  BY <1>1, <1>3 DEF TypeOK
<1>5. TransfersOK /\ WaitingOK
  BY <1>1 DEF TransfersOK, WaitingOK
<1>6. SlotsCounted
  <2>1. {x \in Instances : HasSlot(x)} = {}
    BY <1>1
  <2> QED
    BY <1>1, <2>1, FS_EmptySet DEF SlotsCounted
<1>7. \A p \in Pulls : PullOK(p)
  <2> SUFFICES ASSUME NEW p \in Pulls
               PROVE  PullOK(p)
    OBVIOUS
  <2>1. want[p] \in Seq(Blobs) /\ Len(pulls[p].dls) = 0
    BY <1>1, <1>2, WorkloadsAssumption
  <2>2. Len(want[p]) \in Nat /\ (want[p] # <<>> => 0 < Len(want[p]))
    BY <2>1
  <2>3. pulls[p].layer + Len(pulls[p].dls) = 0
    BY <1>2, <2>1
  <2> QED
    BY <1>2, <2>2, <2>3 DEF PullOK, DownloadsOK, ProgressOK, WatchesOK
<1> QED
  BY <1>1, <1>4, <1>5, <1>6, <1>7 DEF DownloadInv

\* Every step keeps the invariant.
LEMMA NextKeeps ==
  ASSUME DownloadInv, Next
  PROVE  DownloadInv'
<1>1. ASSUME NEW p \in Pulls, PullStep(p) \/ PullCancelled(p)
      PROVE  DownloadInv'
  BY <1>1, PullCheckKeeps, JoinKeeps, CreateKeeps, PullDoneKeeps, LetGoKeeps, PullReleaseKeeps,
     PullCancelledKeeps DEF PullStep
<1>2. ASSUME NEW x \in Instances, XferStep(x)
      PROVE  DownloadInv'
  BY <1>2, BeginKeeps, FetchKeeps, FetchFailsKeeps, RetryKeeps, AwaitParentKeeps, RegisterKeeps DEF XferStep
<1>3. ASSUME NEW x \in Instances, ManagerStep(x) \/ ReleaseLayer(x)
      PROVE  DownloadInv'
  BY <1>3, SeeInactiveKeeps, ReapKeeps, CloseEnds, ReleaseLayerKeeps DEF ManagerStep
<1> QED
  BY <1>1, <1>2, <1>3, SetConcurrencyKeeps DEF Next

\* A step that changes nothing.
LEMMA StutterKeeps ==
  ASSUME DownloadInv, UNCHANGED vars
  PROVE  DownloadInv'
<1>1. /\ UNCHANGED <<want, limit, active, transfers, waiting, xfers, pulls, refs>>
      /\ TypeOK /\ limit \in Limits /\ pulls \in [Pulls -> Calls] /\ refs \in [Keys -> SUBSET (Pulls \cup Nat)]
  BY DEF vars, DownloadInv, TypeOK
<1>2. Instances' = Instances
  BY <1>1 DEF Instances
<1>3. \A p \in Pulls : PullOK(p)'
  BY <1>1, <1>2, PullKeeps DEF DownloadInv
<1> QED
  BY <1>1, <1>3, CallMoves

\* The invariant of a pull: types, the life of every transfer, the map and the line of the
\* transfer manager, the slots, and what every call of Download watches and holds.
THEOREM DownloadInvariant == Spec => []DownloadInv
<1>1. Init => DownloadInv
  BY InitHolds
<1>2. DownloadInv /\ [Next]_vars => DownloadInv'
  BY NextKeeps, StutterKeeps
<1> QED
  BY <1>1, <1>2, PTL DEF Spec

\* activeTransfers is the number of transfers that hold a slot (transfer.go:366-405).
THEOREM SlotsAreCounted == Spec => []SlotsCounted
<1>1. DownloadInv => SlotsCounted
  BY DEF DownloadInv
<1> QED
  BY <1>1, DownloadInvariant, PTL

\* A layer is never moved by two transfers at a time: one that is not done is the one in the
\* map of the transfer manager (transfer.go:316-389).
THEOREM TransfersOfAKey == Spec => []OneTransferPerKey
<1>1. DownloadInv => OneTransferPerKey
  <2> SUFFICES ASSUME DownloadInv, NEW x \in Instances, NEW y \in Instances,
                      x # y, xfers[x].key = xfers[y].key, ~Done(x), ~Done(y)
               PROVE  FALSE
    BY DEF OneTransferPerKey
  <2>1. transfers[xfers[x].key] = x /\ transfers[xfers[y].key] = y
    BY DEF DownloadInv, XferOK, Done
  <2> QED
    BY <2>1
<1> QED
  BY <1>1, DownloadInvariant, PTL

\* A transfer is not cancelled while a call watches it (transfer.go:90, 209-233).
THEOREM WatchedGoOn == Spec => []WatchedIsNotCancelled
<1>1. DownloadInv => WatchedIsNotCancelled
  BY DEF DownloadInv, XferOK, WatchedIsNotCancelled
<1> QED
  BY <1>1, DownloadInvariant, PTL

\* The result of a pull has all its layers in the store until the caller releases it: the
\* top transfer is watched, so it is not released and its layer is held, and with that layer
\* all those below it (download.go:97).
THEOREM PulledLayersPresent == Spec => []LayersPresent
<1>1. DownloadInv => LayersPresent
  <2> SUFFICES ASSUME DownloadInv, NEW p \in Pulls, pulls[p].pc = "have"
               PROVE  Exists(want[p])
    BY DEF LayersPresent
  <2>1. TypeOK /\ PullOK(p) /\ want[p] # <<>> /\ pulls[p].dls \in Seq(Nat)
    <3>1. TypeOK /\ PullOK(p)
      BY DEF DownloadInv
    <3> QED
      BY <3>1 DEF PullOK, ProgressOK, TypeOK, Calls
  <2>2. want[p] \in Keys /\ SubSeq(want[p], 1, Len(want[p])) = want[p] /\ Len(want[p]) \in Nat
    BY <2>1, WholeStack
  <2>3. refs[want[p]] # {}
    <3>1. CASE pulls[p].dls = <<>>
      BY <2>1, <3>1 DEF PullOK, WatchesOK
    <3>2. CASE pulls[p].dls # <<>>
      <4>1. /\ Len(pulls[p].dls) \in DOMAIN pulls[p].dls
            /\ Top(p) = pulls[p].dls[Len(pulls[p].dls)]
        BY <2>1, <3>2, LastAndRest DEF Top
      <4>2. Top(p) \in Instances /\ xfers[Top(p)].key = want[p]
        <5>1. pulls[p].layer + Len(pulls[p].dls) = Len(want[p])
          BY <2>1 DEF PullOK, ProgressOK
        <5> QED
          BY <2>1, <2>2, <4>1, <5>1 DEF PullOK, DownloadsOK
      <4>3. p \in xfers[Top(p)].watchers /\ xfers[Top(p)].ok
        BY <2>1, <3>2 DEF PullOK, WatchesOK
      <4>4. Top(p) \in refs[want[p]]
        BY <4>2, <4>3 DEF DownloadInv, XferOK
      <4> QED
        BY <4>4
    <3> QED
      BY <3>1, <3>2
  <2>4. IsPrefix(want[p], want[p])
    BY <2>2 DEF IsPrefix
  <2> QED
    BY <2>2, <2>3, <2>4 DEF Exists
<1> QED
  BY <1>1, DownloadInvariant, PTL
================================================================================
