--------------------------- MODULE VolumeStoreProofs ---------------------------
(***************************************************************************)
(* Proofs about VolumeStore, for any number of requests, names, drivers    *)
(* and containers, and for every set of requests and of faults.            *)
(*                                                                         *)
(* The inductive invariant VolInv says which goroutine holds the lock of a *)
(* name at which place of the code, what a call knows of the name it has   *)
(* locked there (its driver has the volume, nothing refers to it), and     *)
(* which container a request is working for.                               *)
(***************************************************************************)
EXTENDS VolumeStore, TLAPS

Working == {"createC", "startC", "rmC"}
Dos == Working \cup {"idle", "volCreate", "volRm", "inspect", "prune"}

\* The places of the code where the lock of the name is held.
Holding == {"cache", "exists", "meta", "lookup", "driver", "reset", "setmeta", "named",
            "check", "rmdriver", "purge", "deref", "refs", "getref"}

OpType == [do : Dos, call : Calls \cup {""}, pc : PCs, n : Names \cup {""},
           d : Drivers \cup {NoDriver}, c : Containers \cup {""},
           v : Drivers \cup {NoDriver}, rm : BOOLEAN, anon : BOOLEAN, ok : BOOLEAN]

MountType == [n : Names, d : Drivers, vol : BOOLEAN, anon : BOOLEAN]

\* A container is not there, or has a mount of a volume of some driver.
MountsOK ==
  \A c \in Containers :
    \/ mounts[c] = NoMount
    \/ mounts[c] \in MountType

\* Which call of the store a request may be in, and for which container.
KindOK(o) ==
  \/ o = Idle
  \/ /\ o.pc # "idle" /\ o.n \in Names
     /\ \/ o.do = "createC" /\ o.call \in {"create", "getref", "deref"} /\ o.c \in Containers
        \/ o.do = "startC" /\ o.call = "getref" /\ o.c \in Containers
        \/ o.do = "rmC" /\ o.call \in {"deref", "remove"} /\ o.c \in Containers
        \/ o.do = "volCreate" /\ o.call = "create" /\ o.c = ""
        \/ o.do \in {"volRm", "inspect", "prune"} /\ o.call \in {"get", "refs", "remove"} /\ o.c = ""

\* Where in the code each call may be.
PlaceOK(o) ==
  \/ o.pc \in {"idle", "lock", "returned"}
  \/ o.call = "create" /\ o.pc \in {"cache", "exists", "meta", "lookup", "driver", "reset", "setmeta", "named"}
  \/ o.call = "getref" /\ o.pc \in {"getref", "named"}
  \/ o.call = "get" /\ o.pc \in {"meta", "lookup", "named"}
  \/ o.call = "remove" /\ o.pc \in {"check", "rmdriver", "purge"}
  \/ o.call = "deref" /\ o.pc = "deref"
  \/ o.call = "refs" /\ o.pc = "refs"

\* What a call has found out about the volume it works on.
VolumeOK(o) ==
  /\ o.pc \in {"named", "reset", "setmeta"} => o.v \in Drivers /\ Has(o.v, o.n)
  /\ o.pc = "exists" => o.v \in Drivers
  /\ o.call = "getref" /\ o.pc \in {"lock", "getref"} => o.d \in Drivers
  /\ o.do \in {"createC", "startC"} /\ o.pc = "returned" => o.v \in Drivers

\* Where nothing refers to the name: create has looked, remove has looked.
UnreferencedOK(o) ==
  \/ o.call = "create" /\ o.pc \in {"meta", "lookup", "driver", "reset", "setmeta"}
  \/ o.pc \in {"rmdriver", "purge"}
  => refs[o.n] = {}

\* The container a request works for is not there yet, or no more, or has no volume yet.
ContainerOK(o) ==
  /\ o.do \in {"createC", "rmC"} => mounts[o.c] = NoMount
  /\ o.do = "startC" =>
       /\ mounts[o.c] # NoMount /\ ~mounts[o.c].vol /\ mounts[o.c].n = o.n
       /\ o.pc \in {"lock", "getref"} => mounts[o.c].d = o.d
       /\ o.pc \in {"named", "returned"} => mounts[o.c].d = o.v

OpOK(p) ==
  /\ op[p] \in OpType
  /\ KindOK(op[p]) /\ PlaceOK(op[p]) /\ VolumeOK(op[p])
  /\ UnreferencedOK(op[p]) /\ ContainerOK(op[p])
  /\ op[p].pc \in Holding => owns[op[p].n] = {p}

\* Two requests do not work for one container.
Apart ==
  \A p, q \in Procs :
    op[p].do \in Working /\ op[q].do \in Working /\ op[p].c = op[q].c => p = q

\* A name that is referenced is cached.
RefsNamed == \A n \in Names : names[n] = NoDriver => refs[n] = {}

\* Container c has been given the volume of name n and driver d.
Given(c, n, d) ==
  \/ mounts[c].vol /\ mounts[c].n = n /\ mounts[c].d = d
  \/ \E p \in Procs : /\ op[p].do \in {"createC", "startC"} /\ op[p].c = c
                      /\ op[p].pc = "returned" /\ op[p].ok
                      /\ op[p].n = n /\ op[p].v = d

\* What a container has been given is referenced and exists, unless a Purge came between.
GivenOK ==
  \A c \in Containers, n \in Names, d \in Drivers :
    Given(c, n, d) => c \in dropped \/ (c \in refs[n] /\ Has(d, n))

VolInv ==
  /\ TypeOK
  /\ MountsOK
  /\ op \in [Procs -> OpType]
  /\ \A p \in Procs : OpOK(p)
  /\ Apart
  /\ RefsNamed
  /\ GivenOK
  /\ CachedIsBacked
-------------------------------------------------------------------------------
(* A request that takes a step                                                  *)

\* The step leaves the locks others hold with them.
LockStep(p) ==
  \A q \in Procs \ {p} : op[q].pc \in Holding => owns'[op[q].n] = {q}

\* Request p goes on to o: for the containers it worked for, for none, or for a free one.
GoesTo(p, o) ==
  /\ op' = [op EXCEPT ![p] = o]
  /\ \/ o.do \notin Working
     \/ op[p].do \in Working /\ o.c = op[p].c
     \/ \A q \in Procs : op[q].c # o.c

\* A request that is idle holds no lock.
LEMMA IdleHolds == /\ Idle.pc = "idle" /\ Idle.do = "idle" /\ Idle.c = "" /\ Idle.n = ""
                   /\ Idle.call = "" /\ "idle" \notin Holding
  BY DEF Idle, Holding

\* A container without a mount has no volume.
LEMMA NoMountVol == ~NoMount.vol /\ NoMount.d = NoDriver /\ NoMount.n = ""
  BY DEF NoMount

\* The parts of what is known of one request.
LEMMA OwnOK ==
  ASSUME NEW p, NEW x, op'[p] = x, x \in OpType, KindOK(x), PlaceOK(x),
         VolumeOK(x)', UnreferencedOK(x)', ContainerOK(x)',
         x.pc \in Holding => owns'[x.n] = {p}
  PROVE  OpOK(p)'
<1>1. KindOK(op[p])' /\ PlaceOK(op[p])'
  BY DEF KindOK, PlaceOK
<1>2. VolumeOK(op[p])'
  BY DEF VolumeOK
<1>3. UnreferencedOK(op[p])'
  BY DEF UnreferencedOK
<1>4. ContainerOK(op[p])'
  BY DEF ContainerOK
<1> QED
  BY <1>1, <1>2, <1>3, <1>4 DEF OpOK

\* What the others know of the names they hold and of their containers stays so.
LEMMA OthersKeep ==
  ASSUME VolInv, NEW p \in Procs, NEW o, GoesTo(p, o), LockStep(p),
         \A q \in Procs \ {p} : op[q].do \in Working => mounts'[op[q].c] = mounts[op[q].c],
         \A n \in Names : owns[n] # {p} => refs'[n] \subseteq refs[n],
         \A n \in Names, d \in Drivers : Has(d, n) /\ owns[n] # {p} => n \in vols'[d]
  PROVE  \A q \in Procs \ {p} : OpOK(q)'
<1> SUFFICES ASSUME NEW q \in Procs \ {p} PROVE OpOK(q)'
  OBVIOUS
<1>1. op'[q] = op[q] /\ OpOK(q)
  BY DEF GoesTo, VolInv, TypeOK
<1>2. op[q].pc \in Holding => owns'[op[q].n] = {q} /\ owns[op[q].n] # {p} /\ op[q].n \in Names
  <2> SUFFICES ASSUME op[q].pc \in Holding
               PROVE  owns'[op[q].n] = {q} /\ owns[op[q].n] # {p} /\ op[q].n \in Names
    OBVIOUS
  <2>1. op[q] # Idle
    BY IdleHolds
  <2>2. op[q].n \in Names /\ owns[op[q].n] = {q}
    BY <1>1, <2>1 DEF OpOK, KindOK
  <2> QED
    BY <2>2 DEF LockStep
<1>3. VolumeOK(op[q])'
  <2>1. op[q].pc \in {"named", "reset", "setmeta"} => op[q].pc \in Holding
    BY DEF Holding
  <2> QED
    BY <1>1, <1>2, <2>1 DEF VolumeOK, OpOK, Has
<1>4. UnreferencedOK(op[q])'
  <2>1. op[q].pc \in {"meta", "lookup", "driver", "reset", "setmeta", "rmdriver", "purge"} => op[q].pc \in Holding
    BY DEF Holding
  <2> QED
    BY <1>1, <1>2, <2>1 DEF UnreferencedOK, OpOK
<1>5. ContainerOK(op[q])'
  BY <1>1 DEF ContainerOK, OpOK, Working
<1> QED
  BY <1>1, <1>2, <1>3, <1>4, <1>5 DEF OpOK, KindOK, PlaceOK

\* Two requests still do not work for one container.
LEMMA ApartKept ==
  ASSUME VolInv, NEW p \in Procs, NEW o, GoesTo(p, o)
  PROVE  Apart'
<1>1. DOMAIN op = Procs /\ Apart
  BY DEF VolInv, TypeOK
<1>2. op'[p] = o /\ \A q \in Procs \ {p} : op'[q] = op[q]
  BY <1>1 DEF GoesTo
<1> SUFFICES ASSUME NEW q \in Procs, NEW r \in Procs, q # r,
                    op'[q].do \in Working, op'[r].do \in Working, op'[q].c = op'[r].c
             PROVE  FALSE
  BY DEF Apart
<1> QED
  BY <1>1, <1>2 DEF Apart, GoesTo

\* The parts of the invariant, put together after a step of a request.
LEMMA StepOK ==
  ASSUME VolInv, NEW p \in Procs, NEW o, GoesTo(p, o), LockStep(p), AbsTypeOK', OpOK(p)',
         \A q \in Procs \ {p} : op[q].do \in Working => mounts'[op[q].c] = mounts[op[q].c],
         \A n \in Names : owns[n] # {p} => refs'[n] \subseteq refs[n],
         \A n \in Names, d \in Drivers : Has(d, n) /\ owns[n] # {p} => n \in vols'[d],
         names' \in [Names -> Drivers \cup {NoDriver}], meta' \in [Names -> Drivers \cup {NoDriver}],
         refs' \in [Names -> SUBSET Containers], vols' \in [Drivers -> SUBSET Names],
         dropped' \subseteq Containers, DOMAIN mounts' = Containers,
         MountsOK', RefsNamed', GivenOK', CachedIsBacked'
  PROVE  VolInv'
<1>1. op' \in [Procs -> OpType]
  <2>1. op' = [op EXCEPT ![p] = o] /\ op'[p] = o /\ op'[p] \in OpType
    BY DEF VolInv, GoesTo, OpOK
  <2> QED
    BY <2>1 DEF VolInv
<1>2. \A q \in Procs : OpOK(q)'
  BY OthersKeep
<1>3. \A q \in Procs : op'[q].pc \in PCs
  BY <1>2 DEF OpOK, OpType
<1> QED
  BY <1>1, <1>2, <1>3, ApartKept DEF VolInv, TypeOK

\* The state of the store stays, and the request gets nothing for a container.
LEMMA QuietStep ==
  ASSUME VolInv, NEW p \in Procs, NEW o, GoesTo(p, o), LockStep(p), AbsTypeOK',
         meta' \in [Names -> Drivers \cup {NoDriver}],
         UNCHANGED <<names, refs, dropped, vols, mounts>>,
         op[p].pc # "purge",
         o.pc = "returned" /\ o.do \in {"createC", "startC"} => ~o.ok,
         OpOK(p)'
  PROVE  VolInv'
<1>1. DOMAIN op = Procs /\ op' = [op EXCEPT ![p] = o] /\ op'[p] = o
  BY DEF VolInv, TypeOK, GoesTo
<1>2. \A q \in Procs : OpOK(q)'
  BY OthersKeep DEF VolInv, Has
<1>3. TypeOK'
  BY <1>1, <1>2 DEF VolInv, TypeOK, OpOK, OpType
<1>4. RefsNamed' /\ MountsOK'
  BY DEF VolInv, RefsNamed, MountsOK
<1>5. CachedIsBacked'
  <2> SUFFICES ASSUME NEW n \in Names, names[n] # NoDriver, ~Has(names[n], n)
               PROVE  \E q \in Procs : op'[q].n = n /\ op'[q].pc = "purge"
    BY DEF CachedIsBacked, Has, At
  <2>1. PICK q \in Procs : op[q].n = n /\ op[q].pc = "purge"
    BY DEF VolInv, CachedIsBacked, At
  <2> QED
    BY <1>1, <2>1
<1>6. GivenOK'
  <2> SUFFICES ASSUME NEW c \in Containers, NEW n \in Names, NEW d \in Drivers, Given(c, n, d)'
               PROVE  Given(c, n, d)
    BY DEF VolInv, GivenOK, Has
  <2> QED
    BY <1>1 DEF Given
<1>7. op' \in [Procs -> OpType]
  <2>1. op'[p] \in OpType
    BY DEF OpOK
  <2> QED
    BY <1>1, <2>1 DEF VolInv
<1> QED
  BY <1>2, <1>3, <1>4, <1>5, <1>6, <1>7, ApartKept DEF VolInv

\* The name is purged, and the containers that referred to it, if any, are remembered.
LEMMA PurgeStep ==
  ASSUME VolInv, NEW p \in Procs, NEW o, GoesTo(p, o), LockStep(p), AbsTypeOK',
         op[p].n \in Names, Purge(op[p].n),
         (refs[op[p].n] = {} /\ dropped' = dropped) \/ dropped' = dropped \cup refs[op[p].n],
         UNCHANGED <<vols, mounts>>,
         o.pc = "returned" /\ o.do \in {"createC", "startC"} => ~o.ok,
         OpOK(p)'
  PROVE  VolInv'
<1> DEFINE n0 == op[p].n
<1>1. DOMAIN op = Procs /\ op' = [op EXCEPT ![p] = o] /\ op'[p] = o
  BY DEF VolInv, TypeOK, GoesTo
<1>0. /\ names \in [Names -> Drivers \cup {NoDriver}]
      /\ refs \in [Names -> SUBSET Containers] /\ meta \in [Names -> Drivers \cup {NoDriver}]
      /\ dropped \subseteq Containers
  BY DEF VolInv, TypeOK
<1>a. /\ names' = [names EXCEPT ![n0] = NoDriver]
      /\ refs' = [refs EXCEPT ![n0] = {}]
      /\ meta' = [meta EXCEPT ![n0] = NoDriver]
  BY DEF Purge
<1>2. \A q \in Procs : OpOK(q)'
  <2>1. \A n \in Names : refs'[n] \subseteq refs[n]
    BY <1>0, <1>a
  <2> QED
    BY <2>1, OthersKeep DEF VolInv, Has
<1>3. TypeOK'
  <2>1. names' \in [Names -> Drivers \cup {NoDriver}] /\ meta' \in [Names -> Drivers \cup {NoDriver}]
    BY <1>0, <1>a
  <2>2. refs' \in [Names -> SUBSET Containers] /\ dropped' \subseteq Containers
    BY <1>0, <1>a
  <2> QED
    BY <1>1, <1>2, <2>1, <2>2 DEF VolInv, TypeOK, OpOK, OpType
<1>4. RefsNamed' /\ MountsOK'
  BY <1>0, <1>a DEF VolInv, RefsNamed, MountsOK
<1>5. CachedIsBacked'
  <2> SUFFICES ASSUME NEW n \in Names, names'[n] # NoDriver, ~Has(names[n], n)
               PROVE  \E q \in Procs : op'[q].n = n /\ op'[q].pc = "purge"
    BY <1>0, <1>a DEF CachedIsBacked, Has, At
  <2>0. n # n0 /\ names'[n] = names[n]
    BY <1>0, <1>a
  <2>1. PICK q \in Procs : op[q].n = n /\ op[q].pc = "purge"
    BY <2>0 DEF VolInv, CachedIsBacked, At
  <2> QED
    BY <1>1, <2>0, <2>1
<1>6. GivenOK'
  <2> SUFFICES ASSUME NEW c \in Containers, NEW n \in Names, NEW d \in Drivers, Given(c, n, d)',
                      c \notin dropped'
               PROVE  c \in refs'[n] /\ Has(d, n)
    BY DEF GivenOK, Has
  <2>1. Given(c, n, d)
    BY <1>1 DEF Given
  <2>2. c \in refs[n] /\ Has(d, n)
    BY <2>1 DEF VolInv, GivenOK
  <2> QED
    BY <1>0, <1>a, <2>2
<1>7. op' \in [Procs -> OpType]
  <2>1. op'[p] \in OpType
    BY DEF OpOK
  <2> QED
    BY <1>1, <2>1 DEF VolInv
<1> QED
  BY <1>2, <1>3, <1>4, <1>5, <1>6, <1>7, ApartKept DEF VolInv
-------------------------------------------------------------------------------
(* The locks                                                                    *)

\* A step that takes or gives back no lock.
LEMMA LocksStay ==
  ASSUME VolInv, NEW p \in Procs,
         UNCHANGED lock \/ (\E n \in Names : Ask(p, n))
  PROVE  LockStep(p) /\ AbsTypeOK'
<1>1. owns' = owns
  BY DEF lock, Ask
<1>2. wants' \in [Procs -> SUBSET Names]
  BY DEF lock, Ask, VolInv, TypeOK, AbsTypeOK
<1> QED
  BY <1>1, <1>2 DEF LockStep, VolInv, OpOK, TypeOK, AbsTypeOK

\* A free lock is taken.
LEMMA LockTaken ==
  ASSUME VolInv, NEW p \in Procs, NEW n \in Names,
         owns[n] = {}, owns' = [owns EXCEPT ![n] = {p}],
         wants' = wants \/ wants' = [wants EXCEPT ![p] = {}]
  PROVE  LockStep(p) /\ AbsTypeOK' /\ owns'[n] = {p}
<1>0. owns \in [Names -> SUBSET Procs] /\ wants \in [Procs -> SUBSET Names]
  BY DEF VolInv, TypeOK, AbsTypeOK
<1>1. LockStep(p)
  <2> SUFFICES ASSUME NEW q \in Procs \ {p}, op[q].pc \in Holding
               PROVE  owns'[op[q].n] = {q}
    BY DEF LockStep
  <2>1. op[q] # Idle
    BY IdleHolds
  <2>2. op[q].n \in Names /\ owns[op[q].n] = {q}
    BY <2>1 DEF VolInv, OpOK, KindOK
  <2> QED
    BY <1>0, <2>2
<1> QED
  BY <1>0, <1>1 DEF AbsTypeOK

\* A lock is given back by the request that holds it.
LEMMA LockGiven ==
  ASSUME VolInv, NEW p \in Procs, NEW n \in Names, GiveBack(p, n)
  PROVE  LockStep(p) /\ AbsTypeOK'
<1>0. owns \in [Names -> SUBSET Procs] /\ wants \in [Procs -> SUBSET Names]
  BY DEF VolInv, TypeOK, AbsTypeOK
<1>1. LockStep(p)
  <2> SUFFICES ASSUME NEW q \in Procs \ {p}, op[q].pc \in Holding
               PROVE  owns'[op[q].n] = {q}
    BY DEF LockStep
  <2>1. op[q] # Idle
    BY IdleHolds
  <2>2. op[q].n \in Names /\ owns[op[q].n] = {q}
    BY <2>1 DEF VolInv, OpOK, KindOK
  <2> QED
    BY <1>0, <2>2 DEF GiveBack
<1> QED
  BY <1>0, <1>1 DEF AbsTypeOK, GiveBack

\* What is known of a request that is inside a call.
LEMMA InCall ==
  ASSUME VolInv, NEW p \in Procs, op[p].pc # "idle"
  PROVE  /\ op[p] \in OpType /\ op[p] # Idle /\ op[p].n \in Names
         /\ OpOK(p) /\ DOMAIN op = Procs
  BY IdleHolds DEF VolInv, TypeOK, OpOK, KindOK

\* An idle request has nothing to do.
LEMMA IdleOp ==
  ASSUME VolInv, NEW p \in Procs, op[p].pc = "idle"
  PROVE  op[p] = Idle /\ DOMAIN op = Procs
  BY DEF VolInv, TypeOK, OpOK, KindOK

\* An operation that has ended is an operation.
LEMMA IdleType == Idle \in OpType
  BY DEF Idle, OpType, Dos, PCs
-------------------------------------------------------------------------------
(* How a call ends                                                              *)

\* A call that ends with an error, or ends well and gives no container a volume.
LEMMA LeaveOK ==
  ASSUME VolInv, NEW p \in Procs, NEW b \in BOOLEAN, op[p].pc \in Holding,
         Leave(p, [op[p] EXCEPT !.ok = b]), mounts' = mounts,
         b => op[p].do \notin {"createC", "startC"} \/ op[p].call = "deref" \/ op[p].pc = "named"
  PROVE  \E o : /\ GoesTo(p, o) /\ LockStep(p) /\ AbsTypeOK' /\ OpOK(p)'
                /\ op[p].pc # "named" /\ o.pc = "returned" /\ o.do \in {"createC", "startC"} => ~o.ok
                /\ o.do \notin {"createC", "startC"} \/ (o.n = op[p].n /\ o.v = op[p].v /\ o.c = op[p].c)
                /\ o.pc \in {"idle", "returned"} /\ o.do \in {op[p].do, "idle"}
<1> DEFINE o0 == [op[p] EXCEPT !.ok = b]
           o1 == [o0 EXCEPT !.pc = "returned", !.d = NoDriver]
           o == IF GoesOn(o0) THEN o1 ELSE Idle
<1>1. op[p] \in OpType /\ op[p] # Idle /\ op[p].n \in Names /\ OpOK(p) /\ DOMAIN op = Procs
  BY IdleHolds, InCall
<1>2. op' = [op EXCEPT ![p] = o] /\ GiveBack(p, op[p].n)
  BY DEF Leave, Go
<1>3. LockStep(p) /\ AbsTypeOK'
  BY <1>1, <1>2, LockGiven
<1>4. /\ o1 \in OpType /\ o1.do = op[p].do /\ o1.c = op[p].c /\ o1.n = op[p].n
      /\ o1.v = op[p].v /\ o1.call = op[p].call /\ o1.pc = "returned" /\ o1.ok = b
      /\ o1.pc \notin Holding
  <2>1. "returned" \in PCs \ Holding
    BY DEF Holding, PCs
  <2> QED
    BY <1>1, <2>1 DEF OpType
<1>5. op'[p] = o
  BY <1>1, <1>2
<1>6. GoesOn(o0) /\ o0.do \in {"createC", "startC"} => b /\ op[p].pc = "named"
  BY <1>1 DEF GoesOn, OpOK, KindOK, OpType
<1>7. GoesTo(p, o)
  BY <1>1, <1>2, <1>4, IdleHolds DEF GoesTo, Working
<1>8. OpOK(p)'
  <2>1. CASE ~GoesOn(o0)
    BY <2>1, <1>5, IdleHolds, IdleType DEF OpOK, KindOK, PlaceOK, VolumeOK, UnreferencedOK, ContainerOK
  <2>2. CASE GoesOn(o0)
    <3>1. PICK x : x = o1
      OBVIOUS
    <3>2. op'[p] = x
      BY <2>2, <1>5, <3>1
    <3>3. /\ x \in OpType /\ x.do = op[p].do /\ x.c = op[p].c /\ x.n = op[p].n
          /\ x.v = op[p].v /\ x.call = op[p].call /\ x.pc = "returned" /\ x.ok = b
          /\ x.pc \notin Holding
      BY <1>4, <3>1
    <3>4. x.do \in {"createC", "startC"} => op[p].pc = "named"
      BY <1>1, <1>6, <2>2, <3>3 DEF OpType
    <3>5. KindOK(x) /\ PlaceOK(x)
      BY <1>1, <3>3 DEF OpOK, KindOK, PlaceOK
    <3>6. VolumeOK(x)'
      BY <1>1, <3>3, <3>4 DEF OpOK, VolumeOK
    <3>7. UnreferencedOK(x)'
      BY <3>3 DEF UnreferencedOK
    <3>8. ContainerOK(x)'
      BY <1>1, <3>3, <3>4 DEF OpOK, ContainerOK
    <3> QED
      BY <3>2, <3>3, <3>5, <3>6, <3>7, <3>8 DEF OpOK, KindOK, PlaceOK, VolumeOK, UnreferencedOK, ContainerOK
  <2> QED
    BY <2>1, <2>2
<1>9. /\ op[p].pc # "named" /\ o.pc = "returned" /\ o.do \in {"createC", "startC"} => ~o.ok
      /\ o.do \notin {"createC", "startC"} \/ (o.n = op[p].n /\ o.v = op[p].v /\ o.c = op[p].c)
      /\ o.pc \in {"idle", "returned"} /\ o.do \in {op[p].do, "idle"}
  <2>1. CASE ~GoesOn(o0)
    BY <2>1, IdleHolds
  <2>2. CASE GoesOn(o0)
    <3>1. o = o1 /\ o0.do = op[p].do
      BY <2>2, <1>1 DEF OpType
    <3> QED
      BY <3>1, <1>4, <1>6, <2>2
  <2> QED
    BY <2>1, <2>2
<1> HIDE DEF o
<1> QED
  BY <1>3, <1>7, <1>8, <1>9

\* A call that ends without a change of the store and gives no container a volume.
LEMMA LeaveQuiet ==
  ASSUME VolInv, NEW p \in Procs, NEW b \in BOOLEAN, op[p].pc \in Holding \ {"named", "purge"},
         Leave(p, [op[p] EXCEPT !.ok = b]),
         b => op[p].do \notin {"createC", "startC"} \/ op[p].call = "deref",
         meta' \in [Names -> Drivers \cup {NoDriver}],
         UNCHANGED <<names, refs, dropped, vols, mounts>>
  PROVE  VolInv'
<1>1. PICK o : /\ GoesTo(p, o) /\ LockStep(p) /\ AbsTypeOK' /\ OpOK(p)'
               /\ o.pc = "returned" /\ o.do \in {"createC", "startC"} => ~o.ok
  BY LeaveOK
<1> QED
  BY <1>1, QuietStep
-------------------------------------------------------------------------------
(* How a call goes on                                                           *)

\* The request goes on, in the same call, at place pc.
Moves(p, x, pc) ==
  /\ op' = [op EXCEPT ![p] = x]
  /\ x \in OpType
  /\ x.pc = pc
  /\ x.do = op[p].do /\ x.call = op[p].call /\ x.n = op[p].n /\ x.c = op[p].c

\* What Goto and Found leave of the request.
LEMMA GotoMoves ==
  ASSUME VolInv, NEW p \in Procs, op[p].pc # "idle", NEW pc \in PCs, Goto(p, pc)
  PROVE  \E x : /\ Moves(p, x, pc) /\ UNCHANGED lock /\ x.d = op[p].d
                /\ x.v = IF pc \in {"meta", "driver"} THEN NoDriver ELSE op[p].v
<1>1. op[p] \in OpType /\ DOMAIN op = Procs
  BY InCall
<1> DEFINE x == [op[p] EXCEPT !.pc = pc, !.v = IF pc \in {"meta", "driver"} THEN NoDriver ELSE @]
<1>2. /\ x \in OpType /\ x.pc = pc /\ x.do = op[p].do /\ x.call = op[p].call
      /\ x.n = op[p].n /\ x.c = op[p].c /\ x.d = op[p].d
      /\ x.v = IF pc \in {"meta", "driver"} THEN NoDriver ELSE op[p].v
  BY <1>1 DEF OpType
<1>3. op' = [op EXCEPT ![p] = x] /\ UNCHANGED lock
  BY DEF Goto, Go
<1> HIDE DEF x
<1> QED
  BY <1>2, <1>3 DEF Moves

\* An operation that has found its volume, or knows that there is none, keeps the name's lock
\* and moves on with it.
LEMMA FoundMoves ==
  ASSUME VolInv, NEW p \in Procs, op[p].pc # "idle", NEW pc \in PCs,
         NEW d \in Drivers \cup {NoDriver}, Found(p, d, pc)
  PROVE  \E x : /\ Moves(p, x, pc) /\ UNCHANGED lock /\ x.v = d
                /\ x.d = IF pc \in {"named", "reset"} THEN NoDriver ELSE op[p].d
<1>1. op[p] \in OpType /\ DOMAIN op = Procs
  BY InCall
<1> DEFINE x == [op[p] EXCEPT !.v = d, !.pc = pc, !.d = IF pc \in {"named", "reset"} THEN NoDriver ELSE @]
<1>2. /\ x \in OpType /\ x.pc = pc /\ x.do = op[p].do /\ x.call = op[p].call
      /\ x.n = op[p].n /\ x.c = op[p].c /\ x.v = d
      /\ x.d = IF pc \in {"named", "reset"} THEN NoDriver ELSE op[p].d
  BY <1>1 DEF OpType
<1>3. op' = [op EXCEPT ![p] = x] /\ UNCHANGED lock
  BY DEF Found, Go
<1> HIDE DEF x
<1> QED
  BY <1>2, <1>3 DEF Moves

\* A request that goes on in its call holds its lock, and works for the same container.
LEMMA MoveOK ==
  ASSUME VolInv, NEW p \in Procs, NEW pc, NEW x, Moves(p, x, pc), UNCHANGED lock,
         op[p].pc \in Holding, pc # "idle",
         PlaceOK(x), VolumeOK(x)', UnreferencedOK(x)', ContainerOK(x)'
  PROVE  GoesTo(p, x) /\ LockStep(p) /\ AbsTypeOK' /\ OpOK(p)'
<1>1. op[p] # Idle /\ OpOK(p) /\ DOMAIN op = Procs /\ op[p].n \in Names
  BY IdleHolds, InCall
<1>2. LockStep(p) /\ AbsTypeOK'
  BY LocksStay
<1>3. op'[p] = x /\ GoesTo(p, x)
  BY <1>1 DEF Moves, GoesTo
<1>4. KindOK(x)
  BY <1>1 DEF Moves, OpOK, KindOK
<1>5. owns'[x.n] = {p}
  BY <1>1 DEF OpOK, Moves, lock
<1>6. x \in OpType
  BY DEF Moves
<1> QED
  BY <1>2, <1>3, <1>4, <1>5, <1>6, OwnOK

\* A call that goes on without a change of the store.
LEMMA MoveQuiet ==
  ASSUME VolInv, NEW p \in Procs, NEW pc, NEW x, Moves(p, x, pc), UNCHANGED lock,
         op[p].pc \in Holding \ {"purge"}, pc \in Holding,
         meta' \in [Names -> Drivers \cup {NoDriver}],
         UNCHANGED <<names, refs, dropped, vols, mounts>>,
         PlaceOK(x), VolumeOK(x), UnreferencedOK(x), ContainerOK(x)
  PROVE  VolInv'
<1>1. VolumeOK(x)' /\ UnreferencedOK(x)' /\ ContainerOK(x)'
  BY DEF VolumeOK, UnreferencedOK, ContainerOK, Has
<1>2. pc # "idle" /\ pc # "returned"
  BY DEF Holding
<1>3. GoesTo(p, x) /\ LockStep(p) /\ AbsTypeOK' /\ OpOK(p)'
  BY <1>1, <1>2, MoveOK
<1>4. x.pc # "returned"
  BY <1>2 DEF Moves
<1> QED
  BY <1>3, <1>4, QuietStep

\* A call that purges its name and goes on.
LEMMA MovePurge ==
  ASSUME VolInv, NEW p \in Procs, NEW pc, NEW x, Moves(p, x, pc), UNCHANGED lock,
         op[p].pc \in Holding, pc \in Holding, Purge(op[p].n),
         (refs[op[p].n] = {} /\ dropped' = dropped) \/ dropped' = dropped \cup refs[op[p].n],
         UNCHANGED <<vols, mounts>>,
         PlaceOK(x), VolumeOK(x), ContainerOK(x)
  PROVE  VolInv'
<1>0. op[p].n \in Names /\ refs \in [Names -> SUBSET Containers]
  BY IdleHolds, InCall DEF VolInv, TypeOK
<1>1. VolumeOK(x)' /\ UnreferencedOK(x)' /\ ContainerOK(x)'
  BY <1>0 DEF VolumeOK, UnreferencedOK, ContainerOK, Has, Purge, Moves
<1>2. pc # "idle" /\ pc # "returned"
  BY DEF Holding
<1>3. GoesTo(p, x) /\ LockStep(p) /\ AbsTypeOK' /\ OpOK(p)'
  BY <1>1, <1>2, MoveOK
<1>4. x.pc # "returned"
  BY <1>2 DEF Moves
<1> QED
  BY <1>0, <1>3, <1>4, PurgeStep

\* A call that purges its name and ends.
LEMMA LeavePurge ==
  ASSUME VolInv, NEW p \in Procs, NEW b \in BOOLEAN, op[p].pc \in Holding \ {"named"},
         Leave(p, [op[p] EXCEPT !.ok = b]),
         b => op[p].do \notin {"createC", "startC"} \/ op[p].call = "deref",
         Purge(op[p].n),
         (refs[op[p].n] = {} /\ dropped' = dropped) \/ dropped' = dropped \cup refs[op[p].n],
         UNCHANGED <<vols, mounts>>
  PROVE  VolInv'
<1>0. op[p].n \in Names
  BY IdleHolds, InCall
<1>1. PICK o : /\ GoesTo(p, o) /\ LockStep(p) /\ AbsTypeOK' /\ OpOK(p)'
               /\ o.pc = "returned" /\ o.do \in {"createC", "startC"} => ~o.ok
  BY LeaveOK
<1> QED
  BY <1>0, <1>1, PurgeStep
-------------------------------------------------------------------------------
(* The calls of the store                                                       *)

\* Types, for the steps below.
LEMMA StoreType ==
  ASSUME VolInv
  PROVE  /\ names \in [Names -> Drivers \cup {NoDriver}]
         /\ refs \in [Names -> SUBSET Containers]
         /\ meta \in [Names -> Drivers \cup {NoDriver}]
         /\ vols \in [Drivers -> SUBSET Names]
         /\ dropped \subseteq Containers
         /\ \A p \in Procs : op[p] \in OpType /\ OpOK(p)
  BY DEF VolInv, TypeOK, OpOK

\* Looking a name up in the cache, first in create, get and remove.
LEMMA CheckCacheKeeps ==
  ASSUME VolInv, NEW p \in Procs, CheckCache(p)
  PROVE  VolInv'
<1> DEFINE pc == IF names[op[p].n] = NoDriver THEN AfterCheck(p) ELSE "exists"
<1>1. op[p].pc = "cache" /\ op[p].pc \in Holding \ {"purge"}
  BY DEF CheckCache, At, Holding
<1>2. op[p] \in OpType /\ op[p].n \in Names /\ OpOK(p)
  BY <1>1, InCall
<1>3. names[op[p].n] \in Drivers \cup {NoDriver} /\ pc \in PCs /\ pc \in Holding
  BY <1>2, StoreType DEF AfterCheck, PCs, Holding
<1>4. PICK x : Moves(p, x, pc) /\ UNCHANGED lock /\ x.v = names[op[p].n]
  BY <1>1, <1>3, FoundMoves DEF CheckCache
<1>5. op[p].call = "create" /\ (pc # "exists" => refs[op[p].n] = {})
  BY <1>1, <1>2 DEF OpOK, PlaceOK, VolInv, RefsNamed, AfterCheck
<1>6. pc \in {"exists", "meta", "driver"} /\ (pc = "exists" => x.v \in Drivers)
  BY <1>3, <1>4 DEF AfterCheck
<1>7. PlaceOK(x) /\ VolumeOK(x) /\ UnreferencedOK(x) /\ ContainerOK(x)
  <2> HIDE DEF pc
  <2> QED
    BY <1>1, <1>2, <1>4, <1>5, <1>6 DEF Moves, PlaceOK, VolumeOK, UnreferencedOK, ContainerOK, OpOK, KindOK
<1>8. UNCHANGED <<names, refs, dropped, vols, mounts>> /\ meta' \in [Names -> Drivers \cup {NoDriver}]
  BY StoreType DEF CheckCache, store
<1> HIDE DEF pc
<1> QED
  BY <1>1, <1>3, <1>4, <1>7, <1>8, MoveQuiet

\* Asking the driver whether a cached volume is still there. The name is purged only without
\* references, so nobody who has been given the volume loses one.
LEMMA CheckExistsKeeps ==
  ASSUME VolInv, NEW p \in Procs, CheckExists(p)
  PROVE  VolInv'
<1> DEFINE n == op[p].n
           conflict == op[p].d \notin {NoDriver, op[p].v}
<1>1. op[p].pc = "exists" /\ op[p].pc \in Holding \ {"purge", "named"}
  BY DEF CheckExists, At, Holding
<1>2. /\ op[p] \in OpType /\ op[p].n \in Names /\ OpOK(p) /\ op[p].call = "create"
      /\ op[p].v \in Drivers
  BY <1>1, InCall DEF OpOK, PlaceOK, VolumeOK
<1>s. op[p].do # "startC"
  BY <1>1, <1>2, IdleHolds DEF OpOK, KindOK, PlaceOK
<1>3. PICK answer \in Lookups(op[p].v, n) :
          \/ /\ answer = "yes" /\ ~conflict
             /\ Goto(p, "named")
             /\ UNCHANGED store
          \/ /\ answer = "error" \/ (answer = "yes" /\ conflict) \/ (answer = "no" /\ refs[n] # {})
             /\ Error(p)
             /\ UNCHANGED store
          \/ /\ answer = "no" /\ refs[n] = {}
             /\ Purge(n)
             /\ Goto(p, AfterCheck(p))
             /\ UNCHANGED dropped
  BY DEF CheckExists
<1>4. UNCHANGED <<vols, mounts>>
  BY DEF CheckExists
<1>5. answer = "yes" => Has(op[p].v, n)
  BY DEF Lookups
<1>6. CASE answer = "yes" /\ Goto(p, "named") /\ UNCHANGED store
  <2>1. PICK x : Moves(p, x, "named") /\ UNCHANGED lock /\ x.v = op[p].v
    BY <1>1, <1>6, GotoMoves DEF PCs
  <2>2. PlaceOK(x) /\ VolumeOK(x) /\ UnreferencedOK(x) /\ ContainerOK(x)
    BY <1>1, <1>2, <1>s, <1>5, <1>6, <2>1
       DEF Moves, PlaceOK, VolumeOK, UnreferencedOK, ContainerOK, OpOK, KindOK
  <2> QED
    BY <1>1, <1>4, <1>6, <2>1, <2>2, MoveQuiet, StoreType DEF store, Holding
<1>7. CASE Error(p) /\ UNCHANGED store
  BY <1>1, <1>4, <1>7, LeaveQuiet, StoreType DEF store, Error
<1>8. CASE refs[n] = {} /\ Purge(n) /\ Goto(p, AfterCheck(p)) /\ UNCHANGED dropped
  <2>0. AfterCheck(p) \in {"meta", "driver"}
    BY DEF AfterCheck
  <2>1. PICK x : Moves(p, x, AfterCheck(p)) /\ UNCHANGED lock
    BY <1>1, <1>8, <2>0, GotoMoves DEF PCs
  <2>2. PlaceOK(x) /\ VolumeOK(x) /\ ContainerOK(x)
    BY <1>1, <1>2, <2>0, <2>1
       DEF Moves, PlaceOK, VolumeOK, ContainerOK, OpOK, KindOK
  <2> QED
    BY <1>1, <1>4, <1>8, <2>0, <2>1, <2>2, MovePurge DEF Holding
<1> QED
  BY <1>3, <1>6, <1>7, <1>8

\* getVolume fails without a change of the store.
LEMMA NotFoundQuiet ==
  ASSUME VolInv, NEW p \in Procs, op[p].pc \in {"meta", "lookup"}, NotFound(p),
         UNCHANGED <<names, refs, meta, dropped, vols, mounts>>
  PROVE  VolInv'
<1>1. op[p].pc \in Holding \ {"purge", "named"}
  BY DEF Holding
<1>2. op[p] \in OpType /\ op[p].n \in Names /\ OpOK(p)
  BY <1>1, IdleHolds, InCall
<1>3. CASE op[p].call = "create"
  <2>1. PICK x : Moves(p, x, "driver") /\ UNCHANGED lock
    BY <1>1, <1>3, IdleHolds, GotoMoves DEF PCs, NotFound
  <2>2. PlaceOK(x) /\ VolumeOK(x) /\ UnreferencedOK(x) /\ ContainerOK(x)
    BY <1>2, <1>3, <2>1
       DEF Moves, PlaceOK, VolumeOK, UnreferencedOK, ContainerOK, OpOK, KindOK
  <2> QED
    BY <1>1, <2>1, <2>2, MoveQuiet, StoreType DEF Holding
<1>4. CASE op[p].call # "create"
  BY <1>1, <1>4, LeaveQuiet, StoreType DEF NotFound, Error
<1> QED
  BY <1>3, <1>4

\* Reading the driver's name from the metadata.
LEMMA ReadMetaKeeps ==
  ASSUME VolInv, NEW p \in Procs, ReadMeta(p)
  PROVE  VolInv'
<1> DEFINE n == op[p].n
           known == IF meta[n] # NoDriver THEN meta[n] ELSE names[n]
<1>1. op[p].pc = "meta" /\ op[p].pc \in Holding \ {"purge", "named"}
  BY DEF ReadMeta, At, Holding
<1>2. op[p] \in OpType /\ op[p].n \in Names /\ OpOK(p)
  BY <1>1, InCall
<1>3. known \in Drivers \cup {NoDriver}
  BY <1>2, StoreType
<1>4. UNCHANGED <<names, refs, dropped, vols, mounts>>
  BY DEF ReadMeta
<1>5. CASE meta' = [meta EXCEPT ![n] = known] /\ Found(p, known, "lookup")
  <2>1. PICK x : Moves(p, x, "lookup") /\ UNCHANGED lock
    <3> HIDE DEF known
    <3> QED
      BY <1>1, <1>3, <1>5, FoundMoves DEF PCs
  <2>2. PlaceOK(x) /\ VolumeOK(x) /\ UnreferencedOK(x) /\ ContainerOK(x)
    BY <1>1, <1>2, <2>1
       DEF Moves, PlaceOK, VolumeOK, UnreferencedOK, ContainerOK, OpOK, KindOK
  <2>3. meta' \in [Names -> Drivers \cup {NoDriver}]
    BY <1>3, <1>5, StoreType
  <2> QED
    BY <1>1, <1>4, <2>1, <2>2, <2>3, MoveQuiet DEF Holding
<1>6. CASE NotFound(p) /\ UNCHANGED meta
  BY <1>1, <1>4, <1>6, NotFoundQuiet
<1> QED
  BY <1>5, <1>6 DEF ReadMeta

\* Asking the driver the metadata names.
LEMMA LookupKnownKeeps ==
  ASSUME VolInv, NEW p \in Procs, LookupKnown(p)
  PROVE  VolInv'
<1> DEFINE n == op[p].n
<1>1. op[p].pc = "lookup" /\ op[p].pc \in Holding \ {"purge", "named"} /\ op[p].v # NoDriver
  BY DEF LookupKnown, At, Holding
<1>2. op[p] \in OpType /\ op[p].n \in Names /\ OpOK(p) /\ op[p].v \in Drivers
  BY <1>1, InCall DEF OpType
<1>s. op[p].do # "startC"
  BY <1>1, <1>2, IdleHolds DEF OpOK, KindOK, PlaceOK
<1>3. PICK answer \in Lookups(op[p].v, n) :
          \/ /\ answer = "yes"
             /\ Goto(p, "named")
             /\ UNCHANGED store
          \/ /\ answer = "no"
             /\ Purge(n)
             /\ dropped' = dropped \cup refs[n]
             /\ NotFound(p)
          \/ /\ answer = "error"
             /\ NotFound(p)
             /\ UNCHANGED store
  BY DEF LookupKnown
<1>4. UNCHANGED <<vols, mounts>>
  BY DEF LookupKnown
<1>5. answer = "yes" => Has(op[p].v, n)
  BY DEF Lookups
<1>6. CASE answer = "yes" /\ Goto(p, "named") /\ UNCHANGED store
  <2>1. PICK x : Moves(p, x, "named") /\ UNCHANGED lock /\ x.v = op[p].v
    BY <1>1, <1>6, GotoMoves DEF PCs
  <2>2. PlaceOK(x) /\ VolumeOK(x) /\ UnreferencedOK(x) /\ ContainerOK(x)
    BY <1>1, <1>2, <1>s, <1>5, <1>6, <2>1
       DEF Moves, PlaceOK, VolumeOK, UnreferencedOK, ContainerOK, OpOK, KindOK
  <2> QED
    BY <1>1, <1>4, <1>6, <2>1, <2>2, MoveQuiet, StoreType DEF store, Holding
<1>7. CASE NotFound(p) /\ UNCHANGED store
  BY <1>1, <1>4, <1>7, NotFoundQuiet DEF store
<1>8. CASE Purge(n) /\ dropped' = dropped \cup refs[n] /\ NotFound(p)
  <2>1. CASE op[p].call = "create"
    <3>1. PICK x : Moves(p, x, "driver") /\ UNCHANGED lock
      BY <1>1, <1>8, <2>1, GotoMoves DEF PCs, NotFound
    <3>2. PlaceOK(x) /\ VolumeOK(x) /\ ContainerOK(x)
      BY <1>1, <1>2, <2>1, <3>1
         DEF Moves, PlaceOK, VolumeOK, ContainerOK, OpOK, KindOK
    <3> QED
      BY <1>1, <1>4, <1>8, <3>1, <3>2, MovePurge DEF Holding
  <2>2. CASE op[p].call # "create"
    BY <1>1, <1>4, <1>8, <2>2, LeavePurge DEF NotFound, Error
  <2> QED
    BY <2>1, <2>2
<1> QED
  BY <1>3, <1>6, <1>7, <1>8

\* Asking one driver after another for a name nobody knows.
LEMMA ProbeKeeps ==
  ASSUME VolInv, NEW p \in Procs, Probe(p)
  PROVE  VolInv'
<1> DEFINE n == op[p].n
<1>1. op[p].pc = "lookup" /\ op[p].pc \in Holding \ {"purge", "named"}
  BY DEF Probe, At, Holding
<1>2. op[p] \in OpType /\ op[p].n \in Names /\ OpOK(p)
  BY <1>1, InCall
<1>s. op[p].do # "startC"
  BY <1>1, <1>2, IdleHolds DEF OpOK, KindOK, PlaceOK
<1>3. UNCHANGED <<names, refs, dropped, vols, mounts>>
  BY DEF Probe
<1>4. CASE \E d \in Drivers : /\ Has(d, n) /\ meta' = [meta EXCEPT ![n] = d]
                              /\ Found(p, d, "named")
  <2>0. PICK d \in Drivers : /\ Has(d, n) /\ meta' = [meta EXCEPT ![n] = d]
                              /\ Found(p, d, "named")
    BY <1>4
  <2>1. PICK x : Moves(p, x, "named") /\ UNCHANGED lock /\ x.v = d
    BY <1>1, <2>0, FoundMoves DEF PCs
  <2>2. PlaceOK(x) /\ VolumeOK(x) /\ UnreferencedOK(x) /\ ContainerOK(x)
    BY <1>1, <1>2, <1>s, <2>0, <2>1
       DEF Moves, PlaceOK, VolumeOK, UnreferencedOK, ContainerOK, OpOK, KindOK
  <2>3. meta' \in [Names -> Drivers \cup {NoDriver}]
    BY <2>0, StoreType
  <2> QED
    BY <1>1, <1>3, <2>1, <2>2, <2>3, MoveQuiet DEF Holding
<1>5. CASE NotFound(p) /\ UNCHANGED meta
  BY <1>1, <1>3, <1>5, NotFoundQuiet
<1> QED
  BY <1>4, <1>5 DEF Probe

\* A driver makes the volume, or fails.
LEMMA CreateInDriverKeeps ==
  ASSUME VolInv, NEW p \in Procs, CreateInDriver(p)
  PROVE  VolInv'
<1> DEFINE n == op[p].n
           d == IF op[p].d = NoDriver THEN Local ELSE op[p].d
<1>1. op[p].pc = "driver" /\ op[p].pc \in Holding \ {"purge", "named"}
  BY DEF CreateInDriver, At, Holding
<1>2. op[p] \in OpType /\ op[p].n \in Names /\ OpOK(p) /\ op[p].call = "create" /\ d \in Drivers
  BY <1>1, InCall, LocalAssumption DEF OpOK, PlaceOK, OpType
<1>s. op[p].do # "startC"
  BY <1>1, <1>2, IdleHolds DEF OpOK, KindOK, PlaceOK
<1>3. UNCHANGED <<names, refs, meta, dropped, mounts>>
  BY DEF CreateInDriver, store
<1> HIDE DEF d
<1>4. CASE Has(d, n) /\ Found(p, d, "named") /\ UNCHANGED vols
  <2>1. PICK x : Moves(p, x, "named") /\ UNCHANGED lock /\ x.v = d
    BY <1>1, <1>2, <1>4, FoundMoves DEF PCs
  <2>2. PlaceOK(x) /\ VolumeOK(x) /\ UnreferencedOK(x) /\ ContainerOK(x)
    BY <1>1, <1>2, <1>s, <1>4, <2>1
       DEF Moves, PlaceOK, VolumeOK, UnreferencedOK, ContainerOK, OpOK, KindOK
  <2> QED
    BY <1>1, <1>3, <1>4, <2>1, <2>2, MoveQuiet, StoreType DEF Holding
<1>5. CASE vols' = [vols EXCEPT ![d] = @ \cup {n}] /\ Found(p, d, "reset")
  <2>0. /\ vols' \in [Drivers -> SUBSET Names] /\ n \in vols'[d]
        /\ \A e \in Drivers, m \in Names : Has(e, m) => m \in vols'[e]
    BY <1>2, <1>5, StoreType DEF Has
  <2>1. PICK x : Moves(p, x, "reset") /\ UNCHANGED lock /\ x.v = d
    BY <1>1, <1>2, <1>5, FoundMoves DEF PCs
  <2>2. PlaceOK(x) /\ VolumeOK(x)' /\ UnreferencedOK(x)' /\ ContainerOK(x)'
    BY <1>1, <1>2, <1>s, <1>3, <2>0, <2>1
       DEF Moves, PlaceOK, VolumeOK, UnreferencedOK, ContainerOK, OpOK, KindOK, Has
  <2>3. GoesTo(p, x) /\ LockStep(p) /\ AbsTypeOK' /\ OpOK(p)'
    BY <1>1, <2>1, <2>2, MoveOK
  <2>4. op'[p] = x /\ x.pc = "reset" /\ \A q \in Procs \ {p} : op'[q] = op[q]
    BY <2>1 DEF Moves, VolInv, TypeOK
  <2>5. GivenOK'
    <3> SUFFICES ASSUME NEW c \in Containers, NEW m \in Names, NEW e \in Drivers, Given(c, m, e)'
                 PROVE  Given(c, m, e)
      BY <1>3, <2>0 DEF VolInv, GivenOK, Has
    <3> QED
      BY <1>3, <2>4 DEF Given
  <2>6. CachedIsBacked'
    <3> SUFFICES ASSUME NEW m \in Names, names[m] # NoDriver, ~Has(names[m], m)
                 PROVE  \E q \in Procs : op'[q].n = m /\ op'[q].pc = "purge"
      BY <1>3, <2>0, StoreType DEF CachedIsBacked, Has, At
    <3>1. PICK q \in Procs : op[q].n = m /\ op[q].pc = "purge"
      BY DEF VolInv, CachedIsBacked, At
    <3> QED
      BY <1>1, <2>4, <3>1
  <2>7. MountsOK' /\ RefsNamed'
    BY <1>3 DEF VolInv, MountsOK, RefsNamed
  <2> QED
    BY <1>3, <2>0, <2>3, <2>5, <2>6, <2>7, StepOK, StoreType DEF VolInv, TypeOK
<1>6. CASE Error(p) /\ UNCHANGED vols
  BY <1>1, <1>3, <1>6, LeaveQuiet, StoreType DEF Error
<1> QED
  BY <1>4, <1>5, <1>6 DEF CreateInDriver, d

\* create finds the references of the name gone already: the reset loses none.
LEMMA CreateResetKeeps ==
  ASSUME VolInv, NEW p \in Procs, CreateReset(p)
  PROVE  VolInv'
<1>1. op[p].pc = "reset" /\ op[p].pc \in Holding \ {"purge", "named"}
  BY DEF CreateReset, At, Holding
<1>2. op[p] \in OpType /\ op[p].n \in Names /\ OpOK(p) /\ op[p].call = "create"
  BY <1>1, InCall DEF OpOK, PlaceOK
<1>s. op[p].do # "startC"
  BY <1>1, <1>2, IdleHolds DEF OpOK, KindOK, PlaceOK
<1>3. refs[op[p].n] = {}
  BY <1>1, <1>2 DEF OpOK, UnreferencedOK
<1>4. refs' = refs
  BY <1>2, <1>3, StoreType DEF CreateReset
<1>5. PICK x : Moves(p, x, "setmeta") /\ UNCHANGED lock /\ x.v = op[p].v
  BY <1>1, GotoMoves DEF CreateReset, PCs
<1>6. PlaceOK(x) /\ VolumeOK(x) /\ UnreferencedOK(x) /\ ContainerOK(x)
  BY <1>1, <1>2, <1>3, <1>s, <1>5
     DEF Moves, PlaceOK, VolumeOK, UnreferencedOK, ContainerOK, OpOK, KindOK
<1> QED
  BY <1>1, <1>4, <1>5, <1>6, MoveQuiet, StoreType DEF CreateReset, Holding

\* The metadata of a new volume are saved, or not.
LEMMA CreateSetMetaKeeps ==
  ASSUME VolInv, NEW p \in Procs, CreateSetMeta(p)
  PROVE  VolInv'
<1>1. op[p].pc = "setmeta" /\ op[p].pc \in Holding \ {"purge", "named"}
  BY DEF CreateSetMeta, At, Holding
<1>2. op[p] \in OpType /\ op[p].n \in Names /\ OpOK(p) /\ op[p].call = "create" /\ op[p].v \in Drivers
  BY <1>1, InCall DEF OpOK, PlaceOK, VolumeOK
<1>s. op[p].do # "startC"
  BY <1>1, <1>2, IdleHolds DEF OpOK, KindOK, PlaceOK
<1>3. UNCHANGED <<names, refs, dropped, vols, mounts>>
  BY DEF CreateSetMeta
<1>4. CASE meta' = [meta EXCEPT ![op[p].n] = op[p].v] /\ Goto(p, "named")
  <2>1. PICK x : Moves(p, x, "named") /\ UNCHANGED lock /\ x.v = op[p].v
    BY <1>1, <1>4, GotoMoves DEF PCs
  <2>2. PlaceOK(x) /\ VolumeOK(x) /\ UnreferencedOK(x) /\ ContainerOK(x)
    BY <1>1, <1>2, <1>s, <2>1
       DEF Moves, PlaceOK, VolumeOK, UnreferencedOK, ContainerOK, OpOK, KindOK
  <2>3. meta' \in [Names -> Drivers \cup {NoDriver}]
    BY <1>2, <1>4, StoreType
  <2> QED
    BY <1>1, <1>3, <2>1, <2>2, <2>3, MoveQuiet DEF Holding
<1>5. CASE Error(p) /\ UNCHANGED meta
  BY <1>1, <1>3, <1>5, LeaveQuiet, StoreType DEF Error
<1> QED
  BY <1>4, <1>5 DEF CreateSetMeta

\* CreateWithRef fetches the volume from the driver it found.
LEMMA GetFromDriverKeeps ==
  ASSUME VolInv, NEW p \in Procs, GetFromDriver(p)
  PROVE  VolInv'
<1> DEFINE d == op[p].d
<1>1. op[p].pc = "getref" /\ op[p].pc \in Holding \ {"purge", "named"}
  BY DEF GetFromDriver, At, Holding
<1>2. /\ op[p] \in OpType /\ op[p].n \in Names /\ OpOK(p)
      /\ op[p].call = "getref" /\ op[p].d \in Drivers
  BY <1>1, InCall DEF OpOK, PlaceOK, VolumeOK
<1>3. UNCHANGED <<names, refs, meta, dropped, vols, mounts>>
  BY DEF GetFromDriver, store
<1>4. CASE Has(d, op[p].n) /\ Found(p, d, "named")
  <2>1. PICK x : Moves(p, x, "named") /\ UNCHANGED lock /\ x.v = d
    BY <1>1, <1>2, <1>4, FoundMoves DEF PCs
  <2>2. PlaceOK(x) /\ VolumeOK(x) /\ UnreferencedOK(x) /\ ContainerOK(x)
    BY <1>1, <1>2, <1>4, <2>1
       DEF Moves, PlaceOK, VolumeOK, UnreferencedOK, ContainerOK, OpOK, KindOK
  <2> QED
    BY <1>1, <1>3, <2>1, <2>2, MoveQuiet, StoreType DEF Holding
<1>5. CASE Error(p)
  BY <1>1, <1>3, <1>5, LeaveQuiet, StoreType DEF Error
<1> QED
  BY <1>4, <1>5 DEF GetFromDriver

\* A request that is over.
LEMMA EndsOK ==
  ASSUME VolInv, NEW p \in Procs, op' = [op EXCEPT ![p] = Idle]
  PROVE  GoesTo(p, Idle) /\ OpOK(p)' /\ Idle.pc # "returned"
<1>1. op'[p] = Idle
  BY DEF VolInv, TypeOK
<1> QED
  BY <1>1, IdleHolds, IdleType
     DEF GoesTo, Working, OpOK, KindOK, PlaceOK, VolumeOK, UnreferencedOK, ContainerOK

\* Remove refuses a volume with references; what it goes on with has none.
LEMMA RemoveCheckKeeps ==
  ASSUME VolInv, NEW p \in Procs, RemoveCheck(p)
  PROVE  VolInv'
<1>1. op[p].pc = "check" /\ op[p].pc \in Holding \ {"purge", "named"}
  BY DEF RemoveCheck, At, Holding
<1>2. op[p] \in OpType /\ op[p].n \in Names /\ OpOK(p) /\ op[p].call = "remove"
  BY <1>1, InCall DEF OpOK, PlaceOK
<1>s. op[p].do # "startC"
  BY <1>1, <1>2, IdleHolds DEF OpOK, KindOK, PlaceOK
<1>3. UNCHANGED <<names, refs, meta, dropped, vols, mounts>>
  BY DEF RemoveCheck, store
<1>4. CASE refs[op[p].n] # {}
  <2>1. op' = [op EXCEPT ![p] = Idle] /\ GiveBack(p, op[p].n)
    <3>1. ~GoesOn(Idle)
      BY DEF GoesOn, Idle
    <3> QED
      BY <1>4, <3>1 DEF RemoveCheck, Leave, Go
  <2>2. LockStep(p) /\ AbsTypeOK'
    BY <1>2, <2>1, LockGiven
  <2> QED
    BY <1>1, <1>3, <2>1, <2>2, EndsOK, QuietStep, StoreType
<1>5. CASE refs[op[p].n] = {}
  <2>1. PICK x : Moves(p, x, "rmdriver") /\ UNCHANGED lock /\ x.v = op[p].v
    BY <1>1, <1>5, GotoMoves DEF PCs, RemoveCheck
  <2>2. PlaceOK(x) /\ VolumeOK(x) /\ UnreferencedOK(x) /\ ContainerOK(x)
    BY <1>1, <1>2, <1>s, <1>5, <2>1
       DEF Moves, PlaceOK, VolumeOK, UnreferencedOK, ContainerOK, OpOK, KindOK
  <2> QED
    BY <1>1, <1>3, <2>1, <2>2, MoveQuiet, StoreType DEF Holding
<1> QED
  BY <1>4, <1>5

\* The driver removes a volume that nothing refers to, and its name is about to be purged.
LEMMA RemoveInDriverKeeps ==
  ASSUME VolInv, NEW p \in Procs, RemoveInDriver(p)
  PROVE  VolInv'
<1> DEFINE n == op[p].n
           d == op[p].v
<1>1. op[p].pc = "rmdriver" /\ op[p].pc \in Holding \ {"purge", "named"}
  BY DEF RemoveInDriver, At, Holding
<1>2. op[p] \in OpType /\ op[p].n \in Names /\ OpOK(p) /\ op[p].call = "remove"
  BY <1>1, InCall DEF OpOK, PlaceOK
<1>s. op[p].do # "startC"
  BY <1>1, <1>2, IdleHolds DEF OpOK, KindOK, PlaceOK
<1>3. UNCHANGED <<names, refs, meta, dropped, mounts>>
  BY DEF RemoveInDriver, store
<1>4. refs[n] = {} /\ owns[n] = {p}
  BY <1>1, <1>2 DEF OpOK, UnreferencedOK
<1>5. CASE vols' = [vols EXCEPT ![d] = @ \ {n}] /\ Goto(p, "purge")
  <2>0. /\ vols' \in [Drivers -> SUBSET Names]
        /\ \A e \in Drivers, m \in Names : Has(e, m) /\ m # n => m \in vols'[e]
    BY <1>2, <1>5, StoreType DEF Has
  <2>1. PICK x : Moves(p, x, "purge") /\ UNCHANGED lock
    BY <1>1, <1>2, <1>5, GotoMoves DEF PCs
  <2>2. PlaceOK(x) /\ VolumeOK(x)' /\ UnreferencedOK(x)' /\ ContainerOK(x)'
    BY <1>1, <1>2, <1>s, <1>3, <1>4, <2>1
       DEF Moves, PlaceOK, VolumeOK, UnreferencedOK, ContainerOK, OpOK, KindOK
  <2>3. GoesTo(p, x) /\ LockStep(p) /\ AbsTypeOK' /\ OpOK(p)'
    BY <1>1, <2>1, <2>2, MoveOK
  <2>4. op'[p] = x /\ x.pc = "purge" /\ x.n = n /\ \A q \in Procs \ {p} : op'[q] = op[q]
    BY <2>1 DEF Moves, VolInv, TypeOK
  <2>5. GivenOK'
    <3> SUFFICES ASSUME NEW c \in Containers, NEW m \in Names, NEW e \in Drivers, Given(c, m, e)',
                        c \notin dropped
                 PROVE  c \in refs[m] /\ m \in vols'[e]
      BY <1>3 DEF GivenOK, Has
    <3>1. Given(c, m, e)
      BY <1>3, <2>4 DEF Given
    <3>2. c \in refs[m] /\ Has(e, m)
      BY <3>1 DEF VolInv, GivenOK
    <3> QED
      BY <1>4, <2>0, <3>2
  <2>6. CachedIsBacked'
    <3> SUFFICES ASSUME NEW m \in Names, names[m] # NoDriver, m \notin vols'[names[m]]
                 PROVE  \E q \in Procs : op'[q].n = m /\ op'[q].pc = "purge"
      BY <1>3 DEF CachedIsBacked, Has, At
    <3>1. CASE m = n
      BY <2>4, <3>1
    <3>2. CASE m # n
      <4>1. ~Has(names[m], m)
        BY <2>0, <3>2, StoreType
      <4>2. PICK q \in Procs : op[q].n = m /\ op[q].pc = "purge"
        BY <4>1 DEF VolInv, CachedIsBacked, At
      <4> QED
        BY <1>1, <2>4, <4>2
    <3> QED
      BY <3>1, <3>2
  <2>7. MountsOK' /\ RefsNamed'
    BY <1>3 DEF VolInv, MountsOK, RefsNamed
  <2> QED
    BY <1>3, <1>4, <2>0, <2>3, <2>5, <2>6, <2>7, StepOK, StoreType DEF VolInv, TypeOK
<1>6. CASE Error(p) /\ UNCHANGED vols
  BY <1>1, <1>3, <1>6, LeaveQuiet, StoreType DEF Error
<1> QED
  BY <1>5, <1>6 DEF RemoveInDriver

\* A volume the driver has removed leaves the cache: it had no reference when the name's lock
\* was taken, and references are taken under that lock.
LEMMA RemovePurgeStep ==
  ASSUME VolInv, NEW p \in Procs, RemovePurge(p)
  PROVE  VolInv'
<1>1. op[p].pc = "purge" /\ op[p].pc \in Holding \ {"named"}
  BY DEF RemovePurge, At, Holding
<1>2. op[p] # Idle /\ op[p].n \in Names /\ OpOK(p) /\ op[p].call = "remove" /\ refs[op[p].n] = {}
  BY <1>1, InCall DEF OpOK, PlaceOK, UnreferencedOK
<1>3. op[p].do \notin {"createC", "startC"}
  BY <1>2 DEF OpOK, KindOK
<1> QED
  BY <1>1, <1>2, <1>3, LeavePurge DEF RemovePurge, Answer

\* The reference that is given up is that of a container that has no volume.
LEMMA DereferenceKeeps ==
  ASSUME VolInv, NEW p \in Procs, Dereference(p)
  PROVE  VolInv'
<1> DEFINE n == op[p].n
           c0 == op[p].c
<1>1. op[p].pc = "deref" /\ op[p].pc \in Holding \ {"purge", "named"}
  BY DEF Dereference, At, Holding
<1>2. op[p] # Idle /\ op[p] \in OpType /\ op[p].n \in Names /\ OpOK(p) /\ op[p].call = "deref"
  BY <1>1, InCall DEF OpOK, PlaceOK
<1>3. op[p].do \in {"createC", "rmC"} /\ c0 \in Containers /\ owns[n] = {p}
  BY <1>1, <1>2 DEF OpOK, KindOK
<1>4. UNCHANGED <<names, meta, dropped, vols, mounts>> /\ mounts[c0] = NoMount
  BY <1>2, <1>3 DEF Dereference, OpOK, ContainerOK
<1>5. /\ refs' = [refs EXCEPT ![n] = @ \ {c0}]
      /\ refs' \in [Names -> SUBSET Containers]
      /\ \A m \in Names : refs'[m] \subseteq refs[m]
      /\ \A m \in Names, c \in Containers : c \in refs[m] /\ c # c0 => c \in refs'[m]
  BY <1>2, StoreType DEF Dereference
<1>6. PICK o : /\ GoesTo(p, o) /\ LockStep(p) /\ AbsTypeOK' /\ OpOK(p)'
               /\ o.pc = "returned" /\ o.do \in {"createC", "startC"} => ~o.ok
               /\ o.pc \in {"idle", "returned"}
  BY <1>1, <1>2, <1>4, LeaveOK DEF Dereference, Answer
<1>7. op'[p] = o /\ \A q \in Procs \ {p} : op'[q] = op[q]
  BY <1>6 DEF GoesTo, VolInv, TypeOK
<1>8. GivenOK'
  <2> SUFFICES ASSUME NEW c \in Containers, NEW m \in Names, NEW e \in Drivers, Given(c, m, e)',
                      c \notin dropped
               PROVE  c \in refs'[m] /\ Has(e, m)
    BY <1>4 DEF GivenOK, Has
  <2>1. Given(c, m, e)
    BY <1>4, <1>6, <1>7 DEF Given
  <2>2. c # c0
    <3> SUFFICES ASSUME c = c0 PROVE FALSE
      OBVIOUS
    <3>1. ~mounts[c].vol
      BY <1>4, NoMountVol
    <3>2. PICK q \in Procs : op[q].do \in {"createC", "startC"} /\ op[q].c = c0 /\ op[q].pc = "returned"
      BY <2>1, <3>1 DEF Given
    <3>3. q = p
      BY <1>3, <3>2 DEF VolInv, Apart, Working
    <3> QED
      BY <1>1, <3>2, <3>3
  <2> QED
    BY <1>5, <2>1, <2>2 DEF VolInv, GivenOK
<1>9. CachedIsBacked'
  <2> SUFFICES ASSUME NEW m \in Names, names[m] # NoDriver, ~Has(names[m], m)
               PROVE  \E q \in Procs : op'[q].n = m /\ op'[q].pc = "purge"
    BY <1>4 DEF CachedIsBacked, Has, At
  <2>1. PICK q \in Procs : op[q].n = m /\ op[q].pc = "purge"
    BY DEF VolInv, CachedIsBacked, At
  <2> QED
    BY <1>1, <1>7, <2>1
<1>10. MountsOK' /\ RefsNamed'
  BY <1>4, <1>5 DEF VolInv, MountsOK, RefsNamed
<1> QED
  BY <1>4, <1>5, <1>6, <1>8, <1>9, <1>10, StepOK, StoreType DEF VolInv, TypeOK, Has

\* VolumesPrune reads whether the volume has references.
LEMMA RefsKeeps ==
  ASSUME VolInv, NEW p \in Procs, Refs(p)
  PROVE  VolInv'
<1>1. op[p].pc = "refs" /\ op[p].pc \in Holding \ {"purge", "named"}
  BY DEF Refs, At, Holding
<1>2. op[p] # Idle /\ OpOK(p) /\ op[p].call = "refs"
  BY <1>1, InCall DEF OpOK, PlaceOK
<1>3. op[p].do \notin {"createC", "startC"}
  BY <1>2 DEF OpOK, KindOK
<1>4. (refs[op[p].n] = {}) \in BOOLEAN
  OBVIOUS
<1>5. UNCHANGED <<names, refs, meta, dropped, vols, mounts>>
  BY DEF Refs, store
<1> QED
  BY <1>1, <1>3, <1>4, <1>5, LeaveQuiet, StoreType DEF Refs

\* setNamed: the name is cached and the container, if any, is among its references.
LEMMA SetNamedKeeps ==
  ASSUME VolInv, NEW p \in Procs, SetNamed(p)
  PROVE  VolInv'
<1> DEFINE n == op[p].n
           r == IF op[p].call = "get" THEN {} ELSE {op[p].c} \cap Containers
<1>1. op[p].pc = "named" /\ op[p].pc \in Holding
  BY DEF SetNamed, At, Holding
<1>2. /\ op[p] # Idle /\ op[p] \in OpType /\ n \in Names /\ OpOK(p)
      /\ op[p].v \in Drivers /\ Has(op[p].v, n) /\ owns[n] = {p}
  BY <1>1, InCall DEF OpOK, VolumeOK
<1>3. UNCHANGED <<meta, vols, mounts>>
  BY DEF SetNamed
<1>4. /\ names' = [names EXCEPT ![n] = op[p].v]
      /\ refs' = [refs EXCEPT ![n] = @ \cup r] /\ dropped' = dropped \ r
  BY DEF SetNamed
<1>5. /\ names' \in [Names -> Drivers \cup {NoDriver}]
      /\ names'[n] = op[p].v
      /\ \A m \in Names : m # n => names'[m] = names[m]
  BY <1>2, <1>4, StoreType
<1>6. /\ refs' \in [Names -> SUBSET Containers] /\ dropped' \subseteq Containers
      /\ refs'[n] = refs[n] \cup r
      /\ \A m \in Names : refs[m] \subseteq refs'[m] /\ (m # n => refs'[m] = refs[m])
  BY <1>2, <1>4, StoreType
<1>7. PICK o : /\ GoesTo(p, o) /\ LockStep(p) /\ AbsTypeOK' /\ OpOK(p)'
               /\ o.do \notin {"createC", "startC"} \/ (o.n = op[p].n /\ o.v = op[p].v /\ o.c = op[p].c)
               /\ o.pc \in {"idle", "returned"} /\ o.do \in {op[p].do, "idle"}
  BY <1>1, <1>2, <1>3, LeaveOK DEF SetNamed, Answer
<1>8. op'[p] = o /\ \A q \in Procs \ {p} : op'[q] = op[q]
  BY <1>7 DEF GoesTo, VolInv, TypeOK
<1>9. op[p].call \in {"create", "getref", "get"}
  BY <1>1, <1>2 DEF OpOK, PlaceOK
\* Whom the reference is for.
<1>10. \/ op[p].do \in {"createC", "startC"} /\ r = {op[p].c} /\ op[p].c \in Containers
       \/ op[p].do \notin Working /\ op[p].do \notin {"createC", "startC"} /\ r = {}
  BY <1>2, <1>9, NoNameAssumption DEF OpOK, KindOK, Working
<1>11. op[p].do \in {"createC", "startC"} => ~mounts[op[p].c].vol
  BY <1>2, NoMountVol DEF OpOK, ContainerOK
<1>12. o.do \in {"createC", "startC"} => op[p].do \in {"createC", "startC"}
  BY <1>7
<1>13. GivenOK'
  <2> SUFFICES ASSUME NEW c \in Containers, NEW m \in Names, NEW e \in Drivers, Given(c, m, e)',
                      c \notin dropped'
               PROVE  c \in refs'[m] /\ Has(e, m)
    BY <1>3 DEF GivenOK, Has
  <2>1. CASE c \in r
    <3>1. op[p].do \in {"createC", "startC"} /\ c = op[p].c /\ ~mounts[c].vol
      BY <1>10, <1>11, <2>1
    <3>2. PICK q \in Procs : /\ op'[q].do \in {"createC", "startC"} /\ op'[q].c = c
                              /\ op'[q].n = m /\ op'[q].v = e
      BY <1>3, <3>1 DEF Given
    <3>3. q = p
      <4> SUFFICES ASSUME q # p PROVE FALSE
        OBVIOUS
      <4>1. op[q].do \in Working /\ op[p].do \in Working /\ op[q].c = op[p].c
        BY <1>8, <3>1, <3>2 DEF Working
      <4> QED
        BY <4>1 DEF VolInv, Apart
    <3>4. m = n /\ e = op[p].v
      BY <1>7, <1>8, <3>2, <3>3
    <3> QED
      BY <1>2, <1>6, <2>1, <3>4
  <2>2. CASE c \notin r
    <3>1. c \notin dropped
      BY <1>4, <2>2
    <3>2. Given(c, m, e)
      <4>1. CASE mounts[c].vol /\ mounts[c].n = m /\ mounts[c].d = e
        BY <4>1 DEF Given
      <4>2. CASE \E q \in Procs : /\ op'[q].do \in {"createC", "startC"} /\ op'[q].c = c
                                  /\ op'[q].pc = "returned" /\ op'[q].ok
                                  /\ op'[q].n = m /\ op'[q].v = e
        <5>1. PICK q \in Procs : /\ op'[q].do \in {"createC", "startC"} /\ op'[q].c = c
                                  /\ op'[q].pc = "returned" /\ op'[q].ok
                                  /\ op'[q].n = m /\ op'[q].v = e
          BY <4>2
        <5>2. q # p
          BY <1>7, <1>8, <1>10, <1>12, <2>2, <5>1
        <5> QED
          BY <1>8, <5>1, <5>2 DEF Given
      <4> QED
        BY <1>3, <4>1, <4>2 DEF Given
    <3> QED
      BY <1>6, <3>1, <3>2 DEF VolInv, GivenOK
  <2> QED
    BY <2>1, <2>2
<1>14. CachedIsBacked'
  <2> SUFFICES ASSUME NEW m \in Names, names'[m] # NoDriver, ~Has(names'[m], m)
               PROVE  \E q \in Procs : op'[q].n = m /\ op'[q].pc = "purge"
    BY <1>3 DEF CachedIsBacked, Has, At
  <2>1. m # n /\ names'[m] = names[m]
    BY <1>2, <1>5
  <2>2. PICK q \in Procs : op[q].n = m /\ op[q].pc = "purge"
    BY <2>1 DEF VolInv, CachedIsBacked, At
  <2> QED
    BY <1>1, <1>8, <2>2
<1>15. MountsOK' /\ RefsNamed'
  <2>1. op[p].v # NoDriver
    BY <1>2, NoDriverAssumption
  <2> QED
    BY <1>3, <1>5, <1>6, <2>1 DEF VolInv, MountsOK, RefsNamed
<1>16. \A m \in Names : owns[m] # {p} => refs'[m] \subseteq refs[m]
  BY <1>2, <1>6
<1> QED
  BY <1>3, <1>5, <1>6, <1>7, <1>13, <1>14, <1>15, <1>16, StepOK, StoreType DEF VolInv, TypeOK, Has

\* s.locks.Lock(name) returns.
LEMMA LockKeeps ==
  ASSUME VolInv, NEW p \in Procs, Lock(p)
  PROVE  VolInv'
<1>1. op[p].pc = "lock" /\ op[p].pc \notin Holding
  BY DEF Lock, At, Holding
<1>2. op[p] # Idle /\ op[p] \in OpType /\ op[p].n \in Names /\ OpOK(p) /\ DOMAIN op = Procs
  BY <1>1, InCall
<1>3. PICK x : x = [op[p] EXCEPT !.pc = FirstStep[op[p].call]]
  OBVIOUS
<1>4. op[p].call \in Calls
  BY <1>2 DEF OpOK, KindOK, Calls
<1>5. /\ FirstStep[op[p].call] \in Holding \cap PCs
      /\ FirstStep[op[p].call] \in {"cache", "getref", "meta", "check", "deref", "refs"}
      /\ \/ op[p].call = "create" /\ FirstStep[op[p].call] = "cache"
         \/ op[p].call = "getref" /\ FirstStep[op[p].call] = "getref"
         \/ op[p].call = "get" /\ FirstStep[op[p].call] = "meta"
         \/ op[p].call = "remove" /\ FirstStep[op[p].call] = "check"
         \/ op[p].call = "deref" /\ FirstStep[op[p].call] = "deref"
         \/ op[p].call = "refs" /\ FirstStep[op[p].call] = "refs"
  BY <1>4 DEF Calls, FirstStep, Holding, PCs
<1>6. /\ x \in OpType /\ x.do = op[p].do /\ x.call = op[p].call /\ x.n = op[p].n
      /\ x.c = op[p].c /\ x.pc = FirstStep[op[p].call] /\ x.d = op[p].d /\ x.v = op[p].v
  BY <1>2, <1>3, <1>5 DEF OpType
<1>7. op' = [op EXCEPT ![p] = x] /\ op'[p] = x
  BY <1>2, <1>3 DEF Lock, Go
<1>8. LockStep(p) /\ AbsTypeOK' /\ owns'[op[p].n] = {p}
  BY <1>2, LockTaken DEF Lock, Grant
<1>9. UNCHANGED <<names, refs, meta, dropped, vols, mounts>>
  BY DEF Lock, store
<1>10. KindOK(x) /\ PlaceOK(x)
  <2>1. x.pc # "idle"
    BY <1>5, <1>6
  <2>2. KindOK(x)
    BY <1>2, <1>6, <2>1 DEF OpOK, KindOK
  <2>3. PlaceOK(x)
    BY <1>5, <1>6 DEF PlaceOK
  <2> QED
    BY <2>2, <2>3
<1>11. VolumeOK(x) /\ UnreferencedOK(x)
  BY <1>1, <1>2, <1>5, <1>6 DEF OpOK, VolumeOK, UnreferencedOK
<1>12. ContainerOK(x)
  BY <1>1, <1>2, <1>5, <1>6, <1>10, IdleHolds DEF OpOK, ContainerOK, KindOK
<1>13. OpOK(p)'
  <2>1. VolumeOK(x)' /\ UnreferencedOK(x)' /\ ContainerOK(x)'
    BY <1>9, <1>11, <1>12 DEF VolumeOK, UnreferencedOK, ContainerOK, Has
  <2>2. owns'[x.n] = {p}
    BY <1>6, <1>8
  <2> QED
    BY <1>6, <1>7, <1>10, <2>1, <2>2, OwnOK
<1>14. GoesTo(p, x)
  BY <1>6, <1>7 DEF GoesTo
<1>15. x.pc # "returned"
  BY <1>5, <1>6
<1> QED
  BY <1>1, <1>8, <1>9, <1>13, <1>14, <1>15, QuietStep, StoreType
-------------------------------------------------------------------------------
(* Requests begin and go on                                                     *)

\* A request asks for the lock of its name: its first call, or its next one.
LEMMA AskOK ==
  ASSUME VolInv, NEW p \in Procs, NEW x \in OpType, op' = [op EXCEPT ![p] = x],
         x.pc = "lock", KindOK(x), VolumeOK(x), ContainerOK(x)', Ask(p, x.n), UNCHANGED vols
  PROVE  OpOK(p)' /\ LockStep(p) /\ AbsTypeOK'
<1>1. op'[p] = x
  BY DEF VolInv, TypeOK
<1>2. x.n \in Names /\ x.pc \notin Holding
  BY IdleHolds DEF KindOK, Holding
<1>3. PlaceOK(x) /\ VolumeOK(x)' /\ UnreferencedOK(x)'
  BY DEF PlaceOK, VolumeOK, UnreferencedOK, Has
<1>4. OpOK(p)'
  BY <1>1, <1>2, <1>3, OwnOK
<1> QED
  BY <1>2, <1>4, LocksStay

\* ... and nothing else changes.
LEMMA AskQuiet ==
  ASSUME VolInv, NEW p \in Procs, NEW x \in OpType, GoesTo(p, x), op[p].pc # "purge",
         x.pc = "lock", KindOK(x), VolumeOK(x), ContainerOK(x), Ask(p, x.n),
         UNCHANGED <<store, vols, mounts>>
  PROVE  VolInv'
<1>1. op' = [op EXCEPT ![p] = x] /\ ContainerOK(x)'
  BY DEF GoesTo, ContainerOK
<1>2. OpOK(p)' /\ LockStep(p) /\ AbsTypeOK'
  BY <1>1, AskOK
<1> QED
  BY <1>2, QuietStep, StoreType DEF store

\* A request begins with the lock of its name.
LEMMA BeginLockedKeeps ==
  ASSUME VolInv, NEW p \in Procs, NEW r \in OpType, BeginLocked(p, r),
         r.call \in {"create", "get"}, r.n \in Names,
         \/ r.do = "createC" /\ r.call = "create" /\ r.c \in Containers /\ Free(r.c) /\ mounts[r.c] = NoMount
         \/ r.do = "volCreate" /\ r.call = "create" /\ r.c = ""
         \/ r.do \in {"volRm", "inspect", "prune"} /\ r.call = "get" /\ r.c = "",
         UNCHANGED <<store, vols, mounts>>
  PROVE  VolInv'
<1>1. PICK x : x = [r EXCEPT !.pc = FirstStep[r.call]]
  OBVIOUS
<1>2. /\ FirstStep[r.call] \in Holding \cap PCs /\ FirstStep[r.call] \in {"cache", "meta"}
      /\ \/ r.call = "create" /\ FirstStep[r.call] = "cache"
         \/ r.call = "get" /\ FirstStep[r.call] = "meta"
  <2>1. FirstStep["create"] = "cache" /\ FirstStep["get"] = "meta"
    BY DEF FirstStep
  <2>2. {"cache", "meta"} \subseteq Holding \cap PCs
    BY DEF Holding, PCs
  <2> QED
    BY <2>1, <2>2
<1>3. /\ x \in OpType /\ x.do = r.do /\ x.call = r.call /\ x.n = r.n /\ x.c = r.c
      /\ x.pc = FirstStep[r.call]
  BY <1>1, <1>2 DEF OpType
<1>4. op[p].pc = "idle" /\ op' = [op EXCEPT ![p] = x] /\ op'[p] = x
  BY <1>1 DEF BeginLocked, Go, At, VolInv, TypeOK
<1>5. LockStep(p) /\ AbsTypeOK' /\ owns'[x.n] = {p}
  BY <1>3, LockTaken DEF BeginLocked
<1>6. KindOK(x) /\ PlaceOK(x)
  BY <1>2, <1>3 DEF KindOK, PlaceOK
<1>7. VolumeOK(x)' /\ UnreferencedOK(x)' /\ ContainerOK(x)'
  BY <1>2, <1>3 DEF VolumeOK, UnreferencedOK, ContainerOK
<1>8. OpOK(p)'
  BY <1>3, <1>4, <1>5, <1>6, <1>7, OwnOK
<1>9. GoesTo(p, x) /\ x.pc # "returned"
  BY <1>2, <1>3, <1>4 DEF GoesTo, Working, Free
<1> QED
  BY <1>4, <1>5, <1>8, <1>9, QuietStep, StoreType DEF store

\* A container's creation asks for a volume; no other request has that container.
LEMMA CreateContainerKeeps ==
  ASSUME VolInv, NEW p \in Procs, CreateContainer(p)
  PROVE  VolInv'
<1>1. PICK c \in Containers, n \in Names, d \in Drivers \cup {NoDriver}, anon \in BOOLEAN :
        /\ mounts[c] = NoMount /\ Free(c)
        /\ BeginLocked(p, [Idle EXCEPT !.do = "createC", !.call = "create",
                                       !.n = n, !.d = d, !.c = c, !.anon = anon])
  BY DEF CreateContainer
<1>2. PICK r : r = [Idle EXCEPT !.do = "createC", !.call = "create",
                                !.n = n, !.d = d, !.c = c, !.anon = anon]
  OBVIOUS
<1>3. r \in OpType /\ r.do = "createC" /\ r.call = "create" /\ r.n = n /\ r.c = c
  BY <1>2 DEF Idle, OpType, Dos, Working, Calls, PCs
<1> QED
  BY <1>1, <1>2, <1>3, BeginLockedKeeps DEF CreateContainer

\* docker volume create begins, without a container.
LEMMA VolumeCreateKeeps ==
  ASSUME VolInv, NEW p \in Procs, VolumeCreate(p)
  PROVE  VolInv'
<1>1. PICK n \in Names, d \in Drivers :
        BeginLocked(p, [Idle EXCEPT !.do = "volCreate", !.call = "create", !.n = n, !.d = d])
  BY DEF VolumeCreate
<1>2. PICK r : r = [Idle EXCEPT !.do = "volCreate", !.call = "create", !.n = n, !.d = d]
  OBVIOUS
<1>3. r \in OpType /\ r.do = "volCreate" /\ r.call = "create" /\ r.n = n /\ r.c = ""
  BY <1>2 DEF Idle, OpType, Dos, Working, Calls, PCs
<1> QED
  BY <1>1, <1>2, <1>3, BeginLockedKeeps DEF VolumeCreate

\* volume rm, inspect and prune begin with Get, without a container.
LEMMA VolumeGetKeeps ==
  ASSUME VolInv, NEW p \in Procs, VolumeGet(p)
  PROVE  VolInv'
<1>1. PICK n \in Names, do \in {"volRm", "inspect", "prune"} :
        BeginLocked(p, [Idle EXCEPT !.do = do, !.call = "get", !.n = n])
  BY DEF VolumeGet
<1>2. PICK r : r = [Idle EXCEPT !.do = do, !.call = "get", !.n = n]
  OBVIOUS
<1>3. r \in OpType /\ r.do = do /\ r.call = "get" /\ r.n = n /\ r.c = ""
  BY <1>2 DEF Idle, OpType, Dos, Working, Calls, PCs
<1> QED
  BY <1>1, <1>2, <1>3, BeginLockedKeeps DEF VolumeGet

\* A container's mount becomes m, and no more: nobody but p works for the container, and
\* it holds a volume only when it has been given it.
SetsMount(p, c, m) ==
  /\ m = NoMount \/ m \in MountType
  /\ mounts' = [mounts EXCEPT ![c] = m]
  /\ \A q \in Procs \ {p} : op[q].do \in Working => op[q].c # c
  /\ m.vol => Given(c, m.n, m.d)
  /\ UNCHANGED <<store, vols>>

\* A request changes the mount of a container.
LEMMA MountStep ==
  ASSUME VolInv, NEW p \in Procs, NEW o, GoesTo(p, o), LockStep(p), AbsTypeOK', OpOK(p)',
         op[p].pc # "purge", o.pc # "returned",
         NEW c \in Containers, NEW m, SetsMount(p, c, m)
  PROVE  VolInv'
<1>0. /\ m = NoMount \/ m \in MountType
      /\ mounts' = [mounts EXCEPT ![c] = m]
      /\ \A q \in Procs \ {p} : op[q].do \in Working => op[q].c # c
      /\ m.vol => Given(c, m.n, m.d)
      /\ UNCHANGED <<store, vols>>
  BY DEF SetsMount
<1>1. op'[p] = o /\ \A q \in Procs \ {p} : op'[q] = op[q]
  BY DEF VolInv, TypeOK, GoesTo
<1>2. /\ DOMAIN mounts' = Containers /\ mounts'[c] = m
      /\ \A e \in Containers : e # c => mounts'[e] = mounts[e]
  BY <1>0 DEF VolInv, TypeOK
<1>3. MountsOK'
  BY <1>0, <1>2 DEF VolInv, MountsOK
<1>4. \A q \in Procs \ {p} : op[q].do \in Working => mounts'[op[q].c] = mounts[op[q].c]
  <2> SUFFICES ASSUME NEW q \in Procs \ {p}, op[q].do \in Working
               PROVE  mounts'[op[q].c] = mounts[op[q].c]
    OBVIOUS
  <2>1. op[q] # Idle
    BY IdleHolds DEF Working
  <2>2. op[q].c \in Containers
    BY <2>1 DEF VolInv, OpOK, KindOK, Working
  <2> QED
    BY <1>0, <1>2, <2>2
<1>5. UNCHANGED <<names, refs, meta, dropped, vols>>
  BY <1>0 DEF store
<1>6. RefsNamed'
  BY <1>5 DEF VolInv, RefsNamed
<1>7. GivenOK'
  <2> SUFFICES ASSUME NEW e \in Containers, NEW n \in Names, NEW d \in Drivers, Given(e, n, d)'
               PROVE  Given(e, n, d)
    BY <1>5 DEF VolInv, GivenOK, Has
  <2>1. CASE mounts'[e].vol /\ mounts'[e].n = n /\ mounts'[e].d = d
    <3>1. CASE e = c
      BY <1>0, <1>2, <2>1, <3>1
    <3>2. CASE e # c
      BY <1>2, <2>1, <3>2 DEF Given
    <3> QED
      BY <3>1, <3>2
  <2>2. CASE \E q \in Procs : /\ op'[q].do \in {"createC", "startC"} /\ op'[q].c = e
                              /\ op'[q].pc = "returned" /\ op'[q].ok
                              /\ op'[q].n = n /\ op'[q].v = d
    BY <1>1, <2>2 DEF Given
  <2> QED
    BY <2>1, <2>2 DEF Given
<1>8. CachedIsBacked'
  <2> SUFFICES ASSUME NEW n \in Names, names[n] # NoDriver, ~Has(names[n], n)
               PROVE  \E q \in Procs : op'[q].n = n /\ op'[q].pc = "purge"
    BY <1>5 DEF CachedIsBacked, Has, At
  <2>1. PICK q \in Procs : op[q].n = n /\ op[q].pc = "purge"
    BY DEF VolInv, CachedIsBacked, At
  <2> QED
    BY <1>1, <2>1
<1> QED
  BY <1>0, <1>2, <1>3, <1>4, <1>5, <1>6, <1>7, <1>8, StepOK, StoreType DEF Has

\* --volumes-from takes the reference through GetWithRef, or copies a mount without its volume.
LEMMA CreateFromKeeps ==
  ASSUME VolInv, NEW p \in Procs, CreateFrom(p)
  PROVE  VolInv'
<1>1. PICK c \in Containers, o \in Containers :
       /\ mounts[c] = NoMount /\ Free(c)
       /\ mounts[o] # NoMount
       /\ IF mounts[o].anon
            THEN /\ Begin(p, [Idle EXCEPT !.do = "createC", !.call = "getref", !.pc = "lock",
                                         !.n = mounts[o].n, !.d = mounts[o].d, !.c = c, !.anon = TRUE])
                 /\ UNCHANGED mounts
            ELSE /\ At(p, "idle")
                 /\ mounts' = [mounts EXCEPT ![c] = [mounts[o] EXCEPT !.vol = FALSE]]
                 /\ UNCHANGED <<lock, op>>
  BY DEF CreateFrom
<1>2. mounts[o] \in MountType /\ UNCHANGED <<store, vols>>
  BY <1>1 DEF VolInv, MountsOK, CreateFrom
<1>3. CASE mounts[o].anon
  <2>1. PICK x : x = [Idle EXCEPT !.do = "createC", !.call = "getref", !.pc = "lock",
                                  !.n = mounts[o].n, !.d = mounts[o].d, !.c = c, !.anon = TRUE]
    OBVIOUS
  <2>2. /\ x \in OpType /\ x.do = "createC" /\ x.call = "getref" /\ x.n = mounts[o].n
        /\ x.d = mounts[o].d /\ x.c = c /\ x.pc = "lock" /\ mounts[o].n \in Names /\ mounts[o].d \in Drivers
    BY <1>2, <2>1 DEF MountType, Idle, OpType, Dos, Working, Calls, PCs
  <2>3. op[p].pc = "idle" /\ op' = [op EXCEPT ![p] = x] /\ Ask(p, x.n) /\ UNCHANGED mounts
    BY <1>1, <1>3, <2>1 DEF Begin, Go, At
  <2>4. KindOK(x) /\ VolumeOK(x) /\ ContainerOK(x) /\ GoesTo(p, x)
    BY <1>1, <2>2, <2>3 DEF KindOK, VolumeOK, ContainerOK, GoesTo, Free
  <2> QED
    BY <1>2, <2>2, <2>3, <2>4, AskQuiet
<1>4. CASE ~mounts[o].anon
  <2>1. op[p] = Idle /\ op' = [op EXCEPT ![p] = Idle] /\ UNCHANGED lock
    BY <1>1, <1>4, IdleOp DEF At, VolInv
  <2>2. PICK m : m = [mounts[o] EXCEPT !.vol = FALSE]
    OBVIOUS
  <2>3. m \in MountType /\ ~m.vol
    BY <1>2, <2>2 DEF MountType
  <2>4. GoesTo(p, Idle) /\ OpOK(p)' /\ Idle.pc # "returned" /\ LockStep(p) /\ AbsTypeOK'
    BY <2>1, EndsOK, LocksStay
  <2>5. \A q \in Procs \ {p} : op[q].do \in Working => op[q].c # c
    BY <1>1 DEF Free
  <2>6. mounts' = [mounts EXCEPT ![c] = m] /\ op[p].pc # "purge"
    BY <1>1, <1>4, <2>1, <2>2, IdleHolds
  <2>7. SetsMount(p, c, m)
    BY <1>2, <2>3, <2>5, <2>6 DEF SetsMount
  <2> QED
    BY <2>4, <2>6, <2>7, MountStep
<1> QED
  BY <1>3, <1>4

\* A start asks for the volume of a mount that has none yet.
LEMMA StartContainerKeeps ==
  ASSUME VolInv, NEW p \in Procs, StartContainer(p)
  PROVE  VolInv'
<1>1. PICK c \in Containers :
       /\ mounts[c] # NoMount /\ ~mounts[c].vol /\ Free(c)
       /\ Begin(p, [Idle EXCEPT !.do = "startC", !.call = "getref", !.pc = "lock",
                                !.n = mounts[c].n, !.d = mounts[c].d, !.c = c])
  BY DEF StartContainer
<1>2. mounts[c].n \in Names /\ mounts[c].d \in Drivers
  BY <1>1 DEF MountType, VolInv, MountsOK
<1>3. PICK x : x = [Idle EXCEPT !.do = "startC", !.call = "getref", !.pc = "lock",
                                !.n = mounts[c].n, !.d = mounts[c].d, !.c = c]
  OBVIOUS
<1>4. /\ x \in OpType /\ x.do = "startC" /\ x.call = "getref" /\ x.n = mounts[c].n
      /\ x.d = mounts[c].d /\ x.c = c /\ x.pc = "lock"
  BY <1>2, <1>3 DEF Idle, OpType, Dos, Working, Calls, PCs
<1>5. op[p].pc = "idle" /\ op' = [op EXCEPT ![p] = x] /\ Ask(p, x.n)
  BY <1>1, <1>3 DEF Begin, Go, At
<1>6. KindOK(x) /\ VolumeOK(x) /\ ContainerOK(x) /\ GoesTo(p, x)
  BY <1>1, <1>2, <1>4, <1>5 DEF KindOK, VolumeOK, ContainerOK, GoesTo, Free
<1> QED
  BY <1>4, <1>5, <1>6, AskQuiet DEF StartContainer

\* The mounts of a removed container are gone before its reference is given back.
LEMMA RemoveContainerKeeps ==
  ASSUME VolInv, NEW p \in Procs, RemoveContainer(p)
  PROVE  VolInv'
<1>1. PICK c \in Containers, rm \in BOOLEAN :
       /\ mounts[c] # NoMount /\ Free(c)
       /\ mounts' = [mounts EXCEPT ![c] = NoMount]
       /\ IF mounts[c].vol
            THEN Begin(p, [Idle EXCEPT !.do = "rmC", !.call = "deref", !.pc = "lock", !.n = mounts[c].n,
                                       !.c = c, !.v = mounts[c].d, !.rm = rm /\ mounts[c].anon])
            ELSE At(p, "idle") /\ UNCHANGED <<lock, op>>
  BY DEF RemoveContainer
<1>2. /\ mounts[c].n \in Names /\ mounts[c].d \in Drivers /\ mounts[c].anon \in BOOLEAN
      /\ UNCHANGED <<store, vols>>
  BY <1>1 DEF MountType, VolInv, MountsOK, RemoveContainer
<1>3. \A q \in Procs \ {p} : op[q].do \in Working => op[q].c # c
  BY <1>1 DEF Free
<1>4. mounts'[c] = NoMount
  BY <1>1 DEF VolInv, TypeOK
<1>5. SetsMount(p, c, NoMount)
  BY <1>1, <1>2, <1>3, NoMountVol DEF SetsMount
<1>6. CASE mounts[c].vol
  <2>1. PICK x : x = [Idle EXCEPT !.do = "rmC", !.call = "deref", !.pc = "lock", !.n = mounts[c].n,
                                  !.c = c, !.v = mounts[c].d, !.rm = rm /\ mounts[c].anon]
    OBVIOUS
  <2>2. /\ x \in OpType /\ x.do = "rmC" /\ x.call = "deref" /\ x.n = mounts[c].n
        /\ x.c = c /\ x.pc = "lock"
    BY <1>2, <2>1 DEF Idle, OpType, Dos, Working, Calls, PCs
  <2>3. op[p].pc = "idle" /\ op' = [op EXCEPT ![p] = x] /\ Ask(p, x.n)
    BY <1>1, <1>6, <2>1 DEF Begin, Go, At
  <2>4. KindOK(x) /\ VolumeOK(x) /\ ContainerOK(x)' /\ GoesTo(p, x)
    BY <1>1, <1>2, <1>4, <2>2, <2>3 DEF KindOK, VolumeOK, ContainerOK, GoesTo, Free
  <2>5. OpOK(p)' /\ LockStep(p) /\ AbsTypeOK'
    BY <1>2, <2>2, <2>3, <2>4, AskOK
  <2> QED
    BY <2>2, <2>3, <2>4, <2>5, <1>5, MountStep
<1>7. CASE ~mounts[c].vol
  <2>1. op[p] = Idle /\ op' = [op EXCEPT ![p] = Idle] /\ UNCHANGED lock
    BY <1>1, <1>7, IdleOp DEF At, VolInv
  <2>2. GoesTo(p, Idle) /\ OpOK(p)' /\ Idle.pc # "returned" /\ LockStep(p) /\ AbsTypeOK'
    BY <2>1, EndsOK, LocksStay
  <2> QED
    BY <1>5, <2>1, <2>2, MountStep, IdleHolds
<1> QED
  BY <1>6, <1>7

\* A request whose call has returned holds no lock.
LEMMA AtReturned ==
  ASSUME VolInv, NEW p \in Procs, op[p].pc = "returned"
  PROVE  op[p] \in OpType /\ op[p] # Idle /\ op[p].n \in Names /\ OpOK(p) /\ KindOK(op[p])
  BY InCall DEF OpOK

\* A request is over and has changed nothing.
LEMMA DoneQuiet ==
  ASSUME VolInv, NEW p \in Procs, op[p].pc = "returned", Done(p), UNCHANGED <<store, vols, mounts>>
  PROVE  VolInv'
<1>1. op' = [op EXCEPT ![p] = Idle] /\ UNCHANGED lock
  BY DEF Done, Go
<1> QED
  BY <1>1, EndsOK, LocksStay, QuietStep, StoreType DEF store

\* A request makes its next call for the same name and container.
LEMMA NextQuiet ==
  ASSUME VolInv, NEW p \in Procs, op[p].pc = "returned",
         NEW do \in Dos, NEW call \in {"deref", "remove", "refs"}, NEW rm \in BOOLEAN, NEW v \in Drivers \cup {NoDriver},
         op' = [op EXCEPT ![p] = [op[p] EXCEPT !.do = do, !.call = call, !.pc = "lock",
                                               !.rm = rm, !.ok = FALSE, !.v = v]],
         \/ do \in {"createC", "rmC"} /\ op[p].do \in {"createC", "rmC"} /\ call = "deref"
         \/ do = "rmC" /\ op[p].do = "rmC" /\ call = "remove"
         \/ do = op[p].do /\ do \in {"volRm", "prune"} /\ call \in {"refs", "remove"},
         Ask(p, op[p].n), UNCHANGED <<store, vols, mounts>>
  PROVE  VolInv'
<1>1. op[p] \in OpType /\ op[p] # Idle /\ op[p].n \in Names /\ OpOK(p) /\ KindOK(op[p])
  BY AtReturned
<1>2. PICK x : x = [op[p] EXCEPT !.do = do, !.call = call, !.pc = "lock", !.rm = rm, !.ok = FALSE, !.v = v]
  OBVIOUS
<1>3. /\ x \in OpType /\ x.do = do /\ x.call = call /\ x.pc = "lock" /\ x.n = op[p].n /\ x.c = op[p].c
  <2>1. call \in Calls \cup {""} /\ "lock" \in PCs
    BY DEF Calls, PCs
  <2> QED
    BY <1>1, <1>2, <2>1 DEF OpType
<1>4. KindOK(x) /\ VolumeOK(x) /\ ContainerOK(x)
  BY <1>1, <1>3 DEF KindOK, VolumeOK, ContainerOK, OpOK
<1>5. GoesTo(p, x)
  BY <1>1, <1>2, <1>3 DEF GoesTo, Working, KindOK
<1> QED
  BY <1>3, <1>4, <1>5, AskQuiet

\* The container gets the mount point whose reference the call took for it.
LEMMA RegisterKeeps ==
  ASSUME VolInv, NEW p \in Procs, Register(p)
  PROVE  VolInv'
<1>1. op[p].pc = "returned" /\ op[p].do = "createC" /\ op[p].ok
  BY DEF Register, Returned, At
<1>2. /\ op[p] \in OpType /\ op[p].n \in Names /\ op[p].c \in Containers
      /\ op[p].v \in Drivers /\ op[p].anon \in BOOLEAN
  BY <1>1, AtReturned DEF OpOK, KindOK, VolumeOK, OpType
<1>3. PICK m : m = [n |-> op[p].n, d |-> op[p].v, vol |-> TRUE, anon |-> op[p].anon]
  OBVIOUS
<1>4. m = NoMount \/ m \in MountType
  BY <1>2, <1>3 DEF MountType
<1>5. m.vol => Given(op[p].c, m.n, m.d)
  BY <1>1, <1>3 DEF Given
<1>6. op' = [op EXCEPT ![p] = Idle] /\ UNCHANGED lock /\ mounts' = [mounts EXCEPT ![op[p].c] = m]
  BY <1>3 DEF Register, Done, Go
<1>7. GoesTo(p, Idle) /\ OpOK(p)' /\ Idle.pc # "returned" /\ LockStep(p) /\ AbsTypeOK'
  BY <1>6, EndsOK, LocksStay
<1>8. \A q \in Procs \ {p} : op[q].do \in Working => op[q].c # op[p].c
  BY <1>1 DEF VolInv, Apart, Working
<1>9. UNCHANGED <<store, vols>> /\ op[p].pc # "purge"
  BY <1>1 DEF Register
<1>10. PICK c \in Containers : c = op[p].c
  BY <1>2
<1>11. SetsMount(p, c, m)
  BY <1>4, <1>5, <1>6, <1>8, <1>9, <1>10 DEF SetsMount
<1> QED
  BY <1>7, <1>9, <1>11, MountStep

\* The container's mount point is filled in after its reference was taken.
LEMMA AttachKeeps ==
  ASSUME VolInv, NEW p \in Procs, Attach(p)
  PROVE  VolInv'
<1>1. op[p].pc = "returned" /\ op[p].do = "startC" /\ op[p].ok
  BY DEF Attach, Returned, At
<1>2. /\ op[p].n \in Names /\ op[p].c \in Containers
      /\ mounts[op[p].c] # NoMount /\ mounts[op[p].c].n = op[p].n /\ mounts[op[p].c].d = op[p].v
  BY <1>1, AtReturned DEF OpOK, KindOK, ContainerOK
<1>3. PICK m : m = [mounts[op[p].c] EXCEPT !.vol = TRUE]
  OBVIOUS
<1>4. m \in MountType /\ m.n = op[p].n /\ m.d = op[p].v
  BY <1>2, <1>3 DEF MountType, VolInv, MountsOK
<1>5. m.vol => Given(op[p].c, m.n, m.d)
  BY <1>1, <1>4 DEF Given
<1>6. op' = [op EXCEPT ![p] = Idle] /\ UNCHANGED lock /\ mounts' = [mounts EXCEPT ![op[p].c] = m]
  BY <1>3 DEF Attach, Done, Go
<1>7. GoesTo(p, Idle) /\ OpOK(p)' /\ Idle.pc # "returned" /\ LockStep(p) /\ AbsTypeOK'
  BY <1>6, EndsOK, LocksStay
<1>8. \A q \in Procs \ {p} : op[q].do \in Working => op[q].c # op[p].c
  BY <1>1 DEF VolInv, Apart, Working
<1>9. UNCHANGED <<store, vols>> /\ op[p].pc # "purge" /\ (m = NoMount \/ m \in MountType)
  BY <1>1, <1>4 DEF Attach
<1>10. PICK c \in Containers : c = op[p].c
  BY <1>2
<1>11. SetsMount(p, c, m)
  BY <1>5, <1>6, <1>8, <1>9, <1>10 DEF SetsMount
<1> QED
  BY <1>7, <1>9, <1>11, MountStep

\* A creation that fails gives the reference back; the container never had the mount.
LEMMA RegisterFailsKeeps ==
  ASSUME VolInv, NEW p \in Procs, RegisterFails(p)
  PROVE  VolInv'
<1>1. op[p].pc = "returned" /\ op[p].do = "createC" /\ UNCHANGED <<store, vols, mounts>>
  BY DEF RegisterFails, Returned, At
<1>2. op[p] \in OpType
  BY <1>1, AtReturned
<1>3. CASE NextCall(p, "deref")
  <2>1. op' = [op EXCEPT ![p] = [op[p] EXCEPT !.do = "createC", !.call = "deref", !.pc = "lock",
                                              !.rm = op[p].rm, !.ok = FALSE, !.v = op[p].v]]
    BY <1>1, <1>2, <1>3 DEF NextCall, Go, OpType
  <2>2. Ask(p, op[p].n) /\ op[p].rm \in BOOLEAN /\ op[p].v \in Drivers \cup {NoDriver} /\ "createC" \in Dos
    BY <1>2, <1>3 DEF NextCall, OpType, Dos, Working
  <2> QED
    BY <1>1, <2>1, <2>2, NextQuiet
<1>4. CASE /\ Go(p, [op[p] EXCEPT !.do = "rmC", !.call = "deref", !.pc = "lock", !.rm = op[p].anon, !.ok = FALSE])
           /\ Ask(p, op[p].n)
  <2>1. op' = [op EXCEPT ![p] = [op[p] EXCEPT !.do = "rmC", !.call = "deref", !.pc = "lock",
                                              !.rm = op[p].anon, !.ok = FALSE, !.v = op[p].v]]
    BY <1>1, <1>2, <1>4 DEF Go, OpType
  <2>2. op[p].anon \in BOOLEAN /\ op[p].v \in Drivers \cup {NoDriver} /\ "rmC" \in Dos
    BY <1>2 DEF OpType, Dos, Working
  <2> QED
    BY <1>1, <1>4, <2>1, <2>2, NextQuiet
<1>5. CASE Done(p)
  BY <1>1, <1>5, DoneQuiet
<1> QED
  BY <1>3, <1>4, <1>5 DEF RegisterFails

\* RemoveAnonymous, VolumeRmRemove and PruneRemove: the request calls Remove.
LEMMA CallsRemove ==
  ASSUME VolInv, NEW p \in Procs, op[p].pc = "returned", op[p].do \in {"rmC", "volRm", "prune"},
         NextCall(p, "remove"), UNCHANGED <<store, vols, mounts>>
  PROVE  VolInv'
<1>2. op[p] \in OpType
  BY AtReturned
<1>3. op' = [op EXCEPT ![p] = [op[p] EXCEPT !.do = op[p].do, !.call = "remove", !.pc = "lock",
                                            !.rm = op[p].rm, !.ok = FALSE, !.v = op[p].v]]
  BY <1>2 DEF NextCall, Go, OpType
<1>4. Ask(p, op[p].n) /\ op[p].rm \in BOOLEAN /\ op[p].v \in Drivers \cup {NoDriver} /\ op[p].do \in Dos
  BY <1>2 DEF NextCall, OpType
<1>5. PICK do \in Dos : do = op[p].do
  BY <1>4
<1>6. PICK call \in {"deref", "remove", "refs"} : call = "remove"
  OBVIOUS
<1>7. PICK rm \in BOOLEAN, v \in Drivers \cup {NoDriver} : rm = op[p].rm /\ v = op[p].v
  BY <1>4
<1>8. op' = [op EXCEPT ![p] = [op[p] EXCEPT !.do = do, !.call = call, !.pc = "lock",
                                            !.rm = rm, !.ok = FALSE, !.v = v]]
  BY <1>3, <1>5, <1>6, <1>7
<1>9. \/ do = "rmC" /\ op[p].do = "rmC" /\ call = "remove"
      \/ do = op[p].do /\ do \in {"volRm", "prune"} /\ call \in {"refs", "remove"}
  BY <1>5, <1>6
<1> QED
  BY <1>4, <1>8, <1>9, NextQuiet

\* VolumesPrune goes on with the volume Get found, or the one the local driver listed.
LEMMA PruneRefsKeeps ==
  ASSUME VolInv, NEW p \in Procs, PruneRefs(p)
  PROVE  VolInv'
<1>1. op[p].pc = "returned" /\ op[p].do = "prune" /\ UNCHANGED <<store, vols, mounts>> /\ Ask(p, op[p].n)
  BY DEF PruneRefs, At
<1>2. op[p] \in OpType
  BY <1>1, AtReturned
<1>3. PICK v : v = IF op[p].ok THEN op[p].v ELSE Local
  OBVIOUS
<1>4. v \in Drivers \cup {NoDriver} /\ op[p].rm \in BOOLEAN /\ "prune" \in Dos
  BY <1>2, <1>3, LocalAssumption DEF OpType, Dos
<1>5. op' = [op EXCEPT ![p] = [op[p] EXCEPT !.do = "prune", !.call = "refs", !.pc = "lock",
                                            !.rm = op[p].rm, !.ok = FALSE, !.v = v]]
  BY <1>1, <1>2, <1>3 DEF PruneRefs, Go, OpType
<1> QED
  BY <1>1, <1>4, <1>5, NextQuiet

\* VolumeRm purges the name without its lock; the references are remembered.
LEMMA VolumeRmPurgeKeeps ==
  ASSUME VolInv, NEW p \in Procs, VolumeRmPurge(p)
  PROVE  VolInv'
<1>1. /\ op[p].pc = "returned" /\ Purge(op[p].n) /\ dropped' = dropped \cup refs[op[p].n]
      /\ UNCHANGED <<vols, mounts>> /\ op' = [op EXCEPT ![p] = Idle] /\ UNCHANGED lock
  BY DEF VolumeRmPurge, At, Done, Go
<1>2. op[p].n \in Names
  BY <1>1, AtReturned
<1>3. GoesTo(p, Idle) /\ OpOK(p)' /\ Idle.pc # "returned" /\ LockStep(p) /\ AbsTypeOK'
  BY <1>1, EndsOK, LocksStay
<1> QED
  BY <1>1, <1>2, <1>3, PurgeStep

\* The daemon starts again: what is cached and what is referenced is what the drivers have.
LEMMA RestartKeeps ==
  ASSUME VolInv, Restart
  PROVE  VolInv'
<1>1. PICK answer \in [Names -> {"yes", "no", "error"}],
          att \in SUBSET {c \in Containers : mounts[c] # NoMount /\ Has(mounts[c].d, mounts[c].n)} :
       LET restored(n) == IF meta[n] # NoDriver /\ answer[n] = "yes" THEN {meta[n]} ELSE {NoDriver}
           got(n) == {mounts[c].d : c \in {c \in att : mounts[c].n = n}}
       IN /\ \A n \in Names : IF meta[n] = NoDriver THEN answer[n] = "no"
                                                    ELSE answer[n] \in Lookups(meta[n], n)
          /\ names' \in [Names -> Drivers \cup {NoDriver}]
          /\ \A n \in Names : names'[n] \in IF got(n) # {} THEN got(n) ELSE restored(n)
          /\ meta' = [n \in Names |-> IF answer[n] = "no" THEN NoDriver ELSE meta[n]]
          /\ refs' = [n \in Names |-> {c \in att : mounts[c].n = n}]
          /\ mounts' = [c \in Containers |-> [mounts[c] EXCEPT !.vol = c \in att]]
  BY ZenonT(60) DEF Restart
<1> DEFINE restored(n) == IF meta[n] # NoDriver /\ answer[n] = "yes" THEN {meta[n]} ELSE {NoDriver}
           got(n) == {mounts[c].d : c \in {c \in att : mounts[c].n = n}}
<1>2. /\ dropped' = {} /\ op' = [p \in Procs |-> Idle] /\ UNCHANGED vols
      /\ wants' = [p \in Procs |-> {}] /\ owns' = [n \in Names |-> {}]
  BY ZenonT(60) DEF Restart
<1>3. \A c \in att : /\ c \in Containers /\ mounts[c] \in MountType /\ Has(mounts[c].d, mounts[c].n)
                     /\ mounts[c].d \in Drivers
  BY DEF VolInv, MountsOK, MountType
<1>4. TypeOK' /\ op' \in [Procs -> OpType]
  <2>1. AbsTypeOK'
    BY <1>2 DEF AbsTypeOK
  <2>2. meta' \in [Names -> Drivers \cup {NoDriver}]
    BY <1>1, StoreType
  <2>3. refs' \in [Names -> SUBSET Containers] /\ DOMAIN mounts' = Containers
    BY <1>1
  <2>4. op' \in [Procs -> OpType] /\ \A p \in Procs : op'[p].pc \in PCs
    BY <1>2, IdleType, IdleHolds DEF OpType
  <2> QED
    BY <1>1, <1>2, <2>1, <2>2, <2>3, <2>4, StoreType DEF TypeOK
<1>5. \A p \in Procs : OpOK(p)'
  <2> SUFFICES ASSUME NEW p \in Procs PROVE OpOK(p)'
    OBVIOUS
  <2>1. op'[p] = Idle
    BY <1>2
  <2> QED
    BY <2>1, IdleHolds, IdleType
       DEF OpOK, KindOK, PlaceOK, VolumeOK, UnreferencedOK, ContainerOK
<1>6. Apart'
  BY <1>2, IdleHolds DEF Apart, Working
<1>7. \A c \in Containers : /\ mounts[c] = NoMount => mounts'[c] = NoMount
                            /\ mounts[c] # NoMount => /\ mounts'[c] \in MountType /\ mounts'[c].n = mounts[c].n
                                                      /\ mounts'[c].d = mounts[c].d
                            /\ mounts'[c].vol => c \in att
  <2> SUFFICES ASSUME NEW c \in Containers
               PROVE  /\ mounts[c] = NoMount => mounts'[c] = NoMount
                      /\ mounts[c] # NoMount => /\ mounts'[c] \in MountType /\ mounts'[c].n = mounts[c].n
                                                /\ mounts'[c].d = mounts[c].d
                      /\ mounts'[c].vol => c \in att
    OBVIOUS
  <2>1. mounts'[c] = [mounts[c] EXCEPT !.vol = c \in att]
    BY <1>1
  <2>2. CASE mounts[c] = NoMount
    <3>1. (c \in att) = FALSE
      BY <2>2
    <3>2. [NoMount EXCEPT !.vol = FALSE] = NoMount
      <4>1. NoMount \in [n : {""}, d : {NoDriver}, vol : {FALSE}, anon : {FALSE}]
        BY DEF NoMount
      <4> QED
        BY <4>1
    <3>3. mounts'[c] = NoMount
      BY <2>1, <2>2, <3>1, <3>2
    <3> QED
      BY <2>2, <3>3, NoMountVol
  <2>3. CASE mounts[c] # NoMount
    <3>1. mounts[c] \in MountType
      BY <2>3 DEF VolInv, MountsOK
    <3>2. (c \in att) \in BOOLEAN
      OBVIOUS
    <3> QED
      BY <2>1, <2>3, <3>1, <3>2 DEF MountType
  <2> QED
    BY <2>2, <2>3
<1>8. MountsOK'
  BY <1>7 DEF VolInv, MountsOK
<1>9. RefsNamed'
  <2> SUFFICES ASSUME NEW n \in Names, refs'[n] # {}
               PROVE  names'[n] # NoDriver
    BY DEF RefsNamed
  <2>1. PICK c \in att : mounts[c].n = n
    BY <1>1
  <2>2. got(n) # {}
    BY <2>1
  <2>3. names'[n] \in got(n)
    BY <1>1, <2>2
  <2>4. PICK e \in att : names'[n] = mounts[e].d
    BY <2>3
  <2> QED
    BY <1>3, <2>4, NoDriverAssumption
<1>10. GivenOK'
  <2> SUFFICES ASSUME NEW c \in Containers, NEW n \in Names, NEW d \in Drivers, Given(c, n, d)'
               PROVE  c \in refs'[n] /\ Has(d, n)
    BY <1>2 DEF GivenOK, Has
  <2>1. mounts'[c].vol /\ mounts'[c].n = n /\ mounts'[c].d = d
    BY <1>2, IdleHolds DEF Given
  <2>2. c \in att
    BY <1>7, <2>1
  <2>3. mounts[c] # NoMount /\ mounts[c].n = n /\ mounts[c].d = d
    BY <1>7, <2>1, <2>2
  <2> QED
    BY <1>1, <1>3, <2>2, <2>3
<1>11. CachedIsBacked'
  <2> SUFFICES ASSUME NEW n \in Names, names'[n] # NoDriver
               PROVE  Has(names'[n], n)
    BY <1>2 DEF CachedIsBacked, Has
  <2>1. CASE got(n) # {}
    <3>1. names'[n] \in got(n)
      BY <1>1, <2>1
    <3>2. PICK e \in att : names'[n] = mounts[e].d /\ mounts[e].n = n
      BY <3>1
    <3> QED
      BY <1>3, <3>2
  <2>2. CASE got(n) = {}
    <3>1. names'[n] \in restored(n)
      BY <1>1, <2>2
    <3>2. names'[n] = meta[n] /\ answer[n] = "yes" /\ meta[n] # NoDriver
      BY <3>1
    <3>3. answer[n] \in Lookups(meta[n], n)
      BY <1>1, <3>2
    <3> QED
      BY <3>2, <3>3 DEF Lookups
  <2> QED
    BY <2>1, <2>2
<1> QED
  BY <1>4, <1>5, <1>6, <1>8, <1>9, <1>10, <1>11 DEF VolInv
-------------------------------------------------------------------------------
(* The theorems                                                                 *)

\* The invariant holds before the first request.
LEMMA InitVolInv == Init => VolInv
<1> SUFFICES ASSUME Init PROVE VolInv
  OBVIOUS
<1>1. /\ op = [p \in Procs |-> Idle] /\ op \in [Procs -> OpType]
      /\ \A p \in Procs : op[p] = Idle
  BY IdleType DEF Init
<1>2. TypeOK
  BY <1>1, IdleHolds DEF Init, TypeOK, AbsInit, AbsTypeOK, PCs
<1>3. \A p \in Procs : OpOK(p)
  BY <1>1, IdleHolds, IdleType DEF OpOK, KindOK, PlaceOK, VolumeOK, UnreferencedOK, ContainerOK
<1>4. Apart
  BY <1>1, IdleHolds DEF Apart, Working
<1>5. MountsOK /\ RefsNamed /\ CachedIsBacked
  BY DEF Init, MountsOK, RefsNamed, CachedIsBacked
<1>6. GivenOK
  BY <1>1, IdleHolds, NoMountVol DEF Init, GivenOK, Given
<1> QED
  BY <1>1, <1>2, <1>3, <1>4, <1>5, <1>6 DEF VolInv

\* Every step keeps the invariant.
LEMMA NextVolInv ==
  ASSUME VolInv, [Next]_vars
  PROVE  VolInv'
<1>1. CASE UNCHANGED vars
  <2>1. UNCHANGED <<wants, owns, names, refs, meta, vols, mounts, op, dropped>>
    BY <1>1 DEF vars
  <2>2. TypeOK' /\ MountsOK' /\ op' \in [Procs -> OpType] /\ Apart' /\ RefsNamed'
    BY <2>1 DEF VolInv, TypeOK, AbsTypeOK, MountsOK, Apart, RefsNamed
  <2>3. \A p \in Procs : OpOK(p)'
    <3> SUFFICES ASSUME NEW p \in Procs PROVE OpOK(p)'
      OBVIOUS
    <3>1. OpOK(p)
      BY DEF VolInv
    <3> QED
      BY <2>1, <3>1 DEF OpOK, KindOK, PlaceOK, VolumeOK, UnreferencedOK, ContainerOK, Has
  <2>4. GivenOK' /\ CachedIsBacked'
    BY <2>1 DEF VolInv, GivenOK, Given, CachedIsBacked, Has, At
  <2> QED
    BY <2>2, <2>3, <2>4 DEF VolInv
<1>2. CASE Restart
  BY <1>2, RestartKeeps
<1>3. ASSUME NEW p \in Procs, ClientStep(p) PROVE VolInv'
  BY <1>3, CreateContainerKeeps, CreateFromKeeps, StartContainerKeeps, RemoveContainerKeeps,
     VolumeCreateKeeps, VolumeGetKeeps DEF ClientStep
<1>4. ASSUME NEW p \in Procs, StoreStep(p) PROVE VolInv'
  BY <1>4, LockKeeps, SetNamedKeeps, CheckCacheKeeps, CheckExistsKeeps, CreateInDriverKeeps,
     CreateResetKeeps, CreateSetMetaKeeps, ReadMetaKeeps, LookupKnownKeeps, ProbeKeeps,
     GetFromDriverKeeps, RemoveCheckKeeps, RemoveInDriverKeeps, RemovePurgeStep,
     DereferenceKeeps, RefsKeeps DEF StoreStep
<1>5. ASSUME NEW p \in Procs, DaemonStep(p) PROVE VolInv'
  <2>1. CASE Register(p) \/ RegisterFails(p) \/ Attach(p) \/ VolumeRmPurge(p) \/ PruneRefs(p)
    BY <2>1, RegisterKeeps, RegisterFailsKeeps, AttachKeeps, VolumeRmPurgeKeeps, PruneRefsKeeps
  <2>2. CASE RemoveAnonymous(p)
    BY <2>2, CallsRemove DEF RemoveAnonymous, At
  <2>3. CASE VolumeRmRemove(p)
    BY <2>3, CallsRemove DEF VolumeRmRemove, Returned, At
  <2>4. CASE PruneRemove(p)
    BY <2>4, CallsRemove DEF PruneRemove, Returned, At
  <2>5. CASE VolumeRmFails(p)
    BY <2>5, DoneQuiet DEF VolumeRmFails, At
  <2> QED
    BY <1>5, <2>1, <2>2, <2>3, <2>4, <2>5 DEF DaemonStep
<1> QED
  BY <1>1, <1>2, <1>3, <1>4, <1>5 DEF Next

\* The inductive invariant of the volume store: the state is well typed, every call inside
\* its critical section holds the lock of its name, and what it has found out there stays
\* true until it gives the lock back.
THEOREM VolumeStoreInvariant == Spec => []VolInv
<1>1. VolInv /\ [Next]_vars => VolInv'
  BY NextVolInv
<1> QED
  BY <1>1, InitVolInv, PTL DEF Spec

\* No interleaving of creating, getting, removing and pruning volumes loses the reference
\* of a container that has been given one, whatever drivers, database and restarts do.
THEOREM ReferencesCoverMounts == Spec => []RefsCoverMounts
<1>1. VolInv => RefsCoverMounts
  BY DEF VolInv, GivenOK, Given, RefsCoverMounts, Users, At
<1> QED
  BY <1>1, VolumeStoreInvariant, PTL

\* A driver does not remove a volume that some container has been given.
THEOREM MountedVolumesExist == Spec => []MountedExists
<1>1. VolInv => MountedExists
  BY DEF VolInv, GivenOK, Given, MountedExists, Users, At
<1> QED
  BY <1>1, VolumeStoreInvariant, PTL

\* What the store has cached its driver has, but for a name that is about to be purged.
THEOREM CachedVolumesBacked == Spec => []CachedIsBacked
<1>1. VolInv => CachedIsBacked
  BY DEF VolInv
<1> QED
  BY <1>1, VolumeStoreInvariant, PTL
===============================================================================
