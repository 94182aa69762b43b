----------------------------- MODULE LockerProofs -----------------------------
(***************************************************************************)
(* Proofs about Locker for any set of names, any finite set of goroutines  *)
(* and any supply of entries: typing, the inductive invariant that ties    *)
(* the map, the waiter counts and the mutexes together, the safety         *)
(* properties the runs check, and that Locker implements NamedMutex.       *)
(***************************************************************************)
EXTENDS Locker, FiniteSetTheorems, TLAPS

\* A goroutine inside a call uses the entry the map has for its name; an idle
\* one uses none.
EntryInv ==
  \A p \in Procs :
    IF pc[p] = "idle" THEN nameLock[p] = NoCtr
                      ELSE nameLock[p] \in Ctrs /\ locks[name[p]] = nameLock[p]

\* No entry serves two names.
EntriesDistinct ==
  \A n, m \in Names : n # m /\ locks[n] # NoCtr => locks[n] # locks[m]

\* The mutex of an entry is held by exactly the goroutine that is inside.
MutexInv ==
  /\ \A p \in Procs : Inside(p) => mu[nameLock[p]] = {p}
  /\ \A c \in Ctrs : \A p \in mu[c] : Inside(p) /\ nameLock[p] = c

LockInv ==
  /\ TypeOK
  /\ EntryInv
  /\ EntriesDistinct
  /\ MutexInv
  /\ WaitersAccurate
  /\ NoLeakedEntry
  /\ noSuch = {}
-------------------------------------------------------------------------------
\* Counting: the sets of announced goroutines are finite, and their cardinalities
\* move by one with one goroutine.
LEMMA CountedFinite ==
  ASSUME NEW c PROVE IsFiniteSet(Counted(c)) /\ Cardinality(Counted(c)) \in Nat
  <1>1. Counted(c) \in SUBSET Procs
    BY DEF Counted
  <1>2. QED
    BY <1>1, ProcsAssumption, FS_Subset, FS_CardinalityType

\* The initial state satisfies the invariant.
LEMMA LockInvInit == Init => LockInv
  <1> SUFFICES ASSUME Init PROVE LockInv
    OBVIOUS
  <1>1. TypeOK
    BY DEF Init, TypeOK, PCs
  <1>2. \A c \in Ctrs : Counted(c) = {}
    BY DEF Init, Counted
  <1>3. WaitersAccurate
    BY <1>2, FS_EmptySet DEF Init, WaitersAccurate
  <1>4. QED
    BY <1>1, <1>3, NoCtrAssumption
       DEF Init, LockInv, EntryInv, EntriesDistinct, MutexInv, NoLeakedEntry, Inside, Uses

\* LockEnter preserves the invariant: the caller joins the entry of its name, or
\* a fresh one that nobody else refers to.
LEMMA LockInvEnter ==
  ASSUME LockInv, NEW p \in Procs, NEW n \in Names, LockEnter(p, n)
  PROVE  LockInv'
  <1>1. PICK c \in Ctrs :
          /\ IF locks[n] = NoCtr THEN Fresh(c) ELSE c = locks[n]
          /\ locks' = [locks EXCEPT ![n] = c]
          /\ nameLock' = [nameLock EXCEPT ![p] = c]
          /\ waiters' = [waiters EXCEPT ![c] = (IF locks[n] = NoCtr THEN 0 ELSE @) + 1]
          /\ mu' = [mu EXCEPT ![c] = IF locks[n] = NoCtr THEN {} ELSE @]
    BY DEF LockEnter
  <1>2. /\ pc[p] = "idle"
        /\ name' = [name EXCEPT ![p] = n]
        /\ pc' = [pc EXCEPT ![p] = "blocked"]
        /\ UNCHANGED noSuch
    BY DEF LockEnter
  <1> USE DEF LockInv
  <1>3. TypeOK'
    BY <1>1, <1>2 DEF TypeOK, PCs
  <1>4. c # NoCtr /\ nameLock[p] = NoCtr
    BY <1>2, NoCtrAssumption DEF EntryInv
  <1>5. EntryInv'
    <2> SUFFICES ASSUME NEW q \in Procs
                 PROVE IF pc'[q] = "idle" THEN nameLock'[q] = NoCtr
                       ELSE nameLock'[q] \in Ctrs /\ locks'[name'[q]] = nameLock'[q]
      BY DEF EntryInv
    <2>1. CASE q = p
      BY <2>1, <1>1, <1>2 DEF TypeOK
    <2>2. CASE q # p
      BY <2>2, <1>1, <1>2, NoCtrAssumption DEF TypeOK, EntryInv
    <2> QED BY <2>1, <2>2
  <1>6. EntriesDistinct'
    BY <1>1, <1>4 DEF EntriesDistinct, TypeOK, Fresh
  <1>7. \A q \in Procs : Inside(q)' <=> Inside(q)
    BY <1>2 DEF Inside, TypeOK
  <1>8. locks[n] = NoCtr => mu[c] = {}
    BY <1>1 DEF MutexInv, Fresh, TypeOK
  <1>9. MutexInv'
    <2>1. mu' = mu
      BY <1>1, <1>8 DEF TypeOK
    <2>2. ~Inside(p)
      BY <1>2 DEF Inside
    <2>3. \A q \in Procs : q # p => nameLock'[q] = nameLock[q]
      BY <1>1 DEF TypeOK
    <2> QED BY <2>1, <2>2, <2>3, <1>7 DEF MutexInv, TypeOK
  <1>10. WaitersAccurate'
    <2> SUFFICES ASSUME NEW d \in Ctrs PROVE waiters'[d] = Cardinality(Counted(d)')
      BY DEF WaitersAccurate
    <2>1. CASE d # c
      <3>1. Counted(d)' = Counted(d)
        BY <2>1, <1>1, <1>2, <1>4, NoCtrAssumption DEF Counted, TypeOK
      <3> QED BY <3>1, <2>1, <1>1 DEF WaitersAccurate, TypeOK
    <2>2. CASE d = c
      <3>1. Counted(c)' = Counted(c) \cup {p}
        BY <1>1, <1>2 DEF Counted, TypeOK
      <3>2. p \notin Counted(c)
        BY <1>2 DEF Counted
      <3>3. Cardinality(Counted(c)') = Cardinality(Counted(c)) + 1
        BY <3>1, <3>2, CountedFinite, FS_AddElement
      <3>4. locks[n] = NoCtr => Counted(c) = {}
        BY <1>1 DEF Fresh, Counted
      <3>5. locks[n] = NoCtr => Cardinality(Counted(c)) = 0
        BY <3>4, FS_EmptySet
      <3> QED BY <2>2, <3>3, <3>5, <1>1 DEF WaitersAccurate, TypeOK
    <2> QED BY <2>1, <2>2
  <1>11. NoLeakedEntry'
    <2> SUFFICES ASSUME NEW m \in Names, locks'[m] # NoCtr
                 PROVE \E q \in Procs : Uses(q, locks[m])'
      BY DEF NoLeakedEntry
    <2>1. CASE m = n
      BY <2>1, <1>1, <1>2 DEF Uses, TypeOK
    <2>2. CASE m # n
      <3>1. locks'[m] = locks[m]
        BY <2>2, <1>1 DEF TypeOK
      <3>2. PICK q \in Procs : Uses(q, locks[m])
        BY <3>1 DEF NoLeakedEntry
      <3>3. q # p
        BY <3>2, <1>2 DEF Uses
      <3> QED BY <3>1, <3>2, <3>3, <1>1, <1>2 DEF Uses, TypeOK
    <2> QED BY <2>1, <2>2
  <1> QED BY <1>2, <1>3, <1>5, <1>6, <1>9, <1>10, <1>11

\* LockAcquire preserves it: the mutex was free, so nobody is inside the entry.
LEMMA LockInvAcquire ==
  ASSUME LockInv, NEW p \in Procs, LockAcquire(p)
  PROVE  LockInv'
  <1> USE DEF LockInv
  <1> DEFINE c == nameLock[p]
  <1>1. /\ pc[p] = "blocked" /\ mu[c] = {} /\ c \in Ctrs
        /\ mu' = [mu EXCEPT ![c] = {p}]
        /\ pc' = [pc EXCEPT ![p] = "counted"]
        /\ UNCHANGED <<locks, waiters, name, nameLock, noSuch>>
    BY DEF LockAcquire, EntryInv
  <1>2. TypeOK'
    BY <1>1 DEF TypeOK, PCs
  <1>3. EntryInv' /\ EntriesDistinct' /\ noSuch' = {}
    BY <1>1 DEF EntryInv, EntriesDistinct, TypeOK
  <1>4. MutexInv'
    <2>1. \A q \in Procs : q # p => (Inside(q)' <=> Inside(q))
      BY <1>1 DEF Inside, TypeOK
    <2>2. Inside(p)'
      BY <1>1 DEF Inside, TypeOK
    <2>3. \A q \in Procs : Inside(q) => nameLock[q] # c
      BY <1>1 DEF MutexInv
    <2> HIDE DEF c
    <2>4. nameLock[p] = c
      BY DEF c
    <2> QED BY <1>1, <2>1, <2>2, <2>3, <2>4 DEF MutexInv, TypeOK
  <1>5. WaitersAccurate'
    <2>1. \A d \in Ctrs : Counted(d)' = Counted(d)
      BY <1>1 DEF Counted, TypeOK
    <2> QED BY <2>1, <1>1 DEF WaitersAccurate
  <1>6. NoLeakedEntry'
    BY <1>1 DEF NoLeakedEntry, Uses, TypeOK
  <1> QED BY <1>2, <1>3, <1>4, <1>5, <1>6

\* LockReturn preserves it: one goroutine less is counted.
LEMMA LockInvReturn ==
  ASSUME LockInv, NEW p \in Procs, LockReturn(p)
  PROVE  LockInv'
  <1> USE DEF LockInv
  <1> DEFINE c == nameLock[p]
  <1>1. /\ pc[p] = "counted" /\ c \in Ctrs
        /\ waiters' = [waiters EXCEPT ![c] = @ - 1]
        /\ pc' = [pc EXCEPT ![p] = "held"]
        /\ UNCHANGED <<locks, mu, name, nameLock, noSuch>>
    BY DEF LockReturn, EntryInv
  <1>2. Cardinality(Counted(c)') = Cardinality(Counted(c)) - 1 /\ Cardinality(Counted(c)) # 0
    <2>1. Counted(c)' = Counted(c) \ {p}
      BY <1>1 DEF Counted, TypeOK
    <2>2. p \in Counted(c)
      BY <1>1 DEF Counted
    <2>3. IsFiniteSet(Counted(c))
      BY CountedFinite
    <2>4. Cardinality(Counted(c) \ {p}) = Cardinality(Counted(c)) - 1
      BY <2>2, <2>3, FS_RemoveElement
    <2> QED BY <2>1, <2>2, <2>3, <2>4, FS_EmptySet
  <1>3. WaitersAccurate'
    <2> SUFFICES ASSUME NEW d \in Ctrs PROVE waiters'[d] = Cardinality(Counted(d)')
      BY DEF WaitersAccurate
    <2>1. CASE d # c
      <3>1. Counted(d)' = Counted(d)
        BY <2>1, <1>1 DEF Counted, TypeOK
      <3> QED BY <3>1, <2>1, <1>1 DEF WaitersAccurate, TypeOK
    <2>2. CASE d = c
      BY <2>2, <1>1, <1>2 DEF WaitersAccurate, TypeOK
    <2> QED BY <2>1, <2>2
  <1>4. waiters[c] - 1 \in Nat
    BY <1>1, <1>2, CountedFinite DEF WaitersAccurate, TypeOK
  <1>5. TypeOK'
    BY <1>1, <1>4 DEF TypeOK, PCs
  <1>6. EntryInv' /\ EntriesDistinct' /\ noSuch' = {}
    BY <1>1 DEF EntryInv, EntriesDistinct, TypeOK
  <1>7. MutexInv'
    <2>1. \A q \in Procs : Inside(q)' <=> Inside(q)
      BY <1>1 DEF Inside, TypeOK
    <2> QED BY <1>1, <2>1 DEF MutexInv, TypeOK
  <1>8. NoLeakedEntry'
    BY <1>1 DEF NoLeakedEntry, Uses, TypeOK
  <1> QED BY <1>3, <1>5, <1>6, <1>7, <1>8

\* Unlock preserves it: it finds the entry it locked, and deletes it only when
\* nobody is counted, so no waiter is left on a deleted entry.
LEMMA LockInvUnlock ==
  ASSUME LockInv, NEW p \in Procs, Unlock(p)
  PROVE  LockInv'
  <1> USE DEF LockInv
  <1> DEFINE n == name[p]
             c == locks[n]
  <1>1. /\ pc[p] = "held" /\ c = nameLock[p] /\ c \in Ctrs /\ n \in Names /\ c # NoCtr
        /\ pc' = [pc EXCEPT ![p] = "idle"]
        /\ nameLock' = [nameLock EXCEPT ![p] = NoCtr]
        /\ locks' = [locks EXCEPT ![n] = IF waiters[c] = 0 THEN NoCtr ELSE c]
        /\ mu' = [d \in Ctrs |-> IF d = c THEN {} ELSE mu[d]]
        /\ noSuch' = {} /\ waiters' = waiters /\ name' = name
    BY NoCtrAssumption DEF Unlock, EntryInv, TypeOK
  <1>2. waiters[c] = 0 => \A q \in Procs : q # p => ~Uses(q, c)
    <2> SUFFICES ASSUME waiters[c] = 0, NEW q \in Procs, q # p, Uses(q, c)
                 PROVE FALSE
      OBVIOUS
    <2>1. Counted(c) = {}
      BY <1>1, CountedFinite, FS_EmptySet DEF WaitersAccurate
    <2>2. pc[q] = "held" /\ nameLock[q] = c
      BY <2>1 DEF Counted, Uses, TypeOK, PCs
    <2>3. mu[c] = {q} /\ mu[c] = {p}
      BY <1>1, <2>2 DEF MutexInv, Inside
    <2> QED BY <2>3
  <1>3. waiters[c] # 0 => \E q \in Procs : q # p /\ Uses(q, c)
    <2> SUFFICES ASSUME waiters[c] # 0 PROVE \E q \in Procs : q # p /\ Uses(q, c)
      OBVIOUS
    <2>1. Counted(c) # {}
      BY <1>1, FS_EmptySet DEF WaitersAccurate
    <2> QED BY <2>1, <1>1 DEF Counted, Uses
  <1>4. TypeOK'
    BY <1>1 DEF TypeOK, PCs
  <1> HIDE DEF n, c
  <1>5. EntryInv'
    <2> SUFFICES ASSUME NEW q \in Procs
                 PROVE IF pc'[q] = "idle" THEN nameLock'[q] = NoCtr
                       ELSE nameLock'[q] \in Ctrs /\ locks'[name'[q]] = nameLock'[q]
      BY DEF EntryInv
    <2>1. CASE q = p
      BY <2>1, <1>1 DEF TypeOK
    <2>2. CASE q # p /\ pc[q] = "idle"
      BY <2>2, <1>1 DEF TypeOK, EntryInv
    <2>3. CASE q # p /\ pc[q] # "idle"
      <3>1. pc'[q] = pc[q] /\ nameLock'[q] = nameLock[q] /\ name'[q] = name[q]
        BY <2>3, <1>1 DEF TypeOK
      <3>2. nameLock[q] \in Ctrs /\ locks[name[q]] = nameLock[q] /\ name[q] \in Names
        BY <2>3 DEF EntryInv, TypeOK
      <3>3. CASE name[q] # n
        BY <3>1, <3>2, <3>3, <2>3, <1>1 DEF TypeOK
      <3>4. CASE name[q] = n
        <4>1. Uses(q, c)
          BY <3>2, <3>4, <2>3 DEF Uses, c
        <4>2. waiters[c] # 0
          BY <4>1, <1>2, <2>3
        <4>3. locks'[n] = c
          BY <4>2, <1>1 DEF TypeOK
        <4> QED BY <4>3, <3>1, <3>2, <3>4, <2>3 DEF c
      <3> QED BY <3>3, <3>4
    <2> QED BY <2>1, <2>2, <2>3
  <1>6. EntriesDistinct'
    <2>1. locks[n] = c
      BY DEF c
    <2>2. \A m \in Names : locks'[m] = locks[m] \/ locks'[m] = NoCtr
      BY <1>1, <2>1 DEF TypeOK
    <2> QED BY <2>2 DEF EntriesDistinct
  <1>7. MutexInv'
    <2>1. \A q \in Procs : q # p => (Inside(q)' <=> Inside(q)) /\ nameLock'[q] = nameLock[q]
      BY <1>1 DEF Inside, TypeOK
    <2>2. ~Inside(p)'
      BY <1>1 DEF Inside, TypeOK
    <2>3. Inside(p) /\ mu[c] = {p}
      BY <1>1 DEF Inside, MutexInv
    <2>4. \A q \in Procs : q # p /\ Inside(q) => nameLock[q] # c /\ nameLock[q] \in Ctrs
      BY <2>3 DEF MutexInv, EntryInv, Inside
    <2>5. \A q \in Procs : Inside(q)' => mu'[nameLock'[q]] = {q}
      BY <1>1, <2>1, <2>2, <2>4 DEF MutexInv
    <2>6. ASSUME NEW d \in Ctrs, NEW q \in mu'[d] PROVE Inside(q)' /\ nameLock'[q] = d
      <3>1. d # c /\ q \in mu[d] /\ q \in Procs
        BY <2>6, <1>1 DEF TypeOK
      <3>2. Inside(q) /\ nameLock[q] = d
        BY <3>1 DEF MutexInv
      <3>3. q # p
        BY <3>1, <3>2, <1>1
      <3> QED BY <3>1, <3>2, <3>3, <2>1
    <2> QED BY <2>5, <2>6 DEF MutexInv
  <1>8. WaitersAccurate'
    <2>1. \A d \in Ctrs : Counted(d)' = Counted(d)
      BY <1>1, NoCtrAssumption DEF Counted, TypeOK
    <2> QED BY <2>1, <1>1 DEF WaitersAccurate
  <1>9. NoLeakedEntry'
    <2> SUFFICES ASSUME NEW m \in Names, locks'[m] # NoCtr
                 PROVE \E q \in Procs : Uses(q, locks[m])'
      BY DEF NoLeakedEntry
    <2>1. locks[n] = c
      BY DEF c
    <2>2. locks'[m] = locks[m]
      BY <1>1, <2>1 DEF TypeOK
    <2>3. \E q \in Procs : q # p /\ Uses(q, locks[m])
      <3>1. CASE m = n
        <4>1. waiters[c] # 0
          BY <3>1, <1>1 DEF TypeOK
        <4> QED BY <4>1, <1>3, <3>1, <2>1
      <3>2. CASE m # n
        <4>1. PICK q \in Procs : Uses(q, locks[m])
          BY <2>2 DEF NoLeakedEntry
        <4>2. q # p
          BY <4>1, <2>1, <2>2, <3>2, <1>1 DEF Uses, EntriesDistinct
        <4> QED BY <4>1, <4>2
      <3> QED BY <3>1, <3>2
    <2> QED BY <2>2, <2>3, <1>1 DEF Uses, TypeOK
  <1> QED BY <1>1, <1>4, <1>5, <1>6, <1>7, <1>8, <1>9

\* The invariant is inductive.
LEMMA LockInvNext == LockInv /\ [Next]_vars => LockInv'
  <1> SUFFICES ASSUME LockInv, [Next]_vars PROVE LockInv'
    OBVIOUS
  <1>1. CASE UNCHANGED vars
    BY <1>1 DEF vars, LockInv, TypeOK, EntryInv, EntriesDistinct, MutexInv,
                WaitersAccurate, Counted, NoLeakedEntry, Uses, Inside
  <1>2. CASE Next
    BY <1>2, LockInvEnter, LockInvAcquire, LockInvReturn, LockInvUnlock DEF Next
  <1> QED BY <1>1, <1>2

\* Locker's invariant holds in every state of every instance.
THEOREM LockerInvariant == Spec => []LockInv
  BY LockInvInit, LockInvNext, PTL DEF Spec

\* Lock and Unlock keep their variables in type; in particular no waiter count goes
\* below zero (locker.go:92 decrements without looking).
THEOREM LockerTypeOK == Spec => []TypeOK
  <1>1. LockInv => TypeOK
    BY DEF LockInv
  <1> QED BY <1>1, LockerInvariant, PTL

\* The waiter count Unlock decides on is the number of goroutines between announcing
\* themselves and their decrement, at every moment.
THEOREM LockerWaitersAccurate == Spec => []WaitersAccurate
  <1>1. LockInv => WaitersAccurate
    BY DEF LockInv
  <1> QED BY <1>1, LockerInvariant, PTL

\* At most one goroutine is between Lock(n) and Unlock(n), for every name.
THEOREM LockerMutualExclusion == Spec => []MutualExclusion
  <1>1. LockInv => MutualExclusion
    <2> SUFFICES ASSUME LockInv, NEW p \in Procs, NEW q \in Procs,
                        p # q, Inside(p), Inside(q), name[p] = name[q]
                 PROVE FALSE
      BY DEF MutualExclusion
    <2>1. nameLock[p] = nameLock[q]
      BY DEF LockInv, EntryInv, Inside
    <2>2. mu[nameLock[p]] = {p} /\ mu[nameLock[q]] = {q}
      BY DEF LockInv, MutexInv
    <2> QED BY <2>1, <2>2
  <1> QED BY <1>1, LockerInvariant, PTL

\* A holder's Unlock finds the entry it locked.
THEOREM LockerUnlockFindsEntry == Spec => []UnlockFindsEntry
  <1>1. LockInv => UnlockFindsEntry
    BY DEF LockInv, EntryInv, UnlockFindsEntry
  <1> QED BY <1>1, LockerInvariant, PTL

\* Entries do not outlive their users.
THEOREM LockerNoLeakedEntry == Spec => []NoLeakedEntry
  <1>1. LockInv => NoLeakedEntry
    BY DEF LockInv
  <1> QED BY <1>1, LockerInvariant, PTL

\* The values NamedMutex's variables take under the refinement mapping.
WantsBar == [p \in Procs |-> IF pc[p] = "blocked" THEN {name[p]} ELSE {}]
OwnsBar == [n \in Names |-> {p \in Procs : Inside(p) /\ name[p] = n}]

\* Every step of Locker is a step of NamedMutex or leaves its variables alone.
LEMMA LockerStepRefines ==
  LockInv /\ [Next]_vars => [Abs!AbsNext]_(Abs!avars)
  <1> SUFFICES ASSUME LockInv, [Next]_vars PROVE [Abs!AbsNext]_(Abs!avars)
    OBVIOUS
  <1>0. TypeOK
    BY DEF LockInv
  <1> USE DEF Abs!avars
  <1>1. CASE UNCHANGED vars
    BY <1>1 DEF vars, Inside
  <1>2. ASSUME NEW p \in Procs, NEW n \in Names, LockEnter(p, n) PROVE Abs!Ask(p, n)
    <2>1. /\ pc[p] = "idle"
          /\ name' = [name EXCEPT ![p] = n]
          /\ pc' = [pc EXCEPT ![p] = "blocked"]
      BY <1>2 DEF LockEnter
    <2>2. WantsBar[p] = {} /\ \A m \in Names : p \notin OwnsBar[m]
      BY <2>1 DEF WantsBar, OwnsBar, Inside
    <2>3. WantsBar' = [WantsBar EXCEPT ![p] = {n}]
      BY <2>1, <1>0 DEF WantsBar, TypeOK
    <2>4. OwnsBar' = OwnsBar
      BY <2>1, <1>0 DEF OwnsBar, Inside, TypeOK
    <2> QED BY <2>2, <2>3, <2>4 DEF Abs!Ask, WantsBar, OwnsBar
  <1>3. ASSUME NEW p \in Procs, NEW n \in Names, n = name[p], LockAcquire(p) PROVE Abs!Grant(p, n)
    <2>1. /\ pc[p] = "blocked" /\ name' = name /\ name[p] \in Names
          /\ pc' = [pc EXCEPT ![p] = "counted"]
          /\ mu[nameLock[p]] = {}
      BY <1>3, <1>0 DEF LockAcquire, TypeOK
    <2>2. OwnsBar[name[p]] = {}
      <3> SUFFICES ASSUME NEW q \in Procs, Inside(q), name[q] = name[p] PROVE FALSE
        BY <2>1 DEF OwnsBar
      <3>1. nameLock[q] = nameLock[p]
        BY <2>1 DEF LockInv, EntryInv, Inside
      <3> QED BY <3>1, <2>1 DEF LockInv, MutexInv
    <2>3. WantsBar[p] = {name[p]} /\ WantsBar' = [WantsBar EXCEPT ![p] = {}]
      BY <2>1, <1>0 DEF WantsBar, TypeOK
    <2>4. OwnsBar' = [OwnsBar EXCEPT ![name[p]] = {p}]
      <3>1. \A q \in Procs : Inside(q)' <=> (Inside(q) \/ q = p)
        BY <2>1, <1>0 DEF Inside, TypeOK
      <3>2. ASSUME NEW m \in Names
            PROVE {q \in Procs : Inside(q)' /\ name'[q] = m}
                    = IF m = name[p] THEN {p} ELSE OwnsBar[m]
        BY <3>1, <2>1, <2>2 DEF OwnsBar
      <3> QED BY <3>2 DEF OwnsBar
    <2> QED BY <1>3, <2>2, <2>3, <2>4 DEF Abs!Grant, WantsBar, OwnsBar
  <1>4. ASSUME NEW p \in Procs, LockReturn(p) PROVE UNCHANGED Abs!avars
    <2>1. /\ pc[p] = "counted" /\ name' = name
          /\ pc' = [pc EXCEPT ![p] = "held"]
      BY <1>4 DEF LockReturn
    <2>2. WantsBar' = WantsBar
      BY <2>1, <1>0 DEF WantsBar, TypeOK
    <2>3. OwnsBar' = OwnsBar
      <3>1. \A q \in Procs : Inside(q)' <=> Inside(q)
        BY <2>1, <1>0 DEF Inside, TypeOK
      <3> QED BY <3>1, <2>1 DEF OwnsBar
    <2> QED BY <2>2, <2>3 DEF WantsBar, OwnsBar
  <1>5. ASSUME NEW p \in Procs, NEW n \in Names, n = name[p], Unlock(p) PROVE Abs!GiveBack(p, n)
    <2>1. /\ pc[p] = "held" /\ name' = name /\ name[p] \in Names
          /\ pc' = [pc EXCEPT ![p] = "idle"]
      BY <1>5, <1>0 DEF Unlock, TypeOK
    <2>2. OwnsBar[name[p]] = {p}
      <3> SUFFICES ASSUME NEW q \in Procs, Inside(q), name[q] = name[p] PROVE q = p
        BY <2>1 DEF OwnsBar, Inside
      <3>1. nameLock[q] = nameLock[p] /\ Inside(p)
        BY <2>1 DEF LockInv, EntryInv, Inside
      <3>2. mu[nameLock[p]] = {p} /\ mu[nameLock[q]] = {q}
        BY <3>1 DEF LockInv, MutexInv
      <3> QED BY <3>1, <3>2
    <2>3. WantsBar' = WantsBar
      BY <2>1, <1>0 DEF WantsBar, TypeOK
    <2>4. OwnsBar' = [OwnsBar EXCEPT ![name[p]] = {}]
      <3>1. \A q \in Procs : Inside(q)' <=> (Inside(q) /\ q # p)
        BY <2>1, <1>0 DEF Inside, TypeOK
      <3>2. ASSUME NEW m \in Names
            PROVE {q \in Procs : Inside(q)' /\ name'[q] = m}
                    = IF m = name[p] THEN {} ELSE OwnsBar[m]
        BY <3>1, <2>1, <2>2 DEF OwnsBar
      <3> QED BY <3>2 DEF OwnsBar
    <2> QED BY <1>5, <2>2, <2>3, <2>4 DEF Abs!GiveBack, WantsBar, OwnsBar
  <1>6. CASE Next
    <2>1. \A p \in Procs : name[p] \in Names
      BY <1>0 DEF TypeOK
    <2>2. PICK p \in Procs : \/ \E n \in Names : LockEnter(p, n)
                             \/ LockAcquire(p) \/ LockReturn(p) \/ Unlock(p)
      BY <1>6 DEF Next
    <2>3. CASE LockReturn(p)
      BY <2>3, <1>4
    <2>4. CASE ~LockReturn(p)
      <3>1. \E n \in Names : Abs!Ask(p, n) \/ Abs!Grant(p, n) \/ Abs!GiveBack(p, n)
        <4>1. PICK n \in Names : n = name[p]
          BY <2>1
        <4> QED BY <4>1, <2>2, <2>4, <1>2, <1>3, <1>5
      <3> QED BY <3>1 DEF Abs!AbsNext
    <2> QED BY <2>3, <2>4
  <1> QED BY <1>1, <1>6

\* pkg/locker implements one mutex per name.
THEOREM LockerRefinesNamedMutex == Spec => AbsSpec
  <1>1. Init => Abs!AbsInit
    BY DEF Init, Abs!AbsInit, Inside
  <1> QED BY <1>1, LockerStepRefines, LockerInvariant, PTL DEF Spec, AbsSpec, Abs!AbsSpec
===============================================================================
