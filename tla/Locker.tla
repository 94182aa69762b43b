-------------------------------- MODULE Locker --------------------------------
(***************************************************************************)
(* pkg/locker: a mutex per name, kept in a map whose entries are created   *)
(* on demand and deleted by the last user.  volume/store, plugin and       *)
(* containerd's graph code serialise their operations on one name with it. *)
(*                                                                         *)
(* Lock and the whole of Unlock run their map accesses under Locker.mu,    *)
(* so each such section is one step.  Outside it Lock has two more steps:  *)
(* it blocks on the entry's mutex, and only then takes itself off the      *)
(* waiter count.  An entry (a lockCtr object) deleted from the map is      *)
(* still the object its blocked goroutines wait on, so entries have an     *)
(* identity here, and a new entry is an object nobody refers to.           *)
(***************************************************************************)
EXTENDS Naturals, FiniteSets

CONSTANTS Procs,   \* goroutines
          Names,   \* names that are locked
          Ctrs,    \* lockCtr objects
          NoCtr    \* the nil *lockCtr

ASSUME NoCtrAssumption == NoCtr \notin Ctrs
ASSUME ProcsAssumption == IsFiniteSet(Procs)

VARIABLES locks,    \* Locker.locks: name -> lockCtr, or NoCtr when absent
          waiters,  \* lockCtr.waiters
          mu,       \* lockCtr.mu: the goroutines inside it
          pc,       \* where each goroutine is in its call
          name,     \* the name it passed
          nameLock, \* the local variable nameLock of its Lock call
          noSuch    \* goroutines that got ErrNoSuchLock from Unlock

vars == <<locks, waiters, mu, pc, name, nameLock, noSuch>>

PCs == {"idle", "blocked", "counted", "held"}

TypeOK ==
  /\ locks \in [Names -> Ctrs \cup {NoCtr}]
  /\ waiters \in [Ctrs -> Nat]
  /\ mu \in [Ctrs -> SUBSET Procs]
  /\ pc \in [Procs -> PCs]
  /\ name \in [Procs -> Names]
  /\ nameLock \in [Procs -> Ctrs \cup {NoCtr}]
  /\ noSuch \in SUBSET Procs

Init ==
  /\ locks = [n \in Names |-> NoCtr]
  /\ waiters = [c \in Ctrs |-> 0]
  /\ mu = [c \in Ctrs |-> {}]
  /\ pc = [p \in Procs |-> "idle"]
  /\ name \in [Procs -> Names]
  /\ nameLock = [p \in Procs |-> NoCtr]
  /\ noSuch = {}

\* An object nothing refers to: what &lockCtr{} may return.
Fresh(c) == /\ \A n \in Names : locks[n] # c
            /\ \A p \in Procs : nameLock[p] # c

\* Lock, the section under Locker.mu: find or create the entry, count the caller in.
LockEnter(p, n) ==
  /\ pc[p] = "idle"
  /\ \E c \in Ctrs :
       /\ IF locks[n] = NoCtr THEN Fresh(c) ELSE c = locks[n]
       /\ locks' = [locks EXCEPT ![n] = c]
       /\ nameLock' = [nameLock EXCEPT ![p] = c]
       /\ waiters' = [waiters EXCEPT ![c] = (IF locks[n] = NoCtr THEN 0 ELSE @) + 1]
       /\ mu' = [mu EXCEPT ![c] = IF locks[n] = NoCtr THEN {} ELSE @]
  /\ name' = [name EXCEPT ![p] = n]
  /\ pc' = [pc EXCEPT ![p] = "blocked"]
  /\ UNCHANGED noSuch

\* Lock: nameLock.Lock() returns.
LockAcquire(p) ==
  /\ pc[p] = "blocked"
  /\ mu[nameLock[p]] = {}
  /\ mu' = [mu EXCEPT ![nameLock[p]] = {p}]
  /\ pc' = [pc EXCEPT ![p] = "counted"]
  /\ UNCHANGED <<locks, waiters, name, nameLock, noSuch>>

\* Variant: Lock forgets to take the caller off the waiter count.
LockReturnNoDec(p) ==
  /\ pc[p] = "counted"
  /\ pc' = [pc EXCEPT ![p] = "held"]
  /\ UNCHANGED <<locks, waiters, mu, name, nameLock, noSuch>>

\* Lock: nameLock.dec(), after which the caller is in its critical section.
LockReturn(p) ==
  /\ pc[p] = "counted"
  /\ waiters' = [waiters EXCEPT ![nameLock[p]] = @ - 1]
  /\ pc' = [pc EXCEPT ![p] = "held"]
  /\ UNCHANGED <<locks, mu, name, nameLock, noSuch>>

\* Variant: Unlock deletes the entry without looking at the waiter count.
UnlockAlwaysDeletes(p) ==
  LET c == locks[name[p]]
  IN /\ pc[p] = "held"
     /\ pc' = [pc EXCEPT ![p] = "idle"]
     /\ nameLock' = [nameLock EXCEPT ![p] = NoCtr]
     /\ locks' = [locks EXCEPT ![name[p]] = NoCtr]
     /\ mu' = IF c = NoCtr THEN mu ELSE [mu EXCEPT ![c] = {}]
     /\ noSuch' = IF c = NoCtr THEN noSuch \cup {p} ELSE noSuch
     /\ UNCHANGED <<waiters, name>>

\* Variant: Unlock leaves the entry's mutex locked when it keeps the entry.
UnlockKeepsMutex(p) ==
  LET c == locks[name[p]]
  IN /\ pc[p] = "held"
     /\ pc' = [pc EXCEPT ![p] = "idle"]
     /\ nameLock' = [nameLock EXCEPT ![p] = NoCtr]
     /\ c # NoCtr
     /\ IF waiters[c] = 0
          THEN /\ locks' = [locks EXCEPT ![name[p]] = NoCtr]
               /\ mu' = [mu EXCEPT ![c] = {}]
          ELSE UNCHANGED <<locks, mu>>
     /\ UNCHANGED <<waiters, name, noSuch>>

\* Unlock by the goroutine that locked the name; all of it under Locker.mu.
\* sync.Mutex.Unlock frees the mutex whoever locked it.
Unlock(p) ==
  LET n == name[p]
      c == locks[n]
  IN /\ pc[p] = "held"
     /\ pc' = [pc EXCEPT ![p] = "idle"]
     /\ nameLock' = [nameLock EXCEPT ![p] = NoCtr]
     /\ locks' = [locks EXCEPT ![n] = IF c # NoCtr /\ waiters[c] = 0 THEN NoCtr ELSE c]
     /\ mu' = [d \in Ctrs |-> IF d = c THEN {} ELSE mu[d]]
     /\ noSuch' = IF c = NoCtr THEN noSuch \cup {p} ELSE noSuch
     /\ UNCHANGED <<waiters, name>>

Next == \E p \in Procs :
          \/ \E n \in Names : LockEnter(p, n)
          \/ LockAcquire(p)
          \/ LockReturn(p)
          \/ Unlock(p)

\* The scheduler runs a goroutine that can run, and a caller that holds a name
\* gives it back.  Nothing makes a goroutine call Lock, and a sync.Mutex
\* promises no particular waiter the lock.
Fairness == \A p \in Procs : WF_vars(LockAcquire(p) \/ LockReturn(p) \/ Unlock(p))

Spec == Init /\ [][Next]_vars

FairSpec == Spec /\ Fairness
-------------------------------------------------------------------------------
(* Properties *)

Inside(p) == pc[p] \in {"counted", "held"}
Uses(p, c) == pc[p] # "idle" /\ nameLock[p] = c

\* Two goroutines are never inside Lock(n)..Unlock(n) for one name, however
\* entry deletion interleaves with new Lock calls (the comment at locker.go:84).
MutualExclusion ==
  \A p, q \in Procs : p # q /\ Inside(p) /\ Inside(q) => name[p] # name[q]

\* Unlock finds the entry its caller locked: it never returns ErrNoSuchLock to a
\* holder and never unlocks another entry's mutex.
UnlockFindsEntry ==
  /\ noSuch = {}
  /\ \A p \in Procs : pc[p] # "idle" => locks[name[p]] = nameLock[p]

\* The map does not leak: an entry has a goroutine that waits on it or holds it
\* (locker.go:96, "If the given lock is not being waited on ... it is deleted").
NoLeakedEntry ==
  \A n \in Names : locks[n] # NoCtr => \E p \in Procs : Uses(p, locks[n])

Counted(c) == {p \in Procs : nameLock[p] = c /\ pc[p] \in {"blocked", "counted"}}

\* The waiter count is the number of goroutines that have announced themselves
\* and not yet decremented: Unlock's decision to delete is made on a true count.
WaitersAccurate == \A c \in Ctrs : waiters[c] = Cardinality(Counted(c))

\* While somebody waits for a name, somebody gets it: no lost wake-up on an
\* entry that was deleted under its waiters.
WaitersAreServed ==
  \A n \in Names :
    (\E p \in Procs : pc[p] = "blocked" /\ name[p] = n)
       ~> (\E p \in Procs : Inside(p) /\ name[p] = n)

\* Locker implements one mutex per name.
Abs == INSTANCE NamedMutex WITH
         wants <- [p \in Procs |-> IF pc[p] = "blocked" THEN {name[p]} ELSE {}],
         owns  <- [n \in Names |-> {p \in Procs : Inside(p) /\ name[p] = n}]

AbsSpec == Abs!AbsSpec
===============================================================================
