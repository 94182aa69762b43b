------------------------------ MODULE NamedMutex ------------------------------
(***************************************************************************)
(* What pkg/locker promises its callers, without the reference-counted     *)
(* map that implements it: one mutex per name.  A caller asks for a name,  *)
(* is given it when nobody holds it, and gives it back.                    *)
(***************************************************************************)
CONSTANTS Procs,   \* goroutines that use the locker
          Names    \* names they lock

VARIABLES wants,   \* wants[p]: the names p has asked for and not been given (at most one)
          owns     \* owns[n]: the goroutines that hold name n (at most one)

avars == <<wants, owns>>

AbsTypeOK ==
  /\ wants \in [Procs -> SUBSET Names]
  /\ owns \in [Names -> SUBSET Procs]

AbsInit ==
  /\ wants = [p \in Procs |-> {}]
  /\ owns = [n \in Names |-> {}]

Ask(p, n) ==
  /\ wants[p] = {}
  /\ \A m \in Names : p \notin owns[m]
  /\ wants' = [wants EXCEPT ![p] = {n}]
  /\ UNCHANGED owns

Grant(p, n) ==
  /\ wants[p] = {n}
  /\ owns[n] = {}
  /\ wants' = [wants EXCEPT ![p] = {}]
  /\ owns' = [owns EXCEPT ![n] = {p}]

GiveBack(p, n) ==
  /\ owns[n] = {p}
  /\ owns' = [owns EXCEPT ![n] = {}]
  /\ UNCHANGED wants

AbsNext == \E p \in Procs, n \in Names : Ask(p, n) \/ Grant(p, n) \/ GiveBack(p, n)

AbsSpec == AbsInit /\ [][AbsNext]_avars
===============================================================================
