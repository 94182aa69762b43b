------------------------------ MODULE MCDeviceSet ------------------------------
(* What may go wrong, for TLC. *)
EXTENDS DeviceSet, TLC

With(faults, deferred, n) ==
  [faults |-> faults, deferred |-> deferred, thinpool |-> FALSE, stops |-> n]

\* Errors of the disk and of the pool; a crash outside of a deletion, alone or with errors of
\* the disk; a pool that was given; removal that is not deferred.
Errors ==
  {With({"save", "pool", "close"}, TRUE, 0), With({"crash", "save"}, TRUE, 1), With({"pool"}, FALSE, 1),
   [With({"crash"}, TRUE, 1) EXCEPT !.thinpool = TRUE]}

\* The daemon may die while a device is being deleted.
DiesInDelete == {With({"crash", "crashdelete"}, TRUE, 1)}

Symmetry == Permutations(Clients)
================================================================================
