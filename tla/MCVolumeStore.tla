----------------------------- MODULE MCVolumeStore -----------------------------
(* Instances of VolumeStore for TLC.                                            *)
EXTENDS VolumeStore, TLC

Symmetry == Permutations(Procs) \cup Permutations(Containers)
===============================================================================
