----------------------------- MODULE MCImageStore -----------------------------
(* Instances of ImageStore for TLC: an image, and one that is committed on it,  *)
(* with its own layer or with an empty one.                                     *)
EXTENDS ImageStore, TLC

CONSTANTS a, b, x, t, d
MCBase == a :> NoImage @@ b :> a
OwnLayer == a :> 1 @@ b :> 2
\* x has the layers of b in a configuration of its own.
CacheBase == MCBase @@ x :> NoImage
CacheLayer == OwnLayer @@ x :> 2
TwoStack == 1 :> {1} @@ 2 :> {1, 2}
OneRepo == t :> 1 @@ d :> 1
Symmetry == Permutations(Procs)
===============================================================================
