------------------------------ MODULE MCLayerStore ------------------------------
(* Chains of layers for TLC: one layer, and one layer on another.                *)
EXTENDS LayerStore, TLC

One == {<<"a">>}
Stack == {<<"a">>, <<"a", "b">>}
Symmetry == Permutations(Procs)
=================================================================================
