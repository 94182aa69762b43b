--------------------------- MODULE MCLayerDownload ---------------------------
(* What is pulled: one image by both calls, or an image that has a blob twice *)
(* by one of them.                                                            *)
EXTENDS LayerDownload, TLC

Alone(image) == {[p \in Pulls |-> IF p = q THEN image ELSE <<>>] : q \in Pulls}
Both(image) == [p \in Pulls |-> image]

Shared == {Both(<<"a", "b">>)} \cup Alone(<<"a", "b", "a">>)
Small == {Both(<<"a">>)} \cup Alone(<<"a", "a">>)
Symmetry == Permutations(Pulls)
==============================================================================
