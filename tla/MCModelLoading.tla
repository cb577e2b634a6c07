--------------------------- MODULE MCModelLoading ---------------------------
(***************************************************************************)
(* Three models of a few layers, one of them cut short, and two drafts.    *)
(* The layers take 5 or 6 pages, buffers one.                              *)
(***************************************************************************)
EXTENDS ModelLoading

Dense == [mtp |-> FALSE, file |-> "whole", muse |-> FALSE, layers |-> 3, globals |-> {1},
          dModel |-> 64, dFf |-> 64, qHeads |-> 1, headDim |-> 64, globalHeadDim |-> 128,
          kvHeads |-> 1, globalKvHeads |-> 1, pleDim |-> 0, shared |-> 0, attnOut |-> 0,
          ffn |-> [l \in 0 .. 2 |-> 0], kEqV |-> TRUE]
(* Per-layer embeddings, a wider feed-forward and no keys in the last layer. *)
E2b   == [Dense EXCEPT !.pleDim = 64, !.shared = 1, !.kEqV = FALSE,
                       !.ffn = [l \in 0 .. 2 |-> IF l = 2 THEN 128 ELSE 64]]
Muse  == [Dense EXCEPT !.muse = TRUE, !.globals = {}, !.kEqV = FALSE, !.attnOut = 128,
                       !.qHeads = 2, !.file = "cut"]
Small == [E2b EXCEPT !.layers = 1, !.shared = 0, !.globals = {}, !.ffn = [l \in {0} |-> 64]]
Mtp   == [Small EXCEPT !.mtp = TRUE]

MCContainers == {Dense, Muse, [E2b EXCEPT !.file = "cut"]}
MCDrafts     == {Small, Mtp}
MCOverrides  == {None, 2}
=============================================================================
