----------------------------- MODULE MCBlobStore ----------------------------
(***************************************************************************)
(* Small instances of BlobStore: names for writers and erasers, and the    *)
(* symmetry of the latter.                                                 *)
(***************************************************************************)
EXTENDS BlobStore, TLC

CONSTANTS w1, w2, e1, e2

EraserSymmetry == Permutations(Erasers)
=============================================================================
