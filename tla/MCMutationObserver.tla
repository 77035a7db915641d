------------------------ MODULE MCMutationObserver ------------------------
(* An instance of MutationObserver for TLC; contents are only compared. *)
EXTENDS MutationObserver, TLC

MCSymmetry == Permutations(Contents)
=============================================================================
