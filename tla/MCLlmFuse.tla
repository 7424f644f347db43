------------------------------- MODULE MCLlmFuse -------------------------------
(***************************************************************************)
(* Small instances of LlmFuse for TLC.                                     *)
(***************************************************************************)
EXTENDS LlmFuse, TLC

\* For the runs of one invariant or action property.
Symmetry == Permutations(Requests)
=============================================================================
