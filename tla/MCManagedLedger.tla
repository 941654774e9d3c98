-------------------------- MODULE MCManagedLedger --------------------------
(***************************************************************************)
(* ManagedLedger for TLC: its symmetry.                                    *)
(***************************************************************************)
EXTENDS ManagedLedger, TLC

\* Operations and workers are interchangeable; keys are not, because an
\* unwritten row names a chosen key.
Symmetry == Permutations(Ops) \cup Permutations(Workers)
=============================================================================
