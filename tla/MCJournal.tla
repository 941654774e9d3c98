----------------------------- MODULE MCJournal ------------------------------
(***************************************************************************)
(* The operation journal for TLC.                                          *)
(***************************************************************************)
EXTENDS OperationJournal, TLC

\* The workers of the recovery loops are interchangeable.
Symmetry == Permutations(Workers)
=============================================================================
