------------------------- MODULE MCIncrementalFetch -------------------------
(***************************************************************************)
(* Instances of IncrementalFetch for TLC.                                  *)
(***************************************************************************)
EXTENDS IncrementalFetch, TLC

\* Rows and jobs are interchangeable in the safety run.
Symmetry == Permutations(Rows) \cup Permutations(Pollers)
=============================================================================
