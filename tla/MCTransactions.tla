---------------------------- MODULE MCTransactions ----------------------------
(***************************************************************************)
(* Instances of Transactions for TLC.                                      *)
(***************************************************************************)
EXTENDS Transactions, TLC

\* Tasks, connections and statements are interchangeable in the safety runs.
Symmetry == Permutations(Tasks) \cup Permutations(Conns) \cup Permutations(Stmts)
===============================================================================
