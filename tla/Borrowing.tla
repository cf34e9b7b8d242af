------------------------------- MODULE Borrowing -------------------------------
(***************************************************************************)
(* What a pool of sessions promises to those who borrow from it: a session *)
(* has one borrower at a time, only the borrower works on it, and it is    *)
(* back outside a transaction before the next one gets it.                 *)
(***************************************************************************)
CONSTANTS Borrowers, Sessions, Nobody

VARIABLES
    borrower,   \* who has the session
    inTxn       \* is the session inside a transaction block?

vars == <<borrower, inTxn>>

Init ==
    /\ borrower = [s \in Sessions |-> Nobody]
    /\ inTxn = [s \in Sessions |-> FALSE]

Borrow(b, s) ==
    /\ borrower[s] = Nobody
    /\ borrower' = [borrower EXCEPT ![s] = b]
    /\ UNCHANGED inTxn

Work(b, s) ==
    /\ borrower[s] = b
    /\ \E t \in BOOLEAN : inTxn' = [inTxn EXCEPT ![s] = t]
    /\ UNCHANGED borrower

Return(b, s) ==
    /\ borrower[s] = b
    /\ borrower' = [borrower EXCEPT ![s] = Nobody]
    /\ inTxn' = [inTxn EXCEPT ![s] = FALSE]

Next == \E b \in Borrowers, s \in Sessions : Borrow(b, s) \/ Work(b, s) \/ Return(b, s)

Spec == Init /\ [][Next]_vars
===============================================================================
