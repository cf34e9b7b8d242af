------------------------------- MODULE Interval -------------------------------
(***************************************************************************)
(* The windowed fetch (access/interval.py): the rows of a half-open window *)
(* in buckets of equal width that begin at the start of the window, and    *)
(* what date_bin(), WHERE and GROUP BY make of them.  Times are integers.  *)
(***************************************************************************)
EXTENDS Integers, FiniteSets

\* date_bin(every, t, origin).
DateBin(every, t, origin) == origin + every * ((t - origin) \div every)

\* Mutant: the window is closed.
SelectedMutant(t, start, end) == start <= t /\ t <= end

\* WHERE time_column >= start AND time_column < end.
Selected(t, start, end) == start <= t /\ t < end

\* compile_interval(): the aggregate of each bucket, here the set of events in it.
Buckets(events, start, end, every) ==
    LET rows == {e \in events : Selected(e, start, end)}
    IN  [b \in {DateBin(every, e, start) : e \in rows} |->
            {e \in rows : DateBin(every, e, start) = b}]
===============================================================================
