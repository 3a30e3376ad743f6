----------------------------- MODULE MCWindows -----------------------------
(***************************************************************************)
(* A week of two days of six ticks, with every window it has room for.     *)
(***************************************************************************)
EXTENDS Windows

\* Each window alone, and each daily window with one that crosses midnight on
\* the first day or with one in the evening of the second.
Overnight == [days |-> {0}, start |-> 4, end |-> 1]
Evening   == [days |-> {1}, start |-> 3, end |-> 5]

Daily == {w \in Window : w.days = 0 .. WeekLength - 1}

OneOrTwo == {{v} : v \in Window}
            \cup {{v, w} : v \in Daily, w \in {Overnight, Evening}}

\* The clock jumps in the first day of the second week, or never.  The windows
\* cover all weekdays, so the day makes no difference.
ChangeDay == DayLength * WeekLength .. DayLength * (WeekLength + 1) - 1

OneChange == [change : ChangeDay, shift : {-1, 1}, later : BOOLEAN]
             \cup [change : {0}, shift : {0}, later : {FALSE}]
=============================================================================
