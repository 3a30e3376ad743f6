---------------------------- MODULE WakeSchedule ----------------------------
(***************************************************************************)
(* The recurring pmset event pair as package wake sees it.                 *)
(*                                                                         *)
(* powerd stores one exact schedule.  `pmset -g sched` prints its days as  *)
(* a label, and a day mask that has no name of its own collapses to        *)
(* "Some days" (DayMask.Label), so two exact schedules can share a label.  *)
(* When the powerd preference file is readable the exact mask is recovered *)
(* (Adapter.Current), otherwise only the label is known.                   *)
(*                                                                         *)
(* A schedule is one value here: the type, the minute and the day mask of  *)
(* its two events are told apart by nothing below.                         *)
(***************************************************************************)

CONSTANTS
    Exact,        \* schedules whose days are known precisely
    Lossy,        \* schedules known only by a label that several masks share
    NoSchedule,   \* the empty schedule: no recurring event
    LabelOf       \* what `pmset -g sched` prints for each exact schedule

ASSUME ScheduleAssumption ==
    /\ Exact \cap Lossy = {}
    /\ NoSchedule \in Exact
    /\ LabelOf \in [Exact -> Exact \cup Lossy]
    /\ \A v \in Exact : LabelOf[v] \in {v} \cup Lossy
    /\ LabelOf[NoSchedule] = NoSchedule

Schedules == Exact \cup Lossy

\* Event.label: a label that names one mask is parsed back to that mask.
Label(v) == IF v \in Exact THEN LabelOf[v] ELSE v

\* Schedule.Exact
IsExact(v) == v \in Exact

\* Schedule.Empty
IsEmpty(v) == v = NoSchedule

\* Schedule.Equal: exact days are compared as masks, inexact ones by label.
Equal(a, b) == IF IsExact(a) /\ IsExact(b) THEN a = b ELSE Label(a) = Label(b)

\* Adapter.Current: the schedules it may return while powerd holds v.
Current(v) == {v, Label(v)}
=============================================================================
