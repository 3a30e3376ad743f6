------------------------------ MODULE Windows ------------------------------
(***************************************************************************)
(* The calendar of package policy: when a window contains the time, when   *)
(* that changes next, and which one-off wake events to reserve, while the  *)
(* clock runs and the local time may jump forward or back once.            *)
(*                                                                         *)
(* Time is counted in ticks.  A day of the calendar has DayLength of them  *)
(* and a week WeekLength days; weekday d is a number, d % WeekLength.      *)
(***************************************************************************)
EXTENDS Integers, FiniteSetsExt

CONSTANTS
    DayLength,
    WeekLength,
    WindowSets,   \* the configurations' sets of windows
    Zones,        \* local times
    Interval,     \* Wake.Interval
    Margin,       \* WakeEventMargin
    None,
    FirstTick,    \* bound: where the clock starts
    LastTick      \* bound: where it stops

\* config.Window, which may not have zero length.
Window == {w \in [days  : SUBSET (0 .. WeekLength - 1),
                  start : 0 .. DayLength - 1,
                  end   : 0 .. DayLength - 1] : w.start # w.end}

ASSUME WindowsAssumption ==
    /\ DayLength \in Nat \ {0} /\ WeekLength \in Nat \ {0}
    /\ WindowSets \subseteq SUBSET Window
    /\ Zones \subseteq [change : Nat, shift : {-1, 0, 1}, later : BOOLEAN]
    /\ Interval \in Nat \ {0} /\ Margin \in Nat
    /\ LastTick \in Nat /\ FirstTick \in 0 .. LastTick
    /\ None \notin Int

VARIABLES now, zone, windows

vars == <<now, zone, windows>>

\* WakeEventHorizon
Horizon == DayLength

-----------------------------------------------------------------------------
\* Package time.  The zone's clock shows the tick, and the tick plus the shift
\* after the change.
Clock(i) == IF i < zone.change THEN i ELSE i + zone.shift

Day(i) == Clock(i) \div DayLength

\* time.Date: a reading that occurs twice, or never, is resolved by one of the
\* two offsets.
Date(day, clock) ==
    LET reading    == day * DayLength + clock
        candidates == {reading, reading - zone.shift}
        exact      == {i \in candidates : Clock(i) = reading}
        found      == IF exact = {} THEN candidates ELSE exact
    IN  IF zone.later THEN Max(found) ELSE Min(found)

-----------------------------------------------------------------------------
CrossesMidnight(w) == w.end <= w.start

HasDay(w, i) == Day(i) % WeekLength \in w.days

WindowEnd(w, start) ==
    Date(IF CrossesMidnight(w) THEN Day(start) + 1 ELSE Day(start), w.end)

\* The start of the window in the day that many days after that of i.
Start(w, i, days) == Date(Day(i) + days, w.start)

\* Mutant of InsideWindow: a window that began yesterday is forgotten.
InsideToday(w, i) ==
    LET start == Start(w, i, 0)
    IN  HasDay(w, start) /\ start <= i /\ i < WindowEnd(w, start)

\* insideWindow: the occurrences that start today or yesterday.
InsideWindow(w, i) ==
    \E back \in 0..1 :
       LET start == Start(w, i, -back)
       IN  HasDay(w, start) /\ start <= i /\ i < WindowEnd(w, start)

InsideAnyWindow(i) == \E w \in windows : InsideWindow(w, i)

\* The occurrences of the windows in the days from first to last after that of i.
Occurrences(i, first, last) ==
    {o \in UNION {{[window |-> w, start |-> Start(w, i, d)] : w \in windows} :
                 d \in first..last} : HasDay(o.window, o.start)}

Ends(o) == WindowEnd(o.window, o.start)

Boundaries(i) ==
    {b \in UNION {{o.start, Ends(o)} : o \in Occurrences(i, -1, WeekLength + 1)} :
       b > i}

Earliest(S) == IF S = {} THEN None ELSE Min(S)

\* Mutant of NextWindowTransition: the next boundary of any window.
NextBoundary(i) == Earliest(Boundaries(i))

NextWindowTransition(i) ==
    Earliest({b \in Boundaries(i) : InsideAnyWindow(b) # InsideAnyWindow(i)})

\* Every window start and each multiple of the interval before the window ends,
\* past the margin and within the horizon.
PlanFrom(i, first) ==
    LET days == Occurrences(i, first, Horizon \div DayLength + 2)
    IN  {t \in i + Margin + 1 .. i + Horizon :
           \E o \in days :
              o.start <= t /\ t < Ends(o) /\ (t - o.start) % Interval = 0}

\* Mutants of PlanWakeEvents: the rest of the window that began yesterday is not
\* covered; the interval is counted from the present.
PlanFromToday(i) == PlanFrom(i, 0)
PlanFromNow(i) ==
    {t \in i + Margin + 1 .. i + Horizon :
       InsideAnyWindow(t) /\ (t - i) % Interval = 0}

PlanWakeEvents(i) == PlanFrom(i, -1)

-----------------------------------------------------------------------------
Init ==
    /\ now = FirstTick
    /\ zone \in Zones
    /\ windows \in WindowSets

Next == now < LastTick /\ now' = now + 1 /\ UNCHANGED <<zone, windows>>

Spec == Init /\ [][Next]_vars

-----------------------------------------------------------------------------
\* The calendar by its own definition: the window of a day runs from the first
\* clock time to the second, of the same day or of the next.
Opens(w, day)  == Date(day, w.start)
Closes(w, day) == Date(IF CrossesMidnight(w) THEN day + 1 ELSE day, w.end)

Calendar == -2 .. LastTick \div DayLength + WeekLength

\* The clock skips the start of the window, and time.Date goes back to the day
\* before, or on to the day after.
Displaced == \E w \in windows, day \in Calendar : Day(Opens(w, day)) # day
Postponed == \E w \in windows, day \in Calendar : Day(Opens(w, day)) = day + 1

\* architecture.md:113-117: the time is inside a window exactly when the window
\* of some listed day contains it, start inclusive and end exclusive, though the
\* code looks at two days only and a day may be shorter or longer than another.
\* Not so in a zone whose clock skips the hour around midnight: the window that
\* starts in it is taken for one of the day before or of the day after.
InsideAsConfigured ==
    \/ Displaced
    \/ InsideAnyWindow(now) <=>
          \E w \in windows, day \in Calendar :
             /\ day % WeekLength \in w.days
             /\ Opens(w, day) <= now /\ now < Closes(w, day)

\* The transition a status announces is the first instant at which the union of
\* the windows, with their overlaps and gaps, changes; none is announced only if
\* nothing changes for a week.
TransitionIsNext ==
    LET flips(days) == {i \in now + 1 .. now + days * DayLength :
                          InsideAnyWindow(i) # InsideAnyWindow(now)}
        next == NextWindowTransition(now)
    IN  IF next = None THEN flips(WeekLength) = {}
        ELSE next = Earliest(flips(WeekLength + 4))

\* A Mac that falls asleep inside a window is woken within one interval, from the
\* first instant that can still be reserved to the horizon, and never outside.
PlanCovers ==
    LET plan == PlanWakeEvents(now)
    IN  /\ \A t \in plan : InsideAnyWindow(t)
        /\ \A i \in now + Margin + Interval .. now + Horizon :
              InsideAnyWindow(i) =>
                 \E t \in plan : i - Interval < t /\ t <= i

\* A reservation made once is planned again by every later run until it is about
\* to fire, so no run cancels the reservations of the one before it.  Not so for
\* a window that starts in the hour before midnight in a zone whose clock skips
\* that hour: it lasts until the day after next, and on that day its rest is
\* planned by the window of the day in between.
PlanKeeps ==
    [][Postponed \/
       \A t \in PlanWakeEvents(now) :
          t > now' + Margin => t \in PlanWakeEvents(now')]_vars
=============================================================================
