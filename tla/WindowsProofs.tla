---------------------------- MODULE WindowsProofs ----------------------------
(***************************************************************************)
(* Proofs about the calendar of package policy, for days and weeks of      *)
(* every length, every set of windows, every change of the clock by one    *)
(* tick, every interval and every margin.                                  *)
(***************************************************************************)
EXTENDS Windows, WellFoundedInduction, TLAPS

-----------------------------------------------------------------------------
\* Integers.

LEMMA DivisionOfSum ==
    ASSUME NEW m \in Nat \ {0}, NEW q \in Int, NEW k \in 0 .. m - 1
    PROVE  /\ (q * m + k) \div m = q
           /\ (q * m + k) % m = k
  OBVIOUS

LEMMA MultipleDivides ==
    ASSUME NEW m \in Nat \ {0}, NEW q \in Int
    PROVE  (q * m) % m = 0
<1>1. 0 \in 0 .. m - 1 /\ q * m + 0 = q * m
  OBVIOUS
<1>2. (q * m + 0) % m = 0
  BY <1>1, DivisionOfSum
<1> QED
  BY <1>1, <1>2

LEMMA Division ==
    ASSUME NEW m \in Nat \ {0}, NEW x \in Int
    PROVE  /\ x \div m \in Int
           /\ x % m \in 0 .. m - 1
           /\ x = (x \div m) * m + (x % m)
  OBVIOUS

LEMMA ProductsOrdered ==
    ASSUME NEW m \in Nat, NEW p \in Int, NEW q \in Int, p <= q
    PROVE  p * m <= q * m
  OBVIOUS
LEMMA QuotientBelow ==
    ASSUME NEW m \in Nat \ {0}, NEW x \in Int, NEW q \in Int
    PROVE  /\ x < (q + 1) * m <=> x \div m <= q
           /\ q * m <= x <=> q <= x \div m
<1> DEFINE d == x \div m
<1>1. d \in Int /\ d * m <= x /\ x < (d + 1) * m
  BY Division
<1>2. q + 1 <= d => (q + 1) * m <= d * m
  BY <1>1, ProductsOrdered
<1>3. d <= q => (d + 1) * m <= (q + 1) * m
  BY <1>1, ProductsOrdered
<1>4. q <= d => q * m <= d * m
  BY <1>1, ProductsOrdered
<1>5. d + 1 <= q => (d + 1) * m <= q * m
  BY <1>1, ProductsOrdered
<1>6. q * m \in Int /\ (q + 1) * m \in Int /\ d * m \in Int /\ (d + 1) * m \in Int
  BY <1>1
<1> HIDE DEF d
<1>7. x < (q + 1) * m <=> d <= q
  BY <1>1, <1>2, <1>3, <1>6
<1>8. q * m <= x <=> q <= d
  BY <1>1, <1>4, <1>5, <1>6
<1> QED
  BY <1>7, <1>8 DEF d

\* Every non-empty set of numbers has a least element.
LEMMA LeastNumber ==
    ASSUME NEW S, S \subseteq Nat, S # {}
    PROVE  \E x \in S : \A y \in S : x <= y
<1>1. \E x \in S : \A y \in S : <<y, x>> \notin OpToRel(<, Nat)
  BY NatLessThanWellFounded, WFMin
<1>2. PICK x \in S : \A y \in S : <<y, x>> \notin OpToRel(<, Nat)
  BY <1>1
<1>3. ASSUME NEW y \in S PROVE x <= y
  <2>1. x \in Nat /\ y \in Nat
    OBVIOUS
  <2>2. ~(y < x)
    BY <1>2, <2>1 DEF OpToRel
  <2> QED
    BY <2>1, <2>2
<1> QED
  BY <1>3

LEMMA LeastIsMin ==
    ASSUME NEW S, S \subseteq Int, NEW x \in S, \A y \in S : x <= y
    PROVE  Min(S) = x
<1>1. Min(S) \in S /\ \A y \in S : Min(S) <= y
  BY DEF Min
<1>2. Min(S) <= x /\ x <= Min(S)
  BY <1>1
<1>3. Min(S) \in Int /\ x \in Int
  BY <1>1
<1> QED
  BY <1>2, <1>3

LEMMA ExtremesOfTwo ==
    ASSUME NEW a \in Int, NEW b \in Int
    PROVE  /\ Min({a, b}) = IF a <= b THEN a ELSE b
           /\ Max({a, b}) = IF a <= b THEN b ELSE a
<1>1. Min({a, b}) = IF a <= b THEN a ELSE b
  BY DEF Min
<1>2. Max({a, b}) = IF a <= b THEN b ELSE a
  BY DEF Max
<1> QED
  BY <1>1, <1>2

-----------------------------------------------------------------------------
\* The clock of the zone, which jumps by one tick at most.
ZoneOK == zone \in [change : Nat, shift : {-1, 0, 1}, later : BOOLEAN]

LEMMA ClockSteps ==
    ASSUME ZoneOK, NEW i \in Int
    PROVE  /\ Clock(i) \in Int
           /\ i - 1 <= Clock(i) /\ Clock(i) <= i + 1
           /\ zone.shift = 1 => i <= Clock(i)
           /\ zone.shift = -1 => Clock(i) <= i
BY DEF ZoneOK, Clock

LEMMA ClockOrdered ==
    ASSUME ZoneOK, NEW i \in Int, NEW j \in Int, i <= j
    PROVE  Clock(i) <= Clock(j)
BY DEF ZoneOK, Clock

\* In the time between two instants the clock gains one tick at most.
LEMMA ClockGains ==
    ASSUME ZoneOK, NEW i \in Int, NEW j \in Int, i <= j
    PROVE  Clock(j) <= Clock(i) + (j - i) + 1
BY DEF ZoneOK, Clock

\* The instant time.Date returns for a reading of the clock.
Instant(reading) ==
    LET candidates == {reading, reading - zone.shift}
        exact      == {i \in candidates : Clock(i) = reading}
        found      == IF exact = {} THEN candidates ELSE exact
    IN  IF zone.later THEN Max(found) ELSE Min(found)

\* It is one at which the clock shows the reading, unless the clock skips it.
LEMMA InstantReads ==
    ASSUME ZoneOK, NEW r \in Int
    PROVE  /\ Instant(r) \in Int
           /\ \/ Clock(Instant(r)) = r
              \/ /\ zone.shift = 1 /\ r = zone.change
                 /\ Instant(r) \in {r - 1, r}
<1> DEFINE candidates == {r, r - zone.shift}
           exact == {i \in candidates : Clock(i) = r}
           found == IF exact = {} THEN candidates ELSE exact
<1>1. /\ zone.change \in Nat
      /\ zone.shift \in {-1, 0, 1}
  BY DEF ZoneOK
<1>2. PICK a \in Int, b \in Int : found = {a, b} /\ a \in found /\ b \in found
  <2>1. found \subseteq {r, r - zone.shift} /\ found # {}
    OBVIOUS
  <2> HIDE DEF found
  <2>2. \/ found = {r, r}
        \/ found = {r - zone.shift, r - zone.shift}
        \/ found = {r, r - zone.shift}
    BY <2>1
  <2> QED
    BY <1>1, <2>2
<1>3. Instant(r) \in found
  <2>1. Instant(r) = IF zone.later THEN Max(found) ELSE Min(found)
    BY DEF Instant
  <2> HIDE DEF found
  <2> QED
    BY <1>2, <2>1, ExtremesOfTwo
<1>4. Instant(r) \in {r, r - zone.shift}
  BY <1>3
<1>5. CASE exact # {}
  BY <1>1, <1>3, <1>4, <1>5
<1>6. CASE exact = {}
  <2>1. Clock(r) # r /\ Clock(r - zone.shift) # r
    BY <1>6
  <2>2. zone.shift = 1 /\ r = zone.change
    BY <1>1, <2>1 DEF Clock
  <2> QED
    BY <1>1, <1>4, <2>2
<1> QED
  BY <1>5, <1>6

\* Before the instant the clock has not come to the reading, or shows it twice,
\* and after it the clock has passed it.
LEMMA InstantDivides ==
    ASSUME ZoneOK, NEW r \in Int, NEW i \in Int
    PROVE  /\ i < Instant(r) => Clock(i) <= r
           /\ Instant(r) <= i => r <= Clock(i) \/ i = Instant(r)
           /\ r - 1 <= Instant(r) /\ Instant(r) <= r + 1
<1>1. zone.change \in Nat /\ zone.shift \in {-1, 0, 1}
  BY DEF ZoneOK
<1> QED
  BY <1>1, InstantReads DEF Clock

LEMMA InstantOrdered ==
    ASSUME ZoneOK, NEW r \in Int, NEW p \in Int, r < p
    PROVE  Instant(r) <= Instant(p)
<1>1. zone.change \in Nat /\ zone.shift \in {-1, 0, 1}
  BY DEF ZoneOK
<1>2. /\ Instant(r) \in Int /\ Instant(p) \in Int
      /\ \/ Clock(Instant(r)) = r
         \/ zone.shift = 1 /\ r = zone.change /\ Instant(r) \in {r - 1, r}
      /\ \/ Clock(Instant(p)) = p
         \/ zone.shift = 1 /\ p = zone.change /\ Instant(p) \in {p - 1, p}
  BY InstantReads
<1> QED
  BY <1>1, <1>2 DEF Clock
-----------------------------------------------------------------------------
\* Days.

LEMMA DateIsInstant == \A d, k : Date(d, k) = Instant(d * DayLength + k)
BY DEF Date, Instant

LEMMA DayBounds ==
    ASSUME ZoneOK, NEW i \in Int, NEW d \in Int
    PROVE  /\ Day(i) \in Int
           /\ Clock(i) < (d + 1) * DayLength <=> Day(i) <= d
           /\ d * DayLength <= Clock(i) <=> d <= Day(i)
<1>1. Clock(i) \in Int /\ DayLength \in Nat \ {0}
  BY ClockSteps, WindowsAssumption
<1>2. Day(i) = Clock(i) \div DayLength
  BY DEF Day
<1>3. Clock(i) \div DayLength \in Int
  BY <1>1, Division
<1> QED
  BY <1>1, <1>2, <1>3, QuotientBelow

LEMMA DaysOrdered ==
    ASSUME ZoneOK, NEW i \in Int, NEW j \in Int, i <= j
    PROVE  Day(i) <= Day(j)
<1>0. Day(i) \in Int
  BY DayBounds
<1>1. Day(i) \in Int /\ Day(i) * DayLength <= Clock(i)
  BY <1>0, DayBounds
<1>2. Clock(i) <= Clock(j) /\ Clock(i) \in Int /\ Clock(j) \in Int
  BY ClockOrdered, ClockSteps
<1>3. Day(i) * DayLength \in Int
  BY <1>0, WindowsAssumption
<1>4. Day(i) * DayLength <= Clock(j)
  BY <1>1, <1>2, <1>3
<1> QED
  BY <1>0, <1>4, DayBounds

LEMMA DayIs ==
    ASSUME ZoneOK, NEW i \in Int, NEW d \in Int,
           d * DayLength <= Clock(i), Clock(i) <= d * DayLength + DayLength - 1
    PROVE  Day(i) = d
<1>1. /\ Day(i) \in Int
      /\ Clock(i) < (d + 1) * DayLength => Day(i) <= d
      /\ d <= Day(i)
  BY DayBounds
<1>2. Clock(i) < (d + 1) * DayLength
  BY WindowsAssumption, ClockSteps
<1> QED
  BY <1>1, <1>2

LEMMA WindowType ==
    ASSUME NEW w \in Window
    PROVE  /\ w.start \in 0 .. DayLength - 1
           /\ w.end \in 0 .. DayLength - 1
           /\ w.start # w.end
           /\ CrossesMidnight(w) <=> w.end < w.start
BY WindowsAssumption DEF Window, CrossesMidnight

\* A window opens in its day, unless the clock skips the first tick or the last
\* of that day.
LEMMA OpensIn ==
    ASSUME ZoneOK, NEW w \in Window, NEW d \in Int
    PROVE  /\ Opens(w, d) \in Int
           /\ \/ Day(Opens(w, d)) = d
              \/ /\ Day(Opens(w, d)) = d - 1 /\ w.start = 0
                 /\ zone.shift = 1 /\ zone.change = d * DayLength
                 /\ Opens(w, d) = zone.change - 1
              \/ /\ Day(Opens(w, d)) = d + 1 /\ w.start = DayLength - 1
                 /\ zone.shift = 1 /\ zone.change = d * DayLength + DayLength - 1
                 /\ Opens(w, d) = zone.change
<1> DEFINE r == d * DayLength + w.start
           s == Opens(w, d)
<1>1. /\ DayLength \in Nat \ {0} /\ w.start \in 0 .. DayLength - 1
      /\ r \in Int
  BY WindowsAssumption, WindowType
<1>2. s = Instant(r)
  BY DateIsInstant DEF Opens
<1>3. /\ s \in Int
      /\ \/ Clock(s) = r
         \/ zone.shift = 1 /\ r = zone.change /\ s \in {r - 1, r}
  BY <1>1, <1>2, InstantReads
<1>4. d * DayLength \in Int
  BY <1>1
<1> HIDE DEF s
<1>5. CASE Clock(s) = r
  <2>1. Day(s) = d
    BY <1>1, <1>3, <1>4, <1>5, DayIs
  <2> QED
    BY <1>3, <2>1 DEF s
<1>6. CASE zone.shift = 1 /\ r = zone.change /\ s = r
  <2>1. Clock(s) = r + 1
    BY <1>1, <1>6 DEF Clock
  <2>2. CASE w.start + 1 < DayLength
    <3>1. Day(s) = d
      BY <1>1, <1>3, <1>4, <2>1, <2>2, DayIs
    <3> QED
      BY <1>3, <3>1 DEF s
  <2>3. CASE w.start = DayLength - 1
    <3>1. r + 1 = (d + 1) * DayLength
      BY <1>1, <2>3
    <3>2. (d + 1) * DayLength \in Int
      BY <1>1
    <3>3. Day(s) = d + 1
      BY <1>1, <1>3, <2>1, <3>1, <3>2, DayIs
    <3> QED
      BY <1>1, <1>3, <1>6, <2>3, <3>3 DEF s
  <2> QED
    BY <1>1, <2>2, <2>3
<1>7. CASE zone.shift = 1 /\ r = zone.change /\ s = r - 1
  <2>1. Clock(s) = r - 1
    BY <1>1, <1>7 DEF Clock
  <2>2. CASE w.start > 0
    <3>1. Day(s) = d
      BY <1>1, <1>3, <1>4, <2>1, <2>2, DayIs
    <3> QED
      BY <1>3, <3>1 DEF s
  <2>3. CASE w.start = 0
    <3>1. /\ (d - 1) * DayLength <= r - 1
          /\ r - 1 <= (d - 1) * DayLength + DayLength - 1
      BY <1>1, <2>3
    <3>2. Day(s) = d - 1
      BY <1>1, <1>3, <2>1, <3>1, DayIs
    <3> QED
      BY <1>1, <1>3, <1>7, <2>3, <3>2 DEF s
  <2> QED
    BY <1>1, <2>2, <2>3
<1> QED
  BY <1>3, <1>5, <1>6, <1>7

\* The reading at which a window that opens at s closes.
Closing(w, s) ==
    (IF CrossesMidnight(w) THEN Day(s) + 1 ELSE Day(s)) * DayLength + w.end

\* A window is over by the end of the day after that of its start.
LEMMA ClosesBy ==
    ASSUME ZoneOK, NEW w \in Window, NEW s \in Int
    PROVE  /\ Closing(w, s) \in Int
           /\ WindowEnd(w, s) = Instant(Closing(w, s))
           /\ Closing(w, s) <
                 (IF CrossesMidnight(w) THEN Day(s) + 2 ELSE Day(s) + 1) * DayLength
<1>1. /\ DayLength \in Nat \ {0} /\ w.end \in 0 .. DayLength - 1
      /\ Day(s) \in Int
  BY WindowsAssumption, WindowType, DayBounds
<1>2. WindowEnd(w, s) = Instant(Closing(w, s))
  BY DateIsInstant DEF WindowEnd, Closing
<1>3. CASE CrossesMidnight(w)
  BY <1>1, <1>2, <1>3 DEF Closing
<1>4. CASE ~CrossesMidnight(w)
  BY <1>1, <1>2, <1>4 DEF Closing
<1> QED
  BY <1>3, <1>4

LEMMA BeforeEnd ==
    ASSUME ZoneOK, NEW w \in Window, NEW s \in Int, NEW i \in Int,
           i < WindowEnd(w, s)
    PROVE  /\ Clock(i) <= Closing(w, s)
           /\ Day(i) <= IF CrossesMidnight(w) THEN Day(s) + 1 ELSE Day(s)
<1>1. Clock(i) <= Closing(w, s) /\ Clock(i) \in Int
  BY ClosesBy, InstantDivides, ClockSteps
<1>2. Day(s) \in Int
  BY DayBounds
<1>3. CASE CrossesMidnight(w)
  <2>1. Clock(i) < (Day(s) + 1 + 1) * DayLength
    BY <1>1, <1>2, <1>3, ClosesBy, WindowsAssumption
  <2> QED
    BY <1>1, <1>2, <1>3, <2>1, DayBounds
<1>4. CASE ~CrossesMidnight(w)
  <2>1. Clock(i) < (Day(s) + 1) * DayLength
    BY <1>1, <1>2, <1>4, ClosesBy, WindowsAssumption
  <2> QED
    BY <1>1, <1>2, <1>4, <2>1, DayBounds
<1> QED
  BY <1>3, <1>4
-----------------------------------------------------------------------------
\* The occurrence of window w in day d contains instant i.
Covers(w, d, i) ==
    /\ HasDay(w, Opens(w, d))
    /\ Opens(w, d) <= i
    /\ i < WindowEnd(w, Opens(w, d))

\* One whose start the clock takes back to the day before is over at once.
LEMMA CoversNear ==
    ASSUME ZoneOK, NEW w \in Window, NEW d \in Int, NEW i \in Int, Covers(w, d, i)
    PROVE  /\ Day(i) \in Day(Opens(w, d)) .. Day(Opens(w, d)) + 1
           /\ \/ Day(Opens(w, d)) = d
              \/ /\ Day(Opens(w, d)) = d + 1 /\ w.start = DayLength - 1
                 /\ zone.shift = 1 /\ zone.change = d * DayLength + DayLength - 1
<1> DEFINE s == Opens(w, d)
<1>1. /\ s \in Int /\ Day(s) \in Int /\ Day(i) \in Int
      /\ s <= i /\ i < WindowEnd(w, s)
  BY OpensIn, DayBounds DEF Covers
<1>2. Day(s) <= Day(i)
  BY <1>1, DaysOrdered
<1>3. Day(i) <= Day(s) + 1
  BY <1>1, BeforeEnd
<1>4. ~(/\ Day(s) = d - 1 /\ w.start = 0
        /\ zone.shift = 1 /\ zone.change = d * DayLength
        /\ s = zone.change - 1)
  <2> SUFFICES ASSUME Day(s) = d - 1, w.start = 0, zone.shift = 1,
                      zone.change = d * DayLength, s = zone.change - 1
               PROVE  FALSE
    OBVIOUS
  <2> HIDE DEF s
  <2>1. DayLength \in Nat \ {0} /\ w.end \in 1 .. DayLength - 1
        /\ ~CrossesMidnight(w)
    BY WindowsAssumption, WindowType
  <2>2. Closing(w, s) = d * DayLength - DayLength + w.end
    BY <2>1 DEF Closing
  <2>3. Closing(w, s) \in Int /\ Closing(w, s) < zone.change
    BY <2>1, <2>2
  <2>4. /\ WindowEnd(w, s) = Instant(Closing(w, s))
        /\ Instant(Closing(w, s)) \in Int
        /\ Clock(Instant(Closing(w, s))) = Closing(w, s)
    BY <2>3, ClosesBy, InstantReads, <1>1
  <2>5. Instant(Closing(w, s)) <= zone.change - 1
    BY <2>3, <2>4 DEF Clock, ZoneOK
  <2> QED
    BY <1>1, <2>4, <2>5 DEF ZoneOK
<1> QED
  BY <1>1, <1>2, <1>3, <1>4, OpensIn

\* The two days the code looks at are enough: the time is inside a window when
\* the occurrence of any day contains it.
LEMMA InsideSomeDay ==
    ASSUME ZoneOK, windows \subseteq Window, NEW i \in Int
    PROVE  InsideAnyWindow(i) <=> \E w \in windows, d \in Int : Covers(w, d, i)
<1>1. Day(i) \in Int
  BY DayBounds
<1>2. \A w, n : Start(w, i, n) = Opens(w, Day(i) + n)
  BY DEF Start, Opens
<1>3. ASSUME NEW w \in windows, InsideWindow(w, i)
      PROVE  \E d \in Int : Covers(w, d, i)
  <2>1. PICK back \in 0 .. 1 : Covers(w, Day(i) + (-back), i)
    BY <1>2, <1>3 DEF InsideWindow, Covers
  <2> QED
    BY <1>1, <2>1
<1>4. ASSUME NEW w \in windows, NEW back \in 0 .. 1, Covers(w, Day(i) - back, i)
      PROVE  InsideWindow(w, i)
  <2>1. Day(i) + (-back) = Day(i) - back
    BY <1>1
  <2> QED
    BY <1>2, <1>4, <2>1 DEF InsideWindow, Covers
<1>5. ASSUME NEW w \in windows, NEW d \in Int, Covers(w, d, i)
      PROVE  InsideWindow(w, i)
  <2> DEFINE s == Opens(w, d)
  <2>1. /\ w \in Window
        /\ Day(i) \in Day(s) .. Day(s) + 1
        /\ \/ Day(s) = d
           \/ /\ Day(s) = d + 1 /\ w.start = DayLength - 1
              /\ zone.shift = 1 /\ zone.change = d * DayLength + DayLength - 1
    BY <1>5, CoversNear
  <2> HIDE DEF s
  <2>2. CASE Day(i) = d \/ Day(i) = d + 1
    BY <1>1, <1>4, <1>5, <2>2
  <2>3. CASE Day(s) = d + 1 /\ Day(i) = d + 2
    <3> DEFINE t == Opens(w, d + 1)
    <3>1. DayLength \in Nat \ {0} /\ zone.change # (d + 1) * DayLength + DayLength - 1
      BY <2>1, <2>3, WindowsAssumption
    <3>2. w.start # 0
      BY <2>1, <2>3, WindowType, <3>1
    <3>3. t \in Int /\ Day(t) = d + 1
      BY <2>1, <3>1, <3>2, OpensIn
    <3>4. t <= i
      <4>1. t < i \/ t = i \/ i < t
        BY <3>3
      <4>2. i < t => Day(i) <= Day(t)
        BY <3>3, DaysOrdered
      <4> QED
        BY <2>3, <3>3, <4>1, <4>2
    <3>5. /\ HasDay(w, t)
          /\ WindowEnd(w, t) = WindowEnd(w, s)
      BY <1>5, <2>3, <3>3 DEF HasDay, WindowEnd, Covers, s
    <3>6. Covers(w, d + 1, i)
      BY <1>5, <3>4, <3>5 DEF Covers, s
    <3> QED
      BY <1>4, <2>3, <3>6
  <2> QED
    BY <2>1, <2>2, <2>3
<1> QED
  BY <1>3, <1>5 DEF InsideAnyWindow
-----------------------------------------------------------------------------
\* The clock runs between its bounds, and the zone and the windows stay.
WindowsInv == now \in 0 .. LastTick /\ ZoneOK /\ windows \subseteq Window

LEMMA WindowsAlwaysInv == Spec => []WindowsInv
<1>1. Init => WindowsInv
  BY WindowsAssumption DEF Init, WindowsInv, ZoneOK
<1>2. WindowsInv /\ [Next]_vars => WindowsInv'
  BY WindowsAssumption DEF WindowsInv, ZoneOK, Next, vars
<1> QED
  BY <1>1, <1>2, PTL DEF Spec

\* The calendar has yesterday and today.
LEMMA NowInCalendar ==
    ASSUME WindowsInv
    PROVE  /\ Day(now) - 1 \in Calendar
           /\ Day(now) \in Calendar
<1> USE DEF WindowsInv
<1>1. /\ DayLength \in Nat \ {0} /\ WeekLength \in Nat \ {0}
      /\ now \in Int /\ 0 <= now /\ now <= LastTick /\ LastTick \in Int
  BY WindowsAssumption
<1>2. /\ Clock(now) \in Int
      /\ -1 <= Clock(now) /\ Clock(now) <= LastTick + 1
  BY <1>1, ClockSteps
<1>3. Day(now) \in Int
  BY <1>1, DayBounds
<1>4. -1 <= Day(now)
  <2>1. (-1) * DayLength <= Clock(now)
    BY <1>1, <1>2
  <2> QED
    BY <1>1, <2>1, DayBounds
<1>5. Day(now) <= LastTick \div DayLength + 1
  <2> DEFINE q == LastTick \div DayLength
  <2>1. q \in Int /\ LastTick < (q + 1) * DayLength
    BY <1>1, QuotientBelow, Division
  <2> HIDE DEF q
  <2>2. (q + 1 + 1) * DayLength = (q + 1) * DayLength + DayLength
    BY <1>1, <2>1
  <2>3. (q + 1) * DayLength \in Int
    BY <1>1, <2>1
  <2>4. Clock(now) < (q + 1 + 1) * DayLength
    BY <1>1, <1>2, <2>1, <2>2, <2>3
  <2> QED
    BY <1>1, <2>1, <2>4, DayBounds DEF q
<1>6. LastTick \div DayLength \in Int
  BY <1>1, Division
<1> QED
  BY <1>1, <1>3, <1>4, <1>5, <1>6 DEF Calendar

\* The time is inside a window exactly when the window of some listed day
\* contains it, though the code looks at the windows that start today and
\* yesterday only (policy.go, insideWindow).
THEOREM InsideAlwaysAsConfigured == Spec => []InsideAsConfigured
<1>1. WindowsInv => InsideAsConfigured
  <2> SUFFICES ASSUME WindowsInv, ~Displaced
               PROVE  InsideAnyWindow(now) <=>
                         \E w \in windows, day \in Calendar :
                            /\ day % WeekLength \in w.days
                            /\ Opens(w, day) <= now /\ now < Closes(w, day)
    BY DEF InsideAsConfigured
  <2>1. ZoneOK /\ windows \subseteq Window /\ now \in Int
    BY DEF WindowsInv
  <2>2. Calendar \subseteq Int
    BY DEF Calendar
  <2>3. ASSUME NEW w \in windows, NEW day \in Calendar
        PROVE  Covers(w, day, now) <=>
                  /\ day % WeekLength \in w.days
                  /\ Opens(w, day) <= now /\ now < Closes(w, day)
    <3>1. Day(Opens(w, day)) = day
      BY DEF Displaced
    <3>2. WindowEnd(w, Opens(w, day)) = Closes(w, day)
      BY <3>1 DEF WindowEnd, Closes
    <3> QED
      BY <3>1, <3>2 DEF Covers, HasDay
  <2>4. ASSUME NEW w \in windows, InsideWindow(w, now)
        PROVE  \E day \in Calendar : Covers(w, day, now)
    <3>1. PICK back \in 0 .. 1 : Covers(w, Day(now) + (-back), now)
      BY <2>4 DEF InsideWindow, Covers, Start, Opens
    <3>2. Day(now) \in Int
      BY <2>1, DayBounds
    <3>3. Day(now) + (-back) \in Calendar
      BY <3>2, NowInCalendar
    <3> QED
      BY <3>1, <3>3
  <2>5. ASSUME NEW w \in windows, NEW day \in Calendar, Covers(w, day, now)
        PROVE  InsideAnyWindow(now)
    BY <2>1, <2>2, <2>5, InsideSomeDay
  <2> QED
    BY <2>3, <2>4, <2>5 DEF InsideAnyWindow
<1> QED
  BY <1>1, WindowsAlwaysInv, PTL
-----------------------------------------------------------------------------
\* The plan.

LEMMA OccurrencesAre ==
    ASSUME NEW i, NEW first \in Int, NEW last \in Int, Day(i) \in Int, NEW o
    PROVE  o \in Occurrences(i, first, last) <=>
              \E w \in windows, d \in Day(i) + first .. Day(i) + last :
                 /\ o = [window |-> w, start |-> Opens(w, d)]
                 /\ HasDay(w, Opens(w, d))
<1>1. \A w, n : Start(w, i, n) = Opens(w, Day(i) + n)
  BY DEF Start, Opens
<1>2. ASSUME NEW w \in windows, NEW n \in first .. last,
             o = [window |-> w, start |-> Opens(w, Day(i) + n)],
             HasDay(o.window, o.start)
      PROVE  \E v \in windows, d \in Day(i) + first .. Day(i) + last :
                /\ o = [window |-> v, start |-> Opens(v, d)]
                /\ HasDay(v, Opens(v, d))
  <2>1. Day(i) + n \in Day(i) + first .. Day(i) + last
    OBVIOUS
  <2>2. HasDay(w, Opens(w, Day(i) + n))
    BY <1>2
  <2> QED
    BY <1>2, <2>1, <2>2
<1>3. ASSUME NEW w \in windows, NEW d \in Day(i) + first .. Day(i) + last,
             o = [window |-> w, start |-> Opens(w, d)],
             HasDay(w, Opens(w, d))
      PROVE  /\ HasDay(o.window, o.start)
             /\ \E v \in windows, n \in first .. last :
                   o = [window |-> v, start |-> Start(v, i, n)]
  <2>1. d - Day(i) \in first .. last /\ Day(i) + (d - Day(i)) = d
    OBVIOUS
  <2>2. o = [window |-> w, start |-> Start(w, i, d - Day(i))]
    BY <1>1, <1>3, <2>1
  <2>3. HasDay(o.window, o.start)
    BY <1>3
  <2> QED
    BY <2>1, <2>2, <2>3
<1> QED
  BY <1>1, <1>2, <1>3 DEF Occurrences

LEMMA PlanIs ==
    ASSUME ZoneOK, NEW i \in Int, NEW t
    PROVE  t \in PlanWakeEvents(i) <=>
              /\ t \in i + Margin + 1 .. i + DayLength
              /\ \E w \in windows, d \in Day(i) - 1 .. Day(i) + 3 :
                    /\ Covers(w, d, t)
                    /\ (t - Opens(w, d)) % Interval = 0
<1>1. Day(i) \in Int /\ DayLength \in Nat \ {0}
  BY DayBounds, WindowsAssumption
<1>2. Horizon \div DayLength + 2 = 3 /\ Horizon = DayLength
  <2>1. (1 * DayLength + 0) \div DayLength = 1
    BY <1>1, DivisionOfSum
  <2>2. 1 * DayLength + 0 = DayLength
    BY <1>1
  <2> QED
    BY <2>1, <2>2 DEF Horizon
<1>3. Day(i) + (-1) = Day(i) - 1
  BY <1>1
<1>4. \A o : o \in Occurrences(i, -1, 3) <=>
              \E w \in windows, d \in Day(i) - 1 .. Day(i) + 3 :
                 /\ o = [window |-> w, start |-> Opens(w, d)]
                 /\ HasDay(w, Opens(w, d))
  BY <1>1, <1>3, OccurrencesAre
<1>5. (\E o \in Occurrences(i, -1, 3) :
          o.start <= t /\ t < Ends(o) /\ (t - o.start) % Interval = 0)
      <=> \E w \in windows, d \in Day(i) - 1 .. Day(i) + 3 :
             /\ Covers(w, d, t)
             /\ (t - Opens(w, d)) % Interval = 0
  <2>1. ASSUME NEW o \in Occurrences(i, -1, 3),
               o.start <= t /\ t < Ends(o) /\ (t - o.start) % Interval = 0
        PROVE  \E w \in windows, d \in Day(i) - 1 .. Day(i) + 3 :
                  /\ Covers(w, d, t)
                  /\ (t - Opens(w, d)) % Interval = 0
    <3>1. PICK w \in windows, d \in Day(i) - 1 .. Day(i) + 3 :
             /\ o = [window |-> w, start |-> Opens(w, d)]
             /\ HasDay(w, Opens(w, d))
      BY <1>4
    <3>2. o.window = w /\ o.start = Opens(w, d)
      BY <3>1
    <3> QED
      BY <2>1, <3>1, <3>2 DEF Covers, Ends
  <2>2. ASSUME NEW w \in windows, NEW d \in Day(i) - 1 .. Day(i) + 3,
               Covers(w, d, t), (t - Opens(w, d)) % Interval = 0
        PROVE  \E o \in Occurrences(i, -1, 3) :
                  o.start <= t /\ t < Ends(o) /\ (t - o.start) % Interval = 0
    <3> DEFINE o == [window |-> w, start |-> Opens(w, d)]
    <3>1. o \in Occurrences(i, -1, 3)
      BY <1>4, <2>2 DEF Covers
    <3>2. o.window = w /\ o.start = Opens(w, d)
      OBVIOUS
    <3> HIDE DEF o
    <3> QED
      BY <2>2, <3>1, <3>2 DEF Covers, Ends
  <2> QED
    BY <2>1, <2>2
<1> QED
  BY <1>2, <1>5 DEF PlanWakeEvents, PlanFrom

\* Counted from the start of a window, the last multiple of the interval up to
\* an instant.
LEMMA LastMultiple ==
    ASSUME NEW m \in Nat \ {0}, NEW s \in Int, NEW i \in Int, s <= i
    PROVE  \E t \in Int : /\ s <= t /\ t <= i /\ i - m < t
                          /\ (t - s) % m = 0
<1> DEFINE n == i - s
           q == n \div m
           t == s + q * m
<1>0. n \in Nat
  OBVIOUS
<1> HIDE DEF n
<1>1. n \in Nat /\ q \in Int /\ n % m \in 0 .. m - 1
      /\ n = q * m + (n % m)
  BY <1>0, Division
<1>2. q * m \in Int
  BY <1>1
<1>3. 0 <= q
  BY <1>1, QuotientBelow
<1>4. 0 <= q * m
  BY <1>3, <1>1, ProductsOrdered
<1> HIDE DEF q
<1>5. t - s = q * m
  BY <1>2
<1>6. (q * m) % m = 0
  BY <1>1, MultipleDivides
<1>7. (t - s) % m = 0
  BY <1>5, <1>6
<1>8. t \in Int /\ s <= t /\ t <= i /\ i - m < t
  BY <1>1, <1>2, <1>4 DEF n
<1> QED
  BY <1>7, <1>8

\* The plan of a run wakes a Mac that falls asleep inside a window within one
\* interval, from the first instant that can still be reserved to the horizon,
\* and never outside (wakeplan.go, PlanWakeEvents).
THEOREM PlanAlwaysCovers == Spec => []PlanCovers
<1>1. WindowsInv => PlanCovers
  <2> SUFFICES ASSUME WindowsInv PROVE PlanCovers
    OBVIOUS
  <2>1. /\ ZoneOK /\ windows \subseteq Window /\ now \in Int /\ Day(now) \in Int
        /\ DayLength \in Nat \ {0} /\ Interval \in Nat \ {0} /\ Margin \in Nat
    BY DayBounds, WindowsAssumption DEF WindowsInv
  <2>2. ASSUME NEW t \in PlanWakeEvents(now) PROVE InsideAnyWindow(t)
    <3>1. t \in Int
      BY <2>1, PlanIs
    <3>2. \E w \in windows, d \in Int : Covers(w, d, t)
      BY <2>1, PlanIs
    <3> QED
      BY <2>1, <3>1, <3>2, InsideSomeDay
  <2>3. ASSUME NEW i \in now + Margin + Interval .. now + DayLength,
               InsideAnyWindow(i)
        PROVE  \E t \in PlanWakeEvents(now) : i - Interval < t /\ t <= i
    <3>1. i \in Int /\ Day(i) \in Int /\ now <= i
      BY <2>1, DayBounds
    <3>2. PICK w \in windows, back \in 0 .. 1 : Covers(w, Day(i) + (-back), i)
      BY <2>3 DEF InsideAnyWindow, InsideWindow, Covers, Start, Opens
    <3> DEFINE d == Day(i) + (-back)
    <3>3. d \in Int /\ d \in Day(i) - 1 .. Day(i)
      BY <3>1
    <3>4. Day(now) <= Day(i)
      BY <2>1, <3>1, DaysOrdered
    <3>5. Day(i) <= Day(now) + 2
      <4>1. Clock(now) < (Day(now) + 1) * DayLength
        BY <2>1, DayBounds
      <4>2. Clock(i) <= Clock(now) + (i - now) + 1
            /\ Clock(i) \in Int /\ Clock(now) \in Int
        BY <2>1, <3>1, ClockGains, ClockSteps
      <4>3. (Day(now) + 2 + 1) * DayLength
               = (Day(now) + 1) * DayLength + DayLength + DayLength
        BY <2>1
      <4>4. (Day(now) + 1) * DayLength \in Int
        BY <2>1
      <4>5. Clock(i) < (Day(now) + 2 + 1) * DayLength
        BY <2>1, <2>3, <4>1, <4>2, <4>3, <4>4
      <4> QED
        BY <2>1, <3>1, <4>5, DayBounds
    <3> HIDE DEF d
    <3>6. Opens(w, d) \in Int /\ Opens(w, d) <= i
      BY <2>1, <3>2, <3>3, OpensIn DEF Covers, d
    <3>7. PICK t \in Int : /\ Opens(w, d) <= t /\ t <= i /\ i - Interval < t
                           /\ (t - Opens(w, d)) % Interval = 0
      BY <2>1, <3>1, <3>6, LastMultiple
    <3>8. WindowEnd(w, Opens(w, d)) \in Int
      BY <2>1, <3>6, ClosesBy, InstantReads
    <3>9. Covers(w, d, t)
      BY <3>1, <3>2, <3>6, <3>7, <3>8 DEF Covers, d
    <3>10. t \in now + Margin + 1 .. now + DayLength
      BY <2>1, <2>3, <3>7
    <3>11. d \in Day(now) - 1 .. Day(now) + 3
      BY <2>1, <3>1, <3>3, <3>4, <3>5
    <3> QED
      BY <2>1, <3>7, <3>9, <3>10, <3>11, PlanIs
  <2> QED
    BY <2>2, <2>3 DEF PlanCovers, Horizon
<1> QED
  BY <1>1, WindowsAlwaysInv, PTL
\* From one tick to the next the calendar goes on by one day at most.
LEMMA NextDay ==
    ASSUME ZoneOK, NEW w \in Window, NEW i \in Int
    PROVE  Day(i + 1) <= Day(i) + 1
<1>1. DayLength \in Nat /\ 2 <= DayLength
  BY WindowsAssumption, WindowType
<1>2. Day(i) \in Int /\ Clock(i) \in Int /\ Clock(i + 1) \in Int
  BY DayBounds, ClockSteps
<1>3. Clock(i) < (Day(i) + 1) * DayLength
  BY <1>2, DayBounds
<1>4. Clock(i + 1) <= Clock(i) + 2
  BY <1>2, ClockGains
<1>5. (Day(i) + 1) * DayLength \in Int
      /\ (Day(i) + 1 + 1) * DayLength = (Day(i) + 1) * DayLength + DayLength
  BY <1>1, <1>2
<1>6. Clock(i + 1) < (Day(i) + 1 + 1) * DayLength
  BY <1>1, <1>2, <1>3, <1>4, <1>5
<1> QED
  BY <1>2, <1>6, DayBounds

\* A reservation made once is planned again by every later run until it is about
\* to fire, unless the clock skips the start of a window and time.Date moves it
\* to the next day (wakeplan.go, the occurrences that started before now).
THEOREM PlanAlwaysKeeps == Spec => PlanKeeps
<1> DEFINE Kept == Postponed \/
              \A t \in PlanWakeEvents(now) :
                 t > now' + Margin => t \in PlanWakeEvents(now')
<1>1. ASSUME WindowsInv, Next PROVE Kept
  <2> SUFFICES ASSUME ~Postponed, NEW t \in PlanWakeEvents(now), t > now' + Margin
               PROVE  t \in PlanWakeEvents(now')
    OBVIOUS
  <2> DEFINE i == now
             j == now + 1
  <2>1. /\ ZoneOK /\ windows \subseteq Window
        /\ i \in Int /\ j \in Int /\ now' = j
        /\ Day(i) \in Int /\ Day(j) \in Int /\ Day(i) <= Day(j)
        /\ DayLength \in Nat \ {0} /\ Margin \in Nat
    <3>1. /\ ZoneOK /\ windows \subseteq Window
          /\ i \in Int /\ j \in Int /\ i <= j /\ now' = j
      BY <1>1 DEF WindowsInv, Next
    <3> HIDE DEF i, j
    <3> QED
      BY <3>1, DayBounds, DaysOrdered, WindowsAssumption
  <2>2. /\ t \in i + Margin + 1 .. i + DayLength
        /\ \E w \in windows, d \in Day(i) - 1 .. Day(i) + 3 :
              /\ Covers(w, d, t)
              /\ (t - Opens(w, d)) % Interval = 0
    BY <2>1, PlanIs
  <2>3. PICK w \in windows, d \in Day(i) - 1 .. Day(i) + 3 :
           /\ Covers(w, d, t)
           /\ (t - Opens(w, d)) % Interval = 0
    BY <2>2
  <2>4. Day(i) - 1 \in Calendar
    BY <1>1, NowInCalendar
  <2> HIDE DEF i, j
  <2>5. w \in Window /\ t \in Int /\ d \in Int /\ j <= t
    BY <2>1, <2>2
  <2>6. t \in j + Margin + 1 .. j + DayLength
    BY <2>1, <2>2 DEF i, j
  <2>7. Day(j) - 1 <= d
    <3>1. Day(j) <= Day(t) /\ Day(t) \in Int
      BY <2>1, <2>5, DaysOrdered, DayBounds
    <3>2. /\ Day(t) <= Day(Opens(w, d)) + 1
          /\ Day(Opens(w, d)) \in {d, d + 1}
      BY <2>1, <2>3, <2>5, CoversNear
    <3>3. CASE Day(Opens(w, d)) = d
      BY <2>1, <2>5, <3>1, <3>2, <3>3
    <3>4. CASE Day(Opens(w, d)) = d + 1
      <4>1. d # Day(i) - 1
        BY <2>4, <3>4 DEF Postponed
      <4>2. Day(j) <= Day(i) + 1
        BY <2>1, <2>5, NextDay DEF i, j
      <4> QED
        BY <2>1, <2>3, <4>1, <4>2
    <3> QED
      BY <3>2, <3>3, <3>4
  <2>8. d \in Day(j) - 1 .. Day(j) + 3
    BY <2>1, <2>3, <2>7
  <2>9. t \in PlanWakeEvents(j)
    BY <2>1, <2>3, <2>6, <2>8, PlanIs
  <2> QED
    BY <2>1, <2>9
<1>2. ASSUME UNCHANGED vars PROVE Kept
  BY <1>2 DEF vars
<1>3. WindowsInv /\ [Next]_vars => [Kept]_vars
  BY <1>1, <1>2
<1> QED
  BY <1>3, WindowsAlwaysInv, PTL DEF Spec, PlanKeeps
-----------------------------------------------------------------------------
\* The transitions.

\* An occurrence in day d opens or closes at b.
Edge(w, d, b) ==
    /\ HasDay(w, Opens(w, d))
    /\ b = Opens(w, d) \/ b = WindowEnd(w, Opens(w, d))

LEMMA BoundariesAre ==
    ASSUME ZoneOK, NEW i \in Int, NEW b
    PROVE  b \in Boundaries(i) <=>
              /\ b > i
              /\ \E w \in windows, d \in Day(i) - 1 .. Day(i) + WeekLength + 1 :
                    Edge(w, d, b)
<1>1. Day(i) \in Int /\ WeekLength \in Nat
  BY DayBounds, WindowsAssumption
<1>2. Day(i) + (-1) = Day(i) - 1
      /\ Day(i) + (WeekLength + 1) = Day(i) + WeekLength + 1
      /\ WeekLength + 1 \in Int
  BY <1>1
<1>3. \A o : o \in Occurrences(i, -1, WeekLength + 1) <=>
              \E w \in windows, d \in Day(i) - 1 .. Day(i) + WeekLength + 1 :
                 /\ o = [window |-> w, start |-> Opens(w, d)]
                 /\ HasDay(w, Opens(w, d))
  BY <1>1, <1>2, OccurrencesAre
<1>4. ASSUME NEW o \in Occurrences(i, -1, WeekLength + 1),
             b = o.start \/ b = Ends(o)
      PROVE  \E w \in windows, d \in Day(i) - 1 .. Day(i) + WeekLength + 1 :
                Edge(w, d, b)
  <2>1. PICK w \in windows, d \in Day(i) - 1 .. Day(i) + WeekLength + 1 :
           /\ o = [window |-> w, start |-> Opens(w, d)]
           /\ HasDay(w, Opens(w, d))
    BY <1>3
  <2>2. o.window = w /\ o.start = Opens(w, d)
    BY <2>1
  <2> QED
    BY <1>4, <2>1, <2>2 DEF Edge, Ends
<1>5. ASSUME NEW w \in windows,
             NEW d \in Day(i) - 1 .. Day(i) + WeekLength + 1, Edge(w, d, b)
      PROVE  \E o \in Occurrences(i, -1, WeekLength + 1) :
                b = o.start \/ b = Ends(o)
  <2> DEFINE o == [window |-> w, start |-> Opens(w, d)]
  <2>1. o \in Occurrences(i, -1, WeekLength + 1)
    BY <1>3, <1>5 DEF Edge
  <2>2. o.window = w /\ o.start = Opens(w, d)
    OBVIOUS
  <2> HIDE DEF o
  <2> QED
    BY <1>5, <2>1, <2>2 DEF Edge, Ends
<1> QED
  BY <1>4, <1>5 DEF Boundaries

\* Where being inside changes, an occurrence opens or closes.
LEMMA ChangesAtEdges ==
    ASSUME ZoneOK, windows \subseteq Window, NEW i \in Int,
           InsideAnyWindow(i) # InsideAnyWindow(i - 1)
    PROVE  \E w \in windows, d \in Day(i - 1) - 1 .. Day(i) :
              Edge(w, d, i) /\ Opens(w, d) <= i
<1>1. /\ i - 1 \in Int /\ i - 1 <= i
      /\ Day(i) \in Int /\ Day(i - 1) \in Int /\ Day(i - 1) <= Day(i)
  BY DayBounds, DaysOrdered
<1>2. ASSUME NEW j \in Int, InsideAnyWindow(j)
      PROVE  \E w \in windows, d \in Day(j) - 1 .. Day(j) : Covers(w, d, j)
  <2>1. PICK w \in windows, back \in 0 .. 1 : Covers(w, Day(j) + (-back), j)
    BY <1>2 DEF InsideAnyWindow, InsideWindow, Covers, Start, Opens
  <2>2. Day(j) \in Int
    BY DayBounds
  <2>3. Day(j) + (-back) \in Day(j) - 1 .. Day(j)
    BY <2>2
  <2> QED
    BY <2>1, <2>3
<1>3. ASSUME NEW w \in windows, NEW d \in Int
      PROVE  Opens(w, d) \in Int /\ WindowEnd(w, Opens(w, d)) \in Int
  BY OpensIn, ClosesBy, InstantReads
<1>4. CASE InsideAnyWindow(i) /\ ~InsideAnyWindow(i - 1)
  <2>1. PICK w \in windows, d \in Day(i) - 1 .. Day(i) : Covers(w, d, i)
    BY <1>2, <1>4
  <2>2. d \in Int /\ d \in Day(i - 1) - 1 .. Day(i)
    BY <1>1
  <2>3. ~Covers(w, d, i - 1)
    BY <1>1, <1>4, <2>2, InsideSomeDay
  <2>4. Opens(w, d) = i
    BY <1>3, <2>1, <2>2, <2>3 DEF Covers
  <2> QED
    BY <2>1, <2>2, <2>4 DEF Covers, Edge
<1>5. CASE ~InsideAnyWindow(i) /\ InsideAnyWindow(i - 1)
  <2>1. PICK w \in windows, d \in Day(i - 1) - 1 .. Day(i - 1) :
           Covers(w, d, i - 1)
    BY <1>1, <1>2, <1>5
  <2>2. d \in Int /\ d \in Day(i - 1) - 1 .. Day(i)
    BY <1>1
  <2>3. ~Covers(w, d, i)
    BY <1>5, <2>2, InsideSomeDay
  <2>4. WindowEnd(w, Opens(w, d)) = i /\ Opens(w, d) <= i
    BY <1>3, <2>1, <2>2, <2>3 DEF Covers
  <2> QED
    BY <2>1, <2>2, <2>4 DEF Covers, Edge
<1>6. \A j : InsideAnyWindow(j) \in BOOLEAN
  BY DEF InsideAnyWindow
<1> QED
  BY <1>4, <1>5, <1>6

\* f is the first instant after i at which being inside differs.
FirstFlip(i, f) ==
    /\ i < f
    /\ InsideAnyWindow(f) # InsideAnyWindow(i)
    /\ \A k \in i .. f - 1 : InsideAnyWindow(k) = InsideAnyWindow(i)

LEMMA FlipHasFirst ==
    ASSUME NEW i \in Nat, NEW j \in Int, i < j,
           InsideAnyWindow(j) # InsideAnyWindow(i)
    PROVE  \E f \in i + 1 .. j : FirstFlip(i, f)
<1> DEFINE S == {k \in i + 1 .. j : InsideAnyWindow(k) # InsideAnyWindow(i)}
<1>1. S \subseteq Nat /\ j \in S
  OBVIOUS
<1>2. PICK f \in S : \A k \in S : f <= k
  BY <1>1, LeastNumber
<1>3. f \in i + 1 .. j /\ InsideAnyWindow(f) # InsideAnyWindow(i)
  OBVIOUS
<1>4. ASSUME NEW k \in i .. f - 1
      PROVE  InsideAnyWindow(k) = InsideAnyWindow(i)
  <2>1. CASE k = i
    BY <2>1
  <2>2. CASE k # i
    <3>1. k \in i + 1 .. j /\ k < f
      BY <1>3, <2>2
    <3>2. k \notin S
      BY <1>2, <1>3, <3>1
    <3> QED
      BY <3>1, <3>2
  <2> QED
    BY <2>1, <2>2
<1> QED
  BY <1>3, <1>4 DEF FirstFlip
\* Occurrences open in the order of their days.
LEMMA OpensOrdered ==
    ASSUME ZoneOK, NEW v \in Window, NEW w \in Window, NEW d \in Int, NEW e \in Int,
           d < e
    PROVE  Opens(v, d) <= Opens(w, e)
<1>1. /\ DayLength \in Nat \ {0}
      /\ v.start \in 0 .. DayLength - 1 /\ w.start \in 0 .. DayLength - 1
  BY WindowsAssumption, WindowType
<1>2. (d + 1) * DayLength <= e * DayLength
  BY <1>1, ProductsOrdered
<1>3. /\ (d + 1) * DayLength = d * DayLength + DayLength
      /\ d * DayLength \in Int /\ e * DayLength \in Int
  BY <1>1
<1>4. /\ d * DayLength + v.start \in Int /\ e * DayLength + w.start \in Int
      /\ d * DayLength + v.start < e * DayLength + w.start
  BY <1>1, <1>2, <1>3
<1> QED
  BY <1>4, InstantOrdered, DateIsInstant DEF Opens

\* The first change of being inside is among the boundaries the code looks at,
\* when it comes within a week or not after such a boundary.
LEMMA FirstFlipIsBoundary ==
    ASSUME ZoneOK, windows \subseteq Window, NEW i \in Nat, NEW f \in Int,
           FirstFlip(i, f),
           \/ f <= i + WeekLength * DayLength
           \/ \E b \in Boundaries(i) : f <= b
    PROVE  f \in Boundaries(i)
<1> DEFINE last == Day(i) + WeekLength + 1
<1>1. /\ i \in Int /\ i <= f - 1 /\ f - 1 \in Int /\ i <= f
      /\ InsideAnyWindow(f - 1) = InsideAnyWindow(i)
      /\ InsideAnyWindow(f) # InsideAnyWindow(f - 1)
  BY DEF FirstFlip
<1>2. /\ Day(i) \in Int /\ Day(f) \in Int /\ Day(f - 1) \in Int
      /\ Day(i) <= Day(f - 1) /\ Day(i) <= Day(f)
      /\ DayLength \in Nat \ {0} /\ WeekLength \in Nat \ {0}
  BY <1>1, DayBounds, DaysOrdered, WindowsAssumption
<1>3. PICK w \in windows, d \in Day(f - 1) - 1 .. Day(f) :
         Edge(w, d, f) /\ Opens(w, d) <= f
  BY <1>1, ChangesAtEdges
<1>4. d \in Int /\ Day(i) - 1 <= d /\ last \in Int
  BY <1>2
<1> HIDE DEF last
<1>5. CASE d <= last
  <2>1. d \in Day(i) - 1 .. Day(i) + WeekLength + 1
    BY <1>2, <1>4, <1>5 DEF last
  <2> QED
    BY <1>1, <1>3, <2>1, BoundariesAre DEF FirstFlip
<1>6. CASE f <= i + WeekLength * DayLength
  <2>0. Clock(i) < (Day(i) + 1) * DayLength
    BY <1>1, <1>2, DayBounds
  <2>1. /\ Clock(f) <= Clock(i) + (f - i) + 1
        /\ Clock(i) < (Day(i) + 1) * DayLength
        /\ Clock(i) \in Int /\ Clock(f) \in Int
    BY <1>1, <2>0, ClockGains, ClockSteps
  <2>2. /\ WeekLength * DayLength \in Int
        /\ (Day(i) + 1) * DayLength \in Int
        /\ (last + 1) * DayLength
              = (Day(i) + 1) * DayLength + WeekLength * DayLength + DayLength
    BY <1>2 DEF last
  <2>3. Clock(f) < (last + 1) * DayLength
    BY <1>1, <1>2, <1>6, <2>1, <2>2
  <2>4. Day(f) <= last
    BY <1>4, <2>3, DayBounds
  <2>5. d <= last
    BY <1>2, <1>4, <2>4
  <2> QED
    BY <1>5, <2>5
<1>7. ASSUME NEW b \in Boundaries(i), f <= b, last < d
      PROVE  f \in Boundaries(i)
  <2>1. PICK v \in windows, e \in Day(i) - 1 .. Day(i) + WeekLength + 1 :
           Edge(v, e, b)
    BY <1>1, BoundariesAre
  <2>2. e \in Int /\ e < d
    BY <1>2, <1>4, <1>7 DEF last
  <2>3. /\ Opens(v, e) \in Int /\ Opens(w, d) \in Int
        /\ WindowEnd(v, Opens(v, e)) \in Int
    BY <1>4, <2>2, OpensIn, ClosesBy, InstantReads
  <2>4. Opens(v, e) <= f
    <3>1. Opens(v, e) <= Opens(w, d)
      BY <1>4, <2>2, OpensOrdered
    <3> QED
      BY <1>3, <2>3, <3>1
  <2>5. CASE f = b
    BY <1>7, <2>5
  <2>6. CASE f = Opens(v, e)
    <3>1. Edge(v, e, f)
      BY <2>1, <2>6 DEF Edge
    <3> QED
      BY <1>1, <2>1, <3>1, BoundariesAre DEF FirstFlip
  <2>7. CASE f # b /\ f # Opens(v, e)
    <3>1. b = WindowEnd(v, Opens(v, e)) /\ HasDay(v, Opens(v, e)) /\ f < b
      BY <1>7, <2>1, <2>3, <2>4, <2>7 DEF Edge
    <3>2. Covers(v, e, f) /\ Covers(v, e, f - 1)
      BY <2>3, <2>4, <2>7, <3>1 DEF Covers
    <3>3. InsideAnyWindow(f) /\ InsideAnyWindow(f - 1)
      BY <1>1, <2>2, <3>2, InsideSomeDay
    <3>4. \A j : InsideAnyWindow(j) \in BOOLEAN
      BY DEF InsideAnyWindow
    <3> QED
      BY <1>1, <3>3, <3>4
  <2> QED
    BY <2>5, <2>6, <2>7
<1>8. d <= last \/ last < d
  BY <1>4
<1> QED
  BY <1>5, <1>6, <1>7, <1>8

\* None of the boundaries the code looks at is further away than a week and four
\* days.
LEMMA BoundaryInReach ==
    ASSUME ZoneOK, windows \subseteq Window, NEW i \in Int, NEW b \in Boundaries(i)
    PROVE  b \in i + 1 .. i + (WeekLength + 4) * DayLength
<1> DEFINE limit == (Day(i) + WeekLength + 3) * DayLength
<1>1. /\ Day(i) \in Int
      /\ DayLength \in Nat \ {0} /\ WeekLength \in Nat \ {0}
  BY DayBounds, WindowsAssumption
<1>2. PICK w \in windows, d \in Day(i) - 1 .. Day(i) + WeekLength + 1 :
         Edge(w, d, b)
  BY BoundariesAre
<1> DEFINE s == Opens(w, d)
<1>3. /\ w \in Window /\ d \in Int /\ b > i
      /\ s \in Int /\ Day(s) \in Int /\ WindowEnd(w, s) \in Int
      /\ b = s \/ b = WindowEnd(w, s)
  <2>1. w \in Window /\ d \in Int /\ b > i
    BY <1>1, BoundariesAre
  <2>2. s \in Int
    BY <2>1, OpensIn
  <2> HIDE DEF s
  <2> QED
    BY <1>2, <2>1, <2>2, ClosesBy, InstantReads, DayBounds DEF Edge, s
<1>4. /\ Day(s) <= d + 1
      /\ Day(s) = d + 1 => zone.shift = 1
  BY <1>3, OpensIn
<1> HIDE DEF s
<1>5. /\ limit \in Int /\ Day(i) * DayLength \in Int
      /\ (WeekLength + 4) * DayLength \in Int
      /\ limit + DayLength = Day(i) * DayLength + (WeekLength + 4) * DayLength
  BY <1>1
<1>6. /\ Day(i) * DayLength - 1 <= i
      /\ zone.shift # 1 => Day(i) * DayLength <= i
  <2>1. Day(i) * DayLength <= Clock(i)
    BY <1>1, DayBounds
  <2>2. Clock(i) <= i + 1 /\ (zone.shift # 1 => Clock(i) <= i) /\ Clock(i) \in Int
    BY ClockSteps DEF Clock, ZoneOK
  <2> QED
    BY <1>5, <2>1, <2>2
<1> HIDE DEF limit
<1>7. CASE b = s
  <2>1. Clock(s) < (Day(s) + 1) * DayLength
    BY <1>3, DayBounds
  <2>2. (Day(s) + 1) * DayLength <= limit
    BY <1>1, <1>3, <1>4, ProductsOrdered DEF limit
  <2>3. (Day(s) + 1) * DayLength \in Int
    BY <1>1, <1>3
  <2>4. s <= Clock(s) + 1 /\ Clock(s) \in Int
    BY <1>3, ClockSteps
  <2> QED
    BY <1>1, <1>3, <1>5, <1>6, <1>7, <2>1, <2>2, <2>3, <2>4
<1>8. CASE b = WindowEnd(w, s)
  <2>1. Closing(w, s) < (Day(s) + 2) * DayLength /\ Closing(w, s) \in Int
    <3>1. /\ Closing(w, s) \in Int
          /\ \/ Closing(w, s) < (Day(s) + 2) * DayLength
             \/ Closing(w, s) < (Day(s) + 1) * DayLength
      BY <1>3, ClosesBy
    <3>2. /\ (Day(s) + 2) * DayLength = (Day(s) + 1) * DayLength + DayLength
          /\ (Day(s) + 1) * DayLength \in Int
      BY <1>1, <1>3
    <3> QED
      BY <1>1, <3>1, <3>2
  <2>2. /\ b <= Closing(w, s) + 1
        /\ zone.shift = 1 => b <= Closing(w, s)
    <3>1. b = Instant(Closing(w, s)) /\ b \in Int
      BY <1>3, <1>8, ClosesBy
    <3>2. b <= Closing(w, s) + 1
      BY <2>1, <3>1, InstantDivides
    <3>3. Clock(b) = Closing(w, s) \/ b <= Closing(w, s)
      BY <2>1, <3>1, InstantReads
    <3>4. zone.shift = 1 => b <= Clock(b)
      BY <3>1, ClockSteps
    <3> QED
      BY <3>2, <3>3, <3>4
  <2>3. (Day(s) + 2) * DayLength \in Int
    BY <1>1, <1>3
  <2>4. CASE Day(s) <= d
    <3>1. (Day(s) + 2) * DayLength <= limit
      BY <1>1, <1>3, <2>4, ProductsOrdered DEF limit
    <3> QED
      BY <1>1, <1>3, <1>5, <1>6, <2>1, <2>2, <2>3, <3>1
  <2>5. CASE Day(s) = d + 1
    <3>1. (Day(s) + 2) * DayLength <= (Day(i) + WeekLength + 4) * DayLength
      BY <1>1, <1>3, <2>5, ProductsOrdered
    <3>2. (Day(i) + WeekLength + 4) * DayLength = limit + DayLength
      BY <1>1 DEF limit
    <3> QED
      BY <1>1, <1>3, <1>4, <1>5, <1>6, <2>1, <2>2, <2>3, <2>5, <3>1, <3>2
  <2> QED
    BY <1>3, <1>4, <2>4, <2>5
<1> QED
  BY <1>3, <1>7, <1>8

\* The transition the code announces is the first instant at which the union of
\* the windows changes; it announces none only if nothing changes for a week
\* (policy.go, NextWindowTransition).
THEOREM TransitionIsAlwaysNext == Spec => []TransitionIsNext
<1>1. WindowsInv => TransitionIsNext
  <2> SUFFICES ASSUME WindowsInv PROVE TransitionIsNext
    OBVIOUS
  <2> DEFINE S == {b \in Boundaries(now) :
                      InsideAnyWindow(b) # InsideAnyWindow(now)}
             Flips(days) == {i \in now + 1 .. now + days * DayLength :
                                InsideAnyWindow(i) # InsideAnyWindow(now)}
             far == Flips(WeekLength + 4)
  <2>1. ZoneOK /\ windows \subseteq Window /\ now \in Nat
    BY DEF WindowsInv
  <2>2. \A b \in Boundaries(now) :
           b \in now + 1 .. now + (WeekLength + 4) * DayLength
    BY <2>1, BoundaryInReach
  <2>3. S \subseteq far /\ far \subseteq Nat
    BY <2>1, <2>2
  <2>4. NextWindowTransition(now) = Earliest(S)
    BY DEF NextWindowTransition
  <2>5. CASE S = {}
    <3>1. NextWindowTransition(now) = None
      BY <2>4, <2>5 DEF Earliest
    <3>2. ASSUME NEW j \in Flips(WeekLength) PROVE FALSE
      <4>1. /\ j \in Int /\ now < j /\ j <= now + WeekLength * DayLength
            /\ InsideAnyWindow(j) # InsideAnyWindow(now)
        BY <2>1, <3>2
      <4>2. PICK f \in now + 1 .. j : FirstFlip(now, f)
        BY <2>1, <4>1, FlipHasFirst
      <4>3. f \in Int /\ f <= now + WeekLength * DayLength
        BY <2>1, <4>1, WindowsAssumption
      <4>4. f \in S
        BY <2>1, <4>2, <4>3, FirstFlipIsBoundary DEF FirstFlip
      <4> QED
        BY <2>5, <4>4
    <3> QED
      BY <3>1, <3>2 DEF TransitionIsNext
  <2>6. CASE S # {}
    <3>1. PICK x \in S : \A y \in S : x <= y
      BY <2>3, <2>6, LeastNumber
    <3> HIDE DEF S, far
    <3>2. x \in far /\ S \subseteq Int /\ far \subseteq Int /\ far # {}
      BY <2>3, <3>1
    <3>3. NextWindowTransition(now) = x
      BY <2>4, <2>6, <3>1, <3>2, LeastIsMin DEF Earliest
    <3>4. ASSUME NEW y \in far PROVE x <= y
      <4> SUFFICES ASSUME y < x PROVE FALSE
        BY <3>2
      <4>1. /\ y \in Int /\ x \in Int /\ now < y
            /\ InsideAnyWindow(y) # InsideAnyWindow(now)
        BY <2>1, <3>2 DEF far
      <4>2. PICK f \in now + 1 .. y : FirstFlip(now, f)
        BY <2>1, <4>1, FlipHasFirst
      <4>3. f \in Int /\ f <= x /\ f < x /\ x \in Boundaries(now)
        BY <2>1, <4>1 DEF S
      <4>4. f \in S
        BY <2>1, <4>2, <4>3, FirstFlipIsBoundary DEF FirstFlip, S
      <4> QED
        BY <3>1, <4>1, <4>3, <4>4
    <3>5. Earliest(far) = x
      BY <3>2, <3>4, LeastIsMin DEF Earliest
    <3>6. x # None
      BY <3>2, WindowsAssumption
    <3> QED
      BY <3>3, <3>5, <3>6 DEF TransitionIsNext, far
  <2> QED
    BY <2>5, <2>6
<1> QED
  BY <1>1, WindowsAlwaysInv, PTL
=============================================================================
