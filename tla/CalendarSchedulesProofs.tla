----------------------- MODULE CalendarSchedulesProofs -----------------------
(***************************************************************************)
(* Proofs about CalendarSchedules: a schedule runs on the first day its    *)
(* expression means, and one that means some days of every year always has *)
(* a next run.  They need the calendar itself: where a date is in the      *)
(* cycle of four years, and that it comes again within 366 days.           *)
(***************************************************************************)
EXTENDS CalendarSchedules, SchedulerProofs

-----------------------------------------------------------------------------
(* The calendar.                                                           *)

\* Last is the greatest element of a set that has one.
LEMMA LastIs ==
  ASSUME NEW S \in SUBSET Nat, NEW m \in S, \A x \in S : x <= m
  PROVE  Last(S) = m
<1>1. \A x \in S : (\A y \in S : y <= x) => x = m
  OBVIOUS
<1>2. Last(S) \in S /\ \A y \in S : y <= Last(S)
  BY DEF Last
<1>. QED
  BY <1>1, <1>2

\* The first days of the four years, the first of them a leap year.
LEMMA YearStarts ==
  /\ YearStart[0] = 0 /\ YearStart[1] = 366 /\ YearStart[2] = 731 /\ YearStart[3] = 1096
  BY DEF YearStart

\* The days of a year before each of its months, and before the next year.
Before(y, m) ==
    CASE m = 1 -> 0 [] m = 2 -> 31
      [] m > 2 -> (IF y = 0 THEN 1 ELSE 0) +
           (CASE m = 3 -> 59 [] m = 4 -> 90 [] m = 5 -> 120 [] m = 6 -> 151 [] m = 7 -> 181
              [] m = 8 -> 212 [] m = 9 -> 243 [] m = 10 -> 273 [] m = 11 -> 304 [] m = 12 -> 334
              [] m = 13 -> 365)

\* The first days of the months.
LEMMA MonthStarts ==
  ASSUME NEW y \in 0..3, NEW m \in 1..12
  PROVE  MonthStart(y, m) = YearStart[y] + Before(y, m)
<1>. DEFINE start == <<0, 31, 59, 90, 120, 151, 181, 212, 243, 273, 304, 334>>
<1>1. /\ start[1] = 0 /\ start[2] = 31 /\ start[3] = 59 /\ start[4] = 90 /\ start[5] = 120
      /\ start[6] = 151 /\ start[7] = 181 /\ start[8] = 212 /\ start[9] = 243
      /\ start[10] = 273 /\ start[11] = 304 /\ start[12] = 334
  OBVIOUS
<1>2. MonthStart(y, m) = YearStart[y] + start[m] + (IF y = 0 /\ m > 2 THEN 1 ELSE 0)
  BY DEF MonthStart
<1>3. YearStart[y] \in Nat
  BY YearStarts
<1>. HIDE DEF start
<1>4. start[m] + (IF y = 0 /\ m > 2 THEN 1 ELSE 0) = Before(y, m) /\ start[m] \in Nat
  BY <1>1 DEF Before
<1>. QED
  BY <1>2, <1>3, <1>4

\* No month is empty, and a year ends where the next one begins.
LEMMA BeforeGrows ==
  ASSUME NEW y \in 0..3
  PROVE  /\ \A m \in 1..13 : Before(y, m) \in Nat
         /\ \A m \in 1..13, x \in 1..13 : m <= x => Before(y, m) <= Before(y, x)
         /\ \A m \in 1..12 : Before(y, m) < Before(y, m + 1)
         /\ YearStart[y] \in Nat
         /\ y # 3 => YearStart[y] + Before(y, 13) = YearStart[y + 1]
         /\ y = 3 => YearStart[y] + Before(y, 13) = 1461
  BY YearStarts DEF Before

\* dom is a day of month m in year y, and where it is in the cycle.
IsDay(y, m, dom) ==
    /\ y \in 0..3 /\ m \in 1..12 /\ dom \in 1..31
    /\ dom <= Before(y, m + 1) - Before(y, m)
Position(y, m, dom) == YearStart[y] + Before(y, m) + dom - 1

\* The year and the month of a day of the cycle.
LEMMA DateAt ==
  ASSUME NEW y, NEW m, NEW dom, IsDay(y, m, dom)
  PROVE  /\ Position(y, m, dom) \in 0..1460
         /\ DateOfCycle[Position(y, m, dom)] = [month |-> m, dom |-> dom]
<1>. DEFINE c == Position(y, m, dom)
            Y(d) == Last({x \in 0..3 : YearStart[x] <= d})
            M(d) == Last({x \in 1..12 : MonthStart(Y(d), x) <= d})
<1>1. y \in 0..3 /\ m \in 1..12 /\ dom \in 1..31 /\ m + 1 \in 1..13
  BY DEF IsDay
<1>2. /\ YearStart[y] \in Nat /\ Before(y, m) \in Nat /\ Before(y, m + 1) \in Nat
      /\ Before(y, m + 1) <= Before(y, 13) /\ Before(y, 13) \in Nat
  <2>1. YearStart[y] \in Nat /\ \A x \in 1..13 : Before(y, x) \in Nat
    BY <1>1, BeforeGrows
  <2>2. Before(y, m + 1) <= Before(y, 13)
    <3>1. 13 \in 1..13 /\ m + 1 <= 13
      BY <1>1
    <3>. QED
      BY <1>1, <3>1, BeforeGrows
  <2>3. Before(y, m) \in Nat /\ Before(y, m + 1) \in Nat /\ Before(y, 13) \in Nat
    BY <1>1, <2>1
  <2>. QED
    BY <2>1, <2>2, <2>3
<1>3. c \in Nat /\ YearStart[y] + Before(y, m) <= c /\ c < YearStart[y] + Before(y, m + 1)
  BY <1>1, <1>2 DEF IsDay, Position
<1>4. c < YearStart[y] + Before(y, 13)
  BY <1>2, <1>3
<1>5. c \in 0..1460
  <2>1. YearStart[y] + Before(y, 13) <= 1461
    BY <1>1, BeforeGrows, YearStarts
  <2>. HIDE DEF c
  <2>. QED
    BY <1>2, <1>3, <1>4, <2>1
<1>6. Y(c) = y
  <2>1. YearStart[y] <= c
    BY <1>2, <1>3
  <2>2. \A x \in 0..3 : YearStart[x] <= c => x <= y
    BY <1>1, <1>3, <1>4, BeforeGrows, YearStarts
  <2>. HIDE DEF c
  <2>. QED
    BY <1>1, <2>1, <2>2, LastIs
<1>7. M(c) = m
  <2>1. \A x \in 1..12 : MonthStart(y, x) = YearStart[y] + Before(y, x) /\ Before(y, x) \in Nat
    <3>1. \A x \in 1..12 : MonthStart(y, x) = YearStart[y] + Before(y, x)
      BY <1>1, MonthStarts
    <3>2. \A x \in 1..13 : Before(y, x) \in Nat
      BY <1>1, BeforeGrows
    <3>. QED
      BY <3>1, <3>2
  <2>2. MonthStart(y, m) <= c
    BY <1>1, <1>3, <2>1
  <2>3. ASSUME NEW x \in 1..12, MonthStart(y, x) <= c, ~(x <= m)
        PROVE  FALSE
    <3>1. m + 1 <= x /\ x \in 1..13
      BY <1>1, <2>3
    <3>2. Before(y, m + 1) <= Before(y, x)
      BY <1>1, <3>1, BeforeGrows
    <3>. QED
      BY <1>2, <1>3, <2>1, <2>3, <3>2
  <2>. HIDE DEF c, Y
  <2>. DEFINE S == {x \in 1..12 : MonthStart(y, x) <= c}
  <2>4. S \in SUBSET Nat /\ m \in S /\ \A x \in S : x <= m
    BY <1>1, <2>2, <2>3
  <2>5. Last(S) = m
    <3>. HIDE DEF S
    <3>. QED
      BY <2>4, LastIs
  <2>. QED
    BY <1>6, <2>5
<1>8. DateOfCycle[c] = [month |-> M(c), dom |-> c - MonthStart(Y(c), M(c)) + 1]
  <2>. DEFINE D(d) == [month |-> M(d), dom |-> d - MonthStart(Y(d), M(d)) + 1]
  <2>1. DateOfCycle = [d \in Cycle |-> D(d)]
    BY SMTT(30) DEF DateOfCycle
  <2>. HIDE DEF c, D
  <2>2. DateOfCycle[c] = D(c)
    BY <1>5, <2>1 DEF Cycle
  <2>. QED
    BY <2>2 DEF D
<1>9. c - MonthStart(y, m) + 1 = dom
  BY <1>1, <1>2, MonthStarts DEF Position
<1>. HIDE DEF c, Y, M
<1>. QED
  BY <1>5, <1>6, <1>7, <1>8, <1>9 DEF c

\* Every day of the cycle has a date.
LEMMA EachDay ==
  ASSUME NEW c \in 0..1460
  PROVE  \E y, m, dom : IsDay(y, m, dom) /\ c = Position(y, m, dom)
<1>1. PICK y \in 0..3 : YearStart[y] <= c /\ c < YearStart[y] + Before(y, 13)
  <2>1. Before(0, 13) = 366 /\ Before(1, 13) = 365 /\ Before(2, 13) = 365 /\ Before(3, 13) = 365
    BY DEF Before
  <2>2. CASE c < 366
    BY <2>1, <2>2, YearStarts
  <2>3. CASE 366 <= c /\ c < 731
    BY <2>1, <2>3, YearStarts
  <2>4. CASE 731 <= c /\ c < 1096
    BY <2>1, <2>4, YearStarts
  <2>5. CASE 1096 <= c
    BY <2>1, <2>5, YearStarts
  <2>. QED
    BY <2>2, <2>3, <2>4, <2>5
<1>2. /\ YearStart[y] \in Nat
      /\ \A m \in 1..13 : Before(y, m) \in Nat
      /\ Before(y, 1) = 0
  BY BeforeGrows DEF Before
<1>. DEFINE r == c - YearStart[y]
<1>3. r \in Nat /\ r < Before(y, 13)
  BY <1>1, <1>2
<1>. HIDE DEF r
<1>4. PICK m \in 1..12 : Before(y, m) <= r /\ r < Before(y, m + 1)
  BY <1>3, BeforeGrows DEF Before
<1>5. Before(y, m + 1) - Before(y, m) <= 31 /\ Before(y, m) \in Nat /\ Before(y, m + 1) \in Nat
  BY DEF Before
<1>. DEFINE dom == r - Before(y, m) + 1
<1>6. dom \in 1..31 /\ dom <= Before(y, m + 1) - Before(y, m)
  BY <1>3, <1>4, <1>5
<1>7. c = Position(y, m, dom)
  BY <1>2, <1>3, <1>5 DEF Position, r
<1>. QED
  BY <1>6, <1>7 DEF IsDay

\* The dates of package time.
LEMMA DateType ==
  ASSUME NEW d \in Nat
  PROVE  /\ Date(d).month \in 1..12 /\ Date(d).dom \in 1..31
         /\ Weekday(d) \in 0..6
<1>1. d % 1461 \in 0..1460 /\ Weekday(d) \in 0..6
  BY DEF Weekday
<1>2. PICK y, m, dom : IsDay(y, m, dom) /\ d % 1461 = Position(y, m, dom)
  BY <1>1, EachDay
<1>3. Date(d) = [month |-> m, dom |-> dom]
  BY <1>2, DateAt DEF Date
<1>. QED
  BY <1>1, <1>2, <1>3 DEF IsDay

\* A day of the next 366 at position p of the cycle, or with date D.
InCycle(d) == d % 1461
Near(at, p) == \E t \in Nat : at + 1 <= t /\ t <= at + 366 /\ InCycle(t) = p
Again(at, D) == \E t \in Nat : at + 1 <= t /\ t <= at + 366 /\ Date(t) = D

\* p comes within 366 days of r, in the same cycle or in the next.
Ahead(r, p) ==
    \/ r < p /\ p - r <= 366
    \/ p <= r /\ p + 1461 - r <= 366

\* A position ahead of that of a day is near that day.
LEMMA NearAhead ==
  ASSUME NEW at \in Nat, NEW r, NEW p \in Cycle, InCycle(at) = r, Ahead(r, p)
  PROVE  Near(at, p)
<1>1. r = at % 1461 /\ r \in 0..1460
  BY DEF InCycle
<1>2. p \in 0..1460
  BY DEF Cycle
<1>3. (r < p /\ p - r <= 366) \/ (p <= r /\ p + 1461 - r <= 366)
  BY <1>1, <1>2 DEF Ahead
<1>4. CASE r < p
  <2>. DEFINE t == at + (p - r)
  <2>1. t \in Nat /\ at + 1 <= t /\ t <= at + 366
    BY <1>1, <1>2, <1>3, <1>4
  <2>2. t % 1461 = p
    BY <1>1, <1>2, <1>4
  <2>3. InCycle(t) = p
    BY <2>2 DEF InCycle
  <2>. HIDE DEF t
  <2>. QED
    BY <2>1, <2>3 DEF Near
<1>5. CASE p <= r
  <2>. DEFINE t == at + (p + 1461 - r)
  <2>1. t \in Nat /\ at + 1 <= t /\ t <= at + 366
    BY <1>1, <1>2, <1>3, <1>5
  <2>2. PICK q \in Nat : at = 1461 * q + r
    <3>1. at \div 1461 \in Nat /\ at = 1461 * (at \div 1461) + r
      BY <1>1
    <3>. QED
      BY <3>1
  <2>3. t = 1461 * (q + 1) + p
    BY <1>1, <1>2, <2>2
  <2>4. t % 1461 = p
    <3>. HIDE DEF t
    <3>. QED
      BY <1>2, <2>3
  <2>5. InCycle(t) = p
    BY <2>4 DEF InCycle
  <2>. HIDE DEF t
  <2>. QED
    BY <2>1, <2>5 DEF Near
<1>. QED
  BY <1>1, <1>2, <1>4, <1>5

\* The date of a position that is near comes again.
LEMMA NearDate ==
  ASSUME NEW at \in Nat, NEW p \in Cycle, Near(at, p)
  PROVE  Again(at, DateOfCycle[p])
<1>1. PICK t \in Nat : at + 1 <= t /\ t <= at + 366 /\ InCycle(t) = p
  BY DEF Near
<1>2. Date(t) = DateOfCycle[p]
  BY <1>1 DEF Date, InCycle
<1>. QED
  BY <1>1, <1>2 DEF Again

\* A date that is not 29 February comes again within 366 days.
LEMMA DateRecurs ==
  ASSUME NEW d \in Nat, Date(d) # [month |-> 2, dom |-> 29], NEW at \in Nat
  PROVE  Again(at, Date(d))
<1>1. PICK y, m, dom : IsDay(y, m, dom) /\ d % 1461 = Position(y, m, dom)
  BY EachDay
<1>2. Date(d) = [month |-> m, dom |-> dom]
  BY <1>1, DateAt DEF Date
<1>3. m \in 1..12 /\ dom \in 1..31 /\ ~(m = 2 /\ dom = 29)
  BY <1>1, <1>2 DEF IsDay
<1>4. \A x \in 0..3 : IsDay(x, m, dom)
  BY <1>1, <1>3 DEF IsDay, Before
<1>5. \A x \in 0..3 : /\ Position(x, m, dom) \in 0..1460
                      /\ DateOfCycle[Position(x, m, dom)] = Date(d)
  BY <1>2, <1>4, DateAt
<1>6. PICK r \in 0..1460 : r = InCycle(at)
  BY DEF InCycle
<1>7. \/ Ahead(r, Position(0, m, dom)) \/ Ahead(r, Position(1, m, dom))
      \/ Ahead(r, Position(2, m, dom)) \/ Ahead(r, Position(3, m, dom))
  <2>0. dom <= Before(0, m + 1) - Before(0, m)
    BY <1>4 DEF IsDay
  <2>1. /\ Before(0, m) \in Nat /\ Before(1, m) \in Nat
        /\ Before(2, m) = Before(1, m) /\ Before(3, m) = Before(1, m)
        /\ Before(0, m) = Before(1, m) \/ Before(0, m) = Before(1, m) + 1
        /\ Before(0, m + 1) \in Nat /\ Before(0, m + 1) <= 366
    BY <1>3 DEF Before
  <2>2. /\ Position(0, m, dom) = Before(0, m) + dom - 1
        /\ Position(1, m, dom) = 366 + Before(1, m) + dom - 1
        /\ Position(2, m, dom) = 731 + Before(1, m) + dom - 1
        /\ Position(3, m, dom) = 1096 + Before(1, m) + dom - 1
    BY <1>3, <2>1, YearStarts DEF Position
  <2>3. /\ Position(0, m, dom) <= 365
        /\ Position(1, m, dom) - Position(0, m, dom) \in 1..366
        /\ Position(2, m, dom) - Position(1, m, dom) = 365
        /\ Position(3, m, dom) - Position(2, m, dom) = 365
        /\ Position(0, m, dom) + 1461 - Position(3, m, dom) \in 1..366
    BY <1>3, <2>0, <2>1, <2>2
  <2>4. /\ Position(0, m, dom) \in 0..1460 /\ Position(1, m, dom) \in 0..1460
        /\ Position(2, m, dom) \in 0..1460 /\ Position(3, m, dom) \in 0..1460
    BY <1>5
  <2>. DEFINE p0 == Position(0, m, dom)
              p1 == Position(1, m, dom)
              p2 == Position(2, m, dom)
              p3 == Position(3, m, dom)
  <2>5. /\ p0 \in 0..1460 /\ p1 \in 0..1460 /\ p2 \in 0..1460 /\ p3 \in 0..1460
        /\ p0 <= 365 /\ p1 - p0 \in 1..366 /\ p2 - p1 = 365 /\ p3 - p2 = 365
        /\ p0 + 1461 - p3 \in 1..366
    BY <2>3, <2>4
  <2>. HIDE DEF p0, p1, p2, p3
  <2>6. /\ p0 \in 0..1460 /\ p1 \in 0..1460 /\ p2 \in 0..1460 /\ p3 \in 0..1460
        /\ p0 <= 365 /\ p1 <= p0 + 366 /\ p2 <= p1 + 366 /\ p3 <= p2 + 366
        /\ p0 + 1461 - p3 <= 366
    BY <2>5
  <2>7. \/ r < p0 /\ p0 - r <= 366
        \/ r < p1 /\ p1 - r <= 366
        \/ r < p2 /\ p2 - r <= 366
        \/ r < p3 /\ p3 - r <= 366
        \/ p0 <= r /\ p0 + 1461 - r <= 366
    BY <2>6
  <2>8. Ahead(r, p0) \/ Ahead(r, p1) \/ Ahead(r, p2) \/ Ahead(r, p3)
    BY <2>7 DEF Ahead
  <2>. QED
    BY <2>8 DEF p0, p1, p2, p3
<1>8. PICK x \in 0..3 : Ahead(r, Position(x, m, dom))
  BY <1>7
<1>9. PICK p : p = Position(x, m, dom)
  OBVIOUS
<1>10. p \in Cycle /\ DateOfCycle[p] = Date(d) /\ Ahead(r, p)
  BY <1>5, <1>6, <1>8, <1>9 DEF Cycle
<1>11. Near(at, p)
  BY <1>6, <1>10, NearAhead
<1>12. Again(at, DateOfCycle[p])
  BY <1>10, <1>11, NearDate
<1>. QED
  BY <1>10, <1>12

-----------------------------------------------------------------------------
(* Expressions.                                                            *)

\* Counting by n from the first value, and division by n.
LEMMA EveryNth ==
  ASSUME NEW a \in 0..31, NEW n \in Nat, n > 0
  PROVE  a % n = 0 <=> \E i \in 0..31 : a = i * n
<1>1. ASSUME a % n = 0
      PROVE  \E i \in 0..31 : a = i * n
  <2>1. a = n * (a \div n)
    BY <1>1, Z3
  <2>2. a \div n \in 0..31
    OBVIOUS
  <2>. QED
    BY <2>1, <2>2
<1>2. ASSUME NEW i \in 0..31, a = i * n
      PROVE  a % n = 0
  BY <1>2
<1>. QED
  BY <1>1, <1>2

\* The values of a part without error.
PartMeans(part, v, min) ==
    \/ part = Every
    \/ part = Number(v)
    \/ part.kind = "step" /\ \E i \in 0..31 : v = min + i * part.n

\* PartValues has them.
LEMMA PartIsMeant ==
  ASSUME NEW part \in Part, NEW min \in Nat, NEW max \in Nat, max <= min + 31,
         PartValues(part, min, max) # {}, NEW v \in min..max
  PROVE  v \in PartValues(part, min, max) <=> PartMeans(part, v, min)
<1>1. part.kind \in {"every", "step", "number"} /\ part.n \in Nat
  BY DEF Part
<1>2. CASE part.kind = "step"
  <2>1. part.n > 0
    BY <1>2 DEF PartValues
  <2>2. PartValues(part, min, max) = {u \in min..max : (u - min) % part.n = 0}
    BY <1>2, <2>1 DEF PartValues
  <2>3. PICK a \in 0..31 : a = v - min
    OBVIOUS
  <2>4. a % part.n = 0 <=> \E i \in 0..31 : a = i * part.n
    BY <1>1, <2>1, EveryNth
  <2>5. \A i \in 0..31 : a = i * part.n <=> v = min + i * part.n
    <3>1. ASSUME NEW i \in 0..31, NEW p \in Nat, p = i * part.n
          PROVE  a = p <=> v = min + p
      BY <2>3
    <3>2. \A i \in 0..31 : i * part.n \in Nat
      BY <1>1
    <3>. QED
      BY <3>1, <3>2
  <2>6. part # Every /\ part # Number(v)
    BY <1>2 DEF Every, Number
  <2>. QED
    BY <1>2, <2>2, <2>3, <2>4, <2>5, <2>6 DEF PartMeans
<1>3. CASE part.kind = "number"
  <2>1. PartValues(part, min, max) = {part.n} \cap min..max
    BY <1>3 DEF PartValues
  <2>2. part # Every
    BY <1>3 DEF Every
  <2>3. v = part.n <=> part = Number(v)
    BY <1>1, <1>3 DEF Part, Number
  <2>. QED
    BY <1>3, <2>1, <2>2, <2>3 DEF PartMeans
<1>4. CASE part.kind = "every"
  BY <1>4 DEF PartValues
<1>. QED
  BY <1>1, <1>2, <1>3, <1>4

\* What parseCronField reads is what the field means, unless it refuses it.
LEMMA ParseMeans ==
  ASSUME NEW field \in Field, NEW min \in Nat, NEW max \in Nat, max <= min + 31,
         ParseCronField(field, min, max) # {}, NEW v \in min..max
  PROVE  v \in ParseCronField(field, min, max) <=> Meant(field, v, min)
<1>1. Meant(field, v, min) <=> \E part \in field : PartMeans(part, v, min)
  BY DEF Meant, PartMeans
<1>2. CASE field = {Every}
  <2>1. ParseCronField(field, min, max) = min..max
    BY <1>2 DEF ParseCronField
  <2>2. PartMeans(Every, v, min)
    BY DEF PartMeans
  <2>. QED
    BY <1>1, <1>2, <2>1, <2>2
<1>3. CASE field # {Every}
  <2>1. /\ \A part \in field : PartValues(part, min, max) # {}
        /\ ParseCronField(field, min, max) = UNION {PartValues(part, min, max) : part \in field}
    BY <1>3 DEF ParseCronField
  <2>2. \A part \in field :
            v \in PartValues(part, min, max) <=> PartMeans(part, v, min)
    BY <2>1, PartIsMeant DEF Field
  <2>. QED
    BY <1>1, <2>1, <2>2
<1>. QED
  BY <1>2, <1>3

\* A calendar that has a day at all has those its expression means.
LEMMA CalendarMeans ==
  ASSUME NEW s \in Schedule, Calendar[s] # {}, NEW d \in Nat, d <= LastDay
  PROVE  d \in Calendar[s] <=> MeantOn(s, d)
<1>. DEFINE x == Expression[s]
<1>1. x.dom \in Field /\ x.month \in Field /\ x.dow \in Field
  BY CalendarAssumption
<1>2. Calendar[s] = {e \in 0..LastDay : Matches(Parse(x), e)}
  BY CalendarAssumption DEF Calendars
<1>3. /\ ParseCronField(x.dom, 1, 31) # {}
      /\ ParseCronField(x.month, 1, 12) # {}
      /\ ParseCronField(x.dow, 0, 6) # {}
  BY <1>2 DEF Matches, Parse
<1>4. Date(d).dom \in 1..31 /\ Date(d).month \in 1..12 /\ Weekday(d) \in 0..6
  BY DateType
<1>. HIDE DEF x
<1>5. Date(d).dom \in ParseCronField(x.dom, 1, 31) <=> Meant(x.dom, Date(d).dom, 1)
  BY <1>1, <1>3, <1>4, ParseMeans
<1>6. Date(d).month \in ParseCronField(x.month, 1, 12) <=> Meant(x.month, Date(d).month, 1)
  BY <1>1, <1>3, <1>4, ParseMeans
<1>7. Weekday(d) \in ParseCronField(x.dow, 0, 6) <=> Meant(x.dow, Weekday(d), 0)
  BY <1>1, <1>3, <1>4, ParseMeans
<1>8. d \in Calendar[s] <=> Matches(Parse(x), d)
  <2>1. d \in 0..LastDay
    BY CalendarAssumption
  <2>. QED
    BY <1>2, <2>1
<1>. QED
  BY <1>5, <1>6, <1>7, <1>8 DEF Matches, Parse, MeantOn, x

-----------------------------------------------------------------------------
(* The next run.                                                           *)

\* nextCronMatch, when it finds a match, finds the first; otherwise there is
\* none.
LEMMA NextIsFirst ==
  ASSUME NEW s \in Schedule, NEW from \in Nat
  PROVE  IF Calendar[s] \cap Reached(from) = {}
         THEN NextCronMatch(s, from) = Never
         ELSE /\ NextCronMatch(s, from) # Never
              /\ NextCronMatch(s, from) \in Calendar[s] \cap Reached(from)
              /\ \A u \in Calendar[s] \cap Reached(from) : NextCronMatch(s, from) <= u
<1>. DEFINE M == Calendar[s] \cap Reached(from)
<1>1. Calendar[s] \in SUBSET Nat /\ Horizon \in Nat
  BY ScheduleAssumption, BoundsAssumption
<1>2. M \in SUBSET Nat
  BY <1>1
<1>3. IsFiniteSet(M)
  <2>1. IsFiniteSet((from + 1)..(from + Horizon))
    BY <1>1, FS_Interval
  <2>. QED
    BY <2>1, FS_Subset DEF Reached
<1>4. CASE M = {}
  BY <1>4 DEF NextCronMatch
<1>5. CASE M # {}
  <2>1. \E n \in M : \A m \in M : n <= m
    BY <1>2, <1>3, <1>5, LeastExists
  <2>2. NextCronMatch(s, from) = CHOOSE t \in M : \A u \in M : t <= u
    BY <1>5 DEF NextCronMatch
  <2>. HIDE DEF M
  <2>3. NextCronMatch(s, from) \in M /\ \A u \in M : NextCronMatch(s, from) <= u
    BY <2>1, <2>2
  <2>4. NextCronMatch(s, from) # Never
    BY <1>2, <2>3, NeverAssumption
  <2>. QED
    BY <1>5, <2>3, <2>4 DEF M
<1>. QED
  BY <1>4, <1>5

\* What nextCronMatch finds is the first day that the expression means.
LEMMA NextIsMeant ==
  ASSUME NEW s \in Schedule, NEW from \in Nat, from <= Start + MaxTime,
         NextCronMatch(s, from) # Never
  PROVE  FirstMeant(s, from, NextCronMatch(s, from))
<1>. DEFINE next == NextCronMatch(s, from)
<1>1. /\ next \in Calendar[s] \cap Reached(from)
      /\ \A u \in Calendar[s] \cap Reached(from) : next <= u
  BY NextIsFirst
<1>2. /\ Horizon \in Nat /\ LastDay \in Nat /\ Start \in Nat /\ MaxTime \in Nat
      /\ Start + MaxTime + Horizon <= LastDay
  BY CalendarAssumption, BoundsAssumption
<1>. HIDE DEF next
<1>3. next \in Nat /\ from < next /\ next <= from + Horizon /\ next <= LastDay
  BY <1>1, <1>2 DEF Reached
<1>4. MeantOn(s, next)
  BY <1>1, <1>3, CalendarMeans
<1>5. ASSUME NEW d \in (from + 1)..(next - 1), MeantOn(s, d)
      PROVE  FALSE
  <2>1. d \in Nat /\ d <= LastDay /\ d < next /\ from + 1 <= d /\ d <= from + Horizon
    BY <1>2, <1>3
  <2>2. d \in Calendar[s]
    BY <1>1, <1>5, <2>1, CalendarMeans
  <2>3. d \in Reached(from)
    BY <1>2, <2>1 DEF Reached
  <2>4. next <= d
    BY <1>1, <2>2, <2>3
  <2>. QED
    BY <1>3, <2>1, <2>4
<1>. QED
  BY <1>3, <1>4, <1>5 DEF FirstMeant, next

\* An expression with a day in every year is found from every moment.
LEMMA YearlyRecurs ==
  ASSUME NEW s \in Schedule, NEW at \in Nat, at <= Start + MaxTime,
         Yearly(s), Calendar[s] # {}
  PROVE  ~Fails(ComputeNext(s, at))
<1>1. PICK d \in Cycle : MeantOn(s, d) /\ EveryYear(d)
  BY DEF Yearly
<1>2. d \in Nat /\ Date(d) # [month |-> 2, dom |-> 29]
  BY <1>1 DEF EveryYear, Cycle
<1>3. Again(at, Date(d))
  BY <1>1, <1>2, DateRecurs
<1>4. PICK t \in Nat : at + 1 <= t /\ t <= at + 366 /\ Date(t) = Date(d)
  BY <1>3 DEF Again
<1>5. /\ Horizon = 366 /\ LastDay \in Nat /\ Start \in Nat /\ MaxTime \in Nat
      /\ Start + MaxTime + Horizon <= LastDay
  BY CalendarAssumption, BoundsAssumption
<1>6. t \in Reached(at) /\ t <= LastDay
  BY <1>4, <1>5 DEF Reached
<1>7. MeantOn(s, t)
  <2>1. Meant(Expression[s].dow, Weekday(t), 0)
    BY DEF Yearly, Meant
  <2>. QED
    BY <1>1, <1>4, <2>1 DEF MeantOn
<1>8. t \in Calendar[s]
  BY <1>4, <1>6, <1>7, CalendarMeans
<1>9. NextCronMatch(s, at) # Never
  BY <1>6, <1>8, NextIsFirst
<1>10. Mode[s] = "calendar"
  BY DEF Yearly
<1>. QED
  BY <1>9, <1>10 DEF ComputeNext, Fails, IsInterval

-----------------------------------------------------------------------------
(* The schedules.                                                          *)

\* A schedule with a calendar was found a first run, so its expression is
\* none that parseCronField refuses; and no tick is ahead of the clock.
Accepted(s) ==
    Mode[s] = "calendar" /\ definition[s].status # "absent" => Calendar[s] # {}
TickInTime(k) ==
    /\ tick[k].at <= now
    /\ \A run \in InHand(k) : definition[run.schedule].status # "absent"
CInv ==
    /\ TypeOK
    /\ now <= Start + MaxTime
    /\ \A s \in Schedule : Accepted(s)
    /\ \A k \in Ticker : TickInTime(k)

\* The invariant holds at first.
LEMMA CalendarInit == Init => CInv
<1>1. Init => TypeOK
  BY TypeInit
<1>2. Init => now <= Start + MaxTime
  BY BoundsAssumption DEF Init
<1>3. Init => \A s \in Schedule : Accepted(s)
  BY DEF Init, Accepted, Absent
<1>4. Init => \A k \in Ticker : TickInTime(k)
  BY BoundsAssumption DEF Init, TickInTime, InHand, NoTick
<1>. QED
  BY <1>1, <1>2, <1>3, <1>4 DEF CInv

\* A tick that only takes what it had, or what it finds due.
LEMMA TickKeeps ==
  ASSUME CInv, TypeOK', UNCHANGED <<now, definition>>, NEW k \in Ticker,
         \A j \in Ticker : j # k => tick'[j] = tick[j],
         tick'[k].at <= now,
         \A run \in tick'[k].left \cup tick'[k].firing :
             run \in InHand(k) \/ definition[run.schedule].status = "active"
  PROVE  CInv'
<1>1. \A j \in Ticker : TickInTime(j)'
  BY DEF CInv, TickInTime, InHand
<1>2. \A s \in Schedule : Accepted(s)'
  BY DEF CInv, Accepted
<1>. QED
  BY <1>1, <1>2 DEF CInv

\* And every step of any ticker keeps it.
LEMMA CalendarStep ==
  ASSUME CInv, [Next]_vars
  PROVE  CInv'
<1>1. TypeOK /\ TypeOK'
  BY TypeStep DEF CInv
<1>2. CASE PassTime
  <2>1. /\ UNCHANGED <<definition, occurrences, tick>>
        /\ now \in Nat /\ now' = now + 1 /\ now' <= Start + MaxTime
    BY <1>1, <1>2, BoundsAssumption DEF PassTime, TypeOK
  <2>2. \A k \in Ticker : TickInTime(k)'
    <3>1. \A k \in Ticker : tick[k].at \in Nat
      BY <1>1 DEF TypeOK
    <3>. QED
      BY <2>1, <3>1 DEF CInv, TickInTime, InHand
  <2>. QED
    BY <1>1, <2>1, <2>2 DEF CInv, Accepted
<1>3. ASSUME NEW s \in Schedule, CreateSchedule(s)
      PROVE  CInv'
  <2>1. /\ UNCHANGED <<now, tick>>
        /\ definition' = [definition EXCEPT ![s] = [status |-> "active", next |-> FirstRun(s, now)]]
        /\ FirstRun(s, now) # Never
    BY <1>3 DEF CreateSchedule
  <2>2. Mode[s] = "calendar" => Calendar[s] # {}
    <3>1. Mode[s] = "calendar" => NextCronMatch(s, now) # Never
      BY <2>1 DEF FirstRun, IsInterval
    <3>2. now \in Nat
      BY <1>1 DEF TypeOK
    <3>. QED
      BY <3>1, <3>2, NextIsFirst
  <2>3. definition \in [Schedule -> [status : {"absent", "active", "inactive"}, next : Nat \cup {Never}]]
    BY <1>1 DEF TypeOK
  <2>4. \A x \in Schedule : x # s => definition'[x] = definition[x]
    BY <2>1, <2>3
  <2>5. definition'[s].status = "active"
    BY <2>1, <2>3
  <2>6. \A x \in Schedule : Accepted(x)'
    BY <2>2, <2>4 DEF CInv, Accepted
  <2>7. \A k \in Ticker : TickInTime(k)'
    <3>1. \A k \in Ticker : \A run \in InHand(k) : run.schedule \in Schedule
      BY <1>1 DEF TypeOK, InHand, Run
    <3>. QED
      BY <2>1, <2>4, <2>5, <3>1 DEF CInv, TickInTime, InHand
  <2>. QED
    BY <1>1, <2>1, <2>6, <2>7 DEF CInv
<1>4. ASSUME NEW k \in Ticker, LoadDueSchedules(k)
      PROVE  CInv'
  <2>. DEFINE due == {[schedule |-> s, due |-> definition[s].next] :
                          s \in {x \in Schedule : IsDue(x)}}
  <2>1. \A run \in due : definition[run.schedule].status = "active"
    BY DEF IsDue
  <2>2. tick' = [tick EXCEPT ![k].left = due] /\ UNCHANGED <<now, definition>>
    BY <1>4 DEF LoadDueSchedules
  <2>. HIDE DEF due
  <2>3. /\ tick'[k].left = due /\ tick'[k].firing = tick[k].firing /\ tick'[k].at = tick[k].at
        /\ \A j \in Ticker : j # k => tick'[j] = tick[j]
    BY <1>1, <2>2 DEF TypeOK
  <2>4. tick[k].at <= now
    BY DEF CInv, TickInTime
  <2>. QED
    BY <1>1, <2>1, <2>2, <2>3, <2>4, TickKeeps DEF InHand
<1>5. ASSUME NEW k \in Ticker, ReadClock(k)
      PROVE  CInv'
  <2>1. PICK run \in tick[k].left :
            tick' = [tick EXCEPT ![k] = [left |-> @.left \ {run}, firing |-> {run}, at |-> Clock(k)]]
    BY <1>5 DEF ReadClock
  <2>2. /\ tick'[k].left = tick[k].left \ {run} /\ tick'[k].firing = {run}
        /\ tick'[k].at = Clock(k)
        /\ \A j \in Ticker : j # k => tick'[j] = tick[j]
    BY <1>1, <2>1 DEF TypeOK
  <2>3. Clock(k) <= now
    BY <1>1, LagAssumption DEF TypeOK, Clock
  <2>4. UNCHANGED <<now, definition>>
    BY <1>5 DEF ReadClock
  <2>. QED
    BY <1>1, <2>1, <2>2, <2>3, <2>4, TickKeeps DEF InHand
<1>6. ASSUME NEW k \in Ticker, FireSchedule(k)
      PROVE  CInv'
  <2>. DEFINE row(run) == ComputeNext(run.schedule, tick[k].at)
  <2>1. PICK run \in tick[k].firing :
            /\ ~Fails(row(run))
            /\ definition' = [definition EXCEPT ![run.schedule] = row(run)]
            /\ tick' = [tick EXCEPT ![k] = [left |-> @.left, firing |-> {}, at |-> 0]]
            /\ now' = now
    BY <1>6 DEF FireSchedule
  <2>2. run.schedule \in Schedule /\ tick[k].at \in Nat /\ run \in InHand(k)
    BY <1>1, <2>1 DEF TypeOK, Run, InHand
  <2>3. row(run).status # "absent"
    BY <2>1, <2>2, ComputeNextAfter
  <2>. HIDE DEF row
  <2>4. definition[run.schedule].status # "absent"
    BY <2>2 DEF CInv, TickInTime
  <2>5. \A x \in Schedule : definition'[x].status # "absent" <=> definition[x].status # "absent"
    BY <1>1, <2>1, <2>2, <2>3, <2>4 DEF TypeOK
  <2>6. \A x \in Schedule : Accepted(x)'
    BY <2>5 DEF CInv, Accepted
  <2>7. /\ tick'[k].left = tick[k].left /\ tick'[k].firing = {} /\ tick'[k].at = 0
        /\ \A j \in Ticker : j # k => tick'[j] = tick[j]
    BY <1>1, <2>1 DEF TypeOK
  <2>8. ASSUME NEW j \in Ticker
        PROVE  TickInTime(j)'
    <3>1. tick'[j].at <= now'
      BY <1>1, <2>1, <2>7 DEF CInv, TickInTime, TypeOK
    <3>2. tick'[j].left \cup tick'[j].firing \subseteq InHand(j)
      BY <2>7 DEF InHand
    <3>3. \A r \in InHand(j) : r.schedule \in Schedule /\ definition[r.schedule].status # "absent"
      BY <1>1 DEF CInv, TickInTime, TypeOK, InHand, Run
    <3>. QED
      BY <2>5, <3>1, <3>2, <3>3 DEF TickInTime, InHand
  <2>. QED
    BY <1>1, <2>1, <2>6, <2>8 DEF CInv
<1>7. ASSUME NEW k \in Ticker, FireFails(k) \/ Fault(k)
      PROVE  CInv'
  <2>1. UNCHANGED <<now, definition>>
    BY <1>7 DEF FireFails, Fault
  <2>2. tick' = [tick EXCEPT ![k] = NoTick]
        \/ tick' = [tick EXCEPT ![k] = [left |-> @.left, firing |-> {}, at |-> 0]]
    BY <1>7 DEF FireFails, Fault, GoOn
  <2>3. /\ tick'[k].left \subseteq tick[k].left /\ tick'[k].firing = {} /\ tick'[k].at = 0
        /\ \A j \in Ticker : j # k => tick'[j] = tick[j]
    BY <1>1, <2>2 DEF TypeOK, NoTick
  <2>4. 0 <= now
    BY <1>1 DEF TypeOK
  <2>. QED
    BY <1>1, <2>1, <2>3, <2>4, TickKeeps DEF InHand
<1>8. CASE UNCHANGED vars
  BY <1>8 DEF vars, CInv, TypeOK, Accepted, TickInTime, InHand
<1>. QED
  BY <1>2, <1>3, <1>4, <1>5, <1>6, <1>7, <1>8 DEF Next, TickScheduler

\* What an accepted schedule and a tick keep, for any number of tickers.
THEOREM CalendarInvariant == Spec => []CInv
BY CalendarInit, CalendarStep, PTL DEF Spec

\* However many tick, and with whatever lag, a schedule whose expression means
\* some days of every year always has a next run: the 366 days of the search
\* reach over a leap day.
THEOREM YearlyIsAlwaysFound == Spec => []YearlyIsFound
<1>1. CInv => YearlyIsFound
  <2>1. ASSUME CInv, NEW k \in Ticker, NEW run \in tick[k].firing, Yearly(run.schedule)
        PROVE  ~Fails(ComputeNext(run.schedule, tick[k].at))
    <3>1. run.schedule \in Schedule /\ tick[k].at \in Nat /\ run \in InHand(k) /\ now \in Nat
      BY <2>1 DEF CInv, TypeOK, Run, InHand
    <3>2. Mode[run.schedule] = "calendar"
      BY <2>1 DEF Yearly
    <3>3. Calendar[run.schedule] # {}
      BY <2>1, <3>1, <3>2 DEF CInv, TickInTime, Accepted
    <3>4. tick[k].at <= Start + MaxTime
      BY <2>1, <3>1, BoundsAssumption DEF CInv, TickInTime
    <3>. QED
      BY <2>1, <3>1, <3>3, <3>4, YearlyRecurs
  <2>. QED
    BY <2>1 DEF YearlyIsFound
<1>. QED
  BY <1>1, CalendarInvariant, PTL

-----------------------------------------------------------------------------
(* One ticker on the clock of the database.                                *)

\* A firing of a schedule with a calendar records the run that was due, and
\* the schedule runs next on the first day its expression means.
LEMMA FiresWhenMeant ==
  ASSUME SInv, CInv, NEW k \in Ticker, FireSchedule(k),
         NEW s \in Schedule, Mode[s] = "calendar", definition'[s] # definition[s]
  PROVE  \E x \in occurrences' :
            /\ x.schedule = s /\ x.due = definition[s].next
            /\ FirstMeant(s, x.at, definition'[s].next)
<1>. DEFINE at == tick[k].at
            row(run) == ComputeNext(run.schedule, at)
<1>1. TypeOK
  BY DEF SInv
<1>2. PICK run \in tick[k].firing :
          /\ ~Fails(row(run))
          /\ RecordOccurrence(run, at)
          /\ definition' = [definition EXCEPT ![run.schedule] = row(run)]
  BY DEF FireSchedule
<1>3. run \in InHand(k) /\ run.due \in Nat /\ at \in Nat /\ now \in Nat
  BY <1>1, <1>2 DEF TypeOK, Run, InHand
<1>4. run.schedule = s /\ definition'[s] = row(run)
  BY <1>1, <1>2 DEF TypeOK
<1>5. /\ definition[s].status = "active"
      /\ definition[s].next = run.due
      /\ run.due <= at
  BY <1>2, <1>3, <1>4 DEF SInv, TicksSound, StillDue, Firing
<1>6. row(run) = [status |-> "active", next |-> NextCronMatch(s, at)]
  BY <1>4 DEF ComputeNext, IsInterval
<1>7. NextCronMatch(s, at) # Never
  BY <1>2, <1>6 DEF Fails
<1>8. at <= Start + MaxTime
  BY <1>3, BoundsAssumption DEF CInv, TickInTime
<1>9. FirstMeant(s, at, definition'[s].next)
  BY <1>3, <1>4, <1>6, <1>7, <1>8, NextIsMeant
<1>10. ASSUME NEW x \in occurrences, x.schedule = s, x.at = at
       PROVE  FALSE
  <2>1. x.at < run.due
    BY <1>5, <1>10 DEF SInv, HistorySound, Past
  <2>. QED
    BY <1>3, <1>5, <1>10, <2>1
<1>. DEFINE new == [schedule |-> s, at |-> at, due |-> run.due]
<1>11. new \in occurrences'
  BY <1>2, <1>4, <1>10 DEF RecordOccurrence
<1>12. new.schedule = s /\ new.at = at /\ new.due = run.due
  OBVIOUS
<1>. HIDE DEF new
<1>. QED
  BY <1>5, <1>9, <1>11, <1>12

\* With one ticker on the clock of the database, the next run of a schedule
\* with a calendar is the first day its expression means, after its creation
\* or after the firing of the run that was due.
THEOREM CalendarRunsWhenMeant ==
  ASSUME OneTicker
  PROVE  Spec => RunsWhenMeant
<1>1. ASSUME SInv, CInv, Next, NEW s \in Schedule, Mode[s] = "calendar",
             definition'[s] # definition[s]
      PROVE  \/ definition[s] = Absent /\ FirstMeant(s, now, definition'[s].next)
             \/ \E x \in occurrences' :
                   /\ x.schedule = s /\ x.due = definition[s].next
                   /\ FirstMeant(s, x.at, definition'[s].next)
  <2>1. TypeOK
    BY <1>1 DEF SInv
  <2>2. CASE \E t \in Schedule : CreateSchedule(t)
    <3>1. /\ definition[s] = Absent /\ FirstRun(s, now) # Never
          /\ definition' = [definition EXCEPT ![s] = [status |-> "active", next |-> FirstRun(s, now)]]
      BY <1>1, <2>1, <2>2 DEF CreateSchedule, TypeOK
    <3>2. FirstRun(s, now) = NextCronMatch(s, now)
      BY <1>1 DEF FirstRun, IsInterval
    <3>3. now \in Nat /\ now <= Start + MaxTime
      BY <1>1, <2>1 DEF CInv, TypeOK
    <3>4. FirstMeant(s, now, FirstRun(s, now))
      BY <3>1, <3>2, <3>3, NextIsMeant
    <3>5. definition'[s].next = FirstRun(s, now)
      BY <2>1, <3>1 DEF TypeOK
    <3>. QED
      BY <3>1, <3>4, <3>5
  <2>3. CASE \E k \in Ticker : FireSchedule(k)
    BY <1>1, <2>3, FiresWhenMeant
  <2>. QED
    BY <1>1, <2>2, <2>3
    DEF Next, TickScheduler, PassTime, LoadDueSchedules, ReadClock, FireFails, Fault
<1>2. SInv /\ CInv /\ [Next]_vars =>
        [\A s \in Schedule :
          /\ Mode[s] = "calendar"
          /\ definition'[s] # definition[s]
          =>
              \/ definition[s] = Absent /\ FirstMeant(s, now, definition'[s].next)
              \/ \E x \in occurrences' :
                    /\ x.schedule = s /\ x.due = definition[s].next
                    /\ FirstMeant(s, x.at, definition'[s].next)]_vars
  BY <1>1
<1>. QED
  BY <1>2, Invariant, CalendarInvariant, PTL DEF Spec, RunsWhenMeant
=============================================================================
