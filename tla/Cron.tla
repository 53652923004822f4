--------------------------------- MODULE Cron ---------------------------------
(***************************************************************************)
(* Calendar expressions of schedules: how a field is parsed and which days *)
(* match (internal/automation/cron.go).                                    *)
(*                                                                         *)
(* Abstractions.  Expressions are at midnight, "0 0 day month weekday", so *)
(* a moment is a day, and the search of nextCronMatch, which goes minute   *)
(* by minute for 366 * 24 * 60 minutes from the one after its start, sees  *)
(* the midnights of the 366 days that follow.  Days count from 1 January   *)
(* 2024, a Monday.                                                         *)
(***************************************************************************)
EXTENDS Naturals, FiniteSets

-----------------------------------------------------------------------------
(* The calendar of package time, in the years 2001 to 2099.                *)

\* The days of a cycle of four years, and the first ones of its years and
\* months.
Cycle == 0..1460
YearStart == [y \in 0..3 |-> IF y = 0 THEN 0 ELSE 365 * y + 1]
MonthStart(y, m) ==
    LET start == <<0, 31, 59, 90, 120, 151, 181, 212, 243, 273, 304, 334>>
    IN  YearStart[y] + start[m] + (IF y = 0 /\ m > 2 THEN 1 ELSE 0)

Last(S) == CHOOSE x \in S : \A y \in S : y <= x
DateOfCycle ==
    [c \in Cycle |->
        LET y == Last({x \in 0..3 : YearStart[x] <= c})
            m == Last({x \in 1..12 : MonthStart(y, x) <= c})
        IN  [month |-> m, dom |-> c - MonthStart(y, m) + 1]]
Date(d) == DateOfCycle[d % 1461]
Weekday(d) == (d + 1) % 7

-----------------------------------------------------------------------------
(* Fields and expressions.                                                 *)

\* The parts of a field between its commas: *, */n and n.
Part == [kind : {"every", "step", "number"}, n : Nat]
Field == SUBSET Part
Every == [kind |-> "every", n |-> 0]
Step(n) == [kind |-> "step", n |-> n]
Number(n) == [kind |-> "number", n |-> n]

\* The values of a part, none if it is an error.
PartValues(part, min, max) ==
    CASE part.kind = "step" /\ part.n > 0 -> {v \in min..max : (v - min) % part.n = 0}
      [] part.kind = "number" -> {part.n} \cap min..max
      [] OTHER -> {}

\* parseCronField: a lone * matches everything, an error nothing.
ParseCronField(field, min, max) ==
    IF field = {Every} THEN min..max
    ELSE IF \E part \in field : PartValues(part, min, max) = {} THEN {}
    ELSE UNION {PartValues(part, min, max) : part \in field}

Parse(x) ==
    [dom |-> ParseCronField(x.dom, 1, 31), month |-> ParseCronField(x.month, 1, 12),
     dow |-> ParseCronField(x.dow, 0, 6)]

\* Faulty variant, to test RunsWhenMeant: the day of the month or that of the
\* week matches, as other crons have it.
MatchesEither(fields, d) ==
    /\ Date(d).month \in fields.month
    /\ Date(d).dom \in fields.dom \/ Weekday(d) \in fields.dow

\* Day of the month and day of the week must both match.
Matches(fields, d) ==
    /\ Date(d).month \in fields.month
    /\ Date(d).dom \in fields.dom
    /\ Weekday(d) \in fields.dow
=============================================================================
