---------------------------- MODULE MCScheduler ----------------------------
(* Instances of CalendarSchedules for TLC.  Schedule is a set of these
   names; time starts on 27 February 2024. *)
EXTENDS CalendarSchedules, TLC

CONSTANTS once, everySecond, never, february, leapDay, refused

Calendric == {february, leapDay, refused}
Modes_ == [s \in Schedule |-> IF s = once THEN "once"
                              ELSE IF s \in Calendric THEN "calendar" ELSE "fixed_rate"]
RunAts == [s \in Schedule |-> Start + 1]
Intervals == [s \in Schedule |-> IF s = never THEN 0 ELSE 2]

Daily == [dom |-> {Every}, month |-> {Every}, dow |-> {Every}]
Expressions ==
    [s \in Schedule |->
        CASE s = february -> [Daily EXCEPT !.dom = {Number(28)}, !.month = {Number(2)}]
          [] s = leapDay -> [dom |-> {Step(28)}, month |-> {Step(14), Number(2)}, dow |-> {Number(4)}]
          [] s = refused -> [Daily EXCEPT !.dom = {Every, Number(1)}]
          [] OTHER -> Daily]
\* Each calendar computed once.
CalendarTable == Calendars @@ [s \in {} |-> {}]
NoLag == [k \in Ticker |-> 0]
=============================================================================
