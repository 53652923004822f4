-------------------------- MODULE CalendarSchedules --------------------------
(***************************************************************************)
(* Scheduler with the calendars of Cron: a moment is a day, a calendar the *)
(* days its expression matches.                                            *)
(***************************************************************************)
EXTENDS Scheduler, Cron

CONSTANTS
    Expression, \* Expression[s]: the expression of a schedule with a calendar
    LastDay     \* bound: the last day of any calendar

Calendars == [s \in Schedule |-> {d \in 0..LastDay : Matches(Parse(Expression[s]), d)}]

\* The calendars of Scheduler, whose days reach as far as any search, and the
\* year nextCronMatch looks ahead.
ASSUME CalendarAssumption ==
    /\ Expression \in [Schedule -> [dom : Field, month : Field, dow : Field]]
    /\ Calendar = Calendars
    /\ Horizon = 366
    /\ LastDay \in Nat /\ Start + MaxTime + Horizon <= LastDay

-----------------------------------------------------------------------------
(* Properties.                                                             *)

\* What an expression means: each part of a field by itself, every n-th value
\* counted from the first one of its field.
Meant(field, v, min) ==
    \E part \in field :
        \/ part = Every
        \/ part = Number(v)
        \/ part.kind = "step" /\ \E i \in 0..31 : v = min + i * part.n
MeantOn(s, d) ==
    /\ Meant(Expression[s].dom, Date(d).dom, 1)
    /\ Meant(Expression[s].month, Date(d).month, 1)
    /\ Meant(Expression[s].dow, Weekday(d), 0)

\* The next run of a calendar is the first day that its expression means,
\* strictly after its creation or the firing, across the ends of months and
\* years.
FirstMeant(s, from, next) ==
    /\ from < next
    /\ MeantOn(s, next)
    /\ \A d \in (from + 1)..(next - 1) : ~MeantOn(s, d)
RunsWhenMeant ==
    [][\A s \in Schedule :
          /\ Mode[s] = "calendar"
          /\ definition'[s] # definition[s]
          =>
              \/ definition[s] = Absent /\ FirstMeant(s, now, definition'[s].next)
              \/ \E x \in occurrences' :
                    /\ x.schedule = s /\ x.due = definition[s].next
                    /\ FirstMeant(s, x.at, definition'[s].next)]_vars

\* An expression that means some days of every year, whatever the year.
EveryYear(d) == Date(d) # [month |-> 2, dom |-> 29]
Yearly(s) ==
    /\ Mode[s] = "calendar"
    /\ Expression[s].dow = {Every}
    /\ \E d \in Cycle : MeantOn(s, d) /\ EveryYear(d)

\* A run of such a schedule never fails for want of a next one: the search
\* reaches over a leap day.  It does not reach every 29 February, nor every
\* month that has a given weekday on a given date; their runs are not fired.
YearlyIsFound ==
    \A k \in Ticker : \A run \in tick[k].firing :
        Yearly(run.schedule) => ~Fails(ComputeNext(run.schedule, tick[k].at))
=============================================================================
