------------------------------ MODULE Scheduler ------------------------------
(***************************************************************************)
(* The schedules of internal/automation/scheduler.go: their creation, the  *)
(* tick that looks for those that are due and fires them one by one, and   *)
(* the moment each runs next.                                              *)
(*                                                                         *)
(* Granularity: a tick takes one step to read what is due, then for each   *)
(* schedule one to read the clock and one for its transaction.  That one   *)
(* reads nothing it writes: the insert of the occurrence and the update of *)
(* the schedule are blind, so two of them are always as if one came first. *)
(*                                                                         *)
(* Abstractions.  A calendar is the set of moments its expression matches; *)
(* CalendarSchedules says which.  The event of an occurrence is written    *)
(* with it and stands for it.  A tick takes the due schedules in any       *)
(* order, the code in that of their keys.  Moments are whole; code and     *)
(* database keep fractions of a second until the firing cuts them off.  No *)
(* code of cmd/delmos ticks: who does, and how many at once, is a          *)
(* constant.                                                               *)
(***************************************************************************)
EXTENDS Naturals, FiniteSets

CONSTANTS
    Ticker,     \* callers of TickScheduler
    Schedule,   \* keys of core.schedule_definitions
    Mode,       \* Mode[s]: once, fixed_rate, fixed_delay or calendar
    RunAt,      \* RunAt[s]: run_at of a schedule that runs once
    Interval,   \* Interval[s]: interval_seconds, any number
    Calendar,   \* Calendar[s]: the moments the cron expression matches
    Lag,        \* Lag[k]: how far the clock of k is behind the database's
    Horizon,    \* how far nextCronMatch looks ahead, a year
    Never,      \* no next run
    Start,      \* the first moment
    MaxTime,    \* bound: moments that pass
    MaxFaults   \* bound: lost transactions and restarts

Modes == {"once", "fixed_rate", "fixed_delay", "calendar"}

ASSUME ScheduleAssumption ==
    /\ Mode \in [Schedule -> Modes]
    /\ RunAt \in [Schedule -> Nat]
    /\ Interval \in [Schedule -> Nat]
    /\ Calendar \in [Schedule -> SUBSET Nat]
ASSUME LagAssumption == Lag \in [Ticker -> Nat]
ASSUME NeverAssumption == Never \notin Nat
ASSUME BoundsAssumption ==
    Horizon \in Nat /\ Start \in Nat /\ MaxTime \in Nat /\ MaxFaults \in Nat

VARIABLES
    now,         \* the clock of the database
    definition,  \* schedule_definitions: active and next_run_at
    occurrences, \* schedule_occurrences, and the run each of them was for
    tick,        \* tick[k]: the tick of k
    faults       \* faults so far

vars == <<now, definition, occurrences, tick, faults>>

Run == [schedule : Schedule, due : Nat]
Absent == [status |-> "absent", next |-> Never]
NoTick == [left |-> {}, firing |-> {}, at |-> 0]

Init ==
    /\ now = Start
    /\ definition = [s \in Schedule |-> Absent]
    /\ occurrences = {}
    /\ tick = [k \in Ticker |-> NoTick]
    /\ faults = 0

PassTime ==
    /\ now < Start + MaxTime
    /\ now' = now + 1
    /\ UNCHANGED <<definition, occurrences, tick, faults>>

-----------------------------------------------------------------------------
(* The next run.                                                           *)

\* Faulty variant, to test YearlyIsFound: the search ends one short.
ReachedShort(from) == (from + 1)..(from + Horizon - 1)
\* The candidates of the search.
Reached(from) == (from + 1)..(from + Horizon)

\* nextCronMatch: the first moment after from, if the search gets that far.
NextCronMatch(s, from) ==
    LET matches == Calendar[s] \cap Reached(from)
    IN  IF matches = {} THEN Never ELSE CHOOSE t \in matches : \A u \in matches : t <= u

IsInterval(s) == Mode[s] \in {"fixed_rate", "fixed_delay"}

\* EnsureInitialNextRun; Never is an error.
FirstRun(s, from) ==
    CASE Mode[s] = "once" -> RunAt[s]
      [] IsInterval(s) -> from
      [] Mode[s] = "calendar" -> NextCronMatch(s, from)

\* Faulty variant, to test NeverTwice: what was fired stays due.
NextStaysDue(s, at) == [status |-> "active", next |-> at]

\* computeNext: the row of a schedule fired at that moment.  An active
\* schedule without a next run is an error.
ComputeNext(s, at) ==
    CASE Mode[s] = "once" -> [status |-> "inactive", next |-> Never]
      [] IsInterval(s) -> [status |-> "active",
                           next |-> IF Interval[s] = 0 THEN Never ELSE at + Interval[s]]
      [] Mode[s] = "calendar" -> [status |-> "active", next |-> NextCronMatch(s, at)]

Fails(row) == row.status = "active" /\ row.next = Never

\* An interval is not looked at here.
CreateSchedule(s) ==
    /\ definition[s] = Absent
    /\ FirstRun(s, now) # Never
    /\ definition' = [definition EXCEPT ![s] = [status |-> "active", next |-> FirstRun(s, now)]]
    /\ UNCHANGED <<now, occurrences, tick, faults>>

-----------------------------------------------------------------------------
(* The tick.                                                               *)

\* Faulty variant, to test KeepsInterval: next_run_at is not asked.
ActiveAtAll(s) == definition[s].status = "active"
IsDue(s) ==
    /\ definition[s].status = "active"
    /\ \/ definition[s].next = Never
       \/ definition[s].next <= now

\* TickScheduler begins: loadDueSchedules.
LoadDueSchedules(k) ==
    /\ tick[k] = NoTick
    /\ \E s \in Schedule : IsDue(s)
    /\ tick' = [tick EXCEPT ![k].left =
          {[schedule |-> s, due |-> definition[s].next] : s \in {x \in Schedule : IsDue(x)}}]
    /\ UNCHANGED <<now, definition, occurrences, faults>>

\* fireSchedule begins for one of them: time.Now of the process, not the
\* moment by which the schedule was due.
Clock(k) == IF now < Lag[k] THEN 0 ELSE now - Lag[k]
ReadClock(k) ==
    /\ tick[k].firing = {}
    /\ \E run \in tick[k].left :
          tick' = [tick EXCEPT ![k] = [left |-> @.left \ {run}, firing |-> {run}, at |-> Clock(k)]]
    /\ UNCHANGED <<now, definition, occurrences, faults>>

\* Faulty variant, to test DueIsFired: an error ends the tick.
GiveUp(k) == tick' = [tick EXCEPT ![k] = NoTick]
GoOn(k) == tick' = [tick EXCEPT ![k] = [left |-> @.left, firing |-> {}, at |-> 0]]

\* ON CONFLICT (schedule_id, occurrence_time_utc) DO NOTHING.
RecordOccurrence(run, at) ==
    occurrences' =
        IF \E x \in occurrences : x.schedule = run.schedule /\ x.at = at
        THEN occurrences
        ELSE occurrences \cup {[schedule |-> run.schedule, at |-> at, due |-> run.due]}

\* The transaction of fireSchedule: occurrence, event and next run.
FireSchedule(k) ==
    \E run \in tick[k].firing :
        LET row == ComputeNext(run.schedule, tick[k].at)
        IN  /\ ~Fails(row)
            /\ RecordOccurrence(run, tick[k].at)
            /\ definition' = [definition EXCEPT ![run.schedule] = row]
            /\ tick' = [tick EXCEPT ![k] = [left |-> @.left, firing |-> {}, at |-> 0]]
            /\ UNCHANGED <<now, faults>>

\* No next run: the transaction is rolled back and the tick goes on.
FireFails(k) ==
    /\ \E run \in tick[k].firing : Fails(ComputeNext(run.schedule, tick[k].at))
    /\ GoOn(k)
    /\ UNCHANGED <<now, definition, occurrences, faults>>

\* A transaction is lost, or the process is restarted.
Fault(k) ==
    /\ tick[k] # NoTick
    /\ faults < MaxFaults
    /\ faults' = faults + 1
    /\ \/ tick[k].firing # {} /\ GoOn(k)
       \/ tick' = [tick EXCEPT ![k] = NoTick]
    /\ UNCHANGED <<now, definition, occurrences>>

TickScheduler(k) ==
    LoadDueSchedules(k) \/ ReadClock(k) \/ FireSchedule(k) \/ FireFails(k)

Next ==
    \/ PassTime
    \/ \E s \in Schedule : CreateSchedule(s)
    \/ \E k \in Ticker : TickScheduler(k) \/ Fault(k)

Spec == Init /\ [][Next]_vars

\* Time passes, and a ticker calls TickScheduler every second, as the engine
\* calls its dispatcher.
FairSpec ==
    /\ Spec
    /\ WF_vars(PassTime)
    /\ \A k \in Ticker : WF_vars(TickScheduler(k))

-----------------------------------------------------------------------------
(* Properties.                                                             *)

TypeOK ==
    /\ now \in Nat
    /\ definition \in [Schedule -> [status : {"absent", "active", "inactive"},
                                    next : Nat \cup {Never}]]
    /\ \A s \in Schedule : definition[s].status = "active" <=> definition[s].next # Never
    /\ occurrences \subseteq [schedule : Schedule, at : Nat, due : Nat]
    /\ tick \in [Ticker -> [left : SUBSET Run, firing : SUBSET Run, at : Nat]]
    /\ faults \in Nat

\* No run of a schedule happens twice, across faults and restarts
\* (EVENTS_TRIGGERS_RULES.md, section 3).  One ticker on the database's clock
\* keeps this; two would not, nor one that is behind: the unique key is on
\* the second of the firing, not on the run.
NeverTwice ==
    \A x, y \in occurrences : x.schedule = y.schedule /\ x.due = y.due => x = y

\* Firings of a schedule with an interval are at least that far apart,
\* however late a tick is.
KeepsInterval ==
    \A x, y \in occurrences :
        x.schedule = y.schedule /\ IsInterval(x.schedule) /\ x.at < y.at =>
            x.at + Interval[x.schedule] <= y.at

\* computeNext finds a next run after every moment.
Sound(s) ==
    /\ IsInterval(s) => Interval[s] > 0
    /\ Mode[s] = "calendar" => \A at \in Start..(Start + MaxTime) : NextCronMatch(s, at) # Never

\* A schedule that is due is fired, whatever other schedules do.
DueIsFired == \A s \in Schedule : Sound(s) => (IsDue(s) ~> ~IsDue(s))
=============================================================================
