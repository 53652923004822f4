--------------------------- MODULE SchedulerProofs ---------------------------
(***************************************************************************)
(* Proofs about Scheduler: its types for any number of tickers, and for    *)
(* one ticker on the clock of the database that no run happens twice and   *)
(* that intervals are kept, whatever is lost or restarted.                 *)
(***************************************************************************)
EXTENDS Scheduler, FiniteSetTheorems, WellFoundedInduction, TLAPS

-----------------------------------------------------------------------------
(* What the properties rest on.                                            *)

\* One caller of TickScheduler, with the clock of the database.
OneTicker ==
    /\ \A j, k \in Ticker : j = k
    /\ \A k \in Ticker : Lag[k] = 0

InHand(k) == tick[k].left \cup tick[k].firing

\* What a tick has in hand is still due as it was when the tick read it.
StillDue(k) ==
    \A run \in InHand(k) :
        /\ definition[run.schedule].status = "active"
        /\ definition[run.schedule].next = run.due
        /\ run.due <= now

\* What it fires is not among what is left, and fires no sooner than due.
Firing(k) ==
    /\ tick[k].left \cap tick[k].firing = {}
    /\ \A run \in tick[k].firing : run.due <= tick[k].at

\* The next run of a schedule comes after every firing so far.
Past(x) ==
    /\ x.due <= x.at
    /\ definition[x.schedule].status # "absent"
    /\ definition[x.schedule].status = "active" =>
          /\ x.at < definition[x.schedule].next
          /\ IsInterval(x.schedule) =>
                x.at + Interval[x.schedule] <= definition[x.schedule].next

TicksSound == \A k \in Ticker : StillDue(k) /\ Firing(k)
HistorySound == \A x \in occurrences : Past(x)

SInv ==
    /\ TypeOK
    /\ TicksSound
    /\ HistorySound
    /\ NeverTwice
    /\ KeepsInterval

-----------------------------------------------------------------------------
(* The next run.                                                           *)

\* A finite set of naturals that is not empty has a least element.
LEMMA LeastExists ==
  ASSUME NEW S \in SUBSET Nat, IsFiniteSet(S), S # {}
  PROVE  \E n \in S : \A m \in S : n <= m
<1>. DEFINE Below(n) == {m \in S : m < n}
            T == {Below(n) : n \in S}
<1>1. T \subseteq FiniteSubsetsOf(S) /\ T # {}
  <2>1. \A n \in S : Below(n) \in SUBSET S
    OBVIOUS
  <2>2. \A U \in SUBSET S : IsFiniteSet(U)
    BY FS_Subset
  <2>. QED
    BY <2>1, <2>2 DEF FiniteSubsetsOf
<1>2. IsWellFoundedOn(StrictSubsetOrdering(S), FiniteSubsetsOf(S))
  BY FS_StrictSubsetOrderingWellFounded
<1>3. \E U \in T : \A V \in T : <<V, U>> \notin StrictSubsetOrdering(S)
  <2>. HIDE DEF T
  <2>. QED
    BY <1>1, <1>2, WFMin
<1>4. PICK n \in S : \A k \in S : <<Below(k), Below(n)>> \notin StrictSubsetOrdering(S)
  BY <1>3
<1>5. ASSUME NEW m \in S, ~(n <= m)
      PROVE  FALSE
  <2>1. m \in Nat /\ n \in Nat /\ m < n /\ ~(m < m) /\ \A k \in S : k < m => k < n
    BY <1>5
  <2>2. m \in Below(n) /\ m \notin Below(m) /\ Below(m) \subseteq Below(n)
    BY <2>1
  <2>3. <<Below(m), Below(n)>> \in StrictSubsetOrdering(S)
    BY <2>2 DEF StrictSubsetOrdering
  <2>. QED
    BY <1>4, <1>5, <2>3
<1>. QED
  BY <1>5

\* nextCronMatch finds nothing or a moment after its start.
LEMMA NextCronMatchAfter ==
  ASSUME NEW s \in Schedule, NEW from \in Nat
  PROVE  \/ NextCronMatch(s, from) = Never
         \/ NextCronMatch(s, from) \in Nat /\ from < NextCronMatch(s, from)
<1>. DEFINE M == Calendar[s] \cap (from + 1)..(from + Horizon)
<1>1. Calendar[s] \in SUBSET Nat /\ Horizon \in Nat
  BY ScheduleAssumption, BoundsAssumption
<1>2. M \in SUBSET Nat /\ \A t \in M : from < t
  BY <1>1
<1>3. IsFiniteSet(M)
  <2>1. IsFiniteSet((from + 1)..(from + Horizon))
    BY <1>1, FS_Interval
  <2>. QED
    BY <2>1, FS_Subset
<1>4. CASE M = {}
  BY <1>4 DEF NextCronMatch, Reached
<1>5. CASE M # {}
  <2>1. \E n \in M : \A m \in M : n <= m
    BY <1>2, <1>3, <1>5, LeastExists
  <2>2. NextCronMatch(s, from) = CHOOSE t \in M : \A u \in M : t <= u
    BY <1>5 DEF NextCronMatch, Reached
  <2>3. NextCronMatch(s, from) \in M
    <3>. HIDE DEF M
    <3>. QED
      BY <2>1, <2>2
  <2>. QED
    BY <1>2, <2>3
<1>. QED
  BY <1>4, <1>5

\* The row of a schedule that was fired is inactive, or runs next after the
\* firing and no sooner than its interval.
LEMMA ComputeNextAfter ==
  ASSUME NEW s \in Schedule, NEW at \in Nat, ~Fails(ComputeNext(s, at))
  PROVE  /\ ComputeNext(s, at) \in [status : {"absent", "active", "inactive"},
                                    next : Nat \cup {Never}]
         /\ ComputeNext(s, at).status # "absent"
         /\ ComputeNext(s, at).status = "active" <=> ComputeNext(s, at).next # Never
         /\ ComputeNext(s, at).status = "active" =>
              /\ at < ComputeNext(s, at).next
              /\ IsInterval(s) => at + Interval[s] <= ComputeNext(s, at).next
<1>1. Mode[s] \in Modes /\ Interval[s] \in Nat
  BY ScheduleAssumption
<1>2. CASE Mode[s] = "once"
  BY <1>2 DEF ComputeNext, IsInterval
<1>3. CASE IsInterval(s)
  <2>1. ComputeNext(s, at) = [status |-> "active",
                              next |-> IF Interval[s] = 0 THEN Never ELSE at + Interval[s]]
    BY <1>3 DEF ComputeNext, IsInterval
  <2>2. Interval[s] # 0
    BY <2>1 DEF Fails
  <2>. QED
    BY <1>1, <2>1, <2>2, NeverAssumption
<1>4. CASE Mode[s] = "calendar"
  <2>1. ComputeNext(s, at) = [status |-> "active", next |-> NextCronMatch(s, at)]
    BY <1>4 DEF ComputeNext, IsInterval
  <2>2. NextCronMatch(s, at) # Never
    BY <2>1 DEF Fails
  <2>3. NextCronMatch(s, at) \in Nat /\ at < NextCronMatch(s, at)
    BY <2>2, NextCronMatchAfter
  <2>. QED
    BY <1>4, <2>1, <2>2, <2>3 DEF IsInterval
<1>. QED
  BY <1>1, <1>2, <1>3, <1>4 DEF Modes, IsInterval

\* The first run, if there is one, is a moment.
LEMMA FirstRunType ==
  ASSUME NEW s \in Schedule, NEW from \in Nat, FirstRun(s, from) # Never
  PROVE  FirstRun(s, from) \in Nat
<1>1. Mode[s] \in Modes /\ RunAt[s] \in Nat
  BY ScheduleAssumption
<1>. QED
  BY <1>1, NextCronMatchAfter DEF FirstRun, Modes, IsInterval

-----------------------------------------------------------------------------
(* Types.                                                                  *)

LEMMA ClockType ==
  ASSUME TypeOK, NEW k \in Ticker
  PROVE  Clock(k) \in Nat
BY LagAssumption DEF TypeOK, Clock

LEMMA TypeStep ==
  ASSUME TypeOK, [Next]_vars
  PROVE  TypeOK'
<1>1. CASE PassTime
  BY <1>1 DEF TypeOK, PassTime
<1>2. ASSUME NEW s \in Schedule, CreateSchedule(s)
      PROVE  TypeOK'
  <2>1. FirstRun(s, now) \in Nat
    BY <1>2, FirstRunType DEF CreateSchedule, TypeOK
  <2>. QED
    BY <1>2, <2>1, NeverAssumption DEF CreateSchedule, TypeOK
<1>3. ASSUME NEW k \in Ticker, LoadDueSchedules(k)
      PROVE  TypeOK'
  <2>. DEFINE due == {[schedule |-> s, due |-> definition[s].next] :
                          s \in {x \in Schedule : IsDue(x)}}
  <2>1. \A s \in Schedule : IsDue(s) => definition[s].next \in Nat
    BY DEF TypeOK, IsDue
  <2>2. due \in SUBSET Run
    BY <2>1 DEF Run
  <2>3. tick' = [tick EXCEPT ![k].left = due]
        /\ UNCHANGED <<now, definition, occurrences, faults>>
    BY <1>3 DEF LoadDueSchedules
  <2>. HIDE DEF due
  <2>4. tick' \in [Ticker -> [left : SUBSET Run, firing : SUBSET Run, at : Nat]]
    BY <2>2, <2>3 DEF TypeOK
  <2>. QED
    BY <2>3, <2>4 DEF TypeOK
<1>4. ASSUME NEW k \in Ticker, ReadClock(k)
      PROVE  TypeOK'
  <2>1. PICK run \in tick[k].left :
            tick' = [tick EXCEPT ![k] = [left |-> @.left \ {run}, firing |-> {run}, at |-> Clock(k)]]
    BY <1>4 DEF ReadClock
  <2>2. run \in Run /\ Clock(k) \in Nat
    BY <2>1, ClockType DEF TypeOK
  <2>3. tick' \in [Ticker -> [left : SUBSET Run, firing : SUBSET Run, at : Nat]]
    BY <2>1, <2>2 DEF TypeOK
  <2>. QED
    BY <1>4, <2>3 DEF TypeOK, ReadClock
<1>5. ASSUME NEW k \in Ticker, FireSchedule(k)
      PROVE  TypeOK'
  <2>. DEFINE row(run) == ComputeNext(run.schedule, tick[k].at)
  <2>1. PICK run \in tick[k].firing :
            /\ ~Fails(row(run))
            /\ RecordOccurrence(run, tick[k].at)
            /\ definition' = [definition EXCEPT ![run.schedule] = row(run)]
            /\ tick' = [tick EXCEPT ![k] = [left |-> @.left, firing |-> {}, at |-> 0]]
            /\ UNCHANGED <<now, faults>>
    BY <1>5 DEF FireSchedule
  <2>2. run.schedule \in Schedule /\ run.due \in Nat /\ tick[k].at \in Nat
    BY <2>1 DEF TypeOK, Run
  <2>3. occurrences' \subseteq [schedule : Schedule, at : Nat, due : Nat]
    BY <2>1, <2>2 DEF TypeOK, RecordOccurrence
  <2>4. /\ row(run) \in [status : {"absent", "active", "inactive"}, next : Nat \cup {Never}]
        /\ row(run).status = "active" <=> row(run).next # Never
    BY <2>1, <2>2, ComputeNextAfter
  <2>. HIDE DEF row
  <2>5. /\ definition' \in [Schedule -> [status : {"absent", "active", "inactive"},
                                         next : Nat \cup {Never}]]
        /\ \A s \in Schedule : definition'[s].status = "active" <=> definition'[s].next # Never
    BY <2>1, <2>2, <2>4 DEF TypeOK
  <2>6. tick' \in [Ticker -> [left : SUBSET Run, firing : SUBSET Run, at : Nat]]
    BY <2>1 DEF TypeOK
  <2>. QED
    BY <2>1, <2>3, <2>5, <2>6 DEF TypeOK
<1>6. ASSUME NEW k \in Ticker, GoOn(k) \/ tick' = [tick EXCEPT ![k] = NoTick],
             UNCHANGED <<now, definition, occurrences>>, faults' \in Nat
      PROVE  TypeOK'
  BY <1>6 DEF TypeOK, GoOn, NoTick
<1>7. ASSUME NEW k \in Ticker, FireFails(k) \/ Fault(k)
      PROVE  TypeOK'
  BY <1>6, <1>7 DEF FireFails, Fault, TypeOK
<1>8. CASE UNCHANGED vars
  BY <1>8 DEF TypeOK, vars
<1>. QED
  BY <1>1, <1>2, <1>3, <1>4, <1>5, <1>7, <1>8 DEF Next, TickScheduler

LEMMA TypeInit == Init => TypeOK
BY NeverAssumption, BoundsAssumption DEF Init, TypeOK, Absent, NoTick

\* Every variable has the type of its table or of a tick, and a schedule is
\* active exactly when it has a next run, however many tick.
THEOREM TypeCorrect == Spec => []TypeOK
BY TypeInit, TypeStep, PTL DEF Spec

-----------------------------------------------------------------------------
(* One ticker on the clock of the database.                                *)

\* A run in hand of a sound tick is the only one of its schedule.
LEMMA OneRunOfASchedule ==
  ASSUME TypeOK, TicksSound, NEW k \in Ticker,
         NEW a \in InHand(k), NEW b \in InHand(k), a.schedule = b.schedule
  PROVE  a = b
<1>1. a \in [schedule : Schedule, due : Nat] /\ b \in [schedule : Schedule, due : Nat]
  BY DEF TypeOK, InHand, Run
<1>2. a.due = definition[a.schedule].next /\ b.due = definition[b.schedule].next
  BY DEF TicksSound, StillDue
<1>. QED
  BY <1>1, <1>2

LEMMA PassTimeSound ==
  ASSUME SInv, PassTime
  PROVE  SInv'
<1>1. TypeOK /\ TypeOK'
  BY TypeStep DEF SInv, Next
<1>2. UNCHANGED <<definition, occurrences, tick>> /\ now' = now + 1
  BY DEF PassTime
<1>3. TicksSound'
  <2>1. \A k \in Ticker : \A run \in InHand(k) : run.due \in Nat
    BY <1>1 DEF TypeOK, InHand, Run
  <2>. QED
    BY <1>1, <1>2, <2>1 DEF SInv, TicksSound, StillDue, Firing, InHand, TypeOK
<1>. QED
  BY <1>1, <1>2, <1>3 DEF SInv, HistorySound, Past, NeverTwice, KeepsInterval

LEMMA CreateScheduleSound ==
  ASSUME SInv, NEW s \in Schedule, CreateSchedule(s)
  PROVE  SInv'
<1>1. TypeOK /\ TypeOK'
  BY TypeStep DEF SInv, Next
<1>2. /\ UNCHANGED <<now, occurrences, tick>>
      /\ definition[s] = Absent
      /\ \A x \in Schedule : x # s => definition'[x] = definition[x]
  BY <1>1 DEF CreateSchedule, TypeOK
<1>3. TicksSound'
  <2>1. ASSUME NEW k \in Ticker, NEW run \in InHand(k)
        PROVE  run.schedule \in Schedule /\ run.schedule # s
    BY <2>1, <1>1, <1>2 DEF SInv, TicksSound, StillDue, InHand, TypeOK, Run, Absent
  <2>. QED
    BY <1>2, <2>1 DEF SInv, TicksSound, StillDue, Firing, InHand
<1>4. HistorySound'
  <2>1. ASSUME NEW x \in occurrences
        PROVE  x.schedule \in Schedule /\ x.schedule # s
    BY <2>1, <1>1, <1>2 DEF SInv, HistorySound, Past, TypeOK, Absent
  <2>. QED
    BY <1>2, <2>1 DEF SInv, HistorySound, Past
<1>. QED
  BY <1>1, <1>2, <1>3, <1>4 DEF SInv, NeverTwice, KeepsInterval

\* A step of the one ticker that leaves the tables alone.
LEMMA TickStep ==
  ASSUME SInv, OneTicker, NEW k \in Ticker, TypeOK',
         UNCHANGED <<now, definition, occurrences>>,
         StillDue(k)', Firing(k)'
  PROVE  SInv'
<1>1. TicksSound'
  BY DEF OneTicker, TicksSound
<1>. QED
  BY <1>1 DEF SInv, HistorySound, Past, NeverTwice, KeepsInterval

LEMMA LoadDueSound ==
  ASSUME SInv, OneTicker, NEW k \in Ticker, LoadDueSchedules(k)
  PROVE  SInv'
<1>. DEFINE due == {[schedule |-> s, due |-> definition[s].next] :
                        s \in {x \in Schedule : IsDue(x)}}
<1>1. TypeOK /\ TypeOK'
  BY TypeStep DEF SInv, Next, TickScheduler
<1>2. ASSUME NEW run \in due
      PROVE  /\ definition[run.schedule].status = "active"
             /\ definition[run.schedule].next = run.due
             /\ run.due <= now
  BY <1>1, <1>2 DEF IsDue, TypeOK
<1>3. /\ tick = [tick EXCEPT ![k] = NoTick]
      /\ tick' = [tick EXCEPT ![k].left = due]
      /\ UNCHANGED <<now, definition, occurrences>>
  BY <1>1 DEF LoadDueSchedules, TypeOK
<1>. HIDE DEF due
<1>4. tick'[k].left = due /\ tick'[k].firing = {}
  BY <1>1, <1>3 DEF TypeOK, NoTick
<1>5. StillDue(k)' /\ Firing(k)'
  BY <1>2, <1>3, <1>4 DEF StillDue, Firing, InHand
<1>. QED
  BY <1>1, <1>3, <1>5, TickStep

LEMMA ReadClockSound ==
  ASSUME SInv, OneTicker, NEW k \in Ticker, ReadClock(k)
  PROVE  SInv'
<1>1. TypeOK /\ TypeOK'
  BY TypeStep DEF SInv, Next, TickScheduler
<1>2. PICK run \in tick[k].left :
          tick' = [tick EXCEPT ![k] = [left |-> @.left \ {run}, firing |-> {run}, at |-> Clock(k)]]
  BY DEF ReadClock
<1>3. UNCHANGED <<now, definition, occurrences>> /\ tick[k].firing = {}
  BY DEF ReadClock
<1>4. /\ tick'[k].left = tick[k].left \ {run}
      /\ tick'[k].firing = {run}
      /\ tick'[k].at = now
  <2>1. Clock(k) = now
    BY <1>1 DEF OneTicker, Clock, TypeOK
  <2>. QED
    BY <1>1, <1>2, <2>1 DEF TypeOK
<1>5. StillDue(k)' /\ Firing(k)'
  BY <1>2, <1>3, <1>4 DEF SInv, TicksSound, StillDue, Firing, InHand
<1>. QED
  BY <1>1, <1>3, <1>5, TickStep

\* The tick goes on, or ends.
LEMMA GoOnSound ==
  ASSUME SInv, OneTicker, NEW k \in Ticker, FireFails(k) \/ Fault(k)
  PROVE  SInv'
<1>1. TypeOK /\ TypeOK'
  BY TypeStep DEF SInv, Next, TickScheduler
<1>2. UNCHANGED <<now, definition, occurrences>>
  BY DEF FireFails, Fault
<1>3. tick'[k].left \subseteq tick[k].left /\ tick'[k].firing = {}
  BY <1>1 DEF FireFails, Fault, GoOn, NoTick, TypeOK
<1>4. StillDue(k)' /\ Firing(k)'
  BY <1>2, <1>3 DEF SInv, TicksSound, StillDue, Firing, InHand
<1>. QED
  BY <1>1, <1>2, <1>4, TickStep

\* The transaction of fireSchedule: the new firing comes after all those of
\* its schedule, and its run is none of theirs.
LEMMA FireScheduleSound ==
  ASSUME SInv, OneTicker, NEW k \in Ticker, FireSchedule(k)
  PROVE  SInv'
<1>. DEFINE at == tick[k].at
            row(run) == ComputeNext(run.schedule, at)
            new(run) == [schedule |-> run.schedule, at |-> at, due |-> run.due]
<1>1. TypeOK /\ TypeOK'
  BY TypeStep DEF SInv, Next, TickScheduler
<1>2. PICK run \in tick[k].firing :
          /\ ~Fails(row(run))
          /\ RecordOccurrence(run, at)
          /\ definition' = [definition EXCEPT ![run.schedule] = row(run)]
          /\ tick' = [tick EXCEPT ![k] = [left |-> @.left, firing |-> {}, at |-> 0]]
          /\ UNCHANGED <<now, faults>>
  BY DEF FireSchedule
<1>3. run \in InHand(k) /\ run.schedule \in Schedule /\ run.due \in Nat /\ at \in Nat
  BY <1>1, <1>2 DEF TypeOK, Run, InHand
<1>4. /\ definition[run.schedule].status = "active"
      /\ definition[run.schedule].next = run.due
      /\ run.due <= at
  BY <1>2, <1>3 DEF SInv, TicksSound, StillDue, Firing
<1>5. ASSUME NEW x \in occurrences, x.schedule = run.schedule
      PROVE  /\ x.at < at
             /\ x.due < run.due
             /\ IsInterval(x.schedule) => x.at + Interval[x.schedule] <= at
             /\ x.at \in Nat /\ Interval[x.schedule] \in Nat
  <2>1. x.at \in Nat /\ x.due \in Nat /\ Interval[x.schedule] \in Nat
    BY <1>1, <1>3, <1>5, ScheduleAssumption DEF TypeOK
  <2>2. /\ x.due <= x.at
        /\ x.at < run.due
        /\ IsInterval(x.schedule) => x.at + Interval[x.schedule] <= run.due
    BY <1>4, <1>5 DEF SInv, HistorySound, Past
  <2>. QED
    BY <1>3, <1>4, <2>1, <2>2
<1>6. occurrences' = occurrences \cup {new(run)}
  BY <1>2, <1>3, <1>5 DEF RecordOccurrence
<1>7. /\ row(run).status # "absent"
      /\ row(run).status = "active" =>
            /\ at < row(run).next
            /\ row(run).next \in Nat
            /\ IsInterval(run.schedule) => at + Interval[run.schedule] <= row(run).next
  <2>1. ComputeNext(run.schedule, at).next \in Nat \cup {Never}
    BY <1>2, <1>3, ComputeNextAfter
  <2>. QED
    BY <1>2, <1>3, <2>1, ComputeNextAfter
<1>. HIDE DEF row
<1>8. /\ definition'[run.schedule] = row(run)
      /\ \A s \in Schedule : s # run.schedule => definition'[s] = definition[s]
  BY <1>1, <1>2, <1>3 DEF TypeOK
<1>9. TicksSound'
  <2>1. tick'[k].left = tick[k].left /\ tick'[k].firing = {}
    BY <1>1, <1>2 DEF TypeOK
  <2>2. ASSUME NEW r \in tick[k].left
        PROVE  r.schedule \in Schedule /\ r.schedule # run.schedule
    <3>1. r # run /\ r \in InHand(k)
      BY <1>2, <2>2 DEF SInv, TicksSound, Firing, InHand
    <3>. QED
      BY <1>1, <1>3, <2>2, <3>1, OneRunOfASchedule DEF SInv, TypeOK, Run
  <2>3. StillDue(k)' /\ Firing(k)'
    BY <1>2, <1>8, <2>1, <2>2 DEF SInv, TicksSound, StillDue, Firing, InHand
  <2>. QED
    BY <2>3 DEF OneTicker, TicksSound
<1>10. HistorySound'
  <2>1. ASSUME NEW x \in occurrences, x.schedule # run.schedule
        PROVE  Past(x)'
    BY <1>1, <1>8, <2>1 DEF SInv, HistorySound, Past, TypeOK
  <2>2. ASSUME NEW x \in occurrences, x.schedule = run.schedule
        PROVE  Past(x)'
    <3>1. x.due <= x.at
      BY DEF SInv, HistorySound, Past
    <3>. QED
      BY <1>3, <1>5, <1>7, <1>8, <2>2, <3>1 DEF Past
  <2>3. ASSUME NEW x, x = new(run)
        PROVE  Past(x)'
    BY <1>4, <1>7, <1>8, <2>3 DEF Past
  <2>. QED
    BY <1>6, <2>1, <2>2, <2>3 DEF HistorySound
<1>11. NeverTwice'
  <2>1. ASSUME NEW x \in occurrences, x.schedule = run.schedule
        PROVE  x.due # run.due
    BY <1>1, <1>3, <1>5, <2>1 DEF TypeOK
  <2>. QED
    BY <1>6, <2>1 DEF SInv, NeverTwice
<1>12. KeepsInterval'
  <2>1. ASSUME NEW x \in occurrences, x.schedule = run.schedule
        PROVE  /\ IsInterval(x.schedule) => x.at + Interval[x.schedule] <= at
               /\ ~(at < x.at)
    BY <1>3, <1>5, <2>1
  <2>. QED
    BY <1>3, <1>6, <2>1 DEF SInv, KeepsInterval
<1>. QED
  BY <1>1, <1>9, <1>10, <1>11, <1>12 DEF SInv

LEMMA InvariantStep ==
  ASSUME SInv, OneTicker, [Next]_vars
  PROVE  SInv'
<1>1. CASE UNCHANGED vars
  BY <1>1
  DEF vars, SInv, TypeOK, TicksSound, StillDue, Firing, InHand, HistorySound, Past,
      NeverTwice, KeepsInterval
<1>. QED
  BY <1>1, PassTimeSound, CreateScheduleSound, LoadDueSound, ReadClockSound,
     FireScheduleSound, GoOnSound
  DEF Next, TickScheduler

LEMMA InvariantInit == Init => SInv
<1>1. Init => TicksSound /\ HistorySound /\ NeverTwice /\ KeepsInterval
  BY DEF Init, NoTick, TicksSound, StillDue, Firing, InHand, HistorySound, NeverTwice,
         KeepsInterval
<1>. QED
  BY <1>1, TypeInit DEF SInv

\* What the tables and the tick keep at every step.
THEOREM Invariant ==
  ASSUME OneTicker
  PROVE  Spec => []SInv
<1>1. SInv /\ [Next]_vars => SInv'
  BY InvariantStep
<1>. QED
  BY <1>1, InvariantInit, PTL DEF Spec

\* With one ticker on the clock of the database no run of a schedule happens
\* twice, whatever transactions are lost and however often it is restarted.
THEOREM NoRunTwice ==
  ASSUME OneTicker
  PROVE  Spec => []NeverTwice
<1>1. SInv => NeverTwice
  BY DEF SInv
<1>. QED
  BY <1>1, Invariant, PTL

\* Firings of such a schedule are never closer than its interval.
THEOREM IntervalIsKept ==
  ASSUME OneTicker
  PROVE  Spec => []KeepsInterval
<1>1. SInv => KeepsInterval
  BY DEF SInv
<1>. QED
  BY <1>1, Invariant, PTL
=============================================================================
