-------------------------- MODULE MetricsGateProofs --------------------------
(***************************************************************************)
(* Proofs about MetricsGate, for any number of phases, baselines,          *)
(* collectors and currencies and any costs: the type invariant, that a     *)
(* fresh observation is exact, that the quiet system shows the current     *)
(* inputs, that a project keeps one approved baseline, and that a gate     *)
(* holds the limit.                                                        *)
(***************************************************************************)
EXTENDS MetricsGate, FiniteSetTheorems, TLAPS

-----------------------------------------------------------------------------
(* What the properties rest on.                                            *)

OneApproved == \A a, b \in Approved : a = b

\* Every handler that runs has a delivery that is not done.
Counted == Cardinality(Busy) <= pending

\* Nothing was computed from inputs to come.
VersionsSound ==
    /\ latest.version <= version
    /\ \A c \in Collector : collector[c].obs.version <= version

\* What is known of an observation while the inputs stay at its version.
Based(obs) == obs.version = version => Approved # {} /\ obs.baseline = CurrentBaseline
Complete(obs) == obs.version = version => CostsComplete(CurrentBaseline)
Exact(obs) == obs.version = version => obs.value = EarnedValue

ComputationSound(c) ==
    LET obs == collector[c].obs
    IN  /\ At(c, "idle") => obs = Nothing
        /\ collector[c].stage \in {"claimed", "versioned", "based", "validated"} =>
              obs.quality # "valid"
        /\ collector[c].stage \in {"based", "validated", "computed"} => Based(obs)
        /\ collector[c].stage \in {"validated", "computed"} => Complete(obs)
        /\ At(c, "computed") => Exact(obs)
        /\ At(c, "recorded") /\ obs.quality = "valid" => Based(obs) /\ Complete(obs) /\ Exact(obs)
ObservationsSound ==
    /\ \A c \in Collector : ComputationSound(c)
    /\ latest.quality = "valid" => Based(latest) /\ Complete(latest) /\ Exact(latest)

\* A computation that has not read the version or read the current one.
UpToDate(c) == At(c, "claimed") \/ collector[c].obs.version = version
Leads(c) ==
    /\ collector[c].obs.at > 0
    /\ \A d \in Busy : collector[d].obs.at >= collector[c].obs.at => UpToDate(d)
LatestLeads ==
    /\ latest.version = version
    /\ \A d \in Busy : collector[d].obs.at > 0 => UpToDate(d)
\* The last of the observations, recorded or on the way, is of the current
\* inputs, or a delivery nobody has claimed yet will lead to one.
Accounted ==
    \/ pending > Cardinality(Busy)
    \/ \E c \in Busy : Leads(c)
    \/ LatestLeads

\* The facts a phase is judged by hold while its gate is open, at their rate,
\* and a rate that was replaced does not come back.
GateFactsSound(p) ==
    gate[p].stage # "none" =>
        /\ gate[p].facts.rate = rate => gate[p].facts.cost = Cost(p)
        /\ gate[p].facts.rate = ProjectRate => rate = ProjectRate
GateSound == \A p \in Phase : GateFactsSound(p)

MetricsSound ==
    /\ Counted
    /\ VersionsSound
    /\ ObservationsSound
    /\ Accounted

MInv ==
    /\ TypeOK
    /\ OneApproved
    /\ MetricsSound
    /\ GateSound

-----------------------------------------------------------------------------
(* Types.                                                                  *)

\* A finite set of naturals that is not empty has a greatest element.
LEMMA GreatestExists ==
  ASSUME NEW S \in SUBSET Nat, IsFiniteSet(S), S # {}
  PROVE  \E n \in S : \A m \in S : m <= n
<1>. DEFINE Above(n) == {m \in S : m > n}
            T == {Above(n) : n \in S}
<1>1. T \subseteq FiniteSubsetsOf(S) /\ T # {}
  <2>1. \A n \in S : Above(n) \in SUBSET S
    OBVIOUS
  <2>2. \A U \in SUBSET S : IsFiniteSet(U)
    BY FS_Subset
  <2>. QED
    BY <2>1, <2>2 DEF FiniteSubsetsOf
<1>2. IsWellFoundedOn(StrictSubsetOrdering(S), FiniteSubsetsOf(S))
  BY FS_StrictSubsetOrderingWellFounded
<1>3. \E U \in T : \A V \in T : <<V, U>> \notin StrictSubsetOrdering(S)
  <2>. HIDE DEF T
  <2>. QED
    BY <1>1, <1>2, WFMin
<1>4. PICK n \in S : \A k \in S : <<Above(k), Above(n)>> \notin StrictSubsetOrdering(S)
  BY <1>3
<1>5. ASSUME NEW m \in S, ~(m <= n)
      PROVE  FALSE
  <2>1. m \in Nat /\ n \in Nat /\ m > n /\ ~(m > m) /\ \A k \in S : k > m => k > n
    BY <1>5
  <2>2. m \in Above(n) /\ m \notin Above(m) /\ Above(m) \subseteq Above(n)
    BY <2>1
  <2>3. <<Above(m), Above(n)>> \in StrictSubsetOrdering(S)
    BY <2>2 DEF StrictSubsetOrdering
  <2>. QED
    BY <1>4, <1>5, <2>3
<1>. QED
  BY <1>5

LEMMA BusyFinite ==
  /\ IsFiniteSet(Busy)
  /\ Cardinality(Busy) \in Nat
  BY SetsAssumption, FS_Subset, FS_CardinalityType DEF Busy

\* Newest is no less than the time of any computation.
LEMMA NewestType ==
  ASSUME TypeOK
  PROVE  Newest \in Nat /\ \A c \in Busy : collector[c].obs.at <= Newest
<1>. DEFINE f == [c \in Busy |-> collector[c].obs.at]
            S == {collector[c].obs.at : c \in Busy}
            ats == {0} \cup S
<1>1. \A c \in Busy : collector[c].obs.at \in Nat
  BY DEF TypeOK, Busy, Observation
<1>2. IsFiniteSet(S)
  <2>1. f \in Surjection(Busy, S)
    BY DEF Surjection
  <2>. QED
    BY <2>1, BusyFinite, FS_Surjection
<1>3. IsFiniteSet(ats) /\ ats \subseteq Nat /\ ats # {}
  <2>1. S \subseteq Nat
    BY <1>1
  <2>. HIDE DEF S
  <2>2. IsFiniteSet(S \cup {0}) /\ S \cup {0} = ats
    BY <1>2, FS_AddElement
  <2>. QED
    BY <2>1, <2>2
<1>4. \E n \in ats : \A m \in ats : m <= n
  <2>. HIDE DEF ats
  <2>. QED
    BY <1>3, GreatestExists
<1>5. Newest = CHOOSE n \in ats : \A m \in ats : m <= n
  BY DEF Newest
<1>6. Newest \in ats /\ \A m \in ats : m <= Newest
  BY <1>4, <1>5
<1>. QED
  BY <1>3, <1>6

\* The approved baseline.
LEMMA CurrentType ==
  /\ CurrentBaseline \in Baseline \cup {None}
  /\ Approved # {} => CurrentBaseline \in Approved
  BY DEF CurrentBaseline, Approved

LEMMA CostType ==
  ASSUME TypeOK
  PROVE  (\A p \in Phase : Cost(p) \in Nat) /\ EarnedValue \in Value
<1>1. ASSUME NEW p \in Phase
      PROVE  Cost(p) \in Nat
  <2>. DEFINE S == {e \in expenses : e[1] = p}
  <2>1. IsFiniteSet(Phase \X Currency)
    BY SetsAssumption, FS_Product
  <2>2. S \subseteq Phase \X Currency
    BY DEF TypeOK
  <2>3. Cardinality(S) \in Nat
    BY <2>1, <2>2, FS_Subset, FS_CardinalityType
  <2>4. hours[p] \in Nat /\ rate \in Nat /\ ExpenseAmount \in Nat
    BY CostAssumption DEF TypeOK
  <2>5. hours[p] * rate \in Nat
    BY <2>4
  <2>6. ExpenseAmount * Cardinality(S) \in Nat
    <3>. HIDE DEF S
    <3>. QED
      BY <2>3, <2>4
  <2>. QED
    BY <2>5, <2>6 DEF Cost
<1>2. (IF delivered THEN {link} \ {None} ELSE {}) \in SUBSET Phase
  BY DEF TypeOK
<1>. QED
  BY <1>1, <1>2 DEF EarnedValue, Value

LEMMA NothingType == Nothing \in Observation /\ NoGate.stage = "none" /\ Nothing.at = 0
  BY DEF Nothing, Observation, NoValue, Value, Quality, NoGate

-----------------------------------------------------------------------------
(* What is known of the observations.                                      *)

\* Nothing changes for the observations while no input does.
LEMMA InputsKept ==
  ASSUME MetricsSound, UNCHANGED <<metrics, version, pending, hours, expenses, rate, link, delivered>>,
         Approved' = Approved
  PROVE  MetricsSound'
<1>1. UNCHANGED <<collector, latest>> /\ CurrentBaseline' = CurrentBaseline
  BY DEF metrics, CurrentBaseline
<1>2. EarnedValue' = EarnedValue /\ CostsComplete(CurrentBaseline)' = CostsComplete(CurrentBaseline)
  BY <1>1 DEF EarnedValue, Cost, CostsComplete
<1>3. Busy' = Busy
  BY <1>1 DEF Busy, At
<1>4. Counted' /\ VersionsSound'
  BY <1>1, <1>3 DEF MetricsSound, Counted, VersionsSound
<1>5. Accounted'
  BY <1>1, <1>3 DEF MetricsSound, Accounted, Leads, LatestLeads, UpToDate, At
<1>6. ObservationsSound'
  <2>1. ASSUME NEW c \in Collector
        PROVE  ComputationSound(c)'
    BY <1>1, <1>2 DEF MetricsSound, ObservationsSound, ComputationSound, Based, Complete, Exact, At
  <2>2. (latest.quality = "valid" => Based(latest) /\ Complete(latest) /\ Exact(latest))'
    BY <1>1, <1>2 DEF MetricsSound, ObservationsSound, Based, Complete, Exact
  <2>. QED
    BY <2>1, <2>2 DEF ObservationsSound
<1>. QED
  BY <1>4, <1>5, <1>6 DEF MetricsSound

\* A change of the inputs makes every observation one of older inputs and
\* leaves a delivery nobody has claimed.
LEMMA InputsChanged ==
  ASSUME TypeOK, MetricsSound, EmitInputsChanged, UNCHANGED metrics
  PROVE  MetricsSound' /\ version' \in Nat /\ pending' \in Nat
<1>1. /\ UNCHANGED <<collector, latest>>
      /\ version \in Nat /\ pending \in Nat /\ version' = version + 1 /\ pending' = pending + 1
      /\ latest.version \in Nat /\ \A c \in Collector : collector[c].obs.version \in Nat
  BY DEF TypeOK, metrics, EmitInputsChanged, Observation
<1>2. Busy' = Busy
  BY <1>1 DEF Busy, At
<1>3. Counted' /\ Accounted'
  BY <1>1, <1>2, BusyFinite DEF MetricsSound, Counted, Accounted
<1>4. latest.version <= version /\ \A c \in Collector : collector[c].obs.version <= version
  BY DEF MetricsSound, VersionsSound
<1>5. latest.version # version' /\ \A c \in Collector : collector[c].obs.version # version'
  BY <1>1, <1>4
<1>6. VersionsSound'
  BY <1>1, <1>4 DEF VersionsSound
<1>7. ObservationsSound'
  <2>1. ASSUME NEW c \in Collector
        PROVE  ComputationSound(c)'
    BY <1>1, <1>5 DEF MetricsSound, ObservationsSound, ComputationSound, Based, Complete, Exact, At
  <2>2. (latest.quality = "valid" => Based(latest) /\ Complete(latest) /\ Exact(latest))'
    BY <1>1, <1>5 DEF Based, Complete, Exact
  <2>. QED
    BY <2>1, <2>2 DEF ObservationsSound
<1>. QED
  BY <1>1, <1>3, <1>6, <1>7 DEF MetricsSound

-----------------------------------------------------------------------------
(* The collector.                                                          *)

\* A computation moves on and no other does.
LEMMA CollectorMoved ==
  ASSUME TypeOK, NEW c \in Collector, NEW stage \in Stage, NEW obs \in Observation,
         Move(c, stage, obs)
  PROVE  /\ collector' \in [Collector -> [stage : Stage, obs : Observation]]
         /\ collector'[c].stage = stage /\ collector'[c].obs = obs
         /\ \A d \in Collector \ {c} : collector'[d] = collector[d]
  BY DEF TypeOK, Move

\* A computation that goes on with the version it read.
LEMMA StillBusy ==
  ASSUME TypeOK, MetricsSound, NEW c \in Busy, NEW stage \in Stage \ {"idle", "claimed"},
         NEW obs \in Observation, Move(c, stage, obs), UNCHANGED <<Elsewhere, pending, latest>>,
         obs.at = collector[c].obs.at, obs.version <= version,
         UpToDate(c) => obs.version = version, ComputationSound(c)'
  PROVE  TypeOK' /\ MetricsSound'
<1>1. c \in Collector /\ ~At(c, "idle")
  BY DEF Busy
<1>2. /\ collector' \in [Collector -> [stage : Stage, obs : Observation]]
      /\ collector'[c].stage = stage /\ collector'[c].obs = obs
      /\ \A d \in Collector \ {c} : collector'[d] = collector[d]
  BY <1>1, CollectorMoved
<1>3. UNCHANGED <<phase, hours, expenses, rate, link, delivered, generation, baseline, approval,
                  version, gate, pending, latest>>
  BY DEF Elsewhere, inputs, baselines
<1>4. TypeOK'
  BY <1>2, <1>3 DEF TypeOK
<1>5. Busy' = Busy
  BY <1>1, <1>2 DEF Busy, At
<1>6. Counted' /\ VersionsSound'
  BY <1>2, <1>3, <1>5 DEF MetricsSound, Counted, VersionsSound
<1>7. /\ \A d \in Busy : collector'[d].obs.at = collector[d].obs.at
      /\ \A d \in Busy : UpToDate(d) => UpToDate(d)'
  BY <1>1, <1>2, <1>3 DEF Busy, UpToDate, At
<1>8. Accounted'
  BY <1>3, <1>5, <1>7 DEF MetricsSound, Accounted, Leads, LatestLeads
<1>9. CurrentBaseline' = CurrentBaseline /\ Approved' = Approved /\ EarnedValue' = EarnedValue
      /\ CostsComplete(CurrentBaseline)' = CostsComplete(CurrentBaseline)
  BY <1>3 DEF CurrentBaseline, Approved, EarnedValue, Cost, CostsComplete
<1>10. ObservationsSound'
  <2>1. ASSUME NEW d \in Collector \ {c}
        PROVE  ComputationSound(d)'
    BY <1>2, <1>3, <1>9
    DEF MetricsSound, ObservationsSound, ComputationSound, Based, Complete, Exact, At
  <2>2. (latest.quality = "valid" => Based(latest) /\ Complete(latest) /\ Exact(latest))'
    BY <1>3, <1>9 DEF MetricsSound, ObservationsSound, Based, Complete, Exact
  <2>. QED
    BY <1>1, <2>1, <2>2 DEF ObservationsSound
<1>. QED
  BY <1>4, <1>6, <1>8, <1>10 DEF MetricsSound

LEMMA ReadVersionSound ==
  ASSUME TypeOK, MetricsSound, NEW c \in Collector, ReadVersion(c)
  PROVE  TypeOK' /\ MetricsSound'
<1>. DEFINE obs == [collector[c].obs EXCEPT !.version = version]
<1>1. /\ collector[c].obs \in Observation /\ version \in Nat /\ At(c, "claimed")
      /\ Move(c, "versioned", obs) /\ UNCHANGED <<Elsewhere, pending, latest>>
  BY DEF TypeOK, ReadVersion
<1>2. obs \in Observation /\ obs.at = collector[c].obs.at /\ obs.version = version
      /\ obs.quality = collector[c].obs.quality
  BY <1>1 DEF Observation
<1>. HIDE DEF obs
<1>3. c \in Busy
  BY <1>1 DEF Busy, At
<1>4. collector'[c].stage = "versioned" /\ collector'[c].obs = obs
  BY <1>1, <1>2, CollectorMoved DEF Stage
<1>5. ComputationSound(c)'
  BY <1>1, <1>2, <1>4 DEF MetricsSound, ObservationsSound, ComputationSound, At
<1>6. version <= version
  BY <1>1
<1>. QED
  BY <1>1, <1>2, <1>3, <1>5, <1>6, StillBusy DEF Stage

\* What the actions after ReadVersion share: the version is kept.
LEMMA VersionKept ==
  ASSUME TypeOK, MetricsSound, NEW c \in Collector,
         NEW stage \in Stage \ {"idle", "claimed"}, NEW obs \in Observation,
         ~At(c, "idle"), ~At(c, "claimed"),
         Move(c, stage, obs), UNCHANGED <<Elsewhere, pending, latest>>,
         obs.at = collector[c].obs.at, obs.version = collector[c].obs.version,
         /\ stage \in {"based", "validated"} => obs.quality # "valid"
         /\ stage \in {"based", "validated", "computed"} => Based(obs)
         /\ stage \in {"validated", "computed"} => Complete(obs)
         /\ stage = "computed" => Exact(obs)
         /\ stage = "recorded" /\ obs.quality = "valid" => Based(obs) /\ Complete(obs) /\ Exact(obs),
         stage # "versioned"
  PROVE  TypeOK' /\ MetricsSound'
<1>1. c \in Busy
  BY DEF Busy
<1>2. collector'[c].stage = stage /\ collector'[c].obs = obs
  BY CollectorMoved
<1>3. UNCHANGED <<hours, expenses, rate, link, delivered, baseline, version>>
  BY DEF Elsewhere, inputs, baselines
<1>4. CurrentBaseline' = CurrentBaseline /\ Approved' = Approved /\ EarnedValue' = EarnedValue
      /\ CostsComplete(CurrentBaseline)' = CostsComplete(CurrentBaseline)
  BY <1>3 DEF CurrentBaseline, Approved, EarnedValue, Cost, CostsComplete
<1>5. ComputationSound(c)'
  BY <1>2, <1>3, <1>4 DEF ComputationSound, At, Based, Complete, Exact
<1>6. obs.version <= version
  BY DEF MetricsSound, VersionsSound
<1>7. UpToDate(c) => obs.version = version
  BY DEF UpToDate
<1>. QED
  BY <1>1, <1>5, <1>6, <1>7, StillBusy

LEMMA ReadBaselineSound ==
  ASSUME TypeOK, MetricsSound, NEW c \in Collector, ReadBaseline(c)
  PROVE  TypeOK' /\ MetricsSound'
<1>. DEFINE obs == [collector[c].obs EXCEPT !.baseline = CurrentBaseline, !.generation = generation]
<1>1. /\ collector[c].obs \in Observation /\ generation \in Nat /\ At(c, "versioned")
      /\ IF Approved = {} THEN Move(c, "recorded", obs) ELSE Move(c, "based", obs)
      /\ UNCHANGED <<Elsewhere, pending, latest>>
  BY DEF TypeOK, ReadBaseline
<1>2. /\ obs \in Observation /\ obs.at = collector[c].obs.at
      /\ obs.version = collector[c].obs.version /\ obs.quality = collector[c].obs.quality
      /\ obs.baseline = CurrentBaseline
  BY <1>1, CurrentType DEF Observation
<1>. HIDE DEF obs
<1>3. obs.quality # "valid" /\ ~At(c, "idle") /\ ~At(c, "claimed")
  BY <1>1, <1>2 DEF MetricsSound, ObservationsSound, ComputationSound, At
<1>4. CASE Approved = {}
  BY <1>1, <1>2, <1>3, <1>4, VersionKept DEF Stage
<1>5. CASE Approved # {}
  <2>1. Based(obs)
    BY <1>2, <1>5 DEF Based
  <2>. QED
    BY <1>1, <1>2, <1>3, <1>5, <2>1, VersionKept DEF Stage
<1>. QED
  BY <1>4, <1>5

LEMMA ValidateSound ==
  ASSUME TypeOK, MetricsSound, NEW c \in Collector, ValidateCostInputs(c)
  PROVE  TypeOK' /\ MetricsSound'
<1>. DEFINE obs == collector[c].obs
            bad == [obs EXCEPT !.quality = "error"]
<1>1. /\ obs \in Observation /\ At(c, "based") /\ ~At(c, "idle") /\ ~At(c, "claimed")
      /\ UNCHANGED <<Elsewhere, pending, latest>>
      /\ IF CostsComplete(obs.baseline) THEN Move(c, "validated", obs) ELSE Move(c, "recorded", bad)
  BY DEF TypeOK, ValidateCostInputs, At
<1>2. obs.quality # "valid" /\ Based(obs)
  BY <1>1 DEF MetricsSound, ObservationsSound, ComputationSound, At
<1>3. CASE CostsComplete(obs.baseline)
  <2>1. Complete(obs)
    BY <1>2, <1>3 DEF Based, Complete
  <2>. QED
    BY <1>1, <1>2, <1>3, <2>1, VersionKept DEF Stage
<1>4. CASE ~CostsComplete(obs.baseline)
  <2>1. /\ bad \in Observation /\ bad.quality = "error" /\ bad.at = obs.at
        /\ bad.version = obs.version
    BY <1>1 DEF Observation, Quality
  <2>. HIDE DEF bad
  <2>. QED
    BY <1>1, <1>4, <2>1, VersionKept DEF Stage
<1>. QED
  BY <1>3, <1>4

LEMMA ComputeSound ==
  ASSUME TypeOK, MetricsSound, NEW c \in Collector, ComputeEarnedValue(c)
  PROVE  TypeOK' /\ MetricsSound'
<1>. DEFINE old == collector[c].obs
            obs == [old EXCEPT !.quality = "valid", !.value = EarnedValue]
<1>1. /\ old \in Observation /\ At(c, "validated") /\ ~At(c, "idle") /\ ~At(c, "claimed")
      /\ UNCHANGED <<Elsewhere, pending, latest>> /\ Move(c, "computed", obs)
  BY DEF TypeOK, ComputeEarnedValue, At
<1>2. Based(old) /\ Complete(old)
  BY <1>1 DEF MetricsSound, ObservationsSound, ComputationSound, At
<1>3. EarnedValue \in Value
  BY CostType
<1>4. /\ obs \in Observation /\ obs.at = old.at /\ obs.version = old.version
      /\ obs.baseline = old.baseline /\ obs.value = EarnedValue
  BY <1>1, <1>3 DEF Observation, Quality
<1>. HIDE DEF obs
<1>5. Based(obs) /\ Complete(obs) /\ Exact(obs)
  BY <1>2, <1>4 DEF Based, Complete, Exact
<1>. QED
  BY <1>1, <1>4, <1>5, VersionKept DEF Stage

LEMMA RecheckSound ==
  ASSUME TypeOK, MetricsSound, NEW c \in Collector, RecheckInputs(c)
  PROVE  TypeOK' /\ MetricsSound'
<1>1. /\ collector[c].obs \in Observation /\ At(c, "computed") /\ ~At(c, "idle") /\ ~At(c, "claimed")
      /\ UNCHANGED <<Elsewhere, pending, latest>> /\ Move(c, "recorded", collector[c].obs)
  BY DEF TypeOK, RecheckInputs, At
<1>2. Based(collector[c].obs) /\ Complete(collector[c].obs) /\ Exact(collector[c].obs)
  BY <1>1 DEF MetricsSound, ObservationsSound, ComputationSound, At
<1>. QED
  BY <1>1, <1>2, VersionKept DEF Stage

\* Handlers that have started or ended.
LEMMA BusyMore ==
  ASSUME TypeOK, NEW c \in Collector, At(c, "idle"), NEW obs \in Observation,
         Move(c, "claimed", obs)
  PROVE  Busy' = Busy \cup {c} /\ c \notin Busy /\ Cardinality(Busy') = Cardinality(Busy) + 1
<1>1. /\ collector'[c].stage = "claimed"
      /\ \A d \in Collector \ {c} : collector'[d] = collector[d]
  BY CollectorMoved DEF Stage
<1>2. Busy' = Busy \cup {c} /\ c \notin Busy
  BY <1>1 DEF Busy, At
<1>. QED
  BY <1>2, BusyFinite, FS_AddElement

LEMMA BusyLess ==
  ASSUME NEW c \in Busy, Busy' = Busy \ {c}
  PROVE  Cardinality(Busy') = Cardinality(Busy) - 1 /\ Cardinality(Busy) > 0
<1>1. Cardinality(Busy') = Cardinality(Busy) - 1
  BY BusyFinite, FS_RemoveElement
<1>2. Cardinality(Busy') \in Nat
  BY BusyFinite, FS_Subset, FS_CardinalityType
<1>. QED
  BY <1>1, <1>2, BusyFinite

LEMMA ClaimSound ==
  ASSUME TypeOK, MetricsSound, NEW c \in Collector, Claim(c)
  PROVE  TypeOK' /\ MetricsSound'
<1>. DEFINE obs == [Nothing EXCEPT !.at = Newest + 1]
<1>1. /\ At(c, "idle") /\ pending > Cardinality(Busy) /\ Move(c, "claimed", obs)
      /\ UNCHANGED <<phase, hours, expenses, rate, link, delivered, generation, baseline, approval,
                     version, gate, pending, latest>>
  BY DEF Claim, Unclaimed, Elsewhere, inputs, baselines
<1>2. Newest \in Nat /\ \A d \in Busy : collector[d].obs.at <= Newest
  BY NewestType
<1>3. obs \in Observation /\ obs.at = Newest + 1 /\ obs.version = 0 /\ obs.quality = "no_data"
  <2>1. /\ Nothing \in Observation /\ Nothing.version = 0 /\ Nothing.quality = "no_data"
    BY NothingType DEF Nothing
  <2>. QED
    BY <1>2, <2>1 DEF Observation
<1>. HIDE DEF obs
<1>4. /\ collector' \in [Collector -> [stage : Stage, obs : Observation]]
      /\ collector'[c].stage = "claimed" /\ collector'[c].obs = obs
      /\ \A d \in Collector \ {c} : collector'[d] = collector[d]
  BY <1>1, <1>3, CollectorMoved DEF Stage
<1>5. Busy' = Busy \cup {c} /\ c \notin Busy /\ Cardinality(Busy') = Cardinality(Busy) + 1
  BY <1>1, <1>3, BusyMore
<1>6. TypeOK'
  BY <1>1, <1>4 DEF TypeOK
<1>7. Counted'
  BY <1>1, <1>5, BusyFinite DEF Counted, TypeOK
<1>8. VersionsSound'
  <2>1. version \in Nat
    BY DEF TypeOK
  <2>. QED
    BY <1>1, <1>3, <1>4, <2>1 DEF MetricsSound, VersionsSound
<1>9. Accounted'
  <2>1. ASSUME NEW d \in Busy', collector'[d].obs.at >= collector'[c].obs.at
        PROVE  UpToDate(d)'
    <3>1. CASE d = c
      BY <1>4, <3>1 DEF UpToDate, At
    <3>2. CASE d # c
      <4>1. d \in Busy /\ collector'[d].obs.at = collector[d].obs.at /\ collector[d].obs.at \in Nat
        BY <1>4, <1>5, <3>2 DEF Busy, TypeOK, Observation
      <4>. QED
        BY <1>2, <1>3, <1>4, <2>1, <4>1
    <3>. QED
      BY <3>1, <3>2
  <2>2. collector'[c].obs.at > 0 /\ c \in Busy'
    BY <1>2, <1>3, <1>4, <1>5
  <2>3. Leads(c)'
    BY <2>1, <2>2 DEF Leads
  <2>. QED
    BY <2>2, <2>3 DEF Accounted
<1>10. CurrentBaseline' = CurrentBaseline /\ Approved' = Approved /\ EarnedValue' = EarnedValue
       /\ CostsComplete(CurrentBaseline)' = CostsComplete(CurrentBaseline)
  BY <1>1 DEF CurrentBaseline, Approved, EarnedValue, Cost, CostsComplete
<1>11. ObservationsSound'
  <2>1. ASSUME NEW d \in Collector \ {c}
        PROVE  ComputationSound(d)'
    BY <1>1, <1>4, <1>10
    DEF MetricsSound, ObservationsSound, ComputationSound, Based, Complete, Exact, At
  <2>2. (latest.quality = "valid" => Based(latest) /\ Complete(latest) /\ Exact(latest))'
    BY <1>1, <1>10 DEF MetricsSound, ObservationsSound, Based, Complete, Exact
  <2>3. ComputationSound(c)'
    BY <1>3, <1>4 DEF ComputationSound, At
  <2>. QED
    BY <2>1, <2>2, <2>3 DEF ObservationsSound
<1>. QED
  BY <1>6, <1>7, <1>8, <1>9, <1>11 DEF MetricsSound

LEMMA RetrySound ==
  ASSUME TypeOK, MetricsSound, NEW c \in Collector, RetryCollection(c)
  PROVE  TypeOK' /\ MetricsSound'
<1>1. /\ At(c, "computed") /\ Move(c, "idle", Nothing)
      /\ UNCHANGED <<phase, hours, expenses, rate, link, delivered, generation, baseline, approval,
                     version, gate, pending, latest>>
  BY DEF RetryCollection, Elsewhere, inputs, baselines
<1>2. /\ collector' \in [Collector -> [stage : Stage, obs : Observation]]
      /\ collector'[c].stage = "idle" /\ collector'[c].obs = Nothing
      /\ \A d \in Collector \ {c} : collector'[d] = collector[d]
  BY <1>1, NothingType, CollectorMoved DEF Stage
<1>3. Busy' = Busy \ {c} /\ c \in Busy
  BY <1>1, <1>2 DEF Busy, At
<1>4. TypeOK'
  BY <1>1, <1>2 DEF TypeOK
<1>5. pending' > Cardinality(Busy)' /\ Cardinality(Busy)' <= pending'
  <2>1. Cardinality(Busy)' = Cardinality(Busy) - 1 /\ Cardinality(Busy) \in Nat
    BY <1>3, BusyLess, BusyFinite
  <2>2. pending' = pending /\ pending \in Nat /\ Cardinality(Busy) <= pending
    BY <1>1 DEF MetricsSound, Counted, TypeOK
  <2>. QED
    BY <2>1, <2>2
<1>6. VersionsSound'
  <2>1. version \in Nat /\ Nothing.version = 0
    BY DEF TypeOK, Nothing
  <2>. QED
    BY <1>1, <1>2, <2>1 DEF MetricsSound, VersionsSound
<1>7. CurrentBaseline' = CurrentBaseline /\ Approved' = Approved /\ EarnedValue' = EarnedValue
      /\ CostsComplete(CurrentBaseline)' = CostsComplete(CurrentBaseline)
  BY <1>1 DEF CurrentBaseline, Approved, EarnedValue, Cost, CostsComplete
<1>8. ObservationsSound'
  <2>1. ASSUME NEW d \in Collector \ {c}
        PROVE  ComputationSound(d)'
    BY <1>1, <1>2, <1>7
    DEF MetricsSound, ObservationsSound, ComputationSound, Based, Complete, Exact, At
  <2>2. (latest.quality = "valid" => Based(latest) /\ Complete(latest) /\ Exact(latest))'
    BY <1>1, <1>7 DEF MetricsSound, ObservationsSound, Based, Complete, Exact
  <2>3. ComputationSound(c)'
    BY <1>2 DEF ComputationSound, At
  <2>. QED
    BY <2>1, <2>2, <2>3 DEF ObservationsSound
<1>. QED
  BY <1>4, <1>5, <1>6, <1>8 DEF MetricsSound, Counted, Accounted

\* Times counted from an earlier one keep their order.
LEMMA CountedFromType ==
  ASSUME NEW at \in Nat, NEW n \in Nat
  PROVE  /\ CountedFrom(at, n) \in Nat
         /\ CountedFrom(at, n) = IF n > at THEN n - at ELSE 0
  BY DEF CountedFrom

LEMMA CommitSound ==
  ASSUME TypeOK, MetricsSound, NEW c \in Collector, CommitObservation(c)
  PROVE  TypeOK' /\ MetricsSound'
<1>. DEFINE obs == collector[c].obs
            last == [obs EXCEPT !.at = 0]
<1>1. /\ At(c, "recorded") /\ obs \in Observation /\ obs.at \in Nat
      /\ latest' = IF obs.at > 0 THEN last ELSE latest
      /\ pending' = pending - 1
      /\ collector' = [x \in Collector |->
                         IF x = c THEN Free
                         ELSE [collector[x] EXCEPT !.obs.at = CountedFrom(obs.at, @)]]
      /\ UNCHANGED <<phase, hours, expenses, rate, link, delivered, generation, baseline, approval,
                     version, gate>>
  BY DEF CommitObservation, Elsewhere, inputs, baselines, TypeOK, Record, LaterComputed, Observation
<1>2. /\ last \in Observation /\ last.version = obs.version /\ last.quality = obs.quality
      /\ last.value = obs.value /\ last.baseline = obs.baseline
  BY <1>1 DEF Observation
<1>3. ASSUME NEW d \in Collector \ {c}
      PROVE  /\ collector'[d] \in [stage : Stage, obs : Observation]
             /\ collector'[d].stage = collector[d].stage
             /\ collector[d].obs.at \in Nat
             /\ collector'[d].obs.at = CountedFrom(obs.at, collector[d].obs.at)
             /\ collector'[d].obs.version = collector[d].obs.version
             /\ collector'[d].obs.quality = collector[d].obs.quality
             /\ collector'[d].obs.value = collector[d].obs.value
             /\ collector'[d].obs.baseline = collector[d].obs.baseline
  <2>1. /\ collector[d] \in [stage : Stage, obs : Observation]
        /\ collector[d].obs \in Observation /\ collector[d].obs.at \in Nat
    BY DEF TypeOK, Observation
  <2>2. collector'[d] = [collector[d] EXCEPT !.obs.at = CountedFrom(obs.at, collector[d].obs.at)]
    BY <1>1
  <2>3. CountedFrom(obs.at, collector[d].obs.at) \in Nat
    BY <1>1, <2>1, CountedFromType
  <2>. QED
    BY <2>1, <2>2, <2>3 DEF Observation
<1>4. collector'[c] = Free /\ Free.stage = "idle" /\ Free.obs = Nothing
  BY <1>1 DEF Free
<1>5. Busy' = Busy \ {c} /\ c \in Busy
  <2>1. \A d \in Collector : d \in Busy' <=> d \in Busy /\ d # c
    BY <1>3, <1>4 DEF Busy, At
  <2>. QED
    BY <1>1, <2>1 DEF Busy, At
<1>. HIDE DEF last
<1>6. /\ Cardinality(Busy') = Cardinality(Busy) - 1 /\ Cardinality(Busy) \in Nat
      /\ pending \in Nat /\ Cardinality(Busy) <= pending /\ pending' \in Nat
  <2>1. /\ Cardinality(Busy') = Cardinality(Busy) - 1 /\ Cardinality(Busy) \in Nat
        /\ Cardinality(Busy) > 0
    BY <1>5, BusyLess, BusyFinite
  <2>2. pending \in Nat /\ Cardinality(Busy) <= pending
    BY DEF TypeOK, MetricsSound, Counted
  <2>. QED
    BY <1>1, <2>1, <2>2
<1>7. Counted' /\ (pending > Cardinality(Busy) => pending' > Cardinality(Busy'))
  BY <1>1, <1>6 DEF Counted
<1>8. TypeOK'
  <2>1. collector' \in [Collector -> [stage : Stage, obs : Observation]]
    <3>1. \A d \in Collector : collector'[d] \in [stage : Stage, obs : Observation]
      BY <1>3, <1>4, NothingType DEF Free, Stage
    <3>. QED
      BY <1>1, <3>1
  <2>2. latest' \in Observation
    BY <1>1, <1>2 DEF TypeOK
  <2>. QED
    BY <1>1, <1>6, <2>1, <2>2 DEF TypeOK
<1>9. VersionsSound'
  <2>1. version \in Nat /\ Nothing.version = 0
    BY DEF TypeOK, Nothing
  <2>. QED
    BY <1>1, <1>2, <1>3, <1>4, <2>1 DEF MetricsSound, VersionsSound
<1>10. CurrentBaseline' = CurrentBaseline /\ Approved' = Approved /\ EarnedValue' = EarnedValue
       /\ CostsComplete(CurrentBaseline)' = CostsComplete(CurrentBaseline)
  BY <1>1 DEF CurrentBaseline, Approved, EarnedValue, Cost, CostsComplete
<1>11. ObservationsSound'
  <2>1. ASSUME NEW d \in Collector \ {c}
        PROVE  ComputationSound(d)'
    <3>1. ComputationSound(d)
      BY DEF MetricsSound, ObservationsSound
    <3>2. At(d, "idle") => collector'[d].obs = Nothing
      <4>1. ASSUME At(d, "idle")
            PROVE  collector'[d].obs = Nothing
        <5>1. collector[d].obs = Nothing /\ collector[d].obs.at = 0
          BY <3>1, <4>1, NothingType DEF ComputationSound
        <5>2. CountedFrom(obs.at, 0) = 0
          BY <1>1, CountedFromType
        <5>3. collector'[d].obs = [Nothing EXCEPT !.at = 0]
          BY <1>1, <5>1, <5>2 DEF TypeOK
        <5>. QED
          BY <5>3 DEF Nothing
      <4>. QED
        BY <4>1
    <3>. QED
      BY <1>1, <1>3, <1>10, <3>1, <3>2 DEF ComputationSound, Based, Complete, Exact, At
  <2>2. ComputationSound(c)'
    BY <1>4 DEF ComputationSound, At, Nothing
  <2>3. (latest.quality = "valid" => Based(latest) /\ Complete(latest) /\ Exact(latest))'
    <3>1. CASE obs.at > 0
      <4>1. obs.quality = "valid" => Based(obs) /\ Complete(obs) /\ Exact(obs)
        BY <1>1 DEF MetricsSound, ObservationsSound, ComputationSound
      <4>. QED
        BY <1>1, <1>2, <1>10, <3>1, <4>1 DEF Based, Complete, Exact
    <3>2. CASE ~(obs.at > 0)
      BY <1>1, <1>10, <3>2 DEF MetricsSound, ObservationsSound, Based, Complete, Exact
    <3>. QED
      BY <3>1, <3>2
  <2>. QED
    BY <2>1, <2>2, <2>3 DEF ObservationsSound
<1>12. \A d \in Busy \ {c} : UpToDate(d) => UpToDate(d)'
  BY <1>1, <1>3 DEF UpToDate, At, Busy
<1>13. \A d \in Busy \ {c} : /\ d \in Collector \ {c} /\ collector[d].obs.at \in Nat
                             /\ collector'[d].obs.at = IF collector[d].obs.at > obs.at
                                                       THEN collector[d].obs.at - obs.at ELSE 0
  BY <1>1, <1>3, CountedFromType DEF Busy
<1>14. Accounted'
  <2>1. CASE pending > Cardinality(Busy)
    BY <1>7, <2>1 DEF Accounted
  <2>2. CASE LatestLeads
    <3>1. obs.at > 0 => obs.version = version
      BY <1>1, <1>5, <2>2 DEF LatestLeads, UpToDate, At
    <3>2. latest'.version = version'
      BY <1>1, <1>2, <2>2, <3>1 DEF LatestLeads
    <3>3. \A d \in Busy \ {c} : collector'[d].obs.at > 0 => collector[d].obs.at > 0
      BY <1>1, <1>13
    <3>4. LatestLeads'
      BY <1>5, <1>12, <2>2, <3>2, <3>3 DEF LatestLeads
    <3>. QED
      BY <3>4 DEF Accounted
  <2>3. ASSUME NEW g \in Busy, Leads(g), obs.at >= collector[g].obs.at
        PROVE  LatestLeads'
    <3>1. obs.at > 0 /\ collector[g].obs.at \in Nat
      BY <1>1, <1>13, <2>3 DEF Leads
    <3>2. obs.version = version
      BY <1>1, <1>5, <2>3 DEF Leads, UpToDate, At
    <3>3. latest'.version = version'
      BY <1>1, <1>2, <3>1, <3>2
    <3>4. \A d \in Busy \ {c} : collector'[d].obs.at > 0 => collector[d].obs.at >= collector[g].obs.at
      BY <1>1, <1>13, <2>3, <3>1
    <3>. QED
      BY <1>5, <1>12, <2>3, <3>3, <3>4 DEF LatestLeads, Leads
  <2>4. ASSUME NEW g \in Busy, Leads(g), ~(obs.at >= collector[g].obs.at)
        PROVE  g \in Busy' /\ Leads(g)'
    <3>1. g # c
      BY <1>1, <2>4
    <3>2. g \in Busy \ {c} /\ collector[g].obs.at \in Nat /\ collector[g].obs.at > obs.at
      BY <1>1, <1>13, <2>4, <3>1
    <3>3. collector'[g].obs.at = collector[g].obs.at - obs.at /\ collector'[g].obs.at > 0
      BY <1>1, <1>13, <3>2
    <3>4. \A d \in Busy \ {c} : collector'[d].obs.at >= collector'[g].obs.at =>
                                   collector[d].obs.at >= collector[g].obs.at
      BY <1>1, <1>13, <3>2, <3>3
    <3>. QED
      BY <1>5, <1>12, <2>4, <3>2, <3>3, <3>4 DEF Leads
  <2>. QED
    BY <2>1, <2>2, <2>3, <2>4 DEF MetricsSound, Accounted
<1>. QED
  BY <1>7, <1>8, <1>9, <1>11, <1>14 DEF MetricsSound

LEMMA CollectSound ==
  ASSUME MInv, NEW c \in Collector, Collect(c)
  PROVE  MInv'
<1>1. TypeOK' /\ MetricsSound'
  BY ClaimSound, ReadVersionSound, ReadBaselineSound, ValidateSound, ComputeSound, RecheckSound,
     RetrySound, CommitSound DEF MInv, Collect
<1>2. UNCHANGED <<hours, expenses, rate, baseline, gate>>
  BY DEF Collect, Claim, ReadVersion, ReadBaseline, ValidateCostInputs, ComputeEarnedValue,
         RecheckInputs, RetryCollection, CommitObservation, Elsewhere, inputs, baselines
<1>3. OneApproved' /\ GateSound'
  BY <1>2 DEF MInv, OneApproved, Approved, GateSound, GateFactsSound, Cost
<1>. QED
  BY <1>1, <1>3 DEF MInv

-----------------------------------------------------------------------------
(* The inputs.                                                             *)

LEMMA LogWorkRecordSound ==
  ASSUME MInv, NEW p \in Phase, LogWorkRecord(p)
  PROVE  MInv'
<1>1. /\ gate[p] = NoGate /\ EmitInputsChanged
      /\ hours' = [hours EXCEPT ![p] = @ + 1] /\ UNCHANGED metrics
      /\ UNCHANGED <<phase, expenses, rate, link, delivered, generation, baseline, approval,
                     collector, latest, gate>>
  BY DEF LogWorkRecord, LocksActive, baselines, metrics
<1>2. MetricsSound' /\ version' \in Nat /\ pending' \in Nat
  BY <1>1, InputsChanged DEF MInv
<1>3. hours' \in [Phase -> Nat] /\ \A q \in Phase \ {p} : hours'[q] = hours[q]
  BY <1>1 DEF MInv, TypeOK
<1>4. TypeOK'
  BY <1>1, <1>2, <1>3 DEF MInv, TypeOK
<1>5. \A q \in Phase \ {p} : Cost(q)' = Cost(q)
  BY <1>1, <1>3 DEF Cost
<1>6. GateSound'
  BY <1>1, <1>5, NothingType DEF MInv, GateSound, GateFactsSound
<1>7. OneApproved'
  BY <1>1 DEF MInv, OneApproved, Approved
<1>. QED
  BY <1>2, <1>4, <1>6, <1>7 DEF MInv

LEMMA RecordExpenseSound ==
  ASSUME MInv, NEW p \in Phase, NEW cur \in Currency, RecordExpense(p, cur)
  PROVE  MInv'
<1>1. /\ gate[p] = NoGate /\ EmitInputsChanged
      /\ expenses' = expenses \cup {<<p, cur>>} /\ UNCHANGED metrics
      /\ UNCHANGED <<phase, hours, rate, link, delivered, generation, baseline, approval,
                     collector, latest, gate>>
  BY DEF RecordExpense, LocksActive, baselines, metrics
<1>2. MetricsSound' /\ version' \in Nat /\ pending' \in Nat
  BY <1>1, InputsChanged DEF MInv
<1>3. TypeOK'
  BY <1>1, <1>2 DEF MInv, TypeOK
<1>4. ASSUME NEW q \in Phase \ {p}
      PROVE  Cost(q)' = Cost(q)
  <2>1. {e \in expenses' : e[1] = q} = {e \in expenses : e[1] = q}
    BY <1>1
  <2>. QED
    BY <1>1, <2>1 DEF Cost
<1>5. GateSound'
  BY <1>1, <1>4, NothingType DEF MInv, GateSound, GateFactsSound
<1>6. OneApproved'
  BY <1>1 DEF MInv, OneApproved, Approved
<1>. QED
  BY <1>2, <1>3, <1>5, <1>6 DEF MInv

LEMMA SetLaborRateSound ==
  ASSUME MInv, SetLaborRate
  PROVE  MInv'
<1>1. /\ rate # ProjectRate /\ rate' = ProjectRate /\ EmitInputsChanged /\ UNCHANGED metrics
      /\ UNCHANGED <<phase, hours, expenses, link, delivered, generation, baseline, approval,
                     collector, latest, gate>>
  BY DEF SetLaborRate, baselines, metrics
<1>2. MetricsSound' /\ version' \in Nat /\ pending' \in Nat
  BY <1>1, InputsChanged DEF MInv
<1>3. TypeOK'
  BY <1>1, <1>2, CostAssumption DEF MInv, TypeOK
<1>4. GateSound' /\ OneApproved'
  BY <1>1 DEF MInv, GateSound, GateFactsSound, OneApproved, Approved
<1>. QED
  BY <1>2, <1>3, <1>4 DEF MInv

LEMMA DeliverableSound ==
  ASSUME MInv, (\E p \in Phase : LinkPhaseDeliverable(p)) \/ ChangeDeliverable \/ ApplyPlan
  PROVE  MInv'
<1>1. /\ EmitInputsChanged /\ UNCHANGED metrics
      /\ UNCHANGED <<phase, hours, expenses, rate, baseline, approval, collector, latest, gate>>
  BY DEF LinkPhaseDeliverable, ChangeDeliverable, ApplyPlan, baselines, metrics
<1>2. MetricsSound' /\ version' \in Nat /\ pending' \in Nat
  BY <1>1, InputsChanged DEF MInv
<1>3. link' \in Phase \cup {None} /\ delivered' \in BOOLEAN /\ generation' \in Nat
  <2>1. link \in Phase \cup {None} /\ delivered \in BOOLEAN /\ generation \in Nat
    BY DEF MInv, TypeOK
  <2>2. ASSUME NEW p \in Phase, LinkPhaseDeliverable(p)
        PROVE  link' = p /\ delivered' = delivered /\ generation' = generation
    BY <2>2 DEF LinkPhaseDeliverable
  <2>3. ASSUME ChangeDeliverable
        PROVE  link' = link /\ delivered' \in BOOLEAN /\ generation' = generation
    BY <2>3 DEF ChangeDeliverable
  <2>4. ASSUME ApplyPlan
        PROVE  link' = link /\ delivered' = delivered /\ generation' = generation + 1
    BY <2>4 DEF ApplyPlan
  <2>. QED
    BY <2>1, <2>2, <2>3, <2>4
<1>4. TypeOK'
  BY <1>1, <1>2, <1>3 DEF MInv, TypeOK
<1>5. GateSound' /\ OneApproved'
  BY <1>1 DEF MInv, GateSound, GateFactsSound, OneApproved, Approved, Cost
<1>. QED
  BY <1>2, <1>4, <1>5 DEF MInv

-----------------------------------------------------------------------------
(* Cost baselines.                                                         *)

\* An approval sees what it supersedes or fails.
LEMMA ApprovedAfterCommit ==
  ASSUME TypeOK, NEW b \in Baseline, CommitApproval(b)
  PROVE  Approved' = {b}
<1>1. \A x \in Baseline :
        baseline'[x].status = IF x = b THEN "approved"
                              ELSE IF x \in Approved THEN "superseded" ELSE baseline[x].status
  BY DEF CommitApproval, SingleApproved, TypeOK
<1>. QED
  BY <1>1 DEF Approved

LEMMA CommitApprovalSound ==
  ASSUME MInv, NEW b \in Baseline, CommitApproval(b)
  PROVE  MInv'
<1>1. /\ EmitInputsChanged /\ UNCHANGED metrics
      /\ UNCHANGED <<phase, hours, expenses, rate, link, delivered, generation, collector, latest,
                     gate>>
  BY DEF CommitApproval, inputs, metrics
<1>2. MetricsSound' /\ version' \in Nat /\ pending' \in Nat
  BY <1>1, InputsChanged DEF MInv
<1>3. baseline' \in [Baseline -> [status : BaselineStatus, by : Planner \cup {None}]]
  BY DEF MInv, TypeOK, CommitApproval, BaselineStatus
<1>4. approval' \in [Baseline -> [open : BOOLEAN, seen : SUBSET Baseline]]
  BY DEF MInv, TypeOK, CommitApproval, NoApproval
<1>5. TypeOK'
  BY <1>1, <1>2, <1>3, <1>4 DEF MInv, TypeOK
<1>6. OneApproved'
  BY ApprovedAfterCommit DEF MInv, OneApproved
<1>7. GateSound'
  BY <1>1 DEF MInv, GateSound, GateFactsSound, Cost
<1>. QED
  BY <1>2, <1>5, <1>6, <1>7 DEF MInv

LEMMA BaselineStepSound ==
  ASSUME MInv, NEW b \in Baseline,
         \/ \E u \in Planner : CreateCostBaseline(u, b)
         \/ \E u \in Approver : BeginApproval(u, b)
         \/ AbandonApproval(b)
  PROVE  MInv' /\ Approved' = Approved
<1>1. /\ UNCHANGED <<metrics, version, pending, hours, expenses, rate, link, delivered>>
      /\ UNCHANGED <<phase, generation, collector, latest, gate>>
  BY DEF CreateCostBaseline, BeginApproval, AbandonApproval, inputs, metrics
<1>2. /\ baseline' \in [Baseline -> [status : BaselineStatus, by : Planner \cup {None}]]
      /\ approval' \in [Baseline -> [open : BOOLEAN, seen : SUBSET Baseline]]
      /\ Approved' = Approved
  <2>1. /\ baseline \in [Baseline -> [status : BaselineStatus, by : Planner \cup {None}]]
        /\ approval \in [Baseline -> [open : BOOLEAN, seen : SUBSET Baseline]]
        /\ Approved \in SUBSET Baseline
    BY DEF MInv, TypeOK, Approved
  <2>2. ASSUME NEW u \in Planner, CreateCostBaseline(u, b)
        PROVE  /\ baseline' \in [Baseline -> [status : BaselineStatus, by : Planner \cup {None}]]
               /\ approval' = approval /\ Approved' = Approved
    <3>1. /\ baseline[b].status = "absent" /\ approval' = approval
          /\ baseline' = [baseline EXCEPT ![b] = [status |-> "draft", by |-> u]]
      BY <2>2 DEF CreateCostBaseline
    <3>2. [status |-> "draft", by |-> u] \in [status : BaselineStatus, by : Planner \cup {None}]
      BY DEF BaselineStatus
    <3>3. \A x \in Baseline : baseline'[x].status = "approved" <=> baseline[x].status = "approved"
      BY <2>1, <3>1
    <3>. QED
      BY <2>1, <3>1, <3>2, <3>3 DEF Approved
  <2>3. ASSUME NEW u \in Approver, BeginApproval(u, b)
        PROVE  /\ approval' \in [Baseline -> [open : BOOLEAN, seen : SUBSET Baseline]]
               /\ baseline' = baseline
    <3>1. /\ baseline' = baseline
          /\ approval' = [approval EXCEPT ![b] = [open |-> TRUE, seen |-> Approved]]
      BY <2>3 DEF BeginApproval
    <3>2. [open |-> TRUE, seen |-> Approved] \in [open : BOOLEAN, seen : SUBSET Baseline]
      BY <2>1
    <3>. QED
      BY <2>1, <3>1, <3>2
  <2>4. ASSUME AbandonApproval(b)
        PROVE  /\ approval' \in [Baseline -> [open : BOOLEAN, seen : SUBSET Baseline]]
               /\ baseline' = baseline
    <3>1. NoApproval \in [open : BOOLEAN, seen : SUBSET Baseline]
      BY DEF NoApproval
    <3>. QED
      BY <2>1, <2>4, <3>1 DEF AbandonApproval
  <2>. QED
    BY <2>1, <2>2, <2>3, <2>4 DEF Approved
<1>4. TypeOK'
  BY <1>1, <1>2 DEF MInv, TypeOK
<1>5. MetricsSound'
  BY <1>1, <1>2, InputsKept DEF MInv
<1>6. GateSound' /\ OneApproved'
  BY <1>1, <1>2 DEF MInv, GateSound, GateFactsSound, OneApproved, Cost
<1>. QED
  BY <1>2, <1>4, <1>5, <1>6 DEF MInv

-----------------------------------------------------------------------------
(* The gate of a phase.                                                    *)

GateType == [stage : {"none", "facts", "judged"}, facts : Facts, fresh : BOOLEAN]

LEMMA NoGateType == NoGate \in GateType /\ NoGate.stage = "none"
  BY DEF NoGate, NoFacts, Facts, GateType

\* A gate moves on and nothing else does.
LEMMA GateMoved ==
  ASSUME MInv, NEW p \in Phase, NEW g \in GateType, gate' = [gate EXCEPT ![p] = g],
         UNCHANGED NotGate, GateFactsSound(p)'
  PROVE  MInv'
<1>1. /\ UNCHANGED <<metrics, version, pending, hours, expenses, rate, link, delivered>>
      /\ UNCHANGED <<phase, generation, collector, latest, baseline, approval>>
  BY DEF NotGate, inputs, baselines, metrics
<1>2. Approved' = Approved
  BY <1>1 DEF Approved
<1>3. MetricsSound'
  BY <1>1, <1>2, InputsKept DEF MInv
<1>4. gate' \in [Phase -> GateType] /\ \A q \in Phase \ {p} : gate'[q] = gate[q]
  BY DEF MInv, TypeOK, GateType
<1>5. TypeOK'
  BY <1>1, <1>4 DEF MInv, TypeOK, GateType
<1>6. GateSound'
  BY <1>1, <1>4 DEF MInv, GateSound, GateFactsSound, Cost
<1>7. OneApproved'
  BY <1>2 DEF MInv, OneApproved
<1>. QED
  BY <1>3, <1>5, <1>6, <1>7 DEF MInv

LEMMA PhaseGateFactsSound ==
  ASSUME MInv, NEW p \in Phase, PhaseGateFacts(p)
  PROVE  MInv'
<1>. DEFINE facts == [cost |-> Cost(p), baseline |-> CurrentBaseline, rate |-> rate]
            g == [stage |-> "facts", facts |-> facts, fresh |-> FALSE]
<1>1. gate' = [gate EXCEPT ![p] = g] /\ UNCHANGED NotGate
  BY DEF PhaseGateFacts, SetGate
<1>2. facts \in Facts
  BY CostType, CurrentType DEF MInv, TypeOK, Facts
<1>3. g \in GateType
  BY <1>2 DEF GateType
<1>4. gate'[p] = g
  BY <1>1 DEF MInv, TypeOK
<1>5. UNCHANGED <<hours, expenses, rate>>
  BY <1>1 DEF NotGate, inputs
<1>6. Cost(p)' = Cost(p)
  BY <1>5 DEF Cost
<1>7. gate'[p].facts.cost = Cost(p) /\ gate'[p].facts.rate = rate
  BY <1>4
<1>. HIDE DEF g, facts
<1>8. GateFactsSound(p)'
  BY <1>5, <1>6, <1>7 DEF GateFactsSound
<1>. QED
  BY <1>1, <1>3, <1>8, GateMoved

LEMMA GateBlockersSound ==
  ASSUME MInv, NEW p \in Phase, GateBlockers(p)
  PROVE  MInv'
<1>1. PICK aged \in BOOLEAN : SetGate(p, "judged", gate[p].facts, Fresh /\ ~aged)
  BY DEF GateBlockers
<1>. DEFINE fresh == Fresh /\ ~aged
<1>2. fresh \in BOOLEAN
  OBVIOUS
<1>. HIDE DEF fresh
<1>. DEFINE g == [stage |-> "judged", facts |-> gate[p].facts, fresh |-> fresh]
<1>3. gate' = [gate EXCEPT ![p] = g] /\ UNCHANGED NotGate /\ gate[p].stage = "facts"
  BY <1>1 DEF SetGate, GateBlockers, fresh
<1>4. g \in GateType /\ gate'[p] = g
  BY <1>2, <1>3 DEF MInv, TypeOK, GateType
<1>5. UNCHANGED <<hours, expenses, rate>>
  BY <1>3 DEF NotGate, inputs
<1>6. gate'[p].facts = gate[p].facts
  BY <1>4
<1>. HIDE DEF g
<1>7. GateFactsSound(p)'
  BY <1>3, <1>5, <1>6 DEF MInv, GateSound, GateFactsSound, Cost
<1>. QED
  BY <1>3, <1>4, <1>7, GateMoved

LEMMA AbandonTransitionSound ==
  ASSUME MInv, NEW p \in Phase, AbandonTransition(p)
  PROVE  MInv'
<1>1. gate' = [gate EXCEPT ![p] = NoGate] /\ UNCHANGED NotGate
  BY DEF AbandonTransition
<1>2. gate'[p].stage = "none"
  BY <1>1, NoGateType DEF MInv, TypeOK
<1>. QED
  BY <1>1, <1>2, NoGateType, GateMoved DEF GateFactsSound

LEMMA CommitTransitionSound ==
  ASSUME MInv, NEW p \in Phase, CommitTransition(p)
  PROVE  MInv'
<1>1. /\ EmitInputsChanged /\ UNCHANGED metrics
      /\ phase' = [phase EXCEPT ![p] = IF @ = "active" THEN "completed" ELSE "active"]
      /\ gate' = [gate EXCEPT ![p] = NoGate]
      /\ UNCHANGED <<hours, expenses, rate, link, delivered, generation, baseline, approval,
                     collector, latest>>
  BY DEF CommitTransition, baselines, metrics
<1>2. MetricsSound' /\ version' \in Nat /\ pending' \in Nat
  BY <1>1, InputsChanged DEF MInv
<1>3. /\ gate' \in [Phase -> GateType]
      /\ \A q \in Phase : gate'[q] = IF q = p THEN NoGate ELSE gate[q]
  BY <1>1, NoGateType DEF MInv, TypeOK, GateType
<1>4. phase' \in [Phase -> {"not_started", "active", "completed"}]
  BY <1>1 DEF MInv, TypeOK
<1>5. TypeOK'
  BY <1>1, <1>2, <1>3, <1>4 DEF MInv, TypeOK, GateType
<1>6. GateSound' /\ OneApproved'
  BY <1>1, <1>3, NoGateType DEF MInv, GateSound, GateFactsSound, OneApproved, Approved, Cost
<1>. QED
  BY <1>2, <1>5, <1>6 DEF MInv

-----------------------------------------------------------------------------
(* The inductive invariant.                                                *)

LEMMA InitSound ==
  ASSUME Init
  PROVE  MInv
<1>1. /\ phase \in [Phase -> {"not_started", "active"}] /\ hours = [p \in Phase |-> 0]
      /\ expenses = {} /\ rate = SystemRate /\ link = None /\ delivered = FALSE
      /\ generation = 1 /\ baseline \in InitialBaselines
      /\ approval = [b \in Baseline |-> NoApproval] /\ version = 1 /\ pending = 1
      /\ collector = [c \in Collector |-> Free] /\ latest = Nothing
      /\ gate = [p \in Phase |-> NoGate]
  BY DEF Init
<1>2. PICK x \in Baseline \cup {None}, u \in Planner :
        baseline = [b \in Baseline |-> IF b = x THEN [status |-> "approved", by |-> u]
                                      ELSE [status |-> "absent", by |-> None]]
  BY <1>1 DEF InitialBaselines
<1>3. /\ baseline \in [Baseline -> [status : BaselineStatus, by : Planner \cup {None}]]
      /\ OneApproved
  BY <1>2 DEF BaselineStatus, OneApproved, Approved
<1>4. approval \in [Baseline -> [open : BOOLEAN, seen : SUBSET Baseline]]
  BY <1>1 DEF NoApproval
<1>5. collector \in [Collector -> [stage : Stage, obs : Observation]]
  BY <1>1, NothingType DEF Free, Stage
<1>6. gate \in [Phase -> GateType]
  BY <1>1, NoGateType
<1>7. rate \in Nat /\ hours \in [Phase -> Nat] /\ expenses \subseteq Phase \X Currency
  BY <1>1, CostAssumption
<1>8. phase \in [Phase -> {"not_started", "active", "completed"}]
  BY <1>1
<1>9. TypeOK
  BY <1>1, <1>3, <1>4, <1>5, <1>6, <1>7, <1>8, NothingType DEF TypeOK, GateType
<1>10. Busy = {} /\ Cardinality(Busy) = 0
  BY <1>1, FS_EmptySet DEF Busy, At, Free
<1>11. Nothing.version = 0 /\ Nothing.quality = "no_data"
  BY DEF Nothing
<1>12. Counted /\ Accounted /\ VersionsSound
  BY <1>1, <1>10, <1>11 DEF Counted, Accounted, VersionsSound, Free
<1>13. ObservationsSound
  BY <1>1, <1>11 DEF ObservationsSound, ComputationSound, At, Free
<1>14. GateSound
  BY <1>1, NoGateType DEF GateSound, GateFactsSound
<1>. QED
  BY <1>3, <1>9, <1>12, <1>13, <1>14 DEF MInv, MetricsSound

LEMMA StutterSound ==
  ASSUME MInv, UNCHANGED vars
  PROVE  MInv'
<1>1. /\ UNCHANGED <<metrics, version, pending, hours, expenses, rate, link, delivered>>
      /\ UNCHANGED <<phase, generation, collector, latest, baseline, approval, gate>>
  BY DEF vars, inputs, baselines, metrics
<1>2. Approved' = Approved
  BY <1>1 DEF Approved
<1>3. MetricsSound'
  BY <1>1, <1>2, InputsKept DEF MInv
<1>4. TypeOK' /\ OneApproved' /\ GateSound'
  BY <1>1, <1>2 DEF MInv, TypeOK, OneApproved, GateSound, GateFactsSound, Cost
<1>. QED
  BY <1>3, <1>4 DEF MInv

LEMMA InvariantStep ==
  ASSUME MInv, [Next]_vars
  PROVE  MInv'
<1>1. ASSUME NEW p \in Phase, LogWorkRecord(p) \/ LinkPhaseDeliverable(p)
      PROVE  MInv'
  BY <1>1, LogWorkRecordSound, DeliverableSound
<1>2. ASSUME NEW p \in Phase, NEW cur \in Currency, RecordExpense(p, cur)
      PROVE  MInv'
  BY <1>2, RecordExpenseSound
<1>3. ASSUME SetLaborRate \/ ChangeDeliverable \/ ApplyPlan
      PROVE  MInv'
  BY <1>3, SetLaborRateSound, DeliverableSound
<1>4. ASSUME NEW b \in Baseline,
             \/ \E u \in Planner : CreateCostBaseline(u, b)
             \/ \E u \in Approver : BeginApproval(u, b)
             \/ CommitApproval(b) \/ AbandonApproval(b)
      PROVE  MInv'
  BY <1>4, CommitApprovalSound, BaselineStepSound
<1>5. ASSUME NEW c \in Collector, Collect(c)
      PROVE  MInv'
  BY <1>5, CollectSound
<1>6. ASSUME NEW p \in Phase,
             \/ PhaseGateFacts(p) \/ GateBlockers(p)
             \/ CommitTransition(p) \/ AbandonTransition(p)
      PROVE  MInv'
  BY <1>6, PhaseGateFactsSound, GateBlockersSound, CommitTransitionSound, AbandonTransitionSound
<1>7. ASSUME UNCHANGED vars
      PROVE  MInv'
  BY <1>7, StutterSound
<1>. QED
  BY <1>1, <1>2, <1>3, <1>4, <1>5, <1>6, <1>7 DEF Next

\* What the observations, the baselines and the gates keep at every step.
THEOREM Invariant == Spec => []MInv
<1>1. Init => MInv
  BY InitSound
<1>2. MInv /\ [Next]_vars => MInv'
  BY InvariantStep
<1>. QED
  BY <1>1, <1>2, PTL DEF Spec

\* Every variable has the type of its table or transaction.
THEOREM TypeCorrect == Spec => []TypeOK
<1>1. MInv => TypeOK
  BY DEF MInv
<1>. QED
  BY <1>1, Invariant, PTL

\* The collector and the gate agree on what an observation is worth.
THEOREM FreshIsExact == Spec => []FreshObservationIsExact
<1>1. MInv => FreshObservationIsExact
  BY DEF MInv, MetricsSound, ObservationsSound, FreshObservationIsExact, Fresh, Current,
         Based, Complete, Exact
<1>. QED
  BY <1>1, Invariant, PTL

\* A late computation of older inputs does not stay on top.
THEOREM QuietShowsCurrent == Spec => []QuietIsCurrent
<1>1. ASSUME MInv, pending = 0
      PROVE  latest.version = version
  <2>1. Cardinality(Busy) = 0
    BY <1>1, BusyFinite DEF MInv, MetricsSound, Counted
  <2>2. Busy = {}
    BY <2>1, BusyFinite, FS_EmptySet
  <2>. QED
    BY <1>1, <2>1, <2>2 DEF MInv, MetricsSound, Accounted, LatestLeads
<1>2. MInv => QuietIsCurrent
  BY <1>1 DEF QuietIsCurrent
<1>. QED
  BY <1>2, Invariant, PTL

\* The unique index lets one of two approvals through.
THEOREM BaselineIsUnique == Spec => BaselineStaysUnique
<1>1. ASSUME MInv, [Next]_vars, Approved # {}
      PROVE  Cardinality(Approved') = 1
  <2>1. \E x \in Baseline : Approved' = {x}
    <3>1. CASE \E b \in Baseline : CommitApproval(b)
      BY <1>1, <3>1, ApprovedAfterCommit DEF MInv
    <3>2. CASE ~\E b \in Baseline : CommitApproval(b)
      <4>1. Approved' = Approved
        <5>1. CASE \E b \in Baseline : \/ \E u \in Planner : CreateCostBaseline(u, b)
                                       \/ \E u \in Approver : BeginApproval(u, b)
                                       \/ AbandonApproval(b)
          BY <1>1, <5>1, BaselineStepSound
        <5>2. CASE UNCHANGED baseline
          BY <5>2 DEF Approved
        <5>. QED
          BY <1>1, <3>2, <5>1, <5>2
          DEF Next, vars, baselines, LogWorkRecord, RecordExpense, SetLaborRate,
              LinkPhaseDeliverable, ChangeDeliverable, ApplyPlan, Collect, Claim, ReadVersion,
              ReadBaseline, ValidateCostInputs, ComputeEarnedValue, RecheckInputs, RetryCollection,
              CommitObservation, Elsewhere, PhaseGateFacts, GateBlockers, CommitTransition,
              AbandonTransition, NotGate
      <4>2. PICK x \in Baseline : x \in Approved
        BY <1>1 DEF Approved
      <4>. QED
        BY <1>1, <4>1, <4>2 DEF MInv, OneApproved
    <3>. QED
      BY <3>1, <3>2
  <2>. QED
    BY <2>1, FS_Singleton
<1>2. MInv /\ [Next]_vars => [Approved # {} => Cardinality(Approved') = 1]_vars
  BY <1>1
<1>. QED
  BY <1>2, Invariant, PTL DEF Spec, BaselineStaysUnique

\* A phase completes by its own transition.
LEMMA OnlyCommitTransition ==
  ASSUME MInv, [Next]_vars, NEW p \in Phase, phase'[p] # phase[p]
  PROVE  CommitTransition(p)
<1>1. \E q \in Phase : CommitTransition(q)
  BY DEF Next, vars, inputs, LogWorkRecord, RecordExpense, SetLaborRate,
         LinkPhaseDeliverable, ChangeDeliverable, ApplyPlan, Collect, Claim, ReadVersion,
         ReadBaseline, ValidateCostInputs, ComputeEarnedValue, RecheckInputs, RetryCollection,
         CommitObservation, Elsewhere, PhaseGateFacts, GateBlockers, CreateCostBaseline,
         BeginApproval, CommitApproval, AbandonApproval, AbandonTransition, NotGate
<1>2. PICK q \in Phase : CommitTransition(q)
  BY <1>1
<1>3. q = p
  BY <1>2 DEF CommitTransition, MInv, TypeOK
<1>. QED
  BY <1>2, <1>3

\* The rule on the limit is one of those that are enforced.
LEMMA LimitEnforced ==
  ASSUME NEW p \in Phase, EnforceRules(p), phase[p] = "active"
  PROVE  WithinFundingLimit(gate[p].facts, p)
<1>. DEFINE rule == [when |-> {"completes"}, assert |-> "within_funding_limit"]
<1>1. rule \in RuleDefinitions
  BY DEF RuleDefinitions
<1>2. Evaluate(p)["completes"] = (phase[p] = "active")
  BY DEF Evaluate
<1>3. Evaluate(p)["within_funding_limit"] = WithinFundingLimit(gate[p].facts, p)
  BY DEF Evaluate
<1>4. \A condition \in rule.when : Evaluate(p)[condition]
  BY <1>2
<1>5. Evaluate(p)[rule.assert]
  BY <1>1, <1>4 DEF EnforceRules
<1>6. rule.assert = "within_funding_limit"
  OBVIOUS
<1>. HIDE DEF rule
<1>. QED
  BY <1>3, <1>5, <1>6

\* No charge slips in between the facts and the change of status.
THEOREM GateHolds == Spec => GateHoldsTheLimit
<1>1. ASSUME MInv, [Next]_vars, NEW p \in Phase,
             phase[p] = "active", phase'[p] = "completed",
             gate[p].facts.baseline = CurrentBaseline, Approved # {}, gate[p].facts.rate = rate
      PROVE  Limit[CurrentBaseline][p] = 0 \/ Cost(p)' <= Limit[CurrentBaseline][p]
  <2>1. CommitTransition(p)
    BY <1>1, OnlyCommitTransition
  <2>2. WithinFundingLimit(gate[p].facts, p)
    BY <1>1, <2>1, LimitEnforced DEF CommitTransition
  <2>3. CurrentBaseline # None
    BY <1>1, CurrentType, NoneAssumption DEF Approved
  <2>4. gate[p].facts.cost = Cost(p)
    BY <1>1, <2>1 DEF CommitTransition, MInv, GateSound, GateFactsSound
  <2>5. Cost(p)' = Cost(p)
    BY <2>1 DEF CommitTransition, Cost
  <2>. QED
    BY <1>1, <2>2, <2>3, <2>4, <2>5 DEF WithinFundingLimit
<1>2. MInv /\ [Next]_vars =>
        [\A p \in Phase :
          /\ phase[p] = "active" /\ phase'[p] = "completed"
          /\ gate[p].facts.baseline = CurrentBaseline /\ Approved # {}
          /\ gate[p].facts.rate = rate
          => \/ Limit[CurrentBaseline][p] = 0
             \/ Cost(p)' <= Limit[CurrentBaseline][p]]_vars
  BY <1>1
<1>. QED
  BY <1>2, Invariant, PTL DEF Spec, GateHoldsTheLimit
=============================================================================
