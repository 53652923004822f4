\* One phase, two baselines in two currencies, two collectors at once.
SPECIFICATION Spec
CONSTANTS
    ann = ann  bob = bob  p1 = p1  b1 = b1  b2 = b2  c1 = c1  c2 = c2
    Phase = {p1}
    Baseline = {b1, b2}
    Planner = {ann}
    Approver = {ann, bob}
    Collector = {c1, c2}
    Currency = {"EUR", "USD"}
    BaseCurrency <- Currencies
    RateCurrency = "EUR"
    Limit <- Limits
    SystemRate = 1
    ProjectRate = 2
    ExpenseAmount = 2
    None = None
    MaxHours = 1
    MaxVersion = 3
SYMMETRY Collectors
INVARIANTS FreshObservationIsExact QuietIsCurrent
PROPERTIES BaselineStaysUnique GateHoldsTheLimit
CHECK_DEADLOCK FALSE
