\* One engine that keeps dying before it reports.
SPECIFICATION Spec
CONSTANTS
    e1 = e1  e2 = e2  s1 = s1  s2 = s2  w1 = w1  w2 = w2
    Event = {e1, e2}
    Subscription = {s1, s2}
    Routes <- FanOut
    Handled = {s1}
    Worker = {w1}
    NoDelivery = NoDelivery
    MaxAttempts = 2
    DispatchLimit = 2
    BatchSize = 2
    PoolSize = 2
    MaxFaults = 3
INVARIANT AttemptsBounded
