\* Two processes; one of them is slow and then fails.
SPECIFICATION Spec
CONSTANTS
    e1 = e1  e2 = e2  s1 = s1  s2 = s2  w1 = w1  w2 = w2
    Event = {e1, e2}
    Subscription = {s1}
    Routes <- OneRouteEach
    Handled = {s1}
    Worker = {w1, w2}
    NoDelivery = NoDelivery
    MaxAttempts = 3
    DispatchLimit = 2
    BatchSize = 2
    PoolSize = 2
    MaxFaults = 1
INVARIANT EffectAtMostOnce
