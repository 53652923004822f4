\* Three work products, any graph of four links on them, two revisions.
SPECIFICATION Spec
CONSTANTS
    a = a  b = b  c = c  h1 = h1  h2 = h2
    WorkProduct = {a, b, c}
    Handler = {h1, h2}
    Watched <- MCWatched
    MaxDepth = 4
    MaxLinks = 4
    MaxRevisions = 2
INVARIANTS TypeOK ImpactIsClosure TraversalIsComplete SuspicionIsNotLost
PROPERTIES SuspectInTheEnd
CHECK_DEADLOCK FALSE
