\* A specification revised outside the review of its work product.
SPECIFICATION Spec
CONSTANTS
    ann = ann  bob = bob  cyd = cyd  p1 = p1  c1 = c1  c2 = c2  k1 = k1
    Person = {ann, bob, cyd}
    Editor = {ann, cyd}
    Holder <- Roles
    WorkProduct = {p1}
    Call = {c1}
    Key = {k1}
    NoKey = NoKey
    MaxRevisions = 2
    MaxRequests = 2
    MaxVersion = 8
INVARIANT ApprovedRevisionReviewed
