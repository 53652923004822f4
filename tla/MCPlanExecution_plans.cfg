\* Two transactions open, three plan revisions, one deliverable revised once.
SPECIFICATION Spec
CONSTANTS
    ann = ann  bob = bob  p1 = p1  p2 = p2  m1 = m1  d1 = d1  w1 = w1  w2 = w2
    User = {ann, bob}
    Phase = {p1, p2}
    Milestone = {m1}
    Product = {d1}
    Manifest <- Manifests
    EmptyManifest <- Empty
    Worker = {w1, w2}
    Nobody = Nobody
    MaxPlans = 3
    MaxRevisions = 2
    MaxGeneration = 2
    MaxAccepts = 2
INVARIANTS ProjectionMatchesPlan PassedUnderThisPlan DecisionIndependent RecordsKeepTheirRows SomePhaseCanProceed
PROPERTIES CompletionNeedsPassedMilestones ActivationNeedsCompletedDependencies DecisionEvidenceCurrent
SYMMETRY Slots
CHECK_DEADLOCK FALSE
