\* Two users, one session at a time, two requests at once, five role bindings.
SPECIFICATION Spec
CONSTANTS
    ann = ann  bob = bob  t1 = t1  r1 = r1  r2 = r2
    User = {ann, bob}
    Administrator = ann
    Token = {t1}
    Request = {r1, r2}
    Role = {"system.administrator", "project.owner", "project.approver"}
    RolePermission <- Permissions
    AdministratorRole = "system.administrator"
    OwnerRole = "project.owner"
    SystemGrant = {"project.approver"}
    ReviewRole = {"project.approver"}
    ReviewPermission = {"wp.approve"}
    None = None
    MaxBindings = 5
SYMMETRY Requests
INVARIANTS OneReviewRole RevocationIsEffective
PROPERTIES DecisionNeedsAnotherGrantor AssigneeHoldsRole
CHECK_DEADLOCK FALSE
