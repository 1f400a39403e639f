SPECIFICATION Spec
CONSTANTS
    u1 = u1  u2 = u2  u3 = u3
    k1 = k1
    x1 = x1
    r1 = r1  r2 = r2
    Nobody = Nobody
    Users = {u1, u2, u3}
    Verified = {u1, u2, u3}
    Keys = {k1}
    Reports = {x1}
    Requests = {r1, r2}
    Roles = {"developer", "owner"}
    Retentions = {1, 2}
    SeatLimit = 2
    ReportLimit = 1
    InvitationLimit = 2
SYMMETRY Alike
INVARIANTS
    AlwaysOwned
    SeatsWithinPlan
    RetentionHolds
PROPERTIES
    ChangesAuthorised
