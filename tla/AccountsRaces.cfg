SPECIFICATION Spec
CONSTANTS
    e1 = e1  e2 = e2
    i1 = i1  i2 = i2
    a1 = a1
    r1 = r1  r2 = r2
    Local = Local  None = None
    Emails = {e1, e2}
    Identities = {i1}
    Attempts = {a1}
    Requests = {r1, r2}
    MailAvailable = TRUE
    MaxSessions = 3
    MaxLinks = 2
    MaxChanges = 2
SYMMETRY Alike
INVARIANTS
    NothingOutlivesChange
    NewestLinkOnly
    SessionsAreEarned
PROPERTIES
    ChangedByRightful
