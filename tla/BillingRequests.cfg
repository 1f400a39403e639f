SPECIFICATION Spec
CONSTANTS
    r1 = r1  r2 = r2
    w1 = w1  w2 = w2
    k1 = k1  k2 = k2
    c1 = c1
    e1 = e1
    None = None
    Requests <- TwoRequests
    Workers <- OneWorker
    CheckoutKeys <- TwoCheckouts
    CancelKeys <- OneCancel
    EventIds <- NoEvents
    MaxTime = 2
    SessionLife = 1
    MayPause = FALSE
    KeyLife = 1
    Horizon = 0
    MaxAttempts = 2
SYMMETRY Alike
CHECK_DEADLOCK FALSE
INVARIANTS
    OneLivePurchase
    DeletionSafe
    AccessWasPaid
PROPERTIES
    ResultsAreKept
