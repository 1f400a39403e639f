SPECIFICATION Spec
CONSTANTS
    r1 = r1  r2 = r2
    w1 = w1  w2 = w2
    k1 = k1  k2 = k2
    c1 = c1
    e1 = e1
    None = None
    Requests <- OneRequest
    Workers <- OneWorker
    CheckoutKeys <- TwoCheckouts
    CancelKeys <- NoCancel
    EventIds <- OneEvent
    MaxTime = 0
    SessionLife = 1
    MayPause = TRUE
    KeyLife = 1
    Horizon = 0
    MaxAttempts = 2

CHECK_DEADLOCK FALSE
PROPERTIES
    NoAccessUnverified
