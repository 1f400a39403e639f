SPECIFICATION RunSpec
CONSTANTS
  h1 = h1
  h2 = h2
  h3 = h3
  o1 = o1
  reqA = reqA
  reqB = reqB
  Handlers = {h1, h2}
  Orders = {o1}
  OrderAmount <- MCOrderAmount
  Eligible = {o1}
  LogicalRequests = {reqA}
  Keys <- MCKeys
  InitialRefunds <- NoInitialRefunds
  InitialPermissions <- BothPermissions
  InitialTicketVersion = 1
  InitialTicketStatus = "open"
  MaxToolCalls = 60
  Faults <- RacyFaults
  UseBarrier = TRUE
  RefundInitialStatus = "pending"
  TerminalStatus = "succeeded"
  TransitionDelay = 1
  RateLimitUntil = 0
  HiddenUntil = 0
  StaleUntil = 0
  EmitEvents = FALSE
  EventDelivery = "normal"
  RevokeAfterTicketRead = FALSE
  EditAfterTicketRead = FALSE
  Mode = "concurrent"
  Plan <- TwoPlan
  Task <- SameRequest
  Agents = {"corrected"}
  MaxAttempts = 3
  Deadline = 12
  Interruptible = TRUE
  ForbidNewEffects = FALSE
  PreserveEdits = FALSE
  AllowedOutcomes <- BothOutcomes
  AllowEscalation = TRUE
  RequireTicket = TRUE
  MaxRefundAttempts = 3
INVARIANTS
  ControlPasses
PROPERTIES
  Terminates
