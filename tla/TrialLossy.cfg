SPECIFICATION RunSpec
CONSTANTS
  h1 = h1
  h2 = h2
  h3 = h3
  o1 = o1
  reqA = reqA
  reqB = reqB
  Handlers = {h1}
  Orders = {o1}
  OrderAmount <- MCOrderAmount
  Eligible = {o1}
  LogicalRequests = {reqA}
  Keys <- MCKeys
  InitialRefunds <- NoInitialRefunds
  InitialPermissions <- BothPermissions
  InitialTicketVersion = 1
  InitialTicketStatus = "resolved"
  MaxToolCalls = 60
  Faults <- LossyFaults
  UseBarrier = FALSE
  RefundInitialStatus = "pending"
  TerminalStatus = "succeeded"
  TransitionDelay = 1
  RateLimitUntil = 0
  HiddenUntil = 1
  StaleUntil = 1
  EmitEvents = TRUE
  EventDelivery = "reordered"
  RevokeAfterTicketRead = FALSE
  EditAfterTicketRead = FALSE
  Mode = "single"
  Plan <- OnePlan
  Task <- SameRequest
  Agents = {"corrected"}
  MaxAttempts = 3
  Deadline = 12
  Interruptible = TRUE
  ForbidNewEffects = FALSE
  PreserveEdits = FALSE
  AllowedOutcomes <- BothOutcomes
  AllowEscalation = TRUE
  RequireTicket = TRUE
  MaxRefundAttempts = 3
INVARIANTS
  ControlPasses
