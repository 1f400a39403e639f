SPECIFICATION RunSpec
CONSTANTS
  h1 = h1
  h2 = h2
  h3 = h3
  o1 = o1
  reqA = reqA
  reqB = reqB
  Handlers = {h1, h2, h3}
  Orders = {o1}
  OrderAmount <- LargeOrder
  Eligible = {o1}
  LogicalRequests = {reqA, reqB}
  Keys <- MCKeys
  InitialRefunds <- NoInitialRefunds
  InitialPermissions <- BothPermissions
  InitialTicketVersion = 1
  InitialTicketStatus = "open"
  MaxToolCalls = 60
  Faults <- EditFaults
  UseBarrier = FALSE
  RefundInitialStatus = "succeeded"
  TerminalStatus = "succeeded"
  TransitionDelay = 1
  RateLimitUntil = 2
  HiddenUntil = 0
  StaleUntil = 0
  EmitEvents = FALSE
  EventDelivery = "normal"
  RevokeAfterTicketRead = FALSE
  EditAfterTicketRead = TRUE
  Mode = "sequential"
  Plan <- ThreePlan
  Task <- MixedTasks
  Agents <- EveryAgent
  MaxAttempts = 3
  Deadline = 30
  Interruptible = TRUE
  ForbidNewEffects = FALSE
  PreserveEdits = TRUE
  AllowedOutcomes <- BothOutcomes
  AllowEscalation = TRUE
  RequireTicket = TRUE
  MaxRefundAttempts = 3
INVARIANTS
  RunTypeOK
  EditWins
  FaultyIsCaught
  ControlPasses
