SPECIFICATION Spec
CONSTANTS
  h1 = h1
  h2 = h2
  o1 = o1
  req1 = req1
  req2 = req2
  k0 = k0
  k1 = k1
  k2 = k2
  Handlers = {h1}
  Orders = {o1}
  OrderAmount <- MCOrderAmount
  Eligible = {o1}
  LogicalRequests = {req1, req2}
  Keys = {k0, k1, k2}
  InitialPermissions <- BothPermissions
  InitialTicketVersion = 1
  InitialTicketStatus = "open"
  InitialRefunds <- NoInitialRefunds
  MaxToolCalls = 6
  Faults <- DeskFaults
  UseBarrier = FALSE
  RefundInitialStatus = "pending"
  TerminalStatus = "succeeded"
  TransitionDelay = 1
  RateLimitUntil = 0
  HiddenUntil = 0
  StaleUntil = 0
  EmitEvents = TRUE
  EventDelivery = "reordered"
  RevokeAfterTicketRead = FALSE
  EditAfterTicketRead = TRUE
  AgentRequests <- DeskRequests
  Naps = {1, 2}
  ClockBound = 3
INVARIANTS
  WritesOnce
  NoticesTruthful
