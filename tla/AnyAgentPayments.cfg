SPECIFICATION Spec
CONSTANTS
  h1 = h1
  h2 = h2
  o1 = o1
  req1 = req1
  req2 = req2
  k0 = k0
  k1 = k1
  k2 = k2
  Handlers = {h1, h2}
  Orders = {o1}
  OrderAmount <- MCOrderAmount
  Eligible = {o1}
  LogicalRequests = {req1, req2}
  Keys = {k0, k1, k2}
  InitialPermissions <- BothPermissions
  InitialTicketVersion = 1
  InitialTicketStatus = "open"
  InitialRefunds <- MCInitialRefunds
  MaxToolCalls = 3
  Faults <- PaymentFaults
  UseBarrier = TRUE
  RefundInitialStatus = "pending"
  TerminalStatus = "failed"
  TransitionDelay = 1
  RateLimitUntil = 1
  HiddenUntil = 2
  StaleUntil = 1
  EmitEvents = FALSE
  EventDelivery = "normal"
  RevokeAfterTicketRead = TRUE
  EditAfterTicketRead = FALSE
  AgentRequests <- PaymentRequests
  Naps = {1, 2}
  ClockBound = 3
SYMMETRY AnyHandlerOrder
INVARIANTS
  TypeOK
  OneRefundPerKey
  BalanceRespected
  AnswersOwnRefund
PROPERTIES
  RefundsDurable
  NoRefundAfterRevocation
  ImplementsLedger
