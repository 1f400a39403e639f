------------------------------ MODULE AnyAgent ------------------------------
(***************************************************************************)
(* The test services driven by the most general agent: every handler may   *)
(* make any call of AgentRequests at any time, retry it with the same or   *)
(* another operation key, or advance the virtual clock.  What holds here    *)
(* holds of every agent under test, the intentional mutants included, under *)
(* any plan: handlers that meet at no barrier may also call in turn.        *)
(***************************************************************************)
EXTENDS Simulator

CONSTANTS
  AgentRequests,   \* the calls the agent may make
  Naps,            \* the amounts by which it may advance the clock
  ClockBound       \* bound of the model: the clock stops here

ASSUME AgentAssumption ==
  /\ UseBarrier => Cardinality(Handlers) > 1
  /\ AgentRequests \subseteq Request
  /\ Naps \subseteq Nat
  /\ ClockBound \in Nat

\* SupportTools returns, or raises, to the agent.
Collect(h) ==
  /\ call[h].pc = "replied"
  /\ call' = [call EXCEPT ![h] = Idle]
  /\ UNCHANGED <<service, counts, attempts, first, arrived, broken>>

\* context.sleep; a handler cannot sleep while one of its calls is running.
Nap(h, seconds) ==
  /\ call[h].pc = "idle"
  /\ clock + seconds <= ClockBound
  /\ Sleep(seconds)
  /\ UNCHANGED calls

Step(h) ==
  \/ \E req \in AgentRequests : Call(h, req) \/ OverBudget(h, req)
  \/ PassBarrier(h) \/ BreakBarrier(h)
  \/ Serve(h) \/ Respond(h) \/ StaleRead(h) \/ Collect(h)
  \/ \E s \in Naps : Nap(h, s)

Next == \E h \in Handlers : Step(h)

Spec == Init /\ [][Next]_vars

-----------------------------------------------------------------------------
\* Every table and every call in progress has the type of its schema.
TypeOK ==
  /\ clock \in Nat
  /\ allowed \subseteq {"refund", "ticket_write"}
  /\ refunds \in Seq(Refund)
  /\ registry \subseteq Entry
  /\ ticket \in Ticket
  /\ edited \in BOOLEAN /\ revoked \in BOOLEAN
  /\ deliveries \subseteq Delivery
  /\ counts \in [Tools -> Nat]
  /\ attempts \subseteq [handler: Handlers, at: Nat, n: Nat]
  /\ call \in [Handlers -> CallState]
  /\ first \subseteq Handlers /\ arrived \subseteq Handlers
  /\ broken \in BOOLEAN

\* The idempotency table and the refunds table never disagree, whatever the
\* handlers' interleaving: one row of each per operation key, with the same
\* parameters (the registry check of _refund and its two inserts are one
\* transaction).
RegistryConsistent ==
  /\ \A e \in registry : /\ e.refund \in DOMAIN refunds
                         /\ e = EntryOf(e.refund, refunds[e.refund])
  /\ \A i \in DOMAIN refunds : EntryOf(i, refunds[i]) \in registry

\* An operation key pays at most once: retries, lost responses and concurrent
\* handlers that use one key share one refund.
OneRefundPerKey ==
  \A i, j \in DOMAIN refunds : refunds[i].key = refunds[j].key => i = j

\* Accepted refunds of an order, settled or pending, never exceed what was
\* paid: two handlers cannot both spend the remaining balance, and a failed
\* refund gives its share back only once.
BalanceRespected == \A o \in Orders : Refunded(o) <= OrderAmount[o]

\* A create_refund that answers, or whose answer is then lost or hidden, names
\* the refund of its own key and parameters.
AnswersOwnRefund ==
  \A h \in Handlers :
    LET c == call[h]
    IN  c.pc \in {"committed", "replied"} /\ c.req.tool = "create_refund" /\ c.reply.refund # 0
          => /\ c.reply.refund \in DOMAIN refunds
             /\ LET r == refunds[c.reply.refund]
                IN  r.key = c.req.key /\ r.amount = c.req.amount /\ r.order = c.req.order

\* A notification tells of its refund: the terminal event only after the
\* refund has that status, the older pending one only beside it; only what was
\* received is acknowledged.
NoticesTruthful ==
  \A d \in deliveries :
    /\ d.refund \in DOMAIN refunds
    /\ d.status \in {refunds[d.refund].status, "pending"}
    /\ refunds[d.refund].status # "pending"
    /\ d.acked => d.delivered

\* An agent's note or status change is applied once per operation id, also
\* when its response was lost and the write is retried.
WritesOnce ==
  /\ \A m, n \in ticket.notes : m.op = n.op => m = n
  /\ \A u, v \in ticket.updates : u.op = v.op => u = v
  /\ ticket.version = InitialTicketVersion + Cardinality(ticket.notes)
                        + Cardinality(ticket.updates) + (IF edited THEN 1 ELSE 0)

\* Rows are never lost or rewritten: a refund keeps its parameters, leaves
\* "pending" at most once and only when its transition is due.
RefundsDurable ==
  [][ /\ Len(refunds') >= Len(refunds)
      /\ \A i \in DOMAIN refunds :
            \/ refunds'[i] = refunds[i]
            \/ /\ refunds[i].status = "pending" /\ refunds[i].due \in 0..clock'
               /\ refunds'[i] = [refunds[i] EXCEPT !.status = TerminalStatus] ]_vars

\* Once the refund permission is gone no new refund is accepted, not even by a
\* call that was already past the barrier when it was revoked.
NoRefundAfterRevocation ==
  [][ "refund" \notin allowed => Len(refunds') = Len(refunds) ]_vars

\* A pending refund's transition lies ahead: the clock never reaches it without
\* settling the refund (one scheduled without delay waits for the next sleep).
NoOverdueTransition ==
  \A i \in DOMAIN refunds :
    refunds[i].status = "pending" /\ refunds[i].due # Never =>
      \/ clock < refunds[i].due
      \/ clock = refunds[i].due /\ TransitionDelay = 0

-----------------------------------------------------------------------------
\* The refund of an operation key, as the abstract ledger sees it; a key paid
\* twice has no place there.
Paid(k) == {i \in DOMAIN refunds : refunds[i].key = k}
PaidBy == [k \in Keys |->
             IF Paid(k) = {} THEN [state |-> "none"]
             ELSE IF Cardinality(Paid(k)) > 1 THEN [state |-> "paid twice"]
             ELSE LET r == refunds[CHOOSE i \in Paid(k) : TRUE]
                  IN  [order |-> r.order, amount |-> r.amount, request |-> r.request,
                       state |-> r.status]]

Ledger == INSTANCE PaymentLedger
            WITH ledger <- PaidBy, Amounts <- Nat, Requests <- LogicalRequests,
                 Outcome <- TerminalStatus

\* The service implements the payment ledger: exactly-once payments per key,
\* under any interleaving of handlers, faults and retries.
ImplementsLedger == Ledger!Spec
=============================================================================
