----------------------------- MODULE Simulator -----------------------------
(***************************************************************************)
(* TestPay and TestDesk: the synthetic refund and ticket service an agent  *)
(* under test talks to (packages/breakroom-core/src/breakroom/simulator.py)*)
(* Every table lives in one SQLite file; each tool call of a handler thread *)
(* runs as several transactions, so the calls of concurrent handlers        *)
(* interleave between them:                                                 *)
(*                                                                         *)
(*   Call     count the call, apply a "before" fault       (lines 176-193) *)
(*   Serve    rate limit and the operation's transaction   (lines 194-198) *)
(*   Respond  lose, hide, falsify or deliver the response  (lines 199-218) *)
(*                                                                         *)
(* RateLimited and a hidden list_refunds read the clock a second time in a  *)
(* transaction of its own (AnnounceRetry, StaleRead): another handler may   *)
(* have advanced it in between.                                            *)
(*                                                                         *)
(* Abstractions.  A refund id is its position in "refunds"; one ticket, the *)
(* task's, stands for the tickets table; the synthetic customer, tenant,    *)
(* ownership and currency rows never change, so the orders they leave       *)
(* refundable are the constant Eligible.  A refund has at most one          *)
(* scheduled transition (its id is a primary key), kept with it as "due";   *)
(* the fixture's refunds have none.                                        *)
(* The evidence log is kept as what the evaluator counts in it: attempts.   *)
(***************************************************************************)
EXTENDS Integers, Sequences, FiniteSets, FiniteSetsExt

CONSTANTS
  Handlers,            \* the invocations of the execution plan
  Orders,              \* rows of the orders table
  OrderAmount,         \* amount_minor of every order
  Eligible,            \* visible, paid, owned by the requester, in the task's currency
  LogicalRequests,     \* logical request ids; also ticket operation ids
  Keys,                \* payment operation keys
  InitialRefunds,      \* refunds of the scenario's initial state
  InitialPermissions,  \* operations allowed at the start
  InitialTicketVersion, InitialTicketStatus,   \* the ticket of the initial state
  MaxToolCalls,        \* liveness.max_tool_calls of the scenario
  Faults,              \* faults of the scenario
  UseBarrier,          \* the plan is concurrent: first refunds meet at a barrier
  RefundInitialStatus, TerminalStatus, TransitionDelay,
  RateLimitUntil, HiddenUntil, StaleUntil,
  EmitEvents, EventDelivery,
  RevokeAfterTicketRead, EditAfterTicketRead

VARIABLES
  clock,       \* the virtual clock
  allowed,     \* permissions with allowed = 1
  refunds,     \* the refunds table, and the transition scheduled for each row
  registry,    \* the idempotency table
  ticket,      \* the task's ticket, its notes and its recorded operations
  edited,      \* the system edited the ticket (meta.ticket_edited)
  revoked,     \* the refund permission was revoked (meta.revoked)
  deliveries,  \* the event_deliveries table
  counts,      \* the invocations table
  attempts,    \* create_refund calls in the evidence log: who called, and when
  call,        \* the call each handler thread is executing
  first,       \* handlers whose next create_refund is their first
  arrived,     \* handlers that reached the barrier
  broken       \* the barrier broke (a wait timed out)

service == <<clock, allowed, refunds, registry, ticket, edited, revoked, deliveries>>
calls   == <<counts, attempts, call, first, arrived, broken>>
vars    == <<service, calls>>

-----------------------------------------------------------------------------
RefundStatuses == {"pending", "succeeded", "failed"}
TicketStatuses == {"open", "resolved", "escalated"}
LookupTools    == {"find_customers", "get_customer", "get_order"}
RefundTools    == {"create_refund", "list_refunds", "get_refund"}
Tools == LookupTools \cup RefundTools \cup
         {"get_ticket", "append_note", "update_ticket", "escalate", "receive_events", "ack_event"}

Never == -1   \* no transition is scheduled
Refund == [order: Orders, amount: Nat, request: LogicalRequests, key: Keys,
           status: RefundStatuses, due: Nat \cup {Never}]
Entry  == [key: Keys, order: Orders, amount: Nat, request: LogicalRequests, refund: Nat]
Ticket == [version: Nat, status: TicketStatuses,
           notes: SUBSET [op: LogicalRequests, about: Nat],
           updates: SUBSET [op: LogicalRequests, status: TicketStatuses]]

\* Deliveries are appended as refunds settle, in the order of the refunds
\* table, so delivery_id orders them by refund and then by copy.
Delivery == [refund: Nat, copy: {1, 2}, status: RefundStatuses,
             delivered: BOOLEAN, acked: BOOLEAN]

Request ==
  [tool: LookupTools \cup {"get_ticket", "receive_events"}]
    \cup [tool: {"list_refunds"}, order: Orders, request: LogicalRequests]
    \cup [tool: {"get_refund"}, refund: Nat]
    \cup [tool: {"create_refund"}, order: Orders, amount: Nat, key: Keys, request: LogicalRequests]
    \cup [tool: {"append_note"}, op: LogicalRequests, about: Nat, expected: Nat]
    \cup [tool: {"update_ticket"}, op: LogicalRequests, status: TicketStatuses, expected: Nat]
    \cup [tool: {"escalate"}, op: LogicalRequests]
    \cup [tool: {"ack_event"}, refund: Nat, status: RefundStatuses]

\* Every code but "ok" is an exception; "refused" stands for the ToolError
\* codes that are not retryable (permission_denied, not_found, conflicts...).
Codes == {"ok", "refused", "permission_denied", "version_conflict", "transport_timeout",
          "transient_error", "rate_limit", "unavailable", "budget_exceeded", "barrier_broken"}

Reply == [code: Codes, retry: Int, shape: {"full", "incomplete", "empty"},
          refund: Nat, status: RefundStatuses \cup {"none"}, found: SUBSET Nat,
          events: SUBSET Delivery, version: Nat, edited: BOOLEAN]

OkReply == [code |-> "ok", retry |-> 0, shape |-> "full", refund |-> 0, status |-> "none",
            found |-> {}, events |-> {}, version |-> 0, edited |-> FALSE]
ErrorReply(code, retry) == [OkReply EXCEPT !.code = code, !.retry = retry]
RefundReply(id, status) == [OkReply EXCEPT !.refund = id, !.status = status]
TicketReply(t, e)       == [OkReply EXCEPT !.version = t.version, !.edited = e]

NoRequest == [tool |-> "get_ticket"]
Idle == [pc |-> "idle", req |-> NoRequest, n |-> 0, reply |-> OkReply]
CallState == [pc: {"idle", "barrier", "called", "limited", "committed", "hidden", "replied"},
          req: Request, n: Nat, reply: Reply]

\* PHASE_ACTIONS: what may be injected at each phase of a call.
PhaseActions == [before        |-> {"transient_error", "permission_denied", "rate_limit", "unavailable"},
                 after_commit  |-> {"response_lost"},
                 read_response |-> {"incomplete", "stale"}]
FaultIn(p, tools) ==
  [tool: tools, invocation: Nat, retry: Nat, phase: {p}, action: PhaseActions[p]]
Fault == FaultIn("before", Tools) \cup FaultIn("read_response", Tools) \cup
         FaultIn("after_commit", {"create_refund", "append_note", "update_ticket"})

\* SUM(amount_minor) over the pending and succeeded refunds of an order.
Reserved(rows, o) ==
  MapThenSumSet(LAMBDA i : rows[i].amount,
                {i \in DOMAIN rows : rows[i].order = o /\ rows[i].status # "failed"})

(* What _validate_case and _validate_v2 establish of a scenario's fixture,  *)
(* faults and behavior; nothing else is assumed of them.                   *)
ValidFixture ==
  /\ OrderAmount \in [Orders -> Nat] /\ Eligible \subseteq Orders
  /\ InitialPermissions \subseteq {"refund", "ticket_write"}
  /\ InitialTicketVersion \in Nat \ {0} /\ InitialTicketStatus \in TicketStatuses
  /\ InitialRefunds \in Seq(Refund)
  /\ \A i \in DOMAIN InitialRefunds : InitialRefunds[i].due = Never
  /\ \A i, j \in DOMAIN InitialRefunds :
        InitialRefunds[i].key = InitialRefunds[j].key => i = j
  /\ \A o \in Orders : Reserved(InitialRefunds, o) <= OrderAmount[o]

ValidFaults == Faults \subseteq Fault

ValidBehavior ==
  /\ RefundInitialStatus \in {"pending", "succeeded"}
  /\ TerminalStatus \in {"succeeded", "failed"}
  /\ {TransitionDelay, RateLimitUntil, HiddenUntil, StaleUntil} \subseteq Nat
  /\ {EmitEvents, RevokeAfterTicketRead, EditAfterTicketRead} \subseteq BOOLEAN
  /\ EventDelivery \in {"normal", "duplicate", "reordered"}
  /\ EmitEvents => \E h \in Handlers : Handlers = {h}

ASSUME ServiceAssumption ==
  ValidFixture /\ ValidFaults /\ ValidBehavior /\ MaxToolCalls \in Nat /\ UseBarrier \in BOOLEAN

-----------------------------------------------------------------------------
\* Mutant of EntryOf: the row is filed under the logical request.
EntryByRequest(i, r) == [key |-> r.request, order |-> r.order, amount |-> r.amount,
                         request |-> r.request, refund |-> i]

\* The row the idempotency table keeps for refund i.
EntryOf(i, r) == [key |-> r.key, order |-> r.order, amount |-> r.amount,
                  request |-> r.request, refund |-> i]

Init ==
  /\ clock = 0
  /\ allowed = InitialPermissions
  /\ refunds = InitialRefunds
  /\ registry = {EntryOf(i, InitialRefunds[i]) : i \in DOMAIN InitialRefunds}
  /\ ticket = [version |-> InitialTicketVersion, status |-> InitialTicketStatus,
               notes |-> {}, updates |-> {}]
  /\ edited = FALSE
  /\ revoked = FALSE
  /\ deliveries = {}
  /\ counts = [t \in Tools |-> 0]
  /\ attempts = {}
  /\ call = [h \in Handlers |-> Idle]
  /\ first = IF UseBarrier THEN Handlers ELSE {}
  /\ arrived = {}
  /\ broken = FALSE

TotalCalls == MapThenSumSet(LAMBDA t : counts[t], Tools)

Refunded(o) == Reserved(refunds, o)

FaultsAt(tool, n, phase) ==
  {f \in Faults : f.tool = tool /\ f.invocation = n /\ f.phase = phase}

Finish(h, reply) == call' = [call EXCEPT ![h].pc = "replied", ![h].reply = reply]
Refuse(h, code)  == Finish(h, ErrorReply(code, 0))
Commit(h, reply) == call' = [call EXCEPT ![h].pc = "committed", ![h].reply = reply]

-----------------------------------------------------------------------------
(***************************************************************************)
(* dispatch, first transaction: count the call against the budget; a       *)
(* "before" fault refuses it before any write; the first create_refund of  *)
(* a handler of a concurrent plan goes to the barrier.                     *)
(***************************************************************************)
OverBudget(h, req) ==
  /\ call[h].pc = "idle"
  /\ TotalCalls >= MaxToolCalls
  /\ call' = [call EXCEPT ![h] = [Idle EXCEPT !.pc = "replied", !.req = req,
                                     !.reply = ErrorReply("budget_exceeded", 0)]]
  /\ UNCHANGED <<service, counts, attempts, first, arrived, broken>>

Call(h, req) ==
  /\ call[h].pc = "idle"
  /\ TotalCalls < MaxToolCalls
  /\ LET n == counts[req.tool] + 1
         refusals == FaultsAt(req.tool, n, "before")
         started == [Idle EXCEPT !.req = req, !.n = n]
         waits == req.tool = "create_refund" /\ h \in first
     IN  /\ counts' = [counts EXCEPT ![req.tool] = n]
         /\ attempts' = IF req.tool = "create_refund"
                          THEN attempts \cup {[handler |-> h, at |-> clock, n |-> n]}
                          ELSE attempts
         /\ \/ \E f \in refusals :
                 /\ call' = [call EXCEPT ![h] = [started EXCEPT !.pc = "replied",
                                                   !.reply = ErrorReply(f.action, f.retry)]]
                 /\ UNCHANGED <<first, arrived>>
            \/ /\ refusals = {}
               /\ call' = [call EXCEPT ![h] = [started EXCEPT
                                !.pc = IF waits THEN "barrier" ELSE "called"]]
               /\ first' = IF waits THEN first \ {h} ELSE first
               /\ arrived' = IF waits /\ ~broken THEN arrived \cup {h} ELSE arrived
  /\ UNCHANGED <<service, broken>>

\* Barrier.wait: everyone arrived.
PassBarrier(h) ==
  /\ call[h].pc = "barrier"
  /\ arrived = Handlers
  /\ call' = [call EXCEPT ![h].pc = "called"]
  /\ UNCHANGED <<service, counts, attempts, first, arrived, broken>>

\* Mutant of BreakBarrier: the wait has no timeout.
KeepWaiting(h) == call[h].pc = "barrier" /\ arrived # Handlers /\ UNCHANGED vars

\* Barrier.wait(timeout=5): a wait that expires breaks the barrier for all.
BreakBarrier(h) ==
  /\ call[h].pc = "barrier"
  /\ arrived # Handlers
  /\ broken' = TRUE
  /\ Refuse(h, "barrier_broken")
  /\ UNCHANGED <<service, counts, attempts, first, arrived>>

-----------------------------------------------------------------------------
(***************************************************************************)
(* The operation's own transaction.                                        *)
(***************************************************************************)
Serving(h, tool) == call[h].pc = "called" /\ call[h].req.tool = tool

RateLimited(h) ==
  /\ Serving(h, "create_refund")
  /\ clock < RateLimitUntil
  /\ call' = [call EXCEPT ![h].pc = "limited"]
  /\ UNCHANGED <<service, counts, attempts, first, arrived, broken>>

AnnounceRetry(h) ==
  /\ call[h].pc = "limited"
  /\ Finish(h, ErrorReply("rate_limit", RateLimitUntil - clock))
  /\ UNCHANGED <<service, counts, attempts, first, arrived, broken>>

\* Mutant of SameParameters: the amount is not compared.
SameOrder(e, a) == e.order = a.order /\ e.request = a.request
\* Mutant of Registered: a key whose refund failed may be used again.
RegisteredUnlessFailed(key) == {e \in registry : e.key = key /\ refunds[e.refund].status # "failed"}
\* Mutant of Admissible: the permission is not read again.
Refundable(a) == a.amount > 0 /\ a.order \in Eligible
\* Mutant of Fits: earlier refunds are not counted.
FitsAlone(a) == a.amount <= OrderAmount[a.order]

SameParameters(e, a) == e.order = a.order /\ e.amount = a.amount /\ e.request = a.request
Registered(key) == {e \in registry : e.key = key}
Admissible(a) == "refund" \in allowed /\ a.amount > 0 /\ a.order \in Eligible
Fits(a) == Refunded(a.order) + a.amount <= OrderAmount[a.order]

\* _queue_notifications: the terminal event, twice, or followed by the older
\* pending one.
SecondNotice(status) == CASE EventDelivery = "normal"    -> {}
                          [] EventDelivery = "duplicate" -> {status}
                          [] EventDelivery = "reordered" -> {"pending"}

Notices(id, status) ==
  LET row(copy, s) == [refund |-> id, copy |-> copy, status |-> s,
                       delivered |-> FALSE, acked |-> FALSE]
  IN  IF EmitEvents THEN {row(1, status)} \cup {row(2, s) : s \in SecondNotice(status)} ELSE {}

NewRefund(a) == [order |-> a.order, amount |-> a.amount, request |-> a.request, key |-> a.key,
                 status |-> RefundInitialStatus,
                 due |-> IF RefundInitialStatus = "pending" THEN clock + TransitionDelay ELSE Never]

Record(id, r) == registry' = registry \cup {EntryOf(id, r)}

CommitRefund(h) ==
  LET a == call[h].req
      id == Len(refunds) + 1
  IN  /\ Serving(h, "create_refund") /\ clock >= RateLimitUntil
      /\ Admissible(a) /\ Registered(a.key) = {} /\ Fits(a)
      /\ refunds' = Append(refunds, NewRefund(a))
      /\ Record(id, NewRefund(a))
      /\ deliveries' = IF RefundInitialStatus = "pending" THEN deliveries
                       ELSE deliveries \cup Notices(id, RefundInitialStatus)
      /\ Commit(h, RefundReply(id, RefundInitialStatus))
      /\ UNCHANGED <<clock, allowed, ticket, edited, revoked,
                     counts, attempts, first, arrived, broken>>

ReuseRefund(h) ==
  LET a == call[h].req
  IN  /\ Serving(h, "create_refund") /\ clock >= RateLimitUntil
      /\ Admissible(a)
      /\ \E e \in Registered(a.key) :
            /\ SameParameters(e, a)
            /\ Commit(h, RefundReply(e.refund, refunds[e.refund].status))
      /\ UNCHANGED <<service, counts, attempts, first, arrived, broken>>

RefuseRefund(h) ==
  LET a == call[h].req
  IN  /\ Serving(h, "create_refund") /\ clock >= RateLimitUntil
      /\ \/ ~Admissible(a)
         \/ \E e \in Registered(a.key) : ~SameParameters(e, a)
         \/ Registered(a.key) = {} /\ ~Fits(a)
      /\ Refuse(h, "refused")
      /\ UNCHANGED <<service, counts, attempts, first, arrived, broken>>

\* find_customers, get_customer, get_order, list_refunds, get_refund.
Read(h) ==
  LET a == call[h].req
  IN  /\ call[h].pc = "called"
      /\ \/ /\ a.tool \in LookupTools
            /\ Commit(h, OkReply)
         \/ /\ a.tool = "list_refunds"
            /\ Commit(h, [OkReply EXCEPT !.found =
                 {i \in DOMAIN refunds : refunds[i].order = a.order
                                          /\ refunds[i].request = a.request}])
         \/ /\ a.tool = "get_refund" /\ a.refund \in DOMAIN refunds
            /\ Commit(h, RefundReply(a.refund, refunds[a.refund].status))
         \/ /\ a.tool = "get_refund" /\ a.refund \notin DOMAIN refunds
            /\ Refuse(h, "refused")
      /\ UNCHANGED <<service, counts, attempts, first, arrived, broken>>

\* get_ticket answers with the ticket as it was read; the scripted system
\* interventions come after that read, in the same transaction.
GetTicket(h) ==
  LET revoke == RevokeAfterTicketRead /\ ~revoked
      edit   == EditAfterTicketRead /\ counts["get_ticket"] = 2 /\ ~edited
  IN  /\ Serving(h, "get_ticket")
      /\ Commit(h, TicketReply(ticket, edited))
      /\ allowed' = IF revoke THEN allowed \ {"refund"} ELSE allowed
      /\ revoked' = (revoked \/ revoke)
      /\ ticket' = IF edit THEN [ticket EXCEPT !.version = @ + 1, !.status = "open"] ELSE ticket
      /\ edited' = (edited \/ edit)
      /\ UNCHANGED <<clock, refunds, registry, deliveries,
                     counts, attempts, first, arrived, broken>>

\* _ticket_write: an operation id already recorded is answered, not applied
\* again; otherwise a stale expected_version (0 stands for None) conflicts.
StaleAhead(a) == a.expected > ticket.version   \* mutant of Stale
Stale(a) == a.expected # 0 /\ a.expected # ticket.version

WriteTicket(h, applied, recorded, same) ==
  /\ \/ /\ "ticket_write" \in allowed
        /\ recorded = {} /\ ~Stale(call[h].req)
        /\ ticket' = applied
        /\ Commit(h, TicketReply(applied, edited))
     \/ /\ "ticket_write" \in allowed
        /\ same
        /\ Commit(h, TicketReply(ticket, edited))
        /\ UNCHANGED ticket
     \/ /\ "ticket_write" \in allowed
        /\ recorded = {} /\ Stale(call[h].req)
        /\ Refuse(h, "version_conflict")
        /\ UNCHANGED ticket
     \/ /\ "ticket_write" \notin allowed \/ (recorded # {} /\ ~same)
        /\ Refuse(h, "refused")
        /\ UNCHANGED ticket
  /\ UNCHANGED <<clock, allowed, refunds, registry, edited, revoked, deliveries,
                 counts, attempts, first, arrived, broken>>

\* Mutant of AppendNote: a repeated operation id is noticed only with the same text.
AppendAnyNote(h) ==
  LET a == call[h].req
      note == [op |-> a.op, about |-> a.about]
  IN  /\ Serving(h, "append_note")
      /\ WriteTicket(h, [ticket EXCEPT !.version = @ + 1, !.notes = @ \cup {note}],
                     ticket.notes \cap {note}, note \in ticket.notes)

AppendNote(h) ==
  LET a == call[h].req
      note == [op |-> a.op, about |-> a.about]
  IN  /\ Serving(h, "append_note")
      /\ WriteTicket(h, [ticket EXCEPT !.version = @ + 1, !.notes = @ \cup {note}],
                     {n \in ticket.notes : n.op = a.op}, note \in ticket.notes)

UpdateTicket(h) ==
  LET a == call[h].req
      update == [op |-> a.op, status |-> a.status]
  IN  /\ Serving(h, "update_ticket")
      /\ WriteTicket(h, [ticket EXCEPT !.version = @ + 1, !.status = a.status,
                                       !.updates = @ \cup {update}],
                     {u \in ticket.updates : u.op = a.op}, update \in ticket.updates)

\* escalate only records its request in the evidence log.
Escalate(h) ==
  /\ Serving(h, "escalate")
  /\ Commit(h, OkReply)
  /\ UNCHANGED <<service, counts, attempts, first, arrived, broken>>

\* receive_events: the undelivered rows (at most 8, more than a trial emits).
ReceiveEvents(h) ==
  LET batch == {d \in deliveries : ~d.delivered}
  IN  /\ Serving(h, "receive_events")
      /\ deliveries' = (deliveries \ batch) \cup {[d EXCEPT !.delivered = TRUE] : d \in batch}
      /\ Commit(h, [OkReply EXCEPT !.events = batch])
      /\ UNCHANGED <<clock, allowed, refunds, registry, ticket, edited, revoked,
                     counts, attempts, first, arrived, broken>>

\* Mutant of Acknowledged: an event may be acknowledged before it is received.
AcknowledgedUnseen(a) == {d \in deliveries : d.refund = a.refund /\ d.status = a.status}

\* ack_event: by event id, so every received copy of the event.
Acknowledged(a) ==
  {d \in deliveries : d.delivered /\ d.refund = a.refund /\ d.status = a.status}

AckEvent(h) ==
  LET acks == Acknowledged(call[h].req)
  IN  /\ Serving(h, "ack_event")
      /\ deliveries' = (deliveries \ acks) \cup {[d EXCEPT !.acked = TRUE] : d \in acks}
      /\ IF acks = {} THEN Refuse(h, "refused") ELSE Commit(h, OkReply)
      /\ UNCHANGED <<clock, allowed, refunds, registry, ticket, edited, revoked,
                     counts, attempts, first, arrived, broken>>

Serve(h) ==
  \/ RateLimited(h) \/ AnnounceRetry(h) \/ CommitRefund(h) \/ ReuseRefund(h)
  \/ RefuseRefund(h) \/ Read(h) \/ GetTicket(h) \/ AppendNote(h) \/ UpdateTicket(h)
  \/ Escalate(h) \/ ReceiveEvents(h) \/ AckEvent(h)

-----------------------------------------------------------------------------
(***************************************************************************)
(* After the operation's commit: the response may be lost, hidden, stale   *)
(* or incomplete.  Whatever happens here, the effect stands.               *)
(***************************************************************************)
Hidden(tool) == tool \in RefundTools /\ clock < HiddenUntil

Respond(h) ==
  LET c == call[h]
      tool == c.req.tool
      lost == FaultsAt(tool, c.n, "after_commit") # {}
      falsified == FaultsAt(tool, c.n, "read_response")
  IN  /\ c.pc = "committed"
      /\ \/ /\ lost \/ (Hidden(tool) /\ tool # "list_refunds")
            /\ Refuse(h, "transport_timeout")
         \/ /\ ~lost /\ Hidden(tool) /\ tool = "list_refunds"
            /\ call' = [call EXCEPT ![h].pc = "hidden"]
         \/ /\ ~lost /\ ~Hidden(tool)
            /\ \E f \in falsified :
                 Finish(h, IF f.action = "stale" THEN [OkReply EXCEPT !.shape = "empty"]
                           ELSE [c.reply EXCEPT !.shape = "incomplete",
                                                !.refund = 0, !.status = "none"])
         \/ /\ ~lost /\ ~Hidden(tool) /\ falsified = {}
            /\ Finish(h, c.reply)
      /\ UNCHANGED <<service, counts, attempts, first, arrived, broken>>

\* A hidden list is answered from before the first refund, or not at all.
StaleRead(h) ==
  /\ call[h].pc = "hidden"
  /\ \/ clock < StaleUntil /\ Finish(h, [OkReply EXCEPT !.shape = "empty"])
     \/ clock >= StaleUntil /\ Refuse(h, "transport_timeout")
  /\ UNCHANGED <<service, counts, attempts, first, arrived, broken>>

(***************************************************************************)
(* sleep: advance the clock; every pending refund whose transition is due  *)
(* settles, and its notification is queued, in the same transaction.       *)
(***************************************************************************)
\* Mutant of Due: the status is not compared.
DueAgain(now) == {i \in DOMAIN refunds : refunds[i].due <= now}

Due(now) == {i \in DOMAIN refunds : refunds[i].status = "pending" /\ refunds[i].due \in 0..now}

Sleep(seconds) ==
  LET now == clock + seconds
  IN  /\ clock' = now
      /\ refunds' = [i \in DOMAIN refunds |->
                       IF i \in Due(now) THEN [refunds[i] EXCEPT !.status = TerminalStatus]
                                         ELSE refunds[i]]
      /\ deliveries' = deliveries \cup UNION {Notices(i, TerminalStatus) : i \in Due(now)}
      /\ UNCHANGED <<allowed, registry, ticket, edited, revoked>>
=============================================================================
