--------------------------- MODULE AnyAgentProofs ---------------------------
(***************************************************************************)
(* Proofs about the test services under the most general agent, for every  *)
(* number of handlers, orders, keys, faults and calls.                     *)
(***************************************************************************)
EXTENDS AnyAgent, TLAPS, FiniteSetTheorems

\* What the proofs use of a validated scenario.
LEMMA ValidScenario ==
  /\ OrderAmount \in [Orders -> Nat] /\ Eligible \subseteq Orders
  /\ InitialPermissions \subseteq {"refund", "ticket_write"}
  /\ InitialTicketVersion \in Nat \ {0} /\ InitialTicketStatus \in TicketStatuses
  /\ InitialRefunds \in Seq(Refund)
  /\ \A i \in DOMAIN InitialRefunds : InitialRefunds[i].due = Never
  /\ \A i, j \in DOMAIN InitialRefunds : InitialRefunds[i].key = InitialRefunds[j].key => i = j
  /\ Faults \subseteq Fault /\ MaxToolCalls \in Nat
  /\ RefundInitialStatus \in {"pending", "succeeded"}
  /\ TerminalStatus \in {"succeeded", "failed"}
  /\ {TransitionDelay, RateLimitUntil, HiddenUntil, StaleUntil} \subseteq Nat
  /\ {UseBarrier, EmitEvents, RevokeAfterTicketRead, EditAfterTicketRead} \subseteq BOOLEAN
  /\ EventDelivery \in {"normal", "duplicate", "reordered"}
BY ServiceAssumption DEF ValidFixture, ValidFaults, ValidBehavior

-----------------------------------------------------------------------------
(* Typing of replies and of the call table. *)

\* Every reply the operations build is a reply.
LEMMA ReplyTypes ==
  /\ OkReply \in Reply
  /\ \A code \in Codes, retry \in Int : ErrorReply(code, retry) \in Reply
  /\ \A code \in Codes : ErrorReply(code, 0) \in Reply
  /\ \A id \in Nat, status \in RefundStatuses : RefundReply(id, status) \in Reply
  /\ \A t \in Ticket, e \in BOOLEAN : TicketReply(t, e) \in Reply
  /\ \A s \in SUBSET Nat : [OkReply EXCEPT !.found = s] \in Reply
  /\ \A s \in SUBSET Delivery : [OkReply EXCEPT !.events = s] \in Reply
  /\ [OkReply EXCEPT !.shape = "empty"] \in Reply
  /\ \A r \in Reply : [r EXCEPT !.shape = "incomplete", !.refund = 0, !.status = "none"] \in Reply
<1>1. OkReply \in Reply
  BY DEF OkReply, Reply, Codes
<1>2. \A code \in Codes, retry \in Int : ErrorReply(code, retry) \in Reply
  BY <1>1 DEF ErrorReply, Reply
<1>0. \A code \in Codes : ErrorReply(code, 0) \in Reply
  BY <1>2
<1>3. \A id \in Nat, status \in RefundStatuses : RefundReply(id, status) \in Reply
  BY <1>1 DEF RefundReply, Reply
<1>4. \A t \in Ticket, e \in BOOLEAN : TicketReply(t, e) \in Reply
  BY <1>1 DEF TicketReply, Reply, Ticket
<1>5. \A s \in SUBSET Nat : [OkReply EXCEPT !.found = s] \in Reply
  BY <1>1 DEF Reply
<1>6. \A s \in SUBSET Delivery : [OkReply EXCEPT !.events = s] \in Reply
  BY <1>1 DEF Reply
<1>7. [OkReply EXCEPT !.shape = "empty"] \in Reply
  BY <1>1 DEF Reply
<1>8. \A r \in Reply : [r EXCEPT !.shape = "incomplete", !.refund = 0, !.status = "none"] \in Reply
  BY DEF Reply
<1> QED BY <1>0, <1>1, <1>2, <1>3, <1>4, <1>5, <1>6, <1>7, <1>8

LEMMA IdleType == Idle \in CallState
BY ReplyTypes DEF Idle, CallState, NoRequest, Request

\* Answering a call keeps the table of calls well typed.
LEMMA CallTypes ==
  ASSUME NEW h \in Handlers, NEW reply \in Reply, call \in [Handlers -> CallState]
  PROVE  /\ Finish(h, reply) => call' \in [Handlers -> CallState]
         /\ Commit(h, reply) => call' \in [Handlers -> CallState]
<1>2. call[h] \in CallState
  OBVIOUS
<1>3. /\ [call[h] EXCEPT !.pc = "replied", !.reply = reply] \in CallState
      /\ [call[h] EXCEPT !.pc = "committed", !.reply = reply] \in CallState
  BY <1>2 DEF CallState
<1>4. Finish(h, reply) => call' \in [Handlers -> CallState]
  BY <1>3 DEF Finish
<1>5. Commit(h, reply) => call' \in [Handlers -> CallState]
  BY <1>3 DEF Commit
<1> QED BY <1>4, <1>5

LEMMA CallParts ==
  ASSUME TypeOK, NEW h \in Handlers
  PROVE  /\ call[h] \in CallState
         /\ call[h].req \in Request /\ call[h].n \in Nat /\ call[h].reply \in Reply
BY DEF TypeOK, CallState

-----------------------------------------------------------------------------
(* The type invariant. *)

USE DEF service, calls, vars

\* What any agent at all may do: a step of AnyAgent without the bounds of its
\* instances, any call and a rest of any length.  A trial's steps are such too.
Rest(s) == Sleep(s) /\ UNCHANGED calls

AnyStep(h) ==
  \/ \E req \in Request : Call(h, req) \/ OverBudget(h, req)
  \/ PassBarrier(h) \/ BreakBarrier(h)
  \/ Serve(h) \/ Respond(h) \/ StaleRead(h) \/ Collect(h)
  \/ \E s \in Nat : Rest(s)

AnyNext == \E h \in Handlers : AnyStep(h)

LEMMA BoundedStep == [Next]_vars => [AnyNext]_vars
BY AgentAssumption DEF Next, Step, Nap, AnyNext, AnyStep, Rest

LEMMA InitTypeOK == Init => TypeOK
<1> SUFFICES ASSUME Init PROVE TypeOK
  OBVIOUS
<1>1. registry \subseteq Entry
  <2> SUFFICES ASSUME NEW i \in DOMAIN InitialRefunds
               PROVE EntryOf(i, InitialRefunds[i]) \in Entry
    BY DEF Init
  <2>1. InitialRefunds[i] \in Refund /\ i \in Nat
    BY ValidScenario
  <2> QED BY <2>1 DEF EntryOf, Entry, Refund
<1>2. ticket \in Ticket
  BY ValidScenario DEF Init, Ticket
<1>3. call \in [Handlers -> CallState]
  BY IdleType DEF Init
<1>4. /\ first \subseteq Handlers /\ arrived \subseteq Handlers
      /\ broken \in BOOLEAN /\ edited \in BOOLEAN /\ revoked \in BOOLEAN
      /\ attempts \subseteq [handler: Handlers, at: Nat, n: Nat]
      /\ deliveries \subseteq Delivery
  BY DEF Init
<1>5. /\ clock \in Nat /\ counts \in [Tools -> Nat]
      /\ allowed \subseteq {"refund", "ticket_write"} /\ refunds \in Seq(Refund)
  BY ValidScenario DEF Init
<1> QED BY <1>1, <1>2, <1>3, <1>4, <1>5 DEF TypeOK

\* The notifications of a settled refund are deliveries.
LEMMA NoticeTypes ==
  ASSUME NEW id \in Nat, NEW status \in RefundStatuses
  PROVE  Notices(id, status) \subseteq Delivery
<1>1. SecondNotice(status) \subseteq RefundStatuses
  BY ValidScenario DEF SecondNotice, RefundStatuses
<1>2. \A copy \in {1, 2}, t \in RefundStatuses :
        [refund |-> id, copy |-> copy, status |-> t, delivered |-> FALSE, acked |-> FALSE]
          \in Delivery
  BY DEF Delivery
<1> QED BY <1>1, <1>2 DEF Notices

LEMMA CallTypeOK ==
  ASSUME TypeOK, NEW h \in Handlers, NEW req \in Request, Call(h, req)
  PROVE  TypeOK'
<1> DEFINE n == counts[req.tool] + 1
           started == [Idle EXCEPT !.req = req, !.n = n]
<1>1. req.tool \in Tools
  BY DEF Request, Tools, LookupTools, RefundTools
<1>2. n \in Nat /\ Idle \in CallState
  BY <1>1, IdleType DEF TypeOK
<1>3. counts' \in [Tools -> Nat]
  BY <1>2 DEF Call, TypeOK
<1>4. attempts' \subseteq [handler: Handlers, at: Nat, n: Nat]
  <2>1. [handler |-> h, at |-> clock, n |-> n] \in [handler: Handlers, at: Nat, n: Nat]
    BY <1>2 DEF TypeOK
  <2> QED BY <2>1 DEF Call, TypeOK
<1>5. call' \in [Handlers -> CallState]
  <2>1. CASE \E f \in FaultsAt(req.tool, n, "before") :
                call' = [call EXCEPT ![h] = [started EXCEPT !.pc = "replied",
                                               !.reply = ErrorReply(f.action, f.retry)]]
    <3>1. PICK f \in FaultsAt(req.tool, n, "before") :
                call' = [call EXCEPT ![h] = [started EXCEPT !.pc = "replied",
                                               !.reply = ErrorReply(f.action, f.retry)]]
      BY <2>1
    <3>2. f.action \in Codes /\ f.retry \in Int
      BY ValidScenario DEF FaultsAt, Fault, FaultIn, PhaseActions, Codes
    <3>3. ErrorReply(f.action, f.retry) \in Reply
      BY <3>2, ReplyTypes
    <3>4. [started EXCEPT !.pc = "replied", !.reply = ErrorReply(f.action, f.retry)] \in CallState
      BY <3>3, <1>2 DEF CallState
    <3> QED BY <3>1, <3>4 DEF TypeOK
  <2>2. CASE \E pc \in {"barrier", "called"} : call' = [call EXCEPT ![h] = [started EXCEPT !.pc = pc]]
    <3>1. \A pc \in {"barrier", "called"} : [started EXCEPT !.pc = pc] \in CallState
      BY <1>2 DEF CallState
    <3> QED BY <2>2, <3>1 DEF TypeOK
  <2> QED BY <2>1, <2>2 DEF Call
<1>6. first' \subseteq Handlers /\ arrived' \subseteq Handlers
  BY DEF Call, TypeOK
<1> QED BY <1>3, <1>4, <1>5, <1>6 DEF Call, TypeOK

LEMMA OverBudgetTypeOK ==
  ASSUME TypeOK, NEW h \in Handlers, NEW req \in Request, OverBudget(h, req)
  PROVE  TypeOK'
<1>1. [Idle EXCEPT !.pc = "replied", !.req = req, !.reply = ErrorReply("budget_exceeded", 0)]
        \in CallState
  <2>1. ErrorReply("budget_exceeded", 0) \in Reply
    BY ReplyTypes DEF Codes
  <2> QED BY <2>1, IdleType DEF CallState
<1>2. call' \in [Handlers -> CallState]
  BY <1>1 DEF OverBudget, TypeOK
<1> QED BY <1>2 DEF OverBudget, TypeOK

\* The two barrier steps.
LEMMA BarrierTypeOK ==
  ASSUME TypeOK, NEW h \in Handlers, PassBarrier(h) \/ BreakBarrier(h)
  PROVE  TypeOK'
<1>1. CASE PassBarrier(h)
  <2>1. [call[h] EXCEPT !.pc = "called"] \in CallState
    BY DEF CallState, TypeOK
  <2> QED BY <1>1, <2>1 DEF PassBarrier, TypeOK
<1>2. CASE BreakBarrier(h)
  <2>1. ErrorReply("barrier_broken", 0) \in Reply
    BY ReplyTypes DEF Codes
  <2>2. call' \in [Handlers -> CallState]
    BY <1>2, <2>1, CallTypes DEF BreakBarrier, Refuse, TypeOK
  <2> QED BY <1>2, <2>2 DEF BreakBarrier, TypeOK
<1> QED BY <1>1, <1>2

\* A call of a tool carries the arguments of that tool.
LEMMA RequestTypes ==
  ASSUME NEW req \in Request
  PROVE  /\ req.tool = "create_refund" =>
              /\ req.order \in Orders /\ req.amount \in Nat
              /\ req.key \in Keys /\ req.request \in LogicalRequests
         /\ req.tool = "append_note" =>
              req.op \in LogicalRequests /\ req.about \in Nat /\ req.expected \in Nat
         /\ req.tool = "update_ticket" =>
              req.op \in LogicalRequests /\ req.status \in TicketStatuses /\ req.expected \in Nat
BY DEF Request, LookupTools

\* A refused call changes nothing but its own reply.
LEMMA RefuseTypeOK ==
  ASSUME TypeOK, NEW h \in Handlers, NEW reply \in Reply, Finish(h, reply) \/ Commit(h, reply),
         UNCHANGED <<service, counts, attempts, first, arrived, broken>>
  PROVE  TypeOK'
BY CallTypes DEF TypeOK

LEMMA NewRefundType ==
  ASSUME TypeOK, NEW a \in Request, a.tool = "create_refund"
  PROVE  /\ NewRefund(a) \in Refund
         /\ \A i \in Nat : EntryOf(i, NewRefund(a)) \in Entry
<1>1. NewRefund(a) \in Refund
  BY RequestTypes, ValidScenario DEF NewRefund, Refund, RefundStatuses, TypeOK
<1>2. \A i \in Nat : EntryOf(i, NewRefund(a)) \in Entry
  BY <1>1 DEF EntryOf, Entry, Refund
<1> QED BY <1>1, <1>2

LEMMA RefundRows ==
  ASSUME TypeOK, NEW i \in DOMAIN refunds
  PROVE  i \in Nat /\ refunds[i] \in Refund /\ refunds[i].status \in RefundStatuses
<1>1. refunds \in Seq(Refund)
  BY DEF TypeOK
<1>2. i \in 1..Len(refunds) /\ Len(refunds) \in Nat
  BY <1>1
<1>3. i \in Nat /\ refunds[i] \in Refund
  BY <1>1, <1>2
<1> QED BY <1>3 DEF Refund

LEMMA CreateRefundTypeOK ==
  ASSUME TypeOK, RegistryConsistent, NEW h \in Handlers,
         RateLimited(h) \/ AnnounceRetry(h) \/ CommitRefund(h) \/ ReuseRefund(h) \/ RefuseRefund(h)
  PROVE  TypeOK'
<1> DEFINE a == call[h].req
           id == Len(refunds) + 1
<1>0. a \in Request /\ id \in Nat
  BY CallParts DEF TypeOK
<1>1. CASE RateLimited(h)
  <2>1. [call[h] EXCEPT !.pc = "limited"] \in CallState
    BY CallParts DEF CallState
  <2> QED BY <1>1, <2>1 DEF RateLimited, TypeOK
<1>5. CASE AnnounceRetry(h)
  <2>1. ErrorReply("rate_limit", RateLimitUntil - clock) \in Reply
    <3>1. RateLimitUntil - clock \in Int
      BY ValidScenario DEF TypeOK
    <3> QED BY <3>1, ReplyTypes DEF Codes
  <2> QED BY <1>5, <2>1, RefuseTypeOK DEF AnnounceRetry
<1>2. CASE CommitRefund(h)
  <2>1. /\ NewRefund(a) \in Refund /\ EntryOf(id, NewRefund(a)) \in Entry
    BY <1>0, <1>2, NewRefundType DEF CommitRefund, Serving
  <2>2. refunds' \in Seq(Refund)
    BY <1>2, <2>1 DEF CommitRefund, TypeOK
  <2>3. registry' \subseteq Entry
    BY <1>2, <2>1 DEF CommitRefund, Record, TypeOK
  <2>4. deliveries' \subseteq Delivery
    <3>1. Notices(id, RefundInitialStatus) \subseteq Delivery
      BY <1>0, NoticeTypes, ValidScenario DEF RefundStatuses
    <3> QED BY <1>2, <3>1 DEF CommitRefund, TypeOK
  <2>5. call' \in [Handlers -> CallState]
    <3>1. RefundReply(id, RefundInitialStatus) \in Reply
      BY <1>0, ReplyTypes, ValidScenario DEF RefundStatuses
    <3> QED BY <1>2, <3>1, CallTypes DEF CommitRefund, TypeOK
  <2> QED BY <1>2, <2>2, <2>3, <2>4, <2>5 DEF CommitRefund, TypeOK
<1>3. CASE RefuseRefund(h)
  <2>1. ErrorReply("refused", 0) \in Reply
    BY ReplyTypes DEF Codes
  <2> QED BY <1>3, <2>1, RefuseTypeOK DEF RefuseRefund, Refuse
<1>4. CASE ReuseRefund(h)
  <2>1. PICK e \in registry : Commit(h, RefundReply(e.refund, refunds[e.refund].status))
    BY <1>4 DEF ReuseRefund, Registered
  <2>2. e.refund \in DOMAIN refunds
    BY DEF RegistryConsistent
  <2>3. RefundReply(e.refund, refunds[e.refund].status) \in Reply
    BY <2>2, ReplyTypes, RefundRows
  <2> QED BY <1>4, <2>1, <2>3, RefuseTypeOK DEF ReuseRefund
<1> QED BY <1>1, <1>2, <1>3, <1>4, <1>5

LEMMA ReadTypeOK ==
  ASSUME TypeOK, NEW h \in Handlers, Read(h) \/ Escalate(h)
  PROVE  TypeOK'
<1> DEFINE a == call[h].req
           matches == {i \in DOMAIN refunds : refunds[i].order = a.order
                                               /\ refunds[i].request = a.request}
<1>1. [OkReply EXCEPT !.found = matches] \in Reply
  <2>1. matches \in SUBSET Nat
    BY RefundRows
  <2> QED BY <2>1, ReplyTypes
<1>2. a.refund \in DOMAIN refunds => RefundReply(a.refund, refunds[a.refund].status) \in Reply
  BY RefundRows, ReplyTypes
<1>3. OkReply \in Reply /\ ErrorReply("refused", 0) \in Reply
  BY ReplyTypes DEF Codes
<1>4. CASE Read(h)
  <2>1. UNCHANGED <<service, counts, attempts, first, arrived, broken>>
    BY <1>4 DEF Read
  <2>2. \E reply \in Reply : Finish(h, reply) \/ Commit(h, reply)
    BY <1>1, <1>2, <1>3, <1>4 DEF Read, Refuse
  <2> QED BY <2>1, <2>2, RefuseTypeOK
<1>5. CASE Escalate(h)
  BY <1>3, <1>5, RefuseTypeOK DEF Escalate
<1> QED BY <1>4, <1>5

\* The edits of a ticket: the system's, a note, a status change.
LEMMA TicketEdits ==
  ASSUME NEW t \in Ticket
  PROVE  /\ [t EXCEPT !.version = @ + 1, !.status = "open"] \in Ticket
         /\ \A note \in [op: LogicalRequests, about: Nat] :
               [t EXCEPT !.version = @ + 1, !.notes = @ \cup {note}] \in Ticket
         /\ \A update \in [op: LogicalRequests, status: TicketStatuses] :
               \A s \in TicketStatuses :
                 [t EXCEPT !.version = @ + 1, !.status = s, !.updates = @ \cup {update}] \in Ticket
<1> DEFINE Note == [op: LogicalRequests, about: Nat]
           Update == [op: LogicalRequests, status: TicketStatuses]
           NoteSets == SUBSET Note
           UpdateSets == SUBSET Update
           Shape == [version: Nat, status: TicketStatuses, notes: NoteSets, updates: UpdateSets]
<1>1. Ticket = Shape
  BY DEF Ticket
<1>2. "open" \in TicketStatuses
  BY DEF TicketStatuses
<1>3. \A N \in NoteSets, note \in Note : N \cup {note} \in NoteSets
  OBVIOUS
<1>4. \A U \in UpdateSets, update \in Update : U \cup {update} \in UpdateSets
  OBVIOUS
<1> HIDE DEF Note, Update, NoteSets, UpdateSets
<1>5. t.version + 1 \in Nat /\ t.notes \in NoteSets /\ t.updates \in UpdateSets
  BY <1>1
<1>6. [t EXCEPT !.version = @ + 1, !.status = "open"] \in Shape
  BY <1>1, <1>2, <1>5
<1>7. \A note \in Note : [t EXCEPT !.version = @ + 1, !.notes = @ \cup {note}] \in Shape
  BY <1>1, <1>3, <1>5
<1>8. \A update \in Update : \A s \in TicketStatuses :
        [t EXCEPT !.version = @ + 1, !.status = s, !.updates = @ \cup {update}] \in Shape
  BY <1>1, <1>4, <1>5
<1> QED BY <1>1, <1>6, <1>7, <1>8 DEF Note, Update

LEMMA GetTicketTypeOK ==
  ASSUME TypeOK, NEW h \in Handlers, GetTicket(h)
  PROVE  TypeOK'
<1>1. call' \in [Handlers -> CallState]
  <2>1. TicketReply(ticket, edited) \in Reply
    BY ReplyTypes DEF TypeOK
  <2> QED BY <2>1, CallTypes DEF GetTicket, TypeOK
<1>2. ticket' \in Ticket
  <2>1. [ticket EXCEPT !.version = @ + 1, !.status = "open"] \in Ticket
    BY TicketEdits DEF TypeOK
  <2> QED BY <2>1 DEF GetTicket, TypeOK
<1>3. /\ allowed' \subseteq {"refund", "ticket_write"}
  BY DEF GetTicket, TypeOK
<1>4. revoked' \in BOOLEAN /\ edited' \in BOOLEAN
  BY ValidScenario DEF GetTicket, TypeOK
<1> QED BY <1>1, <1>2, <1>3, <1>4 DEF GetTicket, TypeOK

LEMMA WriteTicketTypeOK ==
  ASSUME TypeOK, NEW h \in Handlers, NEW applied \in Ticket, NEW recorded, NEW same,
         WriteTicket(h, applied, recorded, same)
  PROVE  TypeOK'
<1>1. /\ TicketReply(ticket, edited) \in Reply
      /\ TicketReply(applied, edited) \in Reply
      /\ ErrorReply("refused", 0) \in Reply
      /\ ErrorReply("version_conflict", 0) \in Reply
  BY ReplyTypes DEF TypeOK, Codes
<1>2. \E reply \in Reply : Finish(h, reply) \/ Commit(h, reply)
  BY <1>1 DEF WriteTicket, Refuse
<1>3. call' \in [Handlers -> CallState]
  BY <1>2, CallTypes DEF TypeOK
<1>4. ticket' \in Ticket
  BY DEF WriteTicket, TypeOK
<1> QED BY <1>3, <1>4 DEF WriteTicket, TypeOK

LEMMA TicketWriteTypeOK ==
  ASSUME TypeOK, NEW h \in Handlers, AppendNote(h) \/ UpdateTicket(h)
  PROVE  TypeOK'
<1> DEFINE a == call[h].req
<1>0. a \in Request
  BY CallParts
<1>1. CASE AppendNote(h)
  <2> DEFINE note == [op |-> a.op, about |-> a.about]
  <2>1. [ticket EXCEPT !.version = @ + 1, !.notes = @ \cup {note}] \in Ticket
    <3>1. note \in [op: LogicalRequests, about: Nat]
      BY <1>0, <1>1, RequestTypes DEF AppendNote, Serving
    <3> QED BY <3>1, TicketEdits DEF TypeOK
  <2> QED BY <1>1, <2>1, WriteTicketTypeOK DEF AppendNote
<1>2. CASE UpdateTicket(h)
  <2> DEFINE update == [op |-> a.op, status |-> a.status]
  <2>1. [ticket EXCEPT !.version = @ + 1, !.status = a.status,
                       !.updates = @ \cup {update}] \in Ticket
    <3>1. a.status \in TicketStatuses /\ update \in [op: LogicalRequests, status: TicketStatuses]
      BY <1>0, <1>2, RequestTypes DEF UpdateTicket, Serving
    <3> QED BY <3>1, TicketEdits DEF TypeOK
  <2> QED BY <1>2, <2>1, WriteTicketTypeOK DEF UpdateTicket
<1> QED BY <1>1, <1>2

LEMMA EventsTypeOK ==
  ASSUME TypeOK, NEW h \in Handlers, ReceiveEvents(h) \/ AckEvent(h)
  PROVE  TypeOK'
<1>1. \A d \in Delivery : /\ [d EXCEPT !.delivered = TRUE] \in Delivery
                          /\ [d EXCEPT !.acked = TRUE] \in Delivery
  BY DEF Delivery
<1>2. CASE ReceiveEvents(h)
  <2> DEFINE batch == {d \in deliveries : ~d.delivered}
  <2>1. deliveries' \subseteq Delivery
    BY <1>1, <1>2 DEF ReceiveEvents, TypeOK
  <2>2. call' \in [Handlers -> CallState]
    <3>1. [OkReply EXCEPT !.events = batch] \in Reply
      BY ReplyTypes DEF TypeOK
    <3> QED BY <1>2, <3>1, CallTypes DEF ReceiveEvents, TypeOK
  <2> QED BY <1>2, <2>1, <2>2 DEF ReceiveEvents, TypeOK
<1>3. CASE AckEvent(h)
  <2>1. deliveries' \subseteq Delivery
    BY <1>1, <1>3 DEF AckEvent, Acknowledged, TypeOK
  <2>2. call' \in [Handlers -> CallState]
    <3>1. OkReply \in Reply /\ ErrorReply("refused", 0) \in Reply
      BY ReplyTypes DEF Codes
    <3>2. \E reply \in Reply : Finish(h, reply) \/ Commit(h, reply)
      BY <1>3, <3>1 DEF AckEvent, Refuse
    <3> QED BY <3>2, CallTypes DEF TypeOK
  <2> QED BY <1>3, <2>1, <2>2 DEF AckEvent, TypeOK
<1> QED BY <1>2, <1>3

LEMMA RespondTypeOK ==
  ASSUME TypeOK, NEW h \in Handlers, Respond(h) \/ StaleRead(h)
  PROVE  TypeOK'
<1>1. /\ ErrorReply("transport_timeout", 0) \in Reply
      /\ [OkReply EXCEPT !.shape = "empty"] \in Reply
      /\ call[h].reply \in Reply
      /\ [call[h].reply EXCEPT !.shape = "incomplete", !.refund = 0, !.status = "none"] \in Reply
  BY CallParts, ReplyTypes DEF Codes
<1>2. [call[h] EXCEPT !.pc = "hidden"] \in CallState
  BY CallParts DEF CallState
<1>3. UNCHANGED <<service, counts, attempts, first, arrived, broken>>
  BY DEF Respond, StaleRead
<1>4. CASE call' = [call EXCEPT ![h].pc = "hidden"]
  BY <1>2, <1>3, <1>4 DEF TypeOK
<1>5. CASE \E reply \in Reply : Finish(h, reply)
  BY <1>3, <1>5, RefuseTypeOK
<1>6. Respond(h) => \/ call' = [call EXCEPT ![h].pc = "hidden"]
                    \/ \E reply \in Reply : Finish(h, reply)
  BY <1>1 DEF Respond, Refuse
<1>7. StaleRead(h) => \E reply \in Reply : Finish(h, reply)
  BY <1>1 DEF StaleRead, Refuse
<1> QED BY <1>4, <1>5, <1>6, <1>7

LEMMA SleepTypeOK ==
  ASSUME TypeOK, NEW s \in Nat, Rest(s)
  PROVE  TypeOK'
<1>1. clock' \in Nat
  BY DEF Rest, Sleep, TypeOK
<1>2. refunds' \in Seq(Refund)
  <2>1. \A i \in DOMAIN refunds : [refunds[i] EXCEPT !.status = TerminalStatus] \in Refund
    BY RefundRows, ValidScenario DEF Refund, RefundStatuses
  <2>2. DOMAIN refunds = 1..Len(refunds) /\ Len(refunds) \in Nat
    BY DEF TypeOK
  <2>3. /\ DOMAIN refunds' = 1..Len(refunds)
        /\ \A i \in 1..Len(refunds) : refunds'[i] \in Refund
    BY <2>1, <2>2, RefundRows DEF Rest, Sleep
  <2>4. refunds' = [i \in 1..Len(refunds) |-> refunds'[i]]
    BY <2>2 DEF Rest, Sleep
  <2> QED BY <2>2, <2>3, <2>4
<1>3. deliveries' \subseteq Delivery
  <2>1. \A i \in Due(clock + s) : Notices(i, TerminalStatus) \subseteq Delivery
    BY NoticeTypes, RefundRows, ValidScenario DEF Due, RefundStatuses
  <2> QED BY <2>1 DEF Rest, Sleep, TypeOK
<1> QED BY <1>1, <1>2, <1>3 DEF Rest, Sleep, TypeOK

LEMMA CollectTypeOK ==
  ASSUME TypeOK, NEW h \in Handlers, Collect(h)
  PROVE  TypeOK'
BY IdleType DEF Collect, TypeOK

LEMMA NextTypeOK ==
  ASSUME TypeOK, RegistryConsistent, [AnyNext]_vars
  PROVE  TypeOK'
<1>1. CASE UNCHANGED vars
  BY <1>1 DEF TypeOK
<1>2. ASSUME NEW h \in Handlers, AnyStep(h)
      PROVE  TypeOK'
  <2>1. ASSUME NEW req \in Request, Call(h, req) \/ OverBudget(h, req)
        PROVE  TypeOK'
    BY <2>1, CallTypeOK, OverBudgetTypeOK
  <2>2. CASE PassBarrier(h) \/ BreakBarrier(h)
    BY <2>2, BarrierTypeOK
  <2>3. CASE Serve(h)
    BY <2>3, CreateRefundTypeOK, ReadTypeOK, GetTicketTypeOK, TicketWriteTypeOK, EventsTypeOK
    DEF Serve
  <2>4. CASE Respond(h) \/ StaleRead(h) \/ Collect(h)
    BY <2>4, RespondTypeOK, CollectTypeOK
  <2>5. ASSUME NEW s \in Nat, Rest(s)
        PROVE  TypeOK'
    BY <2>5, SleepTypeOK
  <2> QED BY <1>2, <2>1, <2>2, <2>3, <2>4, <2>5 DEF AnyStep
<1> QED BY <1>1, <1>2 DEF AnyNext

-----------------------------------------------------------------------------
(* The idempotency table.  The inductive invariant needs the registry: the  *)
(* operations look keys up there, never in the refunds table.               *)

\* Only two actions touch the refunds and their registry: CommitRefund and the
\* settling of a clock advance.
LEMMA OtherSteps ==
  ASSUME TypeOK, NEW h \in Handlers, AnyStep(h)
  PROVE  \/ UNCHANGED <<refunds, registry>> /\ clock' = clock
         \/ CommitRefund(h)
         \/ \E s \in Nat : Rest(s)
<1>1. CASE \E req \in Request : Call(h, req) \/ OverBudget(h, req)
  BY <1>1 DEF Call, OverBudget
<1>2. CASE PassBarrier(h) \/ BreakBarrier(h)
  BY <1>2 DEF PassBarrier, BreakBarrier
<1>3. CASE \/ RateLimited(h) \/ AnnounceRetry(h) \/ ReuseRefund(h) \/ RefuseRefund(h)
           \/ Read(h) \/ Escalate(h)
  BY <1>3 DEF RateLimited, AnnounceRetry, ReuseRefund, RefuseRefund, Read, Escalate
<1>4. CASE GetTicket(h) \/ ReceiveEvents(h) \/ AckEvent(h)
  BY <1>4 DEF GetTicket, ReceiveEvents, AckEvent
<1>5. CASE AppendNote(h) \/ UpdateTicket(h)
  BY <1>5 DEF AppendNote, UpdateTicket, WriteTicket
<1>6. CASE Respond(h) \/ StaleRead(h) \/ Collect(h)
  BY <1>6 DEF Respond, StaleRead, Collect
<1> QED BY <1>1, <1>2, <1>3, <1>4, <1>5, <1>6 DEF AnyStep, Serve

\* The inductive invariant.
Consistent == TypeOK /\ RegistryConsistent /\ OneRefundPerKey

LEMMA InitConsistent == Init => Consistent
<1> SUFFICES ASSUME Init PROVE Consistent
  OBVIOUS
<1>1. RegistryConsistent
  BY DEF Init, RegistryConsistent, EntryOf
<1>2. OneRefundPerKey
  BY ValidScenario DEF Init, OneRefundPerKey
<1> QED BY <1>1, <1>2, InitTypeOK DEF Consistent

\* An accepted refund is appended together with its registry row, under a key
\* no earlier refund has.
LEMMA CommitConsistent ==
  ASSUME Consistent, NEW h \in Handlers, CommitRefund(h)
  PROVE  RegistryConsistent' /\ OneRefundPerKey'
<1> DEFINE a == call[h].req
           id == Len(refunds) + 1
           new == NewRefund(a)
<1> USE DEF Consistent
<1>1. new.key = a.key
  BY DEF NewRefund
<1>2. \A i \in DOMAIN refunds : refunds[i].key # a.key
  <2> SUFFICES ASSUME NEW i \in DOMAIN refunds, refunds[i].key = a.key PROVE FALSE
    OBVIOUS
  <2>1. EntryOf(i, refunds[i]) \in Registered(a.key)
    BY DEF RegistryConsistent, Registered, EntryOf
  <2> QED BY <2>1 DEF CommitRefund
<1>3. refunds \in Seq(Refund) /\ refunds' = Append(refunds, new)
  BY DEF TypeOK, CommitRefund
<1>4. /\ DOMAIN refunds' = DOMAIN refunds \cup {id}
      /\ id \notin DOMAIN refunds
      /\ \A i \in DOMAIN refunds : refunds'[i] = refunds[i]
      /\ refunds'[id] = new
  BY <1>3
<1>5. registry' = registry \cup {EntryOf(id, new)}
  BY DEF CommitRefund, Record
<1>6. RegistryConsistent'
  <2>1. \A e \in registry' : e.refund \in DOMAIN refunds' /\ e = EntryOf(e.refund, refunds'[e.refund])
    <3>1. EntryOf(id, new).refund = id
      BY DEF EntryOf
    <3> QED BY <1>4, <1>5, <3>1 DEF RegistryConsistent
  <2>2. \A i \in DOMAIN refunds' : EntryOf(i, refunds'[i]) \in registry'
    BY <1>4, <1>5 DEF RegistryConsistent
  <2> QED BY <2>1, <2>2 DEF RegistryConsistent, EntryOf
<1>7. OneRefundPerKey'
  BY <1>1, <1>2, <1>4 DEF OneRefundPerKey
<1> QED BY <1>6, <1>7

\* Settling keeps every refund's key and parameters.
LEMMA SleepRows ==
  ASSUME TypeOK, NEW s \in Nat, Sleep(s)
  PROVE  /\ DOMAIN refunds' = DOMAIN refunds
         /\ \A i \in DOMAIN refunds :
               /\ \/ refunds'[i] = refunds[i]
                  \/ /\ i \in Due(clock + s)
                     /\ refunds'[i] = [refunds[i] EXCEPT !.status = TerminalStatus]
               /\ EntryOf(i, refunds'[i]) = EntryOf(i, refunds[i])
               /\ refunds'[i].key = refunds[i].key
<1>1. DOMAIN refunds' = DOMAIN refunds
  BY DEF Sleep
<1>2. \A i \in DOMAIN refunds :
         \/ refunds'[i] = refunds[i]
         \/ /\ i \in Due(clock + s)
            /\ refunds'[i] = [refunds[i] EXCEPT !.status = TerminalStatus]
  BY DEF Sleep
<1>3. ASSUME NEW i \in DOMAIN refunds
      PROVE  /\ EntryOf(i, refunds'[i]) = EntryOf(i, refunds[i])
             /\ refunds'[i].key = refunds[i].key
  <2>1. refunds[i] \in Refund
    BY RefundRows
  <2> QED BY <1>2, <2>1 DEF EntryOf, Refund
<1> QED BY <1>1, <1>2, <1>3

LEMMA SleepConsistent ==
  ASSUME Consistent, NEW s \in Nat, Sleep(s)
  PROVE  RegistryConsistent' /\ OneRefundPerKey'
<1> USE DEF Consistent
<1>1. registry' = registry
  BY DEF Sleep
<1>2. /\ DOMAIN refunds' = DOMAIN refunds
      /\ \A i \in DOMAIN refunds : /\ EntryOf(i, refunds'[i]) = EntryOf(i, refunds[i])
                                   /\ refunds'[i].key = refunds[i].key
  BY SleepRows
<1>3. RegistryConsistent'
  <2>1. \A e \in registry : /\ e.refund \in DOMAIN refunds'
                            /\ e = EntryOf(e.refund, refunds'[e.refund])
    BY <1>2 DEF RegistryConsistent
  <2>2. \A i \in DOMAIN refunds' : EntryOf(i, refunds'[i]) \in registry
    BY <1>2 DEF RegistryConsistent
  <2> QED BY <1>1, <2>1, <2>2 DEF RegistryConsistent, EntryOf
<1>4. OneRefundPerKey'
  BY <1>2 DEF OneRefundPerKey
<1> QED BY <1>3, <1>4

LEMMA NextConsistent == Consistent /\ [AnyNext]_vars => Consistent'
<1> SUFFICES ASSUME Consistent, [AnyNext]_vars PROVE Consistent'
  OBVIOUS
<1>1. TypeOK'
  BY NextTypeOK DEF Consistent
<1>2. ASSUME UNCHANGED <<refunds, registry>> PROVE RegistryConsistent' /\ OneRefundPerKey'
  BY <1>2 DEF Consistent, RegistryConsistent, OneRefundPerKey, EntryOf
<1>3. RegistryConsistent' /\ OneRefundPerKey'
  <2>1. CASE UNCHANGED vars
    BY <1>2, <2>1
  <2>2. CASE AnyNext
    <3>1. PICK h \in Handlers : AnyStep(h)
      BY <2>2 DEF AnyNext
    <3>2. CASE CommitRefund(h)
      BY <3>2, CommitConsistent
    <3>3. CASE \E s \in Nat : Rest(s)
      BY <3>3, SleepConsistent DEF Rest
    <3> QED BY <1>2, <3>1, <3>2, <3>3, OtherSteps DEF Consistent
  <2> QED BY <2>1, <2>2
<1> QED BY <1>1, <1>3 DEF Consistent

THEOREM ConsistentAlways == Spec => []Consistent
BY InitConsistent, NextConsistent, BoundedStep, PTL DEF Spec

-----------------------------------------------------------------------------
\* The tables of simulator.py keep their types under every interleaving of
\* handler threads, faults and clock advances.
THEOREM TypeCorrect == Spec => []TypeOK
<1>1. Consistent => TypeOK
  BY DEF Consistent
<1> QED BY <1>1, ConsistentAlways, PTL

\* The refunds and idempotency tables agree in every reachable state: _refund
\* writes both in one transaction, and settling changes only the status.
THEOREM RegistryAgrees == Spec => []RegistryConsistent
<1>1. Consistent => RegistryConsistent
  BY DEF Consistent
<1> QED BY <1>1, ConsistentAlways, PTL

\* Exactly-once payment: however many handlers, retries and lost responses,
\* no operation key is ever paid twice.
THEOREM KeyPaysOnce == Spec => []OneRefundPerKey
<1>1. Consistent => OneRefundPerKey
  BY DEF Consistent
<1> QED BY <1>1, ConsistentAlways, PTL

-----------------------------------------------------------------------------
(* What a step may never do. *)

\* A refund row is never lost or rewritten: from the commit on it keeps its
\* parameters, and only a due transition takes it out of "pending", once.
THEOREM DurableRefunds == Spec => RefundsDurable
<1> DEFINE Durable ==
      /\ Len(refunds') >= Len(refunds)
      /\ \A i \in DOMAIN refunds :
            \/ refunds'[i] = refunds[i]
            \/ /\ refunds[i].status = "pending" /\ refunds[i].due \in 0..clock'
               /\ refunds'[i] = [refunds[i] EXCEPT !.status = TerminalStatus]
<1>1. ASSUME Consistent, [AnyNext]_vars PROVE [Durable]_vars
  <2>1. refunds \in Seq(Refund) /\ Len(refunds) \in Nat
    BY <1>1 DEF Consistent, TypeOK
  <2>2. CASE UNCHANGED refunds
    BY <2>1, <2>2
  <2>3. ASSUME NEW h \in Handlers, CommitRefund(h) PROVE Durable
    <3>1. refunds' = Append(refunds, NewRefund(call[h].req))
      BY <2>3 DEF CommitRefund
    <3> QED BY <2>1, <3>1
  <2>4. ASSUME NEW s \in Nat, Rest(s) PROVE Durable
    <3>1. s \in Nat /\ Sleep(s) /\ clock' = clock + s
      BY <2>4 DEF Rest, Sleep
    <3>2. Len(refunds') = Len(refunds)
      <4>1. refunds' \in Seq(Refund)
        BY <1>1, <2>4, <3>1, SleepTypeOK DEF Consistent, TypeOK
      <4>2. DOMAIN refunds' = DOMAIN refunds
        BY <1>1, <3>1, SleepRows DEF Consistent
      <4> QED BY <2>1, <4>1, <4>2
    <3>3. \A i \in Due(clock + s) : refunds[i].status = "pending" /\ refunds[i].due \in 0..(clock + s)
      BY DEF Due
    <3> QED BY <1>1, <2>1, <3>1, <3>2, <3>3, SleepRows DEF Consistent
  <2>5. CASE AnyNext
    BY <1>1, <2>2, <2>3, <2>4, <2>5, OtherSteps DEF AnyNext, Consistent
  <2> QED BY <1>1, <2>2, <2>5
<1> QED BY <1>1, ConsistentAlways, BoundedStep, PTL DEF Spec, RefundsDurable

\* A revocation is final for new refunds, whatever calls are in progress when it
\* happens: the permission is read in the transaction that would insert.
THEOREM RevocationHolds == Spec => NoRefundAfterRevocation
<1>1. ASSUME Consistent, [AnyNext]_vars
      PROVE  ["refund" \notin allowed => Len(refunds') = Len(refunds)]_vars
  <2> SUFFICES ASSUME "refund" \notin allowed PROVE Len(refunds') = Len(refunds)
    OBVIOUS
  <2>1. CASE UNCHANGED refunds
    BY <2>1
  <2>2. ASSUME NEW h \in Handlers PROVE ~CommitRefund(h)
    BY DEF CommitRefund, Admissible
  <2>3. ASSUME NEW s \in Nat, Rest(s)
        PROVE  Len(refunds') = Len(refunds)
    <3>1. s \in Nat /\ Sleep(s)
      BY <2>3 DEF Rest
    <3>2. refunds \in Seq(Refund) /\ refunds' \in Seq(Refund)
      BY <1>1, <2>3, <3>1, SleepTypeOK DEF Consistent, TypeOK
    <3>3. DOMAIN refunds' = DOMAIN refunds
      BY <1>1, <3>1, SleepRows DEF Consistent
    <3> QED BY <3>2, <3>3
  <2>4. CASE AnyNext
    BY <1>1, <2>1, <2>2, <2>3, <2>4, OtherSteps DEF AnyNext, Consistent
  <2> QED BY <1>1, <2>1, <2>4
<1> QED BY <1>1, ConsistentAlways, BoundedStep, PTL DEF Spec, NoRefundAfterRevocation

\* No transition is skipped by a clock advance, however long and whoever slept:
\* one that is still to come lies ahead of the clock.
THEOREM NothingOverdue == Spec => []NoOverdueTransition
<1>1. Init => NoOverdueTransition
  BY ServiceAssumption DEF Init, NoOverdueTransition, ValidFixture
<1>2. ASSUME Consistent, NoOverdueTransition, [AnyNext]_vars PROVE NoOverdueTransition'
  <2>1. clock \in Nat /\ refunds \in Seq(Refund)
    BY <1>2 DEF Consistent, TypeOK
  <2>2. CASE UNCHANGED refunds /\ clock' = clock
    BY <1>2, <2>2 DEF NoOverdueTransition
  <2>3. ASSUME NEW h \in Handlers, CommitRefund(h) PROVE NoOverdueTransition'
    <3>1. refunds' = Append(refunds, NewRefund(call[h].req)) /\ clock' = clock
      BY <2>3 DEF CommitRefund
    <3>2. NewRefund(call[h].req).status = "pending" =>
            NewRefund(call[h].req).due = clock + TransitionDelay
      BY DEF NewRefund
    <3>3. TransitionDelay \in Nat
      BY ValidScenario
    <3> QED BY <1>2, <2>1, <3>1, <3>2, <3>3 DEF NoOverdueTransition
  <2>4. ASSUME NEW s \in Nat, Rest(s) PROVE NoOverdueTransition'
    <3>1. s \in Nat /\ Sleep(s) /\ clock' = clock + s
      BY <2>4 DEF Rest, Sleep
    <3>2. DOMAIN refunds' = DOMAIN refunds
      BY <1>2, <3>1, SleepRows DEF Consistent
    <3>3. ASSUME NEW i \in DOMAIN refunds, refunds'[i].status = "pending", refunds'[i].due # Never
          PROVE  clock' < refunds'[i].due
      <4>1. i \notin Due(clock + s)
        BY <2>1, <3>1, <3>3, ValidScenario DEF Sleep, Refund
      <4>2. refunds'[i] = refunds[i] /\ refunds[i].due \in Nat
        <5>1. refunds'[i] = refunds[i]
          BY <1>2, <3>1, <4>1, SleepRows DEF Consistent
        <5>2. refunds[i].due \in Nat \cup {Never}
          BY <1>2, RefundRows DEF Consistent, Refund
        <5> QED BY <3>3, <5>1, <5>2
      <4>3. refunds[i].due \notin 0..(clock + s)
        BY <3>3, <4>1, <4>2 DEF Due
      <4> QED BY <2>1, <3>1, <4>2, <4>3
    <3> QED BY <3>2, <3>3 DEF NoOverdueTransition
  <2>5. CASE AnyNext
    BY <1>2, <2>2, <2>3, <2>4, <2>5, OtherSteps DEF AnyNext, Consistent
  <2> QED BY <1>2, <2>2, <2>5 DEF vars, service
<1> QED BY <1>1, <1>2, ConsistentAlways, BoundedStep, PTL DEF Spec

-----------------------------------------------------------------------------
(* The ticket and the notifications. *)

\* The ticket is written by a first read's interventions and by the two ticket
\* tools; deliveries by a commit, a clock advance and the two event tools.
LEMMA OtherDeskSteps ==
  ASSUME NEW h \in Handlers, AnyStep(h)
  PROVE  /\ \/ UNCHANGED <<ticket, edited>>
            \/ GetTicket(h) \/ AppendNote(h) \/ UpdateTicket(h)
         /\ \/ UNCHANGED <<refunds, deliveries>>
            \/ CommitRefund(h) \/ ReceiveEvents(h) \/ AckEvent(h)
            \/ \E s \in Nat : Rest(s)
<1>1. CASE \E req \in Request : Call(h, req) \/ OverBudget(h, req)
  BY <1>1 DEF Call, OverBudget, service
<1>2. CASE PassBarrier(h) \/ BreakBarrier(h)
  BY <1>2 DEF PassBarrier, BreakBarrier, service
<1>3. CASE \/ RateLimited(h) \/ AnnounceRetry(h) \/ ReuseRefund(h) \/ RefuseRefund(h)
           \/ Read(h) \/ Escalate(h)
  BY <1>3 DEF RateLimited, AnnounceRetry, ReuseRefund, RefuseRefund, Read, Escalate, service
<1>4. CASE CommitRefund(h) \/ ReceiveEvents(h) \/ AckEvent(h) \/ GetTicket(h)
  BY <1>4 DEF CommitRefund, ReceiveEvents, AckEvent, GetTicket
<1>5. CASE AppendNote(h) \/ UpdateTicket(h)
  BY <1>5 DEF AppendNote, UpdateTicket, WriteTicket
<1>6. CASE Respond(h) \/ StaleRead(h) \/ Collect(h)
  BY <1>6 DEF Respond, StaleRead, Collect, service
<1>7. CASE \E s \in Nat : Rest(s)
  BY <1>7 DEF Rest, Sleep
<1> QED BY <1>1, <1>2, <1>3, <1>4, <1>5, <1>6, <1>7 DEF AnyStep, Serve

\* The invariant of the ticket: the counts of WritesOnce are counts of finite sets.
CountsWrites(t, e) ==
  /\ IsFiniteSet(t.notes) /\ IsFiniteSet(t.updates)
  /\ \A m, n \in t.notes : m.op = n.op => m = n
  /\ \A u, v \in t.updates : u.op = v.op => u = v
  /\ t.version = InitialTicketVersion + Cardinality(t.notes) + Cardinality(t.updates)
                   + (IF e THEN 1 ELSE 0)

WritesRecorded == CountsWrites(ticket, edited)

\* A write of a fresh operation id adds one member and one version.
LEMMA FreshNote ==
  ASSUME NEW t \in Ticket, NEW e \in BOOLEAN, CountsWrites(t, e),
         NEW note, {n \in t.notes : n.op = note.op} = {}
  PROVE  CountsWrites([t EXCEPT !.version = @ + 1, !.notes = @ \cup {note}], e)
<1> DEFINE new == [t EXCEPT !.version = @ + 1, !.notes = @ \cup {note}]
<1>1. /\ new.version = t.version + 1 /\ new.notes = t.notes \cup {note}
      /\ new.updates = t.updates
  BY DEF Ticket
<1>2. note \notin t.notes
  OBVIOUS
<1>3. IsFiniteSet(new.notes) /\ Cardinality(new.notes) = Cardinality(t.notes) + 1
  <2>1. IsFiniteSet(t.notes)
    BY DEF CountsWrites
  <2>2. /\ IsFiniteSet(t.notes \cup {note})
        /\ Cardinality(t.notes \cup {note}) = Cardinality(t.notes) + 1
    BY <1>2, <2>1, FS_AddElement
  <2> HIDE DEF new
  <2> QED BY <1>1, <2>2
<1>4. /\ Cardinality(t.notes) \in Nat /\ Cardinality(t.updates) \in Nat
  BY FS_CardinalityType DEF CountsWrites
<1>5. \A m, n \in new.notes : m.op = n.op => m = n
  BY <1>1 DEF CountsWrites
<1> HIDE DEF new
<1> QED BY <1>1, <1>3, <1>4, <1>5, ValidScenario DEF CountsWrites

LEMMA FreshUpdate ==
  ASSUME NEW t \in Ticket, NEW e \in BOOLEAN, CountsWrites(t, e),
         NEW s, NEW update, {u \in t.updates : u.op = update.op} = {}
  PROVE  CountsWrites([t EXCEPT !.version = @ + 1, !.status = s, !.updates = @ \cup {update}], e)
<1> DEFINE new == [t EXCEPT !.version = @ + 1, !.status = s, !.updates = @ \cup {update}]
<1>1. /\ new.version = t.version + 1 /\ new.updates = t.updates \cup {update}
      /\ new.notes = t.notes
  BY DEF Ticket
<1>2. update \notin t.updates
  OBVIOUS
<1>3. IsFiniteSet(new.updates) /\ Cardinality(new.updates) = Cardinality(t.updates) + 1
  <2>1. IsFiniteSet(t.updates)
    BY DEF CountsWrites
  <2>2. /\ IsFiniteSet(t.updates \cup {update})
        /\ Cardinality(t.updates \cup {update}) = Cardinality(t.updates) + 1
    BY <1>2, <2>1, FS_AddElement
  <2> HIDE DEF new
  <2> QED BY <1>1, <2>2
<1>4. /\ Cardinality(t.notes) \in Nat /\ Cardinality(t.updates) \in Nat
  BY FS_CardinalityType DEF CountsWrites
<1>5. \A u, v \in new.updates : u.op = v.op => u = v
  BY <1>1 DEF CountsWrites
<1> HIDE DEF new
<1> QED BY <1>1, <1>3, <1>4, <1>5, ValidScenario DEF CountsWrites

\* The system's own edit is counted once, by the flag that forbids a second.
LEMMA SystemEdit ==
  ASSUME NEW t \in Ticket, CountsWrites(t, FALSE)
  PROVE  CountsWrites([t EXCEPT !.version = @ + 1, !.status = "open"], TRUE)
<1>1. /\ Cardinality(t.notes) \in Nat /\ Cardinality(t.updates) \in Nat
  BY FS_CardinalityType DEF CountsWrites
<1> QED BY <1>1, ValidScenario DEF CountsWrites, Ticket

LEMMA InitWrites == Init => WritesRecorded
<1> SUFFICES ASSUME Init PROVE WritesRecorded
  OBVIOUS
<1>1. IsFiniteSet({}) /\ Cardinality({}) = 0
  BY FS_EmptySet
<1> QED BY <1>1, ValidScenario DEF Init, WritesRecorded, CountsWrites

LEMMA NextWrites == TypeOK /\ WritesRecorded /\ [AnyNext]_vars => WritesRecorded'
<1> SUFFICES ASSUME TypeOK, WritesRecorded, [AnyNext]_vars PROVE CountsWrites(ticket', edited')
  BY DEF WritesRecorded
<1>0. ticket \in Ticket /\ edited \in BOOLEAN /\ CountsWrites(ticket, edited)
  BY DEF TypeOK, WritesRecorded
<1>1. CASE UNCHANGED <<ticket, edited>>
  BY <1>0, <1>1
<1>2. ASSUME NEW h \in Handlers, GetTicket(h) PROVE CountsWrites(ticket', edited')
  <2>1. CASE EditAfterTicketRead /\ counts["get_ticket"] = 2 /\ ~edited
    <3>1. ticket' = [ticket EXCEPT !.version = @ + 1, !.status = "open"] /\ edited' = TRUE
      BY <1>2, <2>1 DEF GetTicket
    <3>2. edited = FALSE
      BY <1>0, <2>1
    <3> QED BY <1>0, <3>1, <3>2, SystemEdit
  <2>2. CASE ~ (EditAfterTicketRead /\ counts["get_ticket"] = 2 /\ ~edited)
    <3>1. ticket' = ticket /\ edited' = edited
      BY <1>0, <1>2, <2>2 DEF GetTicket
    <3> QED BY <1>0, <3>1
  <2> QED BY <2>1, <2>2
<1>3. ASSUME NEW h \in Handlers, AppendNote(h) PROVE CountsWrites(ticket', edited')
  <2> DEFINE note == [op |-> call[h].req.op, about |-> call[h].req.about]
             new == [ticket EXCEPT !.version = @ + 1, !.notes = @ \cup {note}]
  <2>1. edited' = edited
    BY <1>3 DEF AppendNote, WriteTicket
  <2>2. ticket' = ticket \/ (ticket' = new /\ {n \in ticket.notes : n.op = note.op} = {})
    BY <1>3 DEF AppendNote, WriteTicket
  <2>3. {n \in ticket.notes : n.op = note.op} = {} => CountsWrites(new, edited)
    <3> HIDE DEF note
    <3> QED BY <1>0, FreshNote
  <2> HIDE DEF note, new
  <2> QED BY <1>0, <2>1, <2>2, <2>3
<1>4. ASSUME NEW h \in Handlers, UpdateTicket(h) PROVE CountsWrites(ticket', edited')
  <2> DEFINE a == call[h].req
             update == [op |-> a.op, status |-> a.status]
             new == [ticket EXCEPT !.version = @ + 1, !.status = a.status,
                                   !.updates = @ \cup {update}]
  <2>1. edited' = edited
    BY <1>4 DEF UpdateTicket, WriteTicket
  <2>2. ticket' = ticket \/ (ticket' = new /\ {u \in ticket.updates : u.op = update.op} = {})
    BY <1>4 DEF UpdateTicket, WriteTicket
  <2>3. {u \in ticket.updates : u.op = update.op} = {} => CountsWrites(new, edited)
    <3> HIDE DEF update
    <3> QED BY <1>0, FreshUpdate
  <2> HIDE DEF update, new
  <2> QED BY <1>0, <2>1, <2>2, <2>3
<1> QED BY <1>1, <1>2, <1>3, <1>4, OtherDeskSteps DEF AnyNext, vars, service

\* A note or status change is applied once per operation id, however often its
\* response is lost and it is retried, and the ticket's version counts exactly
\* those writes and the system's one edit: no writer's change is lost.
THEOREM TicketWritesOnce == Spec => []WritesOnce
<1>1. WritesRecorded => WritesOnce
  BY DEF WritesRecorded, CountsWrites, WritesOnce
<1>2. Consistent => TypeOK
  BY DEF Consistent
<1> QED BY <1>1, <1>2, InitWrites, NextWrites, ConsistentAlways, BoundedStep, PTL DEF Spec

\* A queued notification is undelivered, and tells of the settled status or of
\* the older pending one.
LEMMA NoticeRows ==
  ASSUME NEW id, NEW status \in {"succeeded", "failed"}, NEW d \in Notices(id, status)
  PROVE  d.refund = id /\ d.status \in {status, "pending"} /\ d.acked = FALSE
<1>1. SecondNotice(status) \subseteq {status, "pending"}
  BY ValidScenario DEF SecondNotice
<1> QED BY <1>1 DEF Notices

Truthful(d, rows) ==
  /\ d.refund \in DOMAIN rows
  /\ d.status \in {rows[d.refund].status, "pending"}
  /\ rows[d.refund].status # "pending"
  /\ d.acked => d.delivered

LEMMA NextNotices == Consistent /\ NoticesTruthful /\ [AnyNext]_vars => NoticesTruthful'
<1> SUFFICES ASSUME Consistent, NoticesTruthful, [AnyNext]_vars, NEW d \in deliveries'
             PROVE  Truthful(d, refunds')
  BY DEF NoticesTruthful, Truthful
<1>0. /\ \A e \in deliveries : Truthful(e, refunds) /\ e \in Delivery
      /\ refunds \in Seq(Refund) /\ TypeOK
  BY DEF NoticesTruthful, Truthful, Consistent, TypeOK
<1>1. CASE UNCHANGED <<refunds, deliveries>>
  BY <1>0, <1>1
<1>2. ASSUME NEW h \in Handlers, CommitRefund(h) PROVE Truthful(d, refunds')
  <2> DEFINE id == Len(refunds) + 1
             new == NewRefund(call[h].req)
  <2>1. /\ \A i \in DOMAIN refunds : i \in DOMAIN refunds' /\ refunds'[i] = refunds[i]
        /\ id \in DOMAIN refunds' /\ refunds'[id] = new
    BY <1>0, <1>2 DEF CommitRefund
  <2>2. new.status = RefundInitialStatus
    BY DEF NewRefund
  <2>3. CASE d \in deliveries
    BY <1>0, <2>1, <2>3 DEF Truthful
  <2>4. CASE d \notin deliveries
    <3>1. RefundInitialStatus = "succeeded" /\ d \in Notices(id, "succeeded")
      BY <1>2, <2>4, ValidScenario DEF CommitRefund
    <3>2. d.refund = id /\ d.status \in {"succeeded", "pending"} /\ d.acked = FALSE
      BY <3>1, NoticeRows
    <3> HIDE DEF id, new
    <3> QED BY <2>1, <2>2, <3>1, <3>2 DEF Truthful
  <2> QED BY <2>3, <2>4
<1>3. ASSUME NEW s \in Nat, Rest(s) PROVE Truthful(d, refunds')
  <2>1. /\ DOMAIN refunds' = DOMAIN refunds
        /\ \A i \in DOMAIN refunds :
              /\ i \notin Due(clock + s) => refunds'[i] = refunds[i]
              /\ i \in Due(clock + s) => refunds'[i] = [refunds[i] EXCEPT !.status = TerminalStatus]
    BY <1>3 DEF Rest, Sleep
  <2>2. \A i \in Due(clock + s) : i \in DOMAIN refunds /\ refunds[i].status = "pending"
    BY DEF Due
  <2>3. CASE d \in deliveries
    <3>1. d.refund \notin Due(clock + s)
      BY <1>0, <2>2, <2>3 DEF Truthful
    <3> QED BY <1>0, <2>1, <2>3, <3>1 DEF Truthful
  <2>4. CASE d \notin deliveries
    <3>1. PICK i \in Due(clock + s) : d \in Notices(i, TerminalStatus)
      BY <1>3, <2>4 DEF Rest, Sleep
    <3>4. TerminalStatus \in {"succeeded", "failed"}
      BY ValidScenario
    <3>2. d.refund = i /\ d.status \in {TerminalStatus, "pending"} /\ d.acked = FALSE
      BY <3>1, <3>4, NoticeRows
    <3>3. i \in DOMAIN refunds' /\ refunds'[i].status = TerminalStatus
      <4>1. refunds[i] \in Refund
        BY <1>0, <2>2, RefundRows
      <4> QED BY <2>1, <2>2, <4>1 DEF Refund
    <3> QED BY <3>2, <3>3, ValidScenario DEF Truthful
  <2> QED BY <2>3, <2>4
<1>4. ASSUME NEW h \in Handlers, ReceiveEvents(h) \/ AckEvent(h) PROVE Truthful(d, refunds')
  <2>1. refunds' = refunds
    BY <1>4 DEF ReceiveEvents, AckEvent
  <2>2. \/ d \in deliveries
        \/ \E e \in deliveries : d = [e EXCEPT !.delivered = TRUE]
        \/ \E e \in deliveries : e.delivered /\ d = [e EXCEPT !.acked = TRUE]
    BY <1>4 DEF ReceiveEvents, AckEvent, Acknowledged
  <2> QED BY <1>0, <2>1, <2>2 DEF Truthful, Delivery
<1> QED BY <1>1, <1>2, <1>3, <1>4, OtherDeskSteps DEF AnyNext, vars, service

\* No notification runs ahead of its refund or survives without it, in any order
\* of delivery the scenario scripts, and only what was received is acknowledged.
THEOREM NotificationsTruthful == Spec => []NoticesTruthful
<1>1. Init => NoticesTruthful
  BY DEF Init, NoticesTruthful
<1> QED BY <1>1, NextNotices, ConsistentAlways, BoundedStep, PTL DEF Spec
=============================================================================
