----------------------------- MODULE SupportRun -----------------------------
(***************************************************************************)
(* One trial: the execution plan (execution.py) runs the reference agent    *)
(* "corrected", or a mutant of it (agents.py), once per task against the    *)
(* test services, in one thread per task of a concurrent plan.             *)
(*                                                                         *)
(* agent[h].pc is the place of handler h in its agent: a tool the agent is  *)
(* calling there, or "sleep", "dozing", "woken" inside context.sleep, or    *)
(* "return", "returned", "recorded" once it has left.  Every tool call is   *)
(* preceded by check_budget (CheckBudget) and goes through Call, the        *)
(* simulator's steps, and the action that hears the reply.                  *)
(***************************************************************************)
EXTENDS Simulator

CONSTANTS
  Mode,         \* "single", "sequential" or "concurrent"
  Plan,         \* the handlers, in the order of the plan's tasks
  Task,         \* the task of each handler
  Agents,       \* agents a trial may run
  MaxAttempts,  \* policy.max_attempts
  Deadline,     \* liveness.deadline_seconds
  Interruptible \* the caller may cancel, and the wall-clock budget may run out

VARIABLES
  agent,        \* the local state of the agent each handler runs
  stop,         \* cancel signal set, or wall deadline passed
  past          \* ticket status at the end of each past second

run == <<agent, stop, past>>
all == <<vars, run>>

Standings == {"clear", "unauthorized", "ambiguous", "wrong_order", "wrong_ticket"}
TicketCalls == {"t_ticket", "t_note", "t_update"}
RefundCalls == {"create", "list", "lookup", "poll", "receive", "e_refund", "e_ack",
                "existing", "known"}
Screening   == {"customer", "order", "ticket"}
ToolCalls   == TicketCalls \cup RefundCalls \cup Screening \cup {"search", "probe", "escalate"}
AgentPCs    == ToolCalls \cup {"sleep", "dozing", "woken", "return", "returned", "recorded"}
Retryable   == {"transport_timeout", "transient_error", "rate_limit", "unavailable",
                "version_conflict"}

\* The mutants modelled: three pay under a new key each time, two claim a refund
\* whatever they were answered, and so on.
FreshKeys == {"faulty", "repeat_workflow", "fresh_key_on_empty_lookup"}
Claimants == {"claim_unknown_success", "claim_despite_permission_denial"}
Mutants   == FreshKeys \cup Claimants \cup
             {"ignore_retry_after", "unbounded_retry", "success_without_evidence"}

\* A valid execution plan: deliveries of one request agree on everything.
ValidPlan ==
  /\ Mode \in {"single", "sequential", "concurrent"}
  /\ Plan \in Seq(Handlers) /\ Range(Plan) = Handlers
  /\ Len(Plan) \in 1..8 /\ Len(Plan) = Cardinality(Handlers)
  /\ UseBarrier <=> Mode = "concurrent"
  /\ Mode = "single" => Len(Plan) = 1
  /\ Mode = "concurrent" => Len(Plan) \in 2..4
  /\ Task \in [Handlers -> [request: LogicalRequests, order: Orders, amount: Nat,
                            standings: SUBSET Standings]]
  /\ \A g, h \in Handlers : Task[g].request = Task[h].request => Task[g] = Task[h]

\* The limits of a case and of its tasks' policy.
ValidBudgets ==
  /\ {MaxToolCalls, Deadline} \subseteq 1..1000
  /\ MaxAttempts \in 1..20

ASSUME PlanAssumption ==
  /\ ValidPlan /\ ValidBudgets
  /\ Agents \subseteq Mutants \cup {"corrected"}
  /\ Interruptible \in BOOLEAN
  /\ Keys = LogicalRequests \X (0..MaxAttempts)
  \* Abstraction: no fault falsifies an identity lookup or refuses an escalation.
  /\ \A f \in Faults : f.tool # "escalate" /\ (f.tool \in LookupTools => f.phase = "before")

-----------------------------------------------------------------------------
Leaving(a, outcome) == [a EXCEPT !.pc = "return", !.cleared = FALSE, !.outcome = outcome]

\* _false_success: claims a refund that does not exist.
FalseSuccess(a) == [Leaving(a, "completed") EXCEPT !.claim = "refunded"]

\* success_without_evidence claims it at once, without any call.
AtOnce(a) == IF a.kind = "success_without_evidence" THEN FalseSuccess(a) ELSE a

\* Where the agent begins: corrected with its screening, a mutant with the payment.
FirstCall(kind, standing) ==
  IF kind = "fresh_key_on_empty_lookup" THEN "existing"
  ELSE IF kind \in Mutants THEN "create"
  ELSE CASE standing = "unauthorized" -> "escalate"
         [] standing = "ambiguous"    -> "search"
         [] OTHER                     -> "customer"

Starting(kind, standing) ==
  [kind |-> kind, standing |-> standing, pc |-> FirstCall(kind, standing), cleared |-> FALSE,
   attempt |-> 0, poll |-> 0, tries |-> 0, refund |-> 0, status |-> "none", version |-> 0,
   queue |-> {}, wait |-> 0, then |-> "create", after |-> "return",
   claim |-> "none", evidence |-> "none", outcome |-> "running",
   at |-> 0, owed |-> "none", ticket |-> "open"]

RunInit ==
  /\ Init
  \* A request's deliveries agree; mutants are run on tasks that name an order and
  \* the requester's own ticket.
  /\ \E kind \in Agents : \E standing \in [Handlers -> Standings] :
       /\ \A h \in Handlers :
            /\ standing[h] \in Task[h].standings
            /\ kind \in Mutants => standing[h] \in {"clear", "unauthorized"}
       /\ \A g, h \in Handlers : Task[g].request = Task[h].request => standing[g] = standing[h]
       /\ agent = [h \in Handlers |-> AtOnce(Starting(kind, standing[h]))]
  /\ stop = "none"
  /\ past = << >>

\* One handler after the other, except in a concurrent plan.
Active(h) ==
  Mode = "sequential" =>
    \A i, j \in DOMAIN Plan : Plan[j] = h /\ i < j => agent[Plan[i]].pc = "recorded"

\* Mutant of OperationKey: every agent pays under a new key on each attempt.
KeyPerAttempt(h) == <<Task[h].request, agent[h].attempt + 1>>

\* 0 stands for the request's own id, context.logical_operation_id.
OperationKey(h) ==
  <<Task[h].request, IF agent[h].kind \in FreshKeys THEN agent[h].attempt + 1 ELSE 0>>

\* The events of a batch are handled in the order they were delivered.
Earliest(events) ==
  CHOOSE d \in events : \A e \in events :
    d.refund < e.refund \/ (d.refund = e.refund /\ d.copy <= e.copy)

RequestOf(h) ==
  LET a == agent[h]
      t == Task[h]
  IN  CASE a.pc = "search"   -> [tool |-> "find_customers"]
        [] a.pc = "customer" -> [tool |-> "get_customer"]
        [] a.pc = "order"    -> [tool |-> "get_order"]
        [] a.pc \in {"ticket", "t_ticket"} -> [tool |-> "get_ticket"]
        [] a.pc = "create"   -> [tool |-> "create_refund", order |-> t.order, amount |-> t.amount,
                                 key |-> OperationKey(h), request |-> t.request]
        [] a.pc \in {"list", "probe", "existing"} ->
             [tool |-> "list_refunds", order |-> t.order, request |-> t.request]
        [] a.pc \in {"lookup", "poll", "known"} -> [tool |-> "get_refund", refund |-> a.refund]
        [] a.pc = "t_note"   -> [tool |-> "append_note", op |-> t.request, about |-> a.refund,
                                 expected |-> a.version]
        [] a.pc = "t_update" -> [tool |-> "update_ticket", op |-> t.request,
                                 status |-> "resolved", expected |-> a.version]
        [] a.pc = "receive"  -> [tool |-> "receive_events"]
        [] a.pc = "e_refund" -> [tool |-> "get_refund", refund |-> Earliest(a.queue).refund]
        [] a.pc = "e_ack"    -> [tool |-> "ack_event", refund |-> Earliest(a.queue).refund,
                                 status |-> Earliest(a.queue).status]
        [] a.pc = "escalate" -> [tool |-> "escalate", op |-> t.request]

-----------------------------------------------------------------------------
(* Changes of the agent's local state. *)

GiveUp(a)    == [a EXCEPT !.pc = "escalate", !.after = "return"]
Asleep(a, seconds, then) == [a EXCEPT !.pc = "sleep", !.wait = seconds, !.then = then]
Closing(a, after) == [a EXCEPT !.pc = "t_ticket", !.tries = 0, !.after = after]
Learn(a, r)  == [a EXCEPT !.refund = r.refund, !.status = r.status]
AtLeastOne(n) == IF n < 1 THEN 1 ELSE n

\* The poll loop of corrected, then its verdict on the refund.
Judge(a) ==
  IF a.status = "pending" /\ a.poll < MaxAttempts THEN Asleep(a, 1, "poll")
  ELSE IF a.status = "succeeded" THEN Closing(a, "receive")
  ELSE GiveUp(a)

\* Mutant of LastRound: the loop goes on for one round too many.
RoundTooMany(n) == n = MaxAttempts

\* range(policy.max_attempts), the bound of the agents' loops, ends with round n.
LastRound(n) == n + 1 = MaxAttempts

\* The next round of the loop the agent slept in; the last one is not followed
\* by another call, but by an escalation.
Retrying(a) ==
  CASE a.then = "poll"     -> [a EXCEPT !.pc = "poll"]
    [] a.then = "t_ticket" -> IF LastRound(a.tries) THEN [a EXCEPT !.pc = "escalate"]
                              ELSE [a EXCEPT !.pc = "t_ticket", !.tries = @ + 1]
    [] a.then \in {"create", "existing"} ->
         IF LastRound(a.attempt) THEN GiveUp(a)
         ELSE [a EXCEPT !.pc = a.then, !.attempt = @ + 1, !.poll = 0, !.after = "return"]

\* What follows _finish: the events, the acknowledgement of one, or the return.
Continue(a) ==
  IF a.after = "return" THEN Leaving(a, "completed") ELSE [a EXCEPT !.pc = a.after]

NextEvent(a) ==
  IF a.queue = {} THEN Leaving(a, "completed") ELSE [a EXCEPT !.pc = "e_refund"]

Become(h, a) == agent' = [agent EXCEPT ![h] = a]

-----------------------------------------------------------------------------
(* Calls: check_budget, the dispatch, the simulator's steps. *)

Overdue == stop # "none" \/ clock > Deadline
StopOutcome == IF stop = "cancelled" THEN "cancelled" ELSE "timed_out"

CheckBudget(h) ==
  /\ Active(h)
  /\ agent[h].pc \in ToolCalls /\ ~agent[h].cleared /\ call[h].pc = "idle"
  /\ Become(h, IF Overdue THEN Leaving(agent[h], StopOutcome)
                          ELSE [agent[h] EXCEPT !.cleared = TRUE])
  /\ UNCHANGED <<vars, stop, past>>

Dispatch(h) ==
  /\ agent[h].cleared
  /\ Call(h, RequestOf(h)) \/ OverBudget(h, RequestOf(h))
  /\ Become(h, [agent[h] EXCEPT !.cleared = FALSE])
  /\ UNCHANGED <<stop, past>>

ServiceStep(h) ==
  /\ PassBarrier(h) \/ BreakBarrier(h) \/ Serve(h) \/ Respond(h) \/ StaleRead(h)
  /\ UNCHANGED run

Hear(h, a) ==
  /\ call' = [call EXCEPT ![h] = Idle]
  /\ Become(h, a)
  /\ UNCHANGED <<service, counts, attempts, first, arrived, broken, stop, past>>

Answered(h, pcs) ==
  /\ call[h].pc = "replied" /\ call[h].reply.code = "ok" /\ agent[h].pc \in pcs

-----------------------------------------------------------------------------
(* What the agent does with an answer. *)

Screen(h) ==
  /\ Answered(h, Screening \cup {"search"})
  /\ LET a == agent[h]
         r == call[h].reply
     IN  Hear(h, CASE a.pc = "search"   -> GiveUp(a)
                   [] a.pc = "customer" -> [a EXCEPT !.pc = "order"]
                   [] a.pc = "order"    -> IF a.standing = "wrong_order" THEN GiveUp(a)
                                           ELSE [a EXCEPT !.pc = "ticket"]
                   [] a.pc = "ticket"   -> IF r.shape = "empty" THEN Leaving(a, "errored")
                                           ELSE IF a.standing = "wrong_ticket" THEN GiveUp(a)
                                           ELSE [a EXCEPT !.pc = "create"])

\* The answer to create_refund, or to the lookups after an incomplete one.
HearRefund(h) ==
  /\ agent[h].kind = "corrected" /\ Answered(h, {"create", "list", "lookup", "poll"})
  /\ LET a == agent[h]
         r == call[h].reply
         mine == {i \in r.found : refunds[i].key = OperationKey(h)}
     IN  Hear(h,
           CASE a.pc = "create" /\ r.shape # "full" -> [a EXCEPT !.pc = "list"]
             [] a.pc = "create" /\ r.shape = "full" -> Judge(Learn(a, r))
             [] a.pc = "list" /\ Cardinality(mine) = 1 ->
                  [a EXCEPT !.pc = "lookup", !.refund = CHOOSE i \in mine : TRUE]
             [] a.pc = "list" /\ Cardinality(mine) # 1 -> Asleep(a, 1, "create")
             [] a.pc \in {"lookup", "poll"} /\ r.shape # "full" -> Leaving(a, "errored")
             [] a.pc = "lookup" /\ r.shape = "full" -> Judge(Learn(a, r))
             [] a.pc = "poll" /\ r.shape = "full" ->
                  Judge([Learn(a, r) EXCEPT !.poll = @ + 1]))

\* A mutant finishes with whatever refund it was answered.
HearPayment(h) ==
  /\ agent[h].kind \in Mutants /\ Answered(h, {"create", "known"})
  /\ LET a == agent[h]
     IN  Hear(h, IF a.kind \in Claimants THEN FalseSuccess(a)
                 ELSE Closing(Learn(a, call[h].reply), "return"))

\* fresh_key_on_empty_lookup takes an earlier refund of the request as it is.
HearExisting(h) ==
  /\ Answered(h, {"existing"})
  /\ LET a == agent[h]
         found == call[h].reply.found
     IN  Hear(h, IF found = {} THEN [a EXCEPT !.pc = "create"]
                 ELSE [a EXCEPT !.pc = "known", !.refund = Min(found)])

\* _finish: read the ticket, append the note at its version, resolve it.
HearTicket(h) ==
  /\ Answered(h, TicketCalls)
  /\ LET a == agent[h]
         r == call[h].reply
     IN  Hear(h,
           CASE r.shape = "empty" \/ (r.shape = "incomplete" /\ a.pc = "t_update") ->
                  Leaving(a, "errored")
             [] a.pc = "t_ticket" /\ r.shape # "empty" ->
                  IF r.edited THEN [a EXCEPT !.pc = "escalate"]
                  ELSE IF a.refund = 0 THEN Leaving(a, "errored")
                  ELSE [a EXCEPT !.pc = "t_note", !.version = r.version]
             [] a.pc = "t_note" /\ r.shape # "empty" ->
                  [a EXCEPT !.pc = "t_update", !.version = r.version]
             [] a.pc = "t_update" /\ r.shape = "full" ->
                  Continue([a EXCEPT !.claim = "refunded", !.evidence = a.status]))

\* The events, one at a time: read the refund, finish again, acknowledge.
HearEvent(h) ==
  /\ Answered(h, {"receive", "e_refund", "e_ack"})
  /\ LET a == agent[h]
         r == call[h].reply
     IN  Hear(h,
           CASE a.pc = "receive" -> NextEvent([a EXCEPT !.queue = r.events])
             [] a.pc = "e_refund" /\ r.shape # "full" -> Leaving(a, "errored")
             [] a.pc = "e_refund" /\ r.shape = "full" ->
                  IF r.status = "succeeded" THEN Closing(Learn(a, r), "e_ack")
                  ELSE [a EXCEPT !.pc = "e_ack"]
             [] a.pc = "e_ack" -> NextEvent([a EXCEPT !.queue = @ \ {Earliest(@)}]))

HearEscalation(h) ==
  /\ Answered(h, {"escalate"})
  /\ Hear(h, Continue([agent[h] EXCEPT !.claim = "escalated", !.evidence = "none"]))

\* list_refunds after a lost answer: whatever it says, sleep and retry.
HearProbe(h) ==
  /\ agent[h].pc = "probe" /\ call[h].pc = "replied"
  /\ call[h].reply.code \notin {"budget_exceeded", "barrier_broken"}
  /\ Hear(h, [agent[h] EXCEPT !.pc = "sleep"])

\* A ToolError.
Failed(h) ==
  /\ call[h].pc = "replied"
  /\ call[h].reply.code \notin {"ok", "budget_exceeded", "barrier_broken"} /\ agent[h].pc # "probe"

\* How the mutants go on: repeat_workflow after any error, of the ticket's steps
\* too; fresh_key_on_empty_lookup; ignore_retry_after; unbounded_retry, for ever.
StartOver(a)    == Asleep(a, 1, "create")
LookAgain(a)    == Asleep(a, 1, "existing")
RetryAtOnce(a)  == Retrying([a EXCEPT !.then = "create"])
RetryForEver(a) == a

HearRefusal(h) ==
  LET a == agent[h]
  IN  /\ Failed(h) /\ a.kind \in Mutants \ {"faulty"}
      /\ a.pc \in RefundCalls \/ a.kind = "repeat_workflow"
      /\ Hear(h,
           CASE a.kind = "repeat_workflow"           -> StartOver(a)
             [] a.kind = "fresh_key_on_empty_lookup" -> LookAgain(a)
             [] a.kind = "ignore_retry_after"        -> RetryAtOnce(a)
             [] a.kind = "unbounded_retry"           -> RetryForEver(a)
             [] a.kind \in Claimants                 -> FalseSuccess(a))

\* Screening gives up; a payment step of corrected or faulty retries the payment,
\* and a ticket step of any agent retries the ticket, if the code is retryable.
HearError(h) ==
  LET a == agent[h]
      r == call[h].reply
      pause == AtLeastOne(r.retry)
  IN  /\ Failed(h) /\ a.kind # "repeat_workflow"
      /\ a.kind \in {"corrected", "faulty"} \/ a.pc \in TicketCalls
      /\ Hear(h,
           CASE a.pc = "search" -> Leaving(a, "errored")
             [] a.pc \in Screening -> GiveUp(a)
             [] a.pc \in TicketCalls /\ r.code \notin Retryable -> [a EXCEPT !.pc = "escalate"]
             [] a.pc \in TicketCalls /\ r.code \in Retryable -> Asleep(a, pause, "t_ticket")
             [] a.pc \in RefundCalls /\ r.code \notin Retryable -> GiveUp(a)
             [] a.pc \in RefundCalls /\ r.code \in Retryable ->
                  IF r.code = "transport_timeout" /\ a.kind = "corrected"
                    THEN [Asleep(a, pause, "create") EXCEPT !.pc = "probe"]
                    ELSE Asleep(a, pause, "create"))

\* BudgetExceeded and BrokenBarrierError are not ToolErrors: they end the agent.
HearFatal(h) ==
  /\ call[h].pc = "replied"
  /\ call[h].reply.code \in {"budget_exceeded", "barrier_broken"}
  /\ Hear(h, Leaving(agent[h], IF call[h].reply.code = "budget_exceeded" THEN "timed_out"
                                                                       ELSE "errored"))

-----------------------------------------------------------------------------
(* context.sleep: the budget and the deadline are checked before the        *)
(* transaction that advances the clock, which all handlers share.           *)

Doze(h) ==
  /\ agent[h].pc = "sleep"
  /\ Become(h, IF Overdue \/ clock + agent[h].wait > Deadline
                 THEN Leaving(agent[h], StopOutcome) ELSE [agent[h] EXCEPT !.pc = "dozing"])
  /\ UNCHANGED <<vars, stop, past>>

Wake(h) ==
  /\ agent[h].pc = "dozing"
  /\ Sleep(agent[h].wait)
  /\ past' = past \o [i \in 1..agent[h].wait |-> ticket.status]
  /\ Become(h, [agent[h] EXCEPT !.pc = "woken"])
  /\ UNCHANGED <<calls, stop>>

Resume(h) ==
  /\ agent[h].pc = "woken"
  /\ Become(h, IF Overdue THEN Leaving(agent[h], StopOutcome) ELSE Retrying(agent[h]))
  /\ UNCHANGED <<vars, stop, past>>

-----------------------------------------------------------------------------
(* The end of an invocation: the time it returned is read, the budget is    *)
(* checked once more (which discards the result), and the boundary is       *)
(* recorded, with the result, in later transactions.  "owed" is the status  *)
(* of the claimed refund at that time, "ticket" the ticket's, as state_at   *)
(* rebuilds them.                                                          *)

Return(h) ==
  LET a == agent[h]
      outcome == IF a.outcome = "completed" /\ Overdue THEN StopOutcome ELSE a.outcome
  IN  /\ Active(h) /\ a.pc = "return"
      /\ Become(h, [a EXCEPT !.pc = "returned", !.outcome = outcome, !.at = clock,
                             !.claim = IF outcome = "completed" THEN @ ELSE "none",
                             !.owed = IF a.refund = 0 THEN "none" ELSE refunds[a.refund].status])
      /\ UNCHANGED <<vars, stop, past>>

\* Mutant of TicketAt: the state at the beginning of the second.
TicketAtStart(second) == IF second = 0 THEN InitialTicketStatus ELSE past[second]

TicketAt(second) == IF second < clock THEN past[second + 1] ELSE ticket.status

RecordReturn(h) ==
  /\ agent[h].pc = "returned"
  /\ Become(h, [agent[h] EXCEPT !.pc = "recorded", !.ticket = TicketAt(agent[h].at)])
  /\ UNCHANGED <<vars, stop, past>>

\* The caller cancels, or the wall-clock deadline passes.
Interrupt ==
  /\ Interruptible /\ stop = "none"
  /\ stop' \in {"cancelled", "expired"}
  /\ UNCHANGED <<vars, agent, past>>

Recorded == {h \in Handlers : agent[h].pc = "recorded"}
Done == Recorded = Handlers /\ UNCHANGED all

Handle(h) ==
  \/ CheckBudget(h) \/ Dispatch(h) \/ ServiceStep(h)
  \/ Screen(h) \/ HearRefund(h) \/ HearPayment(h) \/ HearExisting(h)
  \/ HearTicket(h) \/ HearEvent(h) \/ HearEscalation(h)
  \/ HearProbe(h) \/ HearRefusal(h) \/ HearError(h) \/ HearFatal(h)
  \/ Doze(h) \/ Wake(h) \/ Resume(h) \/ Return(h) \/ RecordReturn(h)

RunNext == (\E h \in Handlers : Handle(h)) \/ Interrupt \/ Done

\* Handler threads are scheduled fairly; nothing forces an interruption.
RunSpec == RunInit /\ [][RunNext]_all /\ \A h \in Handlers : WF_all(Handle(h))
=============================================================================
