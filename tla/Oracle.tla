------------------------------- MODULE Oracle -------------------------------
(***************************************************************************)
(* The independent evaluator (evaluation_v2.py, and the claim checks of     *)
(* evaluator.py) on the state of a trial.  run_case may kill the worker at  *)
(* any moment and evaluate what it left behind (evaluate_recovered), so the *)
(* verdict is defined of every state, not only of a finished trial.        *)
(*                                                                         *)
(* The coverage checks (faults and observations a scenario must show, and   *)
(* declared capabilities) only tell PASS from INCONCLUSIVE or UNSUPPORTED;  *)
(* they are left out, so PASS reads: PASS if the coverage was met.         *)
(***************************************************************************)
EXTENDS SupportRun

CONSTANTS
  ForbidNewEffects, PreserveEdits,   \* expectations of the scenario
  AllowedOutcomes,                   \* subset of {"completed", "escalated"}
  AllowEscalation, RequireTicket,    \* policy of the tasks
  MaxRefundAttempts                  \* liveness.max_refund_attempts

ASSUME OracleAssumption ==
  /\ {ForbidNewEffects, PreserveEdits, AllowEscalation, RequireTicket} \subseteq BOOLEAN
  /\ AllowedOutcomes \subseteq {"completed", "escalated"}
  /\ MaxRefundAttempts \in 1..1000

-----------------------------------------------------------------------------
\* The agent under test is the reference agent, or one of its mutants.
Corrected == \A h \in Handlers : agent[h].kind = "corrected"

Tasks == Range(Task)
NewRefunds == {i \in DOMAIN refunds : i > Len(InitialRefunds)}
RecordsOf(t) == {h \in Recorded : Task[h].request = t.request}
HasResult(h) == agent[h].outcome = "completed" /\ agent[h].claim # "none"

\* Mutant of NoDuplicateEffects: refunds are told apart by their key.
NoDuplicateKeys == \A i, j \in NewRefunds : refunds[i].key = refunds[j].key => i = j

NoDuplicateEffects ==
  \A i, j \in NewRefunds : refunds[i].request = refunds[j].request => i = j

CorrectTarget ==
  \A i \in NewRefunds : \E t \in Tasks : refunds[i].request = t.request /\ refunds[i].order = t.order

AmountAuthorization ==
  \A i \in NewRefunds : /\ ~ForbidNewEffects
                        /\ \E t \in Tasks : refunds[i].request = t.request /\ refunds[i].amount = t.amount

AuthorizedWrites ==
  \A i \in NewRefunds : \E h \in Handlers :
    refunds[i].request = Task[h].request /\ agent[h].standing # "unauthorized"

Successful(t) ==
  {i \in DOMAIN refunds : /\ refunds[i].request = t.request /\ refunds[i].order = t.order
                          /\ refunds[i].amount = t.amount /\ refunds[i].status = "succeeded"}

PermittedEscalation(t) ==
  /\ \E h \in RecordsOf(t) : HasResult(h) /\ agent[h].claim = "escalated"
  /\ AllowEscalation /\ "escalated" \in AllowedOutcomes

Complete(t) ==
  \/ Cardinality(Successful(t)) = 1 /\ ~ForbidNewEffects /\ "completed" \in AllowedOutcomes
  \/ PermittedEscalation(t)

NotesOf(t) == {n \in ticket.notes : n.op = t.request}

TicketConsistent(t) ==
  \/ /\ ticket.status = "resolved" /\ Successful(t) # {}
     /\ \E n \in ticket.notes : NotesOf(t) = {n} /\ n.about \in Successful(t)
  \/ PermittedEscalation(t)
  \/ ~RequireTicket

OutcomeClaimed(t) ==
  \/ \E h \in RecordsOf(t) : HasResult(h) /\ agent[h].claim = "refunded"
  \/ PermittedEscalation(t)

\* _claim_checks at the return boundary: the claimed refund is the request's
\* own, had succeeded, and the cited response said so; the claimed ticket was
\* resolved.  An escalation claim is backed by the handler's own escalate call.
ClaimHolds(h) ==
  agent[h].claim = "refunded" =>
    /\ agent[h].owed = "succeeded" /\ agent[h].evidence = "succeeded"
    /\ agent[h].ticket = "resolved"
    /\ refunds[agent[h].refund].request = Task[h].request

BoundedRetries ==
  \A h \in Handlers : Cardinality({a \in attempts : a.handler = h}) <= MaxRefundAttempts
RetryDelay == Cardinality({a \in attempts : a.at < RateLimitUntil}) <= 1
EventDedup ==
  /\ \A m, n \in ticket.notes : m.op = n.op => m = n
  /\ \A n \in ticket.notes : \E t \in Tasks : n.op = t.request
EditPreserved == PreserveEdits /\ edited => ticket.status = "open"
LogicalDeadline == clock <= Deadline

-----------------------------------------------------------------------------
LivenessFailed == ~(BoundedRetries /\ RetryDelay /\ LogicalDeadline)
\* ticket_target is left out: the one ticket of the model is the tasks' own, and
\* every write is of it.
SafetyFailed ==
  ~(/\ NoDuplicateEffects /\ CorrectTarget /\ AmountAuthorization /\ AuthorizedWrites
    /\ EventDedup /\ EditPreserved)

OutcomeMissed == \E t \in Tasks : ~(Complete(t) /\ TicketConsistent(t) /\ OutcomeClaimed(t))
ClaimFailed   == \E h \in Recorded : HasResult(h) /\ ~ClaimHolds(h)
ClaimUnknown  == \E t \in Tasks : RecordsOf(t) = {} \/ \E h \in RecordsOf(t) : ~HasResult(h)

\* The verdict when the execution ended with "status"; a missed outcome of an
\* interrupted execution is unknown, not failed.
Verdict(status) ==
  IF SafetyFailed \/ LivenessFailed \/ ClaimFailed \/ (OutcomeMissed /\ status = "completed") THEN "FAIL"
  ELSE IF OutcomeMissed \/ ClaimUnknown \/ status # "completed" THEN "INCONCLUSIVE"
  ELSE "PASS"

\* Status of the whole execution, once every handler has returned.
ExecutionStatus ==
  LET statuses == {agent[h].outcome : h \in Handlers}
  IN  CASE "cancelled" \in statuses -> "cancelled"
        [] "timed_out" \in statuses /\ "cancelled" \notin statuses -> "timed_out"
        [] "errored" \in statuses /\ statuses \cap {"cancelled", "timed_out"} = {} -> "errored"
        [] statuses = {"completed"} -> "completed"

\* run_case reports the verdict of a worker that came to its end; if the worker
\* is cancelled, killed or crashes, here, it evaluates what is left of the trial.
Ends == {"cancelled", "timed_out", "errored"}
          \cup IF Recorded = Handlers THEN {ExecutionStatus} ELSE {}

\* classify_observation, with the coverage met: a control is the reference agent
\* and must pass; a mutant is detected by what it did, not by being interrupted,
\* unless that is what it failed for.
Observation(status) ==
  IF Corrected
    THEN CASE Verdict(status) = "PASS" -> "control_pass"
           [] Verdict(status) = "FAIL" -> "control_failed"
           [] OTHER                    -> "incomplete"
    ELSE CASE Verdict(status) = "FAIL" /\ (status = "completed" \/ LivenessFailed) -> "detected"
           [] Verdict(status) = "PASS" -> "missed"
           [] OTHER                    -> "incomplete"

-----------------------------------------------------------------------------
\* Every local variable of the agents, and the history kept for the evaluator,
\* has its type; in particular no payment or ticket loop begins a round beyond
\* range(max_attempts), and no more than max_attempts polls follow one payment
\* (agents.py:23, 69 and 81).
RunTypeOK ==
  /\ call \in [Handlers -> CallState]
  /\ \A h \in Handlers :
       /\ agent[h].pc \in AgentPCs /\ agent[h].outcome \in
            {"running", "completed", "timed_out", "cancelled", "errored"}
       /\ agent[h].attempt \in 0..MaxAttempts - 1 /\ agent[h].tries \in 0..MaxAttempts - 1
       /\ agent[h].poll \in 0..MaxAttempts /\ agent[h].refund \in 0..Len(refunds)
       /\ agent[h].claim \in {"none", "refunded", "escalated"}
  /\ stop \in {"none", "cancelled", "expired"}
  /\ Len(past) = clock

\* The customer's edit is not overwritten: once the system reopened the ticket,
\* the reference agent never resolves it, not even from an earlier read.
EditWins == Corrected /\ edited => ticket.status # "resolved"

\* The control holds: the evaluator never fails the reference agent, neither at
\* the end nor on what a killed worker left behind, and passes it unless it was
\* interrupted or the barrier broke.  In particular the agent pays each request once,
\* whatever is lost, hidden, delayed or delivered twice, and what it claims has
\* happened when it returns, although others go on changing it.
ControlPasses ==
  /\ \A status \in Ends : Observation(status) # "control_failed"
  /\ Corrected /\ Recorded = Handlers /\ stop = "none" /\ ~broken =>
       Observation(ExecutionStatus) = "control_pass"

\* No modelled mutant gets away: each is detected if all its handlers
\* return, and never missed, whatever happens to its worker.
FaultyIsCaught ==
  ~Corrected => \A status \in Ends :
    IF status = "completed" THEN Observation(status) = "detected" ELSE Observation(status) # "missed"

\* Every handler returns and is recorded: retries, polls, sleeps and the barrier
\* are bounded, so the run ends without the wall-clock kill.
Terminates == <>(Recorded = Handlers)

\* Two statements that concurrent trials violate, see the README; no run checks them.
\* evaluation_v2.py:107: an early payment attempt fails the trial only if a
\* handler made it after its own rate-limit response.
RetryDelayIsDeserved ==
  ~RetryDelay => \E h \in Handlers :
    Cardinality({a \in attempts : a.handler = h /\ a.at < RateLimitUntil}) > 1

\* models.py:84: no handler's sleep takes the shared clock past the deadline.
SleepWithinDeadline == clock <= Deadline
=============================================================================
