----------------------------- MODULE TrialProofs -----------------------------
(***************************************************************************)
(* Proofs about a trial: the reference agent, or a mutant of it, against    *)
(* the test services, for every plan, fixture, fault and interleaving.  A   *)
(* trial makes no call that AnyAgent could not make, so what is proved of   *)
(* AnyStep (AnyAgentProofs, LedgerProofs) holds of it too.                 *)
(***************************************************************************)
EXTENDS Oracle, LedgerProofs

USE DEF service, calls, vars

\* What the proofs use of a validated plan.
LEMMA ValidTrial ==
  /\ MaxAttempts \in 1..20
  /\ Keys = LogicalRequests \X (0..MaxAttempts)
  /\ Task \in [Handlers -> [request: LogicalRequests, order: Orders, amount: Nat,
                            standings: SUBSET Standings]]
  /\ \A g, h \in Handlers : Task[g].request = Task[h].request => Task[g] = Task[h]
  /\ Agents \subseteq Mutants \cup {"corrected"}
  /\ \A f \in Faults : f.tool # "escalate"
BY PlanAssumption DEF ValidPlan, ValidBudgets

-----------------------------------------------------------------------------
(***************************************************************************)
(* The agents' local variables.  That they are well typed depends on the    *)
(* place of the agent (an event is read only from a non-empty queue, the    *)
(* poll loop is entered only below its bound) and on the replies it hears.  *)
(***************************************************************************)
Agent ==
  [kind: Mutants \cup {"corrected"}, standing: Standings, pc: AgentPCs, cleared: BOOLEAN,
   attempt: 0..MaxAttempts - 1, poll: 0..MaxAttempts, tries: 0..MaxAttempts - 1,
   refund: Nat, status: RefundStatuses \cup {"none"}, version: Nat,
   queue: SUBSET Delivery, wait: Nat,
   then: {"create", "existing", "poll", "t_ticket"}, after: {"return", "receive", "e_ack"},
   claim: {"none", "refunded", "escalated"}, evidence: RefundStatuses \cup {"none"},
   outcome: {"running", "completed", "timed_out", "cancelled", "errored"},
   at: Nat, owed: RefundStatuses \cup {"none"}, ticket: TicketStatuses]

Gone    == {"return", "returned", "recorded"}
Resting == {"probe", "sleep", "dozing", "woken"}

\* Where an agent is tells which of its variables are in use.
Placed(a) ==
  /\ a.pc \in {"e_refund", "e_ack"} => a.queue # {}
  /\ a.after = "e_ack" => a.queue # {} \/ a.pc \in Gone
  /\ a.pc = "poll" \/ (a.pc \in Resting /\ a.then = "poll") => a.poll < MaxAttempts
  /\ a.pc = "probe" => a.then = "create"
  /\ a.kind = "success_without_evidence" => a.pc \in Gone

\* An agent that knows of a refund knows of a row.
Fit(a, rows) == a \in Agent /\ Placed(a) /\ a.refund \in 0..Len(rows)

\* A call in progress is the one its agent waits for.
Asks(h) ==
  /\ agent[h].cleared => agent[h].pc \in ToolCalls /\ call[h].pc = "idle"
  /\ call[h].pc # "idle" => agent[h].pc \in ToolCalls /\ call[h].req = RequestOf(h)

\* A reply names rows that exist, and an escalation is never refused.
Answers(c, rows) ==
  /\ c.reply.refund \in 0..Len(rows)
  /\ c.reply.found \subseteq DOMAIN rows
  /\ c.pc = "committed" => c.reply.code = "ok"
  /\ c.pc \in {"barrier", "limited"} => c.req.tool = "create_refund"
  /\ c.pc = "hidden" => c.req.tool = "list_refunds"
  /\ c.pc = "replied" /\ c.req.tool = "escalate" => c.reply.code \in {"ok", "budget_exceeded"}

\* The inductive invariant of every trial.
Trial ==
  /\ Consistent
  /\ agent \in [Handlers -> Agent]
  /\ \A h \in Handlers : Fit(agent[h], refunds) /\ Asks(h) /\ Answers(call[h], refunds)
  /\ stop \in {"none", "cancelled", "expired"}
  /\ past \in Seq(TicketStatuses) /\ Len(past) = clock

\* The least of a set of deliveries is one of them.
LEMMA EarliestIn ==
  ASSUME NEW events, events \subseteq Delivery, events # {}
  PROVE  Earliest(events) \in events
<1> DEFINE refs == {d.refund : d \in events}
<1>1. refs \subseteq Nat /\ refs # {}
  BY DEF Delivery
<1>2. PICK r \in refs : \A m \in refs : r <= m
  BY <1>1, LeastElement
<1> DEFINE copies == {d.copy : d \in {e \in events : e.refund = r}}
<1>3. copies \subseteq Nat /\ copies # {}
  BY DEF Delivery
<1>4. PICK k \in copies : \A m \in copies : k <= m
  BY <1>3, LeastElement
<1>5. PICK d \in events : d.refund = r /\ d.copy = k
  BY <1>4
<1>6. \A e \in events : d.refund < e.refund \/ (d.refund = e.refund /\ d.copy <= e.copy)
  <2> SUFFICES ASSUME NEW e \in events
               PROVE  d.refund < e.refund \/ (d.refund = e.refund /\ d.copy <= e.copy)
    OBVIOUS
  <2>1. d.refund <= e.refund /\ d.refund \in Nat /\ e.refund \in Nat
    BY <1>2, <1>5 DEF Delivery
  <2>2. CASE e.refund = r
    BY <1>4, <1>5, <2>2
  <2> QED BY <1>5, <2>1, <2>2
<1> QED BY <1>6 DEF Earliest

\* The least refund of a list is one of it.
LEMMA MinIn ==
  ASSUME NEW found, found \subseteq Nat, found # {}
  PROVE  Min(found) \in found
BY LeastElement DEF Min

-----------------------------------------------------------------------------
(* The requests of an agent are requests of the service. *)
LEMMA KeyTypes ==
  ASSUME NEW h \in Handlers, agent[h] \in Agent
  PROVE  OperationKey(h) \in Keys
<1>1. Task[h].request \in LogicalRequests
  BY ValidTrial
<1>2. agent[h].attempt \in 0..MaxAttempts - 1 /\ MaxAttempts \in Nat \ {0}
  BY ValidTrial DEF Agent
<1>3. agent[h].attempt + 1 \in 0..MaxAttempts /\ 0 \in 0..MaxAttempts
  BY <1>2
<1> QED BY <1>1, <1>3, ValidTrial DEF OperationKey

LEMMA AsksRequests ==
  ASSUME NEW h \in Handlers, Fit(agent[h], refunds), agent[h].pc \in ToolCalls
  PROVE  RequestOf(h) \in Request
<1> DEFINE a == agent[h]
           t == Task[h]
<1>1. a \in Agent /\ a.refund \in Nat /\ a.version \in Nat
  BY DEF Fit, Agent
<1>2. t.request \in LogicalRequests /\ t.order \in Orders /\ t.amount \in Nat
  BY ValidTrial
<1>3. OperationKey(h) \in Keys
  BY <1>1, KeyTypes
<1>4. a.pc \in {"e_refund", "e_ack"} =>
        Earliest(a.queue).refund \in Nat /\ Earliest(a.queue).status \in RefundStatuses
  <2>1. a.queue \subseteq Delivery
    BY <1>1 DEF Agent
  <2> QED BY <2>1, EarliestIn DEF Fit, Placed, Delivery
<1> HIDE DEF t
<1>5. CASE a.pc \in {"search", "customer", "order", "ticket", "t_ticket", "receive"}
  BY <1>5 DEF RequestOf, Request, LookupTools
<1>6. CASE a.pc = "create"
  BY <1>2, <1>3, <1>6 DEF RequestOf, Request, t
<1>7. CASE a.pc \in {"list", "probe", "existing"}
  BY <1>2, <1>7 DEF RequestOf, Request, t
<1>8. CASE a.pc \in {"lookup", "poll", "known"}
  BY <1>1, <1>8 DEF RequestOf, Request
<1>9. CASE a.pc \in {"t_note", "t_update", "escalate"}
  BY <1>1, <1>2, <1>9 DEF RequestOf, Request, t, TicketStatuses
<1>10. CASE a.pc \in {"e_refund", "e_ack"}
  BY <1>4, <1>10 DEF RequestOf, Request
<1> QED BY <1>5, <1>6, <1>7, <1>8, <1>9, <1>10
        DEF ToolCalls, TicketCalls, RefundCalls, Screening

-----------------------------------------------------------------------------
(***************************************************************************)
(* The changes of an agent's variables keep it fit: from an agent that may  *)
(* act (Able), whatever its place, to one that waits at its next (Ready).   *)
(* "who" is the agent before it heard the reply.                           *)
(***************************************************************************)
Able(a, who, rows) ==
  /\ a \in Agent /\ a.refund \in 0..Len(rows) /\ ~a.cleared
  /\ a.after = "e_ack" => a.queue # {}
  /\ a.kind # "success_without_evidence"
  /\ a.kind = who.kind /\ a.standing = who.standing

Ready(a, who, rows) ==
  /\ Fit(a, rows) /\ ~a.cleared /\ a.pc # "dozing"
  /\ a.kind = who.kind /\ a.standing = who.standing

LEMMA LeavingReady ==
  ASSUME NEW rows, NEW a \in Agent, NEW who, a.refund \in 0..Len(rows),
         a.kind = who.kind, a.standing = who.standing,
         NEW o \in {"completed", "timed_out", "cancelled", "errored"}
  PROVE  Ready(Leaving(a, o), who, rows)
<1> DEFINE b == Leaving(a, o)
<1> SUFFICES Ready(b, who, rows)
  OBVIOUS
<1>1. "return" \in AgentPCs
  BY DEF AgentPCs
<1>2. b \in Agent
  BY <1>1, ZenonT(30) DEF Leaving, Agent
<1>3. /\ b.pc = "return" /\ b.cleared = FALSE /\ b.after = a.after /\ b.refund = a.refund
      /\ b.kind = a.kind /\ b.standing = a.standing
  BY <1>1 DEF Leaving, Agent
<1> HIDE DEF b
<1> QED BY <1>2, <1>3 DEF Ready, Fit, Placed, Gone, Resting

LEMMA PlaceReady ==
  ASSUME NEW rows, NEW a, NEW who, Able(a, who, rows),
         NEW pc \in ToolCalls \ {"probe"},
         pc = "poll" => a.poll < MaxAttempts,
         pc \in {"e_refund", "e_ack"} => a.queue # {}
  PROVE  Ready([a EXCEPT !.pc = pc], who, rows)
<1> DEFINE b == [a EXCEPT !.pc = pc]
<1> SUFFICES Ready(b, who, rows)
  OBVIOUS
<1>1. a \in Agent /\ pc \in AgentPCs
  BY DEF Able, AgentPCs
<1>2. b \in Agent
  BY <1>1 DEF Agent
<1>3. /\ b.pc = pc /\ b.cleared = a.cleared /\ b.after = a.after /\ b.refund = a.refund
      /\ b.queue = a.queue /\ b.poll = a.poll /\ b.kind = a.kind /\ b.standing = a.standing
  BY <1>1 DEF Agent
<1>4. pc \notin {"sleep", "dozing", "woken", "probe"}
  BY DEF ToolCalls, TicketCalls, RefundCalls, Screening
<1> HIDE DEF b
<1> QED BY <1>2, <1>3, <1>4 DEF Ready, Able, Fit, Placed, Resting

LEMMA GiveUpReady ==
  ASSUME NEW rows, NEW a, NEW who, Able(a, who, rows)
  PROVE  Ready(GiveUp(a), who, rows)
<1> DEFINE b == GiveUp(a)
<1> SUFFICES Ready(b, who, rows)
  OBVIOUS
<1>1. a \in Agent /\ "escalate" \in AgentPCs
  BY DEF Able, AgentPCs, ToolCalls
<1>2. b \in Agent
  BY <1>1 DEF GiveUp, Agent
<1>3. /\ b.pc = "escalate" /\ b.cleared = a.cleared /\ b.after = "return" /\ b.refund = a.refund
      /\ b.kind = a.kind /\ b.standing = a.standing
  BY <1>1 DEF GiveUp, Agent
<1> HIDE DEF b
<1> QED BY <1>2, <1>3 DEF Ready, Able, Fit, Placed, Resting

LEMMA AsleepReady ==
  ASSUME NEW rows, NEW a, NEW who, Able(a, who, rows), NEW seconds \in Nat,
         NEW then \in {"create", "existing", "poll", "t_ticket"},
         then = "poll" => a.poll < MaxAttempts
  PROVE  /\ Ready(Asleep(a, seconds, then), who, rows)
         /\ then = "create" => Ready([Asleep(a, seconds, then) EXCEPT !.pc = "probe"], who, rows)
<1>1. a \in Agent /\ {"sleep", "probe"} \subseteq AgentPCs
  BY DEF Able, AgentPCs, ToolCalls
<1>2. ASSUME NEW b, NEW pc \in {"sleep", "probe"}, pc = "probe" => then = "create",
             b = [Asleep(a, seconds, then) EXCEPT !.pc = pc]
      PROVE  Ready(b, who, rows)
  <2>1. b \in Agent
    <3> DEFINE c == Asleep(a, seconds, then)
    <3>1. c \in Agent
      BY <1>1 DEF Asleep, Agent
    <3>2. b = [c EXCEPT !.pc = pc]
      BY <1>2
    <3> HIDE DEF c
    <3> QED BY <1>1, <3>1, <3>2 DEF Agent
  <2>2. /\ b.pc = pc /\ b.cleared = a.cleared /\ b.after = a.after /\ b.refund = a.refund
        /\ b.queue = a.queue /\ b.poll = a.poll /\ b.then = then /\ b.kind = a.kind
        /\ b.standing = a.standing
    BY <1>1, <1>2 DEF Asleep, Agent
  <2> QED BY <1>2, <2>1, <2>2 DEF Ready, Able, Fit, Placed, Resting
<1>3. Asleep(a, seconds, then) = [Asleep(a, seconds, then) EXCEPT !.pc = "sleep"]
  BY <1>1 DEF Asleep, Agent
<1> QED BY <1>2, <1>3

LEMMA ClosingReady ==
  ASSUME NEW rows, NEW a, NEW who, Able(a, who, rows), NEW after \in {"return", "receive", "e_ack"},
         after = "e_ack" => a.queue # {}
  PROVE  Ready(Closing(a, after), who, rows)
<1> DEFINE b == Closing(a, after)
<1> SUFFICES Ready(b, who, rows)
  OBVIOUS
<1>1. a \in Agent /\ "t_ticket" \in AgentPCs /\ 0 \in 0..MaxAttempts - 1
  BY ValidTrial DEF Able, AgentPCs, ToolCalls, TicketCalls
<1>2. b \in Agent
  BY <1>1 DEF Closing, Agent
<1>3. /\ b.pc = "t_ticket" /\ b.cleared = a.cleared /\ b.after = after /\ b.refund = a.refund
      /\ b.queue = a.queue /\ b.kind = a.kind /\ b.standing = a.standing
  BY <1>1 DEF Closing, Agent
<1> HIDE DEF b
<1> QED BY <1>2, <1>3 DEF Ready, Able, Fit, Placed, Resting

\* What the agent learns, and what it claims, does not move it.
LEMMA LearnAble ==
  ASSUME NEW rows, NEW a, NEW who, Able(a, who, rows)
  PROVE  /\ \A r \in Reply : r.refund \in 0..Len(rows) => Able(Learn(a, r), who, rows)
         /\ \A i \in Nat : i \in 0..Len(rows) => Able([a EXCEPT !.refund = i], who, rows)
         /\ \A c \in {"none", "refunded", "escalated"}, e \in RefundStatuses \cup {"none"} :
               Able([a EXCEPT !.claim = c, !.evidence = e], who, rows)
         /\ \A v \in Nat : Able([a EXCEPT !.version = v], who, rows)
         /\ a.poll < MaxAttempts => Able([a EXCEPT !.poll = @ + 1], who, rows)
<1>1. a \in Agent /\ a.poll \in 0..MaxAttempts /\ MaxAttempts \in Nat /\ a.refund \in 0..Len(rows)
  BY ValidTrial DEF Able, Agent
<1>2. ASSUME NEW r \in Reply, r.refund \in 0..Len(rows)
      PROVE  Able(Learn(a, r), who, rows)
  <2> DEFINE b == Learn(a, r)
  <2>0. r.refund \in Nat /\ r.status \in RefundStatuses \cup {"none"}
    BY DEF Reply
  <2>1. b \in Agent
    BY <1>1, <1>2, <2>0 DEF Agent, Learn
  <2>2. /\ b.cleared = a.cleared /\ b.after = a.after /\ b.refund = r.refund
        /\ b.queue = a.queue /\ b.kind = a.kind /\ b.standing = a.standing
    BY <1>1 DEF Agent, Learn
  <2> HIDE DEF b
  <2>3. Able(b, who, rows)
    BY <1>1, <1>2, <2>1, <2>2 DEF Able
  <2> QED BY <2>3 DEF b
<1>3. ASSUME NEW i \in Nat, i \in 0..Len(rows)
      PROVE  Able([a EXCEPT !.refund = i], who, rows)
  <2> DEFINE b == [a EXCEPT !.refund = i]
  <2>1. b \in Agent
    BY <1>1, <1>3 DEF Agent
  <2>2. /\ b.cleared = a.cleared /\ b.after = a.after /\ b.refund = i
        /\ b.queue = a.queue /\ b.kind = a.kind /\ b.standing = a.standing
    BY <1>1 DEF Agent
  <2> HIDE DEF b
  <2>3. Able(b, who, rows)
    BY <1>1, <1>3, <2>1, <2>2 DEF Able
  <2> QED BY <2>3 DEF b
<1>4. ASSUME NEW c \in {"none", "refunded", "escalated"}, NEW e \in RefundStatuses \cup {"none"}
      PROVE  Able([a EXCEPT !.claim = c, !.evidence = e], who, rows)
  <2> DEFINE b == [a EXCEPT !.claim = c, !.evidence = e]
  <2>1. b \in Agent
    BY <1>1, <1>4, ZenonT(30) DEF Agent
  <2>2. /\ b.cleared = a.cleared /\ b.after = a.after /\ b.refund = a.refund
        /\ b.queue = a.queue /\ b.kind = a.kind /\ b.standing = a.standing
    BY <1>1 DEF Agent
  <2> HIDE DEF b
  <2>3. Able(b, who, rows)
    BY <1>1, <1>4, <2>1, <2>2 DEF Able
  <2> QED BY <2>3 DEF b
<1>5. ASSUME NEW v \in Nat
      PROVE  Able([a EXCEPT !.version = v], who, rows)
  <2> DEFINE b == [a EXCEPT !.version = v]
  <2>1. b \in Agent
    BY <1>1, <1>5 DEF Agent
  <2>2. /\ b.cleared = a.cleared /\ b.after = a.after /\ b.refund = a.refund
        /\ b.queue = a.queue /\ b.kind = a.kind /\ b.standing = a.standing
    BY <1>1 DEF Agent
  <2> HIDE DEF b
  <2>3. Able(b, who, rows)
    BY <1>1, <1>5, <2>1, <2>2 DEF Able
  <2> QED BY <2>3 DEF b
<1>6. ASSUME a.poll < MaxAttempts
      PROVE  Able([a EXCEPT !.poll = @ + 1], who, rows)
  <2> DEFINE b == [a EXCEPT !.poll = @ + 1]
  <2>0. a.poll + 1 \in 0..MaxAttempts
    BY <1>1, <1>6
  <2>1. b \in Agent
    BY <1>1, <2>0 DEF Agent
  <2>2. /\ b.cleared = a.cleared /\ b.after = a.after /\ b.refund = a.refund
        /\ b.queue = a.queue /\ b.kind = a.kind /\ b.standing = a.standing
    BY <1>1 DEF Agent
  <2> HIDE DEF b
  <2>3. Able(b, who, rows)
    BY <1>1, <1>6, <2>1, <2>2 DEF Able
  <2> QED BY <2>3 DEF b
<1> QED BY <1>2, <1>3, <1>4, <1>5, <1>6

LEMMA JudgeReady ==
  ASSUME NEW rows, NEW a, NEW who, Able(a, who, rows)
  PROVE  Ready(Judge(a), who, rows)
BY AsleepReady, ClosingReady, GiveUpReady DEF Judge

LEMMA RetryingReady ==
  ASSUME NEW rows, NEW a, NEW who, Able(a, who, rows), a.then = "poll" => a.poll < MaxAttempts
  PROVE  Ready(Retrying(a), who, rows)
<1>1. /\ a \in Agent /\ a.then \in {"create", "existing", "poll", "t_ticket"}
      /\ a.tries \in 0..MaxAttempts - 1 /\ a.attempt \in 0..MaxAttempts - 1 /\ MaxAttempts \in Nat
  BY ValidTrial DEF Able, Agent
<1>2. CASE a.then = "poll"
  BY <1>2, PlaceReady DEF Retrying, LastRound, ToolCalls, RefundCalls
<1>3. CASE a.then = "t_ticket" /\ a.tries + 1 = MaxAttempts
  BY <1>3, PlaceReady DEF Retrying, LastRound, ToolCalls
<1>4. CASE a.then = "t_ticket" /\ a.tries + 1 # MaxAttempts
  <2> DEFINE b == [a EXCEPT !.pc = "t_ticket", !.tries = @ + 1]
  <2>1. a.tries + 1 \in 0..MaxAttempts - 1 /\ "t_ticket" \in AgentPCs
    BY <1>1, <1>4 DEF AgentPCs, ToolCalls, TicketCalls
  <2>2. b \in Agent
    BY <1>1, <2>1 DEF Agent
  <2>3. /\ b.pc = "t_ticket" /\ b.cleared = a.cleared /\ b.after = a.after /\ b.refund = a.refund
        /\ b.queue = a.queue /\ b.kind = a.kind /\ b.standing = a.standing
    BY <1>1 DEF Agent
  <2>4. Retrying(a) = b
    BY <1>4 DEF Retrying, LastRound
  <2> HIDE DEF b
  <2> QED BY <2>2, <2>3, <2>4 DEF Ready, Able, Fit, Placed, Resting
<1>5. CASE a.then \in {"create", "existing"} /\ a.attempt + 1 = MaxAttempts
  BY <1>5, GiveUpReady DEF Retrying, LastRound
<1>6. CASE a.then \in {"create", "existing"} /\ a.attempt + 1 # MaxAttempts
  <2> DEFINE b == [a EXCEPT !.pc = a.then, !.attempt = @ + 1, !.poll = 0, !.after = "return"]
  <2>1. /\ a.attempt + 1 \in 0..MaxAttempts - 1 /\ a.then \in AgentPCs /\ 0 \in 0..MaxAttempts
        /\ a.then \notin Resting \cup {"poll", "e_refund", "e_ack"}
    BY <1>1, <1>6 DEF AgentPCs, ToolCalls, RefundCalls, Resting
  <2>2. b \in Agent
    BY <1>1, <2>1 DEF Agent
  <2>3. /\ b.pc = a.then /\ b.cleared = a.cleared /\ b.after = "return" /\ b.refund = a.refund
        /\ b.queue = a.queue /\ b.kind = a.kind /\ b.standing = a.standing
    BY <1>1 DEF Agent
  <2>4. Retrying(a) = b
    BY <1>6 DEF Retrying, LastRound
  <2> HIDE DEF b
  <2> QED BY <2>1, <2>2, <2>3, <2>4 DEF Ready, Able, Fit, Placed, Resting
<1>7. a.then \in {"create", "existing", "poll", "t_ticket"}
  BY <1>1
<1> QED BY <1>2, <1>3, <1>4, <1>5, <1>6, <1>7

LEMMA ContinueReady ==
  ASSUME NEW rows, NEW a, NEW who, Able(a, who, rows)
  PROVE  Ready(Continue(a), who, rows)
<1>1. a.after \in {"return", "receive", "e_ack"}
  BY DEF Able, Agent
<1>2. CASE a.after = "return"
  BY <1>2, LeavingReady DEF Continue, Able
<1>3. CASE a.after # "return"
  BY <1>1, <1>3, PlaceReady DEF Continue, ToolCalls, RefundCalls, Able
<1> QED BY <1>2, <1>3

\* The queue shrinks or is filled; the agent looks at its next event, or is done.
LEMMA NextEventReady ==
  ASSUME NEW rows, NEW a, NEW who, Able(a, who, rows), NEW q, q \subseteq Delivery
  PROVE  Ready(NextEvent([a EXCEPT !.queue = q]), who, rows)
<1> DEFINE b == [a EXCEPT !.queue = q]
<1>1. a \in Agent /\ "return" \in AgentPCs
  BY DEF Able, AgentPCs
<1>2. b \in Agent
  BY <1>1 DEF Agent
<1>3. /\ b.pc = a.pc /\ b.cleared = a.cleared /\ b.after = a.after /\ b.refund = a.refund
      /\ b.queue = q /\ b.kind = a.kind /\ b.standing = a.standing
  BY <1>1 DEF Agent
<1> HIDE DEF b
<1>4. CASE q = {}
  BY <1>2, <1>3, <1>4, LeavingReady DEF NextEvent, Able, b
<1>5. CASE q # {}
  <2>1. Able(b, who, rows)
    BY <1>2, <1>3, <1>5 DEF Able
  <2>2. Ready([b EXCEPT !.pc = "e_refund"], who, rows)
    BY <1>3, <1>5, <2>1, PlaceReady DEF ToolCalls, RefundCalls
  <2> QED BY <1>3, <1>5, <2>2 DEF NextEvent, b
<1> QED BY <1>4, <1>5

-----------------------------------------------------------------------------
(* What the agent does with an answer leaves it fit. *)
HearsReady(h) == \E b : Hear(h, b) /\ Ready(b, agent[h], refunds)

\* An agent that hears a reply is at the call the reply answers.
LEMMA Hears ==
  ASSUME Trial, NEW h \in Handlers, call[h].pc = "replied"
  PROVE  /\ Able(agent[h], agent[h], refunds) /\ Fit(agent[h], refunds)
         /\ agent[h].pc \in ToolCalls /\ call[h].req = RequestOf(h)
         /\ call[h].reply \in Reply
         /\ call[h].reply.refund \in 0..Len(refunds)
         /\ call[h].reply.found \subseteq DOMAIN refunds /\ call[h].reply.found \subseteq Nat
         /\ call[h].reply.version \in Nat /\ call[h].reply.events \subseteq Delivery
         /\ call[h].reply.shape \in {"full", "incomplete", "empty"}
         /\ Len(refunds) \in Nat
<1> DEFINE a == agent[h]
<1>1. /\ agent[h] \in Agent /\ Fit(agent[h], refunds) /\ Asks(h) /\ Answers(call[h], refunds)
      /\ TypeOK
  BY DEF Trial, Consistent
<1>2. agent[h].pc \in ToolCalls /\ call[h].req = RequestOf(h) /\ ~agent[h].cleared
  BY <1>1 DEF Asks
<1>3. agent[h].pc \notin Gone
  BY <1>2 DEF Gone, ToolCalls, TicketCalls, RefundCalls, Screening
<1>4. Able(agent[h], agent[h], refunds)
  BY <1>1, <1>2, <1>3 DEF Able, Fit, Placed
<1>5. call[h].reply \in Reply /\ refunds \in Seq(Refund)
  BY <1>1, CallParts DEF TypeOK
<1> QED BY <1>1, <1>2, <1>4, <1>5 DEF Answers, Reply

LEMMA ScreenReady ==
  ASSUME Trial, NEW h \in Handlers, Screen(h)
  PROVE  HearsReady(h)
<1> DEFINE a == agent[h]
<1>1. /\ Able(a, a, refunds) /\ a \in Agent /\ a.pc \in Screening \cup {"search"}
  BY Hears DEF Screen, Answered, Able
<1>2. Ready(GiveUp(a), a, refunds)
  BY <1>1, GiveUpReady
<1>3. Ready(Leaving(a, "errored"), a, refunds)
  BY <1>1, LeavingReady DEF Able
<1>4. \A pc \in {"order", "ticket", "create"} : Ready([a EXCEPT !.pc = pc], a, refunds)
  BY <1>1, PlaceReady DEF ToolCalls, Screening, RefundCalls
<1> QED BY <1>1, <1>2, <1>3, <1>4 DEF Screen, HearsReady, Screening

LEMMA RefundReady ==
  ASSUME Trial, NEW h \in Handlers, HearRefund(h)
  PROVE  HearsReady(h)
<1> DEFINE a == agent[h]
           r == call[h].reply
           mine == {i \in r.found : refunds[i].key = OperationKey(h)}
<1>1. /\ Able(a, a, refunds) /\ a \in Agent /\ a.pc \in {"create", "list", "lookup", "poll"}
      /\ r \in Reply /\ r.refund \in 0..Len(refunds) /\ r.found \subseteq DOMAIN refunds
  BY Hears DEF HearRefund, Answered, Able
<1>2. Able(Learn(a, r), a, refunds)
  BY <1>1, LearnAble
<1>3. Ready(Judge(Learn(a, r)), a, refunds)
  BY <1>2, JudgeReady
<1>4. a.pc = "poll" => Ready(Judge([Learn(a, r) EXCEPT !.poll = @ + 1]), a, refunds)
  <2> SUFFICES ASSUME a.pc = "poll"
               PROVE  Ready(Judge([Learn(a, r) EXCEPT !.poll = @ + 1]), a, refunds)
    OBVIOUS
  <2>1. Learn(a, r).poll < MaxAttempts
    <3>1. a.poll < MaxAttempts
      BY Hears DEF HearRefund, Answered, Fit, Placed
    <3> QED BY <1>1, <3>1 DEF Learn, Agent
  <2>2. Able([Learn(a, r) EXCEPT !.poll = @ + 1], a, refunds)
    BY <1>2, <2>1, LearnAble
  <2> QED BY <2>2, JudgeReady
<1>5. Cardinality(mine) = 1 =>
        Ready([a EXCEPT !.pc = "lookup", !.refund = CHOOSE i \in mine : TRUE], a, refunds)
  <2> SUFFICES ASSUME Cardinality(mine) = 1
               PROVE  Ready([a EXCEPT !.pc = "lookup", !.refund = CHOOSE i \in mine : TRUE], a, refunds)
    OBVIOUS
  <2> DEFINE i == CHOOSE j \in mine : TRUE
  <2>1. mine # {}
    BY FS_EmptySet
  <2>2. i \in Nat /\ i \in 0..Len(refunds)
    <3>1. i \in r.found
      BY <2>1
    <3>2. DOMAIN refunds = 1..Len(refunds) /\ Len(refunds) \in Nat
      BY DEF Trial, Consistent, TypeOK
    <3> QED BY <1>1, <3>1, <3>2
  <2> HIDE DEF i
  <2>3. Able([a EXCEPT !.refund = i], a, refunds)
    BY <1>1, <2>2, LearnAble
  <2>4. Ready([[a EXCEPT !.refund = i] EXCEPT !.pc = "lookup"], a, refunds)
    BY <2>3, PlaceReady DEF ToolCalls, RefundCalls
  <2>5. [[a EXCEPT !.refund = i] EXCEPT !.pc = "lookup"] = [a EXCEPT !.pc = "lookup", !.refund = i]
    BY <1>1 DEF Agent
  <2> QED BY <2>4, <2>5 DEF i
<1>6. Ready(Asleep(a, 1, "create"), a, refunds)
  BY <1>1, AsleepReady
<1>7. Ready(Leaving(a, "errored"), a, refunds)
  BY <1>1, LeavingReady DEF Able
<1>8. Ready([a EXCEPT !.pc = "list"], a, refunds)
  BY <1>1, PlaceReady DEF ToolCalls, RefundCalls
<1> HIDE DEF a, r, mine
<1> QED BY <1>1, <1>3, <1>4, <1>5, <1>6, <1>7, <1>8 DEF HearRefund, HearsReady, a, r, mine

LEMMA MutantReady ==
  ASSUME Trial, NEW h \in Handlers, HearPayment(h) \/ HearExisting(h)
  PROVE  HearsReady(h)
<1> DEFINE a == agent[h]
           r == call[h].reply
<1>1. /\ Able(a, a, refunds) /\ a \in Agent /\ r \in Reply /\ r.refund \in 0..Len(refunds)
      /\ r.found \subseteq DOMAIN refunds /\ a.pc \in ToolCalls
  BY Hears DEF HearPayment, HearExisting, Answered, Able
<1>2. CASE HearPayment(h)
  <2>1. Ready(Closing(Learn(a, r), "return"), a, refunds)
    BY <1>1, LearnAble, ClosingReady
  <2>2. Ready(FalseSuccess(a), a, refunds)
    <3>1. Able([a EXCEPT !.claim = "refunded", !.evidence = a.evidence], a, refunds)
      BY <1>1, LearnAble DEF Agent
    <3>2. Ready(Leaving([a EXCEPT !.claim = "refunded", !.evidence = a.evidence], "completed"), a, refunds)
      BY <3>1, LeavingReady DEF Able
    <3>3. Leaving([a EXCEPT !.claim = "refunded", !.evidence = a.evidence], "completed") = FalseSuccess(a)
      BY <1>1 DEF Leaving, FalseSuccess, Agent
    <3> QED BY <3>2, <3>3
  <2> HIDE DEF a, r
  <2> QED BY <1>2, <2>1, <2>2 DEF HearPayment, HearsReady, a, r
<1>3. CASE HearExisting(h)
  <2>1. Ready([a EXCEPT !.pc = "create"], a, refunds)
    BY <1>1, PlaceReady DEF ToolCalls, RefundCalls
  <2> DEFINE i == Min(r.found)
  <2>2. r.found # {} => Ready([a EXCEPT !.pc = "known", !.refund = i], a, refunds)
    <3> SUFFICES ASSUME r.found # {} PROVE Ready([a EXCEPT !.pc = "known", !.refund = i], a, refunds)
      OBVIOUS
    <3>1. DOMAIN refunds = 1..Len(refunds) /\ Len(refunds) \in Nat
      BY DEF Trial, Consistent, TypeOK
    <3>2. i \in r.found /\ i \in Nat /\ i \in 0..Len(refunds)
      <4>1. r.found \subseteq Nat
        BY <1>1, <3>1
      <4> QED BY <1>1, <3>1, <4>1, MinIn
    <3> HIDE DEF i
    <3>3. Able([a EXCEPT !.refund = i], a, refunds)
      BY <1>1, <3>2, LearnAble
    <3>4. Ready([[a EXCEPT !.refund = i] EXCEPT !.pc = "known"], a, refunds)
      BY <3>3, PlaceReady DEF ToolCalls, RefundCalls
    <3>5. [[a EXCEPT !.refund = i] EXCEPT !.pc = "known"] = [a EXCEPT !.pc = "known", !.refund = i]
      BY <1>1 DEF Agent
    <3> QED BY <3>4, <3>5
  <2> HIDE DEF a, r
  <2> QED BY <1>3, <2>1, <2>2 DEF HearExisting, HearsReady, a, r
<1> QED BY <1>2, <1>3

LEMMA TicketReady ==
  ASSUME Trial, NEW h \in Handlers, HearTicket(h)
  PROVE  HearsReady(h)
<1> DEFINE a == agent[h]
           r == call[h].reply
<1>1. /\ Able(a, a, refunds) /\ a \in Agent /\ r \in Reply /\ r.version \in Nat
      /\ a.pc \in TicketCalls /\ a.status \in RefundStatuses \cup {"none"}
      /\ r.shape \in {"full", "incomplete", "empty"}
  <2>1. call[h].pc = "replied" /\ a.pc \in TicketCalls
    BY DEF HearTicket, Answered
  <2>2. Able(a, a, refunds) /\ r \in Reply /\ r.version \in Nat /\ r.shape \in {"full", "incomplete", "empty"}
    BY <2>1, Hears
  <2> QED BY <2>1, <2>2 DEF Able, Agent
<1>2. Ready(Leaving(a, "errored"), a, refunds)
  BY <1>1, LeavingReady DEF Able
<1>3. Ready([a EXCEPT !.pc = "escalate"], a, refunds)
  BY <1>1, PlaceReady DEF ToolCalls
<1>4. \A pc \in {"t_note", "t_update"} : Ready([a EXCEPT !.pc = pc, !.version = r.version], a, refunds)
  <2> SUFFICES ASSUME NEW pc \in {"t_note", "t_update"}
               PROVE  Ready([a EXCEPT !.pc = pc, !.version = r.version], a, refunds)
    OBVIOUS
  <2>1. Able([a EXCEPT !.version = r.version], a, refunds)
    BY <1>1, LearnAble
  <2>2. Ready([[a EXCEPT !.version = r.version] EXCEPT !.pc = pc], a, refunds)
    BY <2>1, PlaceReady DEF ToolCalls, TicketCalls
  <2>3. [[a EXCEPT !.version = r.version] EXCEPT !.pc = pc] = [a EXCEPT !.pc = pc, !.version = r.version]
    BY <1>1 DEF Agent
  <2> QED BY <2>2, <2>3
<1>5. Ready(Continue([a EXCEPT !.claim = "refunded", !.evidence = a.status]), a, refunds)
  BY <1>1, LearnAble, ContinueReady
<1> HIDE DEF a, r
<1> QED BY <1>1, <1>2, <1>3, <1>4, <1>5 DEF HearTicket, HearsReady, TicketCalls, a, r

LEMMA EventReady ==
  ASSUME Trial, NEW h \in Handlers, HearEvent(h)
  PROVE  HearsReady(h)
<1> DEFINE a == agent[h]
           r == call[h].reply
<1>1. /\ Able(a, a, refunds) /\ a \in Agent /\ r \in Reply /\ r.refund \in 0..Len(refunds)
      /\ a.pc \in {"receive", "e_refund", "e_ack"} /\ r.events \subseteq Delivery
      /\ a.queue \subseteq Delivery /\ (a.pc # "receive" => a.queue # {})
  <2>1. call[h].pc = "replied" /\ a.pc \in {"receive", "e_refund", "e_ack"}
    BY DEF HearEvent, Answered
  <2>2. /\ Able(a, a, refunds) /\ Fit(a, refunds) /\ r \in Reply /\ r.refund \in 0..Len(refunds)
        /\ r.events \subseteq Delivery
    BY <2>1, Hears
  <2> QED BY <2>1, <2>2 DEF Able, Fit, Placed, Agent
<1>2. Ready(Leaving(a, "errored"), a, refunds)
  BY <1>1, LeavingReady DEF Able
<1>3. /\ Ready(NextEvent([a EXCEPT !.queue = r.events]), a, refunds)
      /\ Ready(NextEvent([a EXCEPT !.queue = @ \ {Earliest(@)}]), a, refunds)
  BY <1>1, NextEventReady
<1>4. a.pc = "e_refund" => Ready(Closing(Learn(a, r), "e_ack"), a, refunds)
  <2>1. Able(Learn(a, r), a, refunds)
    BY <1>1, LearnAble
  <2>2. Learn(a, r).queue = a.queue
    BY <1>1 DEF Learn, Agent
  <2> QED BY <1>1, <2>1, <2>2, ClosingReady
<1>5. a.pc = "e_refund" => Ready([a EXCEPT !.pc = "e_ack"], a, refunds)
  BY <1>1, PlaceReady DEF ToolCalls, RefundCalls
<1> HIDE DEF a, r
<1> QED BY <1>1, <1>2, <1>3, <1>4, <1>5 DEF HearEvent, HearsReady, a, r

LEMMA EscalationReady ==
  ASSUME Trial, NEW h \in Handlers, HearEscalation(h)
  PROVE  HearsReady(h)
<1> DEFINE a == agent[h]
<1>1. Able(a, a, refunds)
  BY Hears DEF HearEscalation, Answered
<1>2. Able([a EXCEPT !.claim = "escalated", !.evidence = "none"], a, refunds)
  BY <1>1, LearnAble
<1>3. Ready(Continue([a EXCEPT !.claim = "escalated", !.evidence = "none"]), a, refunds)
  BY <1>2, ContinueReady
<1> HIDE DEF a
<1> QED BY <1>3 DEF HearEscalation, HearsReady, a

LEMMA ProbeReady ==
  ASSUME Trial, NEW h \in Handlers, HearProbe(h)
  PROVE  HearsReady(h)
<1> DEFINE a == agent[h]
           b == [a EXCEPT !.pc = "sleep"]
<1>1. a \in Agent /\ Fit(a, refunds) /\ ~a.cleared /\ a.pc = "probe"
  BY Hears DEF HearProbe, Able
<1>2. b \in Agent
  BY <1>1 DEF Agent, AgentPCs
<1>3. /\ b.pc = "sleep" /\ b.cleared = a.cleared /\ b.after = a.after /\ b.refund = a.refund
      /\ b.queue = a.queue /\ b.then = a.then /\ b.poll = a.poll
      /\ b.kind = a.kind /\ b.standing = a.standing
  BY <1>1 DEF Agent
<1> HIDE DEF b
<1>4. Ready(b, a, refunds)
  BY <1>1, <1>2, <1>3 DEF Ready, Fit, Placed, Resting, Gone
<1> QED BY <1>4 DEF HearProbe, HearsReady, b

\* A ToolError never comes from an escalation.
LEMMA FailedAt ==
  ASSUME Trial, NEW h \in Handlers, Failed(h)
  PROVE  agent[h].pc \in ToolCalls \ {"escalate", "probe"}
<1>1. agent[h].pc \in ToolCalls /\ call[h].req = RequestOf(h) /\ Answers(call[h], refunds)
  BY Hears DEF Failed, Trial
<1>2. agent[h].pc = "escalate" => RequestOf(h).tool = "escalate"
  BY DEF RequestOf
<1> QED BY <1>1, <1>2 DEF Failed, Answers

LEMMA RefusalReady ==
  ASSUME Trial, NEW h \in Handlers, HearRefusal(h)
  PROVE  HearsReady(h)
<1> DEFINE a == agent[h]
<1>1. /\ Able(a, a, refunds) /\ a \in Agent /\ a.pc \notin Resting
      /\ a.kind \in Mutants \ {"faulty", "success_without_evidence"}
  <2>1. a.pc \in ToolCalls \ {"probe"}
    BY FailedAt DEF HearRefusal
  <2>2. a.pc \notin Resting
    BY <2>1 DEF Resting, ToolCalls, TicketCalls, RefundCalls, Screening
  <2> QED BY <2>2, Hears DEF HearRefusal, Failed, Able
<1>2. Ready(StartOver(a), a, refunds) /\ Ready(LookAgain(a), a, refunds)
  BY <1>1, AsleepReady DEF StartOver, LookAgain
<1>3. Ready(RetryAtOnce(a), a, refunds)
  <2> DEFINE b == [a EXCEPT !.then = "create"]
  <2>1. b \in Agent
    BY <1>1 DEF Agent
  <2>2. /\ b.cleared = a.cleared /\ b.after = a.after /\ b.refund = a.refund /\ b.queue = a.queue
        /\ b.then = "create" /\ b.kind = a.kind /\ b.standing = a.standing
    BY <1>1 DEF Agent
  <2>3. Able(b, a, refunds)
    BY <1>1, <2>1, <2>2 DEF Able
  <2> QED BY <2>2, <2>3, RetryingReady DEF RetryAtOnce
<1>4. Ready(RetryForEver(a), a, refunds)
  <2>1. Fit(a, refunds)
    BY DEF Trial
  <2> QED BY <1>1, <2>1 DEF Ready, RetryForEver, Able, Resting
<1>5. Ready(FalseSuccess(a), a, refunds)
  <2>1. Able([a EXCEPT !.claim = "refunded", !.evidence = a.evidence], a, refunds)
    BY <1>1, LearnAble DEF Agent
  <2>2. Ready(Leaving([a EXCEPT !.claim = "refunded", !.evidence = a.evidence], "completed"), a, refunds)
    BY <2>1, LeavingReady DEF Able
  <2>3. Leaving([a EXCEPT !.claim = "refunded", !.evidence = a.evidence], "completed") = FalseSuccess(a)
    BY <1>1 DEF Leaving, FalseSuccess, Agent
  <2> QED BY <2>2, <2>3
<1>6. a.kind \in {"repeat_workflow", "fresh_key_on_empty_lookup", "ignore_retry_after",
                  "unbounded_retry"} \cup Claimants
  BY <1>1 DEF Mutants, FreshKeys
<1> HIDE DEF a
<1> QED BY <1>2, <1>3, <1>4, <1>5, <1>6 DEF HearRefusal, HearsReady, Claimants, a

LEMMA ErrorReady ==
  ASSUME Trial, NEW h \in Handlers, HearError(h)
  PROVE  HearsReady(h)
<1> DEFINE a == agent[h]
           pause == AtLeastOne(call[h].reply.retry)
<1>1. /\ Able(a, a, refunds) /\ a \in Agent /\ a.pc \in ToolCalls \ {"escalate", "probe"}
      /\ pause \in Nat
  <2>1. a.pc \in ToolCalls \ {"escalate", "probe"}
    BY FailedAt DEF HearError
  <2>2. Able(a, a, refunds) /\ call[h].reply \in Reply
    BY Hears DEF HearError, Failed
  <2>3. call[h].reply.retry \in Int
    BY <2>2 DEF Reply
  <2> QED BY <2>1, <2>2, <2>3 DEF Able, AtLeastOne
<1>2. Ready(Leaving(a, "errored"), a, refunds)
  BY <1>1, LeavingReady DEF Able
<1>3. Ready(GiveUp(a), a, refunds)
  BY <1>1, GiveUpReady
<1>4. Ready([a EXCEPT !.pc = "escalate"], a, refunds)
  BY <1>1, PlaceReady DEF ToolCalls
<1>5. /\ Ready(Asleep(a, pause, "t_ticket"), a, refunds)
      /\ Ready(Asleep(a, pause, "create"), a, refunds)
      /\ Ready([Asleep(a, pause, "create") EXCEPT !.pc = "probe"], a, refunds)
  BY <1>1, AsleepReady
<1>6. a.pc \in {"search"} \cup Screening \cup TicketCalls \cup RefundCalls
  BY <1>1 DEF ToolCalls
<1> HIDE DEF a, pause
<1> QED BY <1>2, <1>3, <1>4, <1>5, <1>6 DEF HearError, HearsReady, a, pause

LEMMA FatalReady ==
  ASSUME Trial, NEW h \in Handlers, HearFatal(h)
  PROVE  HearsReady(h)
<1>1. Able(agent[h], agent[h], refunds)
  BY Hears DEF HearFatal
<1>2. \A o \in {"timed_out", "errored"} : Ready(Leaving(agent[h], o), agent[h], refunds)
  BY <1>1, LeavingReady DEF Able
<1> QED BY <1>2 DEF HearFatal, HearsReady

\* Every step of a trial that hears a reply.
Hearing(h) ==
  \/ Screen(h) \/ HearRefund(h) \/ HearPayment(h) \/ HearExisting(h)
  \/ HearTicket(h) \/ HearEvent(h) \/ HearEscalation(h)
  \/ HearProbe(h) \/ HearRefusal(h) \/ HearError(h) \/ HearFatal(h)

LEMMA HearingReady ==
  ASSUME Trial, NEW h \in Handlers, Hearing(h)
  PROVE  HearsReady(h) /\ call[h].pc = "replied"
<1>1. HearsReady(h)
  BY ScreenReady, RefundReady, MutantReady, TicketReady, EventReady, EscalationReady,
     ProbeReady, RefusalReady, ErrorReady, FatalReady DEF Hearing
<1>2. call[h].pc = "replied"
  BY DEF Hearing, Screen, HearRefund, HearPayment, HearExisting, HearTicket, HearEvent,
         HearEscalation, HearProbe, HearRefusal, HearError, HearFatal, Answered, Failed
<1> QED BY <1>1, <1>2

-----------------------------------------------------------------------------
(***************************************************************************)
(* The replies of the service: what a call holds after the operation's      *)
(* transaction (Serves), and after its response was delivered (Delivers).  *)
(***************************************************************************)
LEMMA AnswerParts ==
  ASSUME TypeOK, NEW h \in Handlers, NEW reply
  PROVE  /\ Finish(h, reply) => call'[h] = [call[h] EXCEPT !.pc = "replied", !.reply = reply]
         /\ Commit(h, reply) => call'[h] = [call[h] EXCEPT !.pc = "committed", !.reply = reply]
BY DEF TypeOK, Finish, Commit

\* What the reply to a committed operation says.
Reports(h) ==
  LET req == call[h].req
      reply == call'[h].reply
  IN  \/ /\ req.tool = "create_refund"
         /\ \E id \in DOMAIN refunds' : /\ reply = RefundReply(id, refunds'[id].status)
                                        /\ refunds'[id].request = req.request
      \/ /\ req.tool = "list_refunds" /\ refunds' = refunds
         /\ reply = [OkReply EXCEPT !.found = {i \in DOMAIN refunds : refunds[i].order = req.order
                                                 /\ refunds[i].request = req.request}]
      \/ /\ req.tool = "get_refund" /\ req.refund \in DOMAIN refunds /\ refunds' = refunds
         /\ reply = RefundReply(req.refund, refunds[req.refund].status)
      \/ req.tool = "get_ticket" /\ reply = TicketReply(ticket, edited)
      \/ req.tool \in {"append_note", "update_ticket"} /\ reply = TicketReply(ticket', edited)
      \/ /\ req.tool = "receive_events"
         /\ reply = [OkReply EXCEPT !.events = {d \in deliveries : ~d.delivered}]
      \/ req.tool \in LookupTools \cup {"escalate", "ack_event"} /\ reply = OkReply

Serves(h) ==
  LET c == call[h]
  IN  /\ c.pc \in {"called", "limited"}
      /\ \/ c.req.tool = "create_refund" /\ call'[h] = [c EXCEPT !.pc = "limited"]
         \/ \E code \in Codes \ {"ok"}, retry \in Int :
              /\ c.req.tool # "escalate"
              /\ call'[h] = [c EXCEPT !.pc = "replied", !.reply = ErrorReply(code, retry)]
         \/ \E reply \in Reply :
              /\ call'[h] = [c EXCEPT !.pc = "committed", !.reply = reply]
              /\ Reports(h)

LEMMA Commits ==
  ASSUME TypeOK, NEW h \in Handlers, NEW reply \in Reply, Commit(h, reply)
  PROVE  /\ call'[h] = [call[h] EXCEPT !.pc = "committed", !.reply = reply]
         /\ call'[h].reply = reply
<1>1. call[h] \in CallState
  BY CallParts
<1>2. call'[h] = [call[h] EXCEPT !.pc = "committed", !.reply = reply]
  BY AnswerParts
<1>3. [call[h] EXCEPT !.pc = "committed", !.reply = reply].reply = reply
  BY <1>1 DEF CallState
<1> QED BY <1>2, <1>3

LEMMA Refuses ==
  ASSUME TypeOK, NEW h \in Handlers, NEW code \in Codes \ {"ok"}, NEW retry \in Int,
         Finish(h, ErrorReply(code, retry)),
         call[h].pc \in {"called", "limited"}, call[h].req.tool # "escalate"
  PROVE  Serves(h)
<1> DEFINE reply == ErrorReply(code, retry)
<1>1. call'[h] = [call[h] EXCEPT !.pc = "replied", !.reply = reply]
  BY AnswerParts
<1> QED BY <1>1 DEF Serves

LEMMA CreateServes ==
  ASSUME Consistent, NEW h \in Handlers,
         \/ RateLimited(h) \/ AnnounceRetry(h) \/ CommitRefund(h) \/ ReuseRefund(h) \/ RefuseRefund(h),
         Answers(call[h], refunds)
  PROVE  Serves(h)
<1> DEFINE a == call[h].req
           id == Len(refunds) + 1
<1>0. TypeOK /\ refunds \in Seq(Refund) /\ clock \in Int /\ RateLimitUntil \in Int
  BY ValidScenario DEF Consistent, TypeOK
<1>1. CASE RateLimited(h)
  BY <1>0, <1>1 DEF RateLimited, Serving, Serves, TypeOK
<1>2. CASE AnnounceRetry(h)
  BY <1>0, <1>2, Refuses DEF AnnounceRetry, Answers, Codes
<1>3. CASE RefuseRefund(h)
  BY <1>0, <1>3, Refuses DEF RefuseRefund, Refuse, Serving, Codes
<1>4. CASE CommitRefund(h)
  <2>1. refunds' = Append(refunds, NewRefund(a)) /\ id \in Nat /\ Serving(h, "create_refund")
    BY <1>0, <1>4 DEF CommitRefund
  <2>2. id \in DOMAIN refunds' /\ refunds'[id] = NewRefund(a)
    BY <1>0, <2>1
  <2>3. RefundReply(id, RefundInitialStatus) \in Reply /\ NewRefund(a).request = a.request
        /\ NewRefund(a).status = RefundInitialStatus
    BY <2>1, ReplyTypes, ValidScenario DEF RefundStatuses, NewRefund
  <2>4. Commit(h, RefundReply(id, RefundInitialStatus))
    BY <1>4 DEF CommitRefund
  <2>5. /\ call'[h] = [call[h] EXCEPT !.pc = "committed", !.reply = RefundReply(id, RefundInitialStatus)]
        /\ call'[h].reply = RefundReply(id, RefundInitialStatus)
    BY <1>0, <2>3, <2>4, Commits
  <2>6. Reports(h)
    BY <2>1, <2>2, <2>3, <2>5 DEF Reports, Serving
  <2> QED BY <2>1, <2>3, <2>5, <2>6 DEF Serves, Serving
<1>5. CASE ReuseRefund(h)
  <2>1. PICK e \in Registered(a.key) :
          SameParameters(e, a) /\ Commit(h, RefundReply(e.refund, refunds[e.refund].status))
    BY <1>5 DEF ReuseRefund
  <2>2. e.refund \in DOMAIN refunds /\ e = EntryOf(e.refund, refunds[e.refund])
    BY <2>1 DEF Registered, Consistent, RegistryConsistent
  <2>3. e.refund \in Nat /\ refunds[e.refund] \in Refund
    BY <1>0, <2>2
  <2>4. RefundReply(e.refund, refunds[e.refund].status) \in Reply
    BY <2>3, ReplyTypes DEF Refund
  <2>5. refunds[e.refund].request = a.request /\ refunds' = refunds /\ Serving(h, "create_refund")
    BY <1>5, <2>1, <2>2 DEF EntryOf, SameParameters, ReuseRefund
  <2>6. /\ call'[h] = [call[h] EXCEPT !.pc = "committed", !.reply = RefundReply(e.refund, refunds[e.refund].status)]
        /\ call'[h].reply = RefundReply(e.refund, refunds[e.refund].status)
    BY <1>0, <2>1, <2>4, Commits
  <2>7. Reports(h)
    BY <2>2, <2>5, <2>6 DEF Reports, Serving
  <2> QED BY <2>4, <2>5, <2>6, <2>7 DEF Serves, Serving
<1> QED BY <1>1, <1>2, <1>3, <1>4, <1>5

LEMMA ReadServes ==
  ASSUME Consistent, NEW h \in Handlers, Read(h) \/ Escalate(h)
  PROVE  Serves(h)
<1> DEFINE a == call[h].req
           mine == {i \in DOMAIN refunds : refunds[i].order = a.order /\ refunds[i].request = a.request}
<1>0. TypeOK /\ OkReply \in Reply
  BY ReplyTypes DEF Consistent
<1>1. CASE a.tool \in LookupTools \cup {"escalate"} /\ Commit(h, OkReply) /\ call[h].pc = "called"
  <2>1. /\ call'[h] = [call[h] EXCEPT !.pc = "committed", !.reply = OkReply]
        /\ call'[h].reply = OkReply
    BY <1>0, <1>1, Commits
  <2> QED BY <1>0, <1>1, <2>1 DEF Serves, Reports
<1>2. CASE Read(h) /\ a.tool = "list_refunds" /\ Commit(h, [OkReply EXCEPT !.found = mine])
  <2> DEFINE r == [OkReply EXCEPT !.found = mine]
  <2>1. r \in Reply
    <3>1. mine \subseteq Nat
      BY RefundRows, <1>0
    <3> QED BY <3>1, ReplyTypes
  <2>2. call'[h] = [call[h] EXCEPT !.pc = "committed", !.reply = r] /\ call'[h].reply = r
    BY <1>0, <1>2, <2>1, Commits
  <2>3. Reports(h)
    BY <1>2, <2>2 DEF Reports, Read
  <2> HIDE DEF r
  <2> QED BY <1>2, <2>1, <2>2, <2>3 DEF Serves, Read
<1>3. CASE Read(h) /\ a.tool = "get_refund" /\ a.refund \in DOMAIN refunds
           /\ Commit(h, RefundReply(a.refund, refunds[a.refund].status))
  <2> DEFINE r == RefundReply(a.refund, refunds[a.refund].status)
  <2>1. r \in Reply
    <3>1. a.refund \in Nat /\ refunds[a.refund] \in Refund
      BY <1>0, <1>3, RefundRows
    <3> QED BY <3>1, ReplyTypes DEF Refund
  <2>2. call'[h] = [call[h] EXCEPT !.pc = "committed", !.reply = r] /\ call'[h].reply = r
    BY <1>0, <1>3, <2>1, Commits
  <2>3. Reports(h)
    BY <1>3, <2>2 DEF Reports, Read
  <2> HIDE DEF r
  <2> QED BY <1>3, <2>1, <2>2, <2>3 DEF Serves, Read
<1>4. CASE Read(h) /\ a.tool = "get_refund" /\ Refuse(h, "refused")
  BY <1>0, <1>4, Refuses DEF Read, Refuse, Codes
<1> QED BY <1>1, <1>2, <1>3, <1>4 DEF Read, Escalate, Serving

LEMMA DeskServes ==
  ASSUME Consistent, NEW h \in Handlers, 
         GetTicket(h) \/ AppendNote(h) \/ UpdateTicket(h) \/ ReceiveEvents(h) \/ AckEvent(h)
  PROVE  Serves(h)
<1> DEFINE a == call[h].req
<1>0. TypeOK /\ OkReply \in Reply /\ ticket \in Ticket /\ edited \in BOOLEAN
  BY ReplyTypes DEF Consistent, TypeOK
<1>1. CASE GetTicket(h)
  <2>1. TicketReply(ticket, edited) \in Reply
    BY <1>0, ReplyTypes
  <2>2. /\ call'[h] = [call[h] EXCEPT !.pc = "committed", !.reply = TicketReply(ticket, edited)]
        /\ call'[h].reply = TicketReply(ticket, edited)
    BY <1>0, <1>1, <2>1, Commits DEF GetTicket
  <2> QED BY <1>1, <2>1, <2>2 DEF Serves, Reports, GetTicket, Serving
<1>2. CASE AppendNote(h) \/ UpdateTicket(h)
  <2>1. CASE Commit(h, TicketReply(ticket', edited)) /\ ticket' \in Ticket
    <3>1. TicketReply(ticket', edited) \in Reply
      BY <1>0, <2>1, ReplyTypes
    <3>2. /\ call'[h] = [call[h] EXCEPT !.pc = "committed", !.reply = TicketReply(ticket', edited)]
          /\ call'[h].reply = TicketReply(ticket', edited)
      BY <1>0, <2>1, <3>1, Commits
    <3> QED BY <1>2, <3>1, <3>2 DEF Serves, Reports, AppendNote, UpdateTicket, Serving
  <2>2. CASE \E code \in Codes \ {"ok"} : Refuse(h, code)
    BY <1>0, <1>2, <2>2, Refuses DEF AppendNote, UpdateTicket, Refuse, Serving
  <2>3. ticket' \in Ticket
    BY <1>0, <1>2, TicketWriteTypeOK DEF TypeOK
  <2> QED BY <1>2, <2>1, <2>2, <2>3 DEF AppendNote, UpdateTicket, WriteTicket, Codes
<1>3. CASE ReceiveEvents(h)
  <2> DEFINE batch == {d \in deliveries : ~d.delivered}
             r == [OkReply EXCEPT !.events = batch]
  <2>1. r \in Reply
    BY <1>0, ReplyTypes DEF TypeOK
  <2>2. call'[h] = [call[h] EXCEPT !.pc = "committed", !.reply = r] /\ call'[h].reply = r
    BY <1>0, <1>3, <2>1, Commits DEF ReceiveEvents
  <2>3. Reports(h)
    BY <1>3, <2>2 DEF Reports, ReceiveEvents, Serving
  <2> HIDE DEF r
  <2> QED BY <1>3, <2>1, <2>2, <2>3 DEF Serves, ReceiveEvents, Serving
<1>4. CASE AckEvent(h)
  <2>1. CASE Commit(h, OkReply)
    <3>1. call'[h] = [call[h] EXCEPT !.pc = "committed", !.reply = OkReply] /\ call'[h].reply = OkReply
      BY <1>0, <2>1, Commits
    <3> QED BY <1>0, <1>4, <3>1 DEF Serves, Reports, AckEvent, Serving
  <2>2. CASE Refuse(h, "refused")
    BY <1>0, <1>4, <2>2, Refuses DEF AckEvent, Refuse, Serving, Codes
  <2> QED BY <1>4, <2>1, <2>2 DEF AckEvent
<1> QED BY <1>1, <1>2, <1>3, <1>4

LEMMA ServeServes ==
  ASSUME Consistent, NEW h \in Handlers, Serve(h), Answers(call[h], refunds)
  PROVE  Serves(h)
BY CreateServes, ReadServes, DeskServes DEF Serve

\* The response of a committed call, or of a hidden list.
Delivers(h) ==
  LET c == call[h]
  IN  /\ c.pc \in {"committed", "hidden"} /\ UNCHANGED <<service, counts>>
      /\ \/ c.req.tool = "list_refunds" /\ call'[h] = [c EXCEPT !.pc = "hidden"]
         \/ c.req.tool # "escalate"
            /\ call'[h] = [c EXCEPT !.pc = "replied", !.reply = ErrorReply("transport_timeout", 0)]
         \/ call'[h] = [c EXCEPT !.pc = "replied", !.reply = [OkReply EXCEPT !.shape = "empty"]]
         \/ c.pc = "committed"
            /\ call'[h] = [c EXCEPT !.pc = "replied", !.reply = [c.reply EXCEPT
                                      !.shape = "incomplete", !.refund = 0, !.status = "none"]]
         \/ c.pc = "committed" /\ call'[h] = [c EXCEPT !.pc = "replied"]

LEMMA ResponseDelivers ==
  ASSUME TypeOK, NEW h \in Handlers, Respond(h) \/ StaleRead(h), Answers(call[h], refunds)
  PROVE  Delivers(h)
<1> DEFINE c == call[h]
           incomplete == [c.reply EXCEPT !.shape = "incomplete", !.refund = 0, !.status = "none"]
<1>1. c \in CallState
  BY CallParts
<1>2. /\ c.pc \in {"committed", "hidden"} /\ UNCHANGED <<service, counts>>
  BY DEF Respond, StaleRead
<1>3. CASE Refuse(h, "transport_timeout") /\ c.req.tool # "escalate"
  <2>1. Finish(h, ErrorReply("transport_timeout", 0))
    BY <1>3 DEF Refuse
  <2>2. call'[h] = [c EXCEPT !.pc = "replied", !.reply = ErrorReply("transport_timeout", 0)]
    BY <2>1, AnswerParts
  <2> QED BY <1>2, <1>3, <2>2 DEF Delivers
<1>4. CASE c.req.tool = "list_refunds" /\ call' = [call EXCEPT ![h].pc = "hidden"]
  <2>1. call'[h] = [c EXCEPT !.pc = "hidden"]
    BY <1>4 DEF TypeOK
  <2> QED BY <1>2, <1>4, <2>1 DEF Delivers
<1>5. CASE Finish(h, [OkReply EXCEPT !.shape = "empty"])
  <2>1. call'[h] = [c EXCEPT !.pc = "replied", !.reply = [OkReply EXCEPT !.shape = "empty"]]
    BY <1>5, AnswerParts
  <2> QED BY <1>2, <2>1 DEF Delivers
<1>6. CASE Finish(h, incomplete) /\ c.pc = "committed"
  <2>1. call'[h] = [c EXCEPT !.pc = "replied", !.reply = incomplete]
    BY <1>6, AnswerParts
  <2> QED BY <1>2, <1>6, <2>1 DEF Delivers
<1>7. CASE Finish(h, c.reply) /\ c.pc = "committed"
  <2>1. call'[h] = [c EXCEPT !.pc = "replied", !.reply = c.reply]
    BY <1>7, AnswerParts
  <2>2. [c EXCEPT !.pc = "replied", !.reply = c.reply] = [c EXCEPT !.pc = "replied"]
    BY <1>1 DEF CallState
  <2> QED BY <1>2, <1>7, <2>1, <2>2 DEF Delivers
<1>8. FaultsAt(c.req.tool, c.n, "after_commit") # {} => c.req.tool # "escalate"
  BY ValidTrial DEF FaultsAt
<1>9. Hidden(c.req.tool) => c.req.tool # "escalate"
  BY DEF Hidden, RefundTools
<1>10. CASE Respond(h)
  <2>1. \/ Refuse(h, "transport_timeout") /\ c.req.tool # "escalate"
        \/ c.req.tool = "list_refunds" /\ call' = [call EXCEPT ![h].pc = "hidden"]
        \/ Finish(h, [OkReply EXCEPT !.shape = "empty"])
        \/ Finish(h, incomplete) /\ c.pc = "committed"
        \/ Finish(h, c.reply) /\ c.pc = "committed"
    BY <1>8, <1>9, <1>10 DEF Respond
  <2> HIDE DEF c, incomplete
  <2> QED BY <1>3, <1>4, <1>5, <1>6, <1>7, <2>1
<1>11. CASE StaleRead(h)
  <2>1. \/ Refuse(h, "transport_timeout") /\ c.req.tool # "escalate"
        \/ Finish(h, [OkReply EXCEPT !.shape = "empty"])
    BY <1>11 DEF StaleRead, Answers
  <2> HIDE DEF c, incomplete
  <2> QED BY <1>3, <1>5, <2>1
<1> QED BY <1>10, <1>11

\* Rows are only added, and keep the request they were paid for.
LEMMA RowsKept ==
  ASSUME Consistent, [AnyNext]_vars
  PROVE  /\ Len(refunds) \in Nat /\ Len(refunds') \in Nat /\ Len(refunds) <= Len(refunds')
         /\ DOMAIN refunds = 1..Len(refunds) /\ DOMAIN refunds' = 1..Len(refunds')
<1>1. refunds \in Seq(Refund) /\ refunds' \in Seq(Refund)
  BY NextConsistent DEF Consistent, TypeOK
<1>2. DOMAIN refunds \subseteq DOMAIN refunds'
  BY RowsKeepParameters
<1>3. /\ Len(refunds) \in Nat /\ Len(refunds') \in Nat
      /\ DOMAIN refunds = 1..Len(refunds) /\ DOMAIN refunds' = 1..Len(refunds')
  BY <1>1
<1>4. Len(refunds) > 0 => Len(refunds) \in DOMAIN refunds'
  BY <1>2, <1>3
<1> QED BY <1>3, <1>4

\* What a reply names stays named.
LEMMA AnswersStay ==
  ASSUME Consistent, [AnyNext]_vars, NEW c, Answers(c, refunds)
  PROVE  Answers(c, refunds')
<1>1. 0..Len(refunds) \subseteq 0..Len(refunds') /\ DOMAIN refunds \subseteq DOMAIN refunds'
  BY RowsKept
<1> QED BY <1>1 DEF Answers

LEMMA ServesAnswers ==
  ASSUME Consistent, Consistent', NEW h \in Handlers, AnyStep(h), Serves(h), Answers(call[h], refunds)
  PROVE  Answers(call'[h], refunds')
<1> DEFINE c == call[h]
           d == call'[h]
<1>1. c \in CallState /\ Answers(c, refunds') /\ d.reply \in Reply
  <2>1. [AnyNext]_vars
    BY DEF AnyNext
  <2>2. d \in CallState
    BY DEF Consistent, TypeOK
  <2> QED BY <2>1, <2>2, AnswersStay, CallParts DEF Consistent, CallState
<1>2. refunds' \in Seq(Refund)
  BY DEF Consistent, TypeOK
<1>3. CASE d = [c EXCEPT !.pc = "limited"] /\ c.req.tool = "create_refund"
  BY <1>1, <1>3 DEF Answers, CallState
<1>4. CASE \E code \in Codes \ {"ok"}, retry \in Int :
              /\ c.req.tool # "escalate"
              /\ d = [c EXCEPT !.pc = "replied", !.reply = ErrorReply(code, retry)]
  <2>1. PICK code \in Codes, retry \in Int :
              /\ c.req.tool # "escalate"
              /\ d = [c EXCEPT !.pc = "replied", !.reply = ErrorReply(code, retry)]
    BY <1>4
  <2>2. d.reply = ErrorReply(code, retry) /\ d.pc = "replied" /\ d.req = c.req
    BY <1>1, <2>1 DEF CallState
  <2>3. ErrorReply(code, retry).refund = 0 /\ ErrorReply(code, retry).found = {}
    BY DEF ErrorReply, OkReply
  <2> QED BY <1>2, <2>1, <2>2, <2>3 DEF Answers
<1>5. CASE \E reply \in Reply : d = [c EXCEPT !.pc = "committed", !.reply = reply] /\ Reports(h)
  <2>1. d.pc = "committed" /\ d.req = c.req /\ Reports(h)
    BY <1>1, <1>5 DEF CallState
  <2>2. /\ d.reply.refund \in 0..Len(refunds') /\ d.reply.found \subseteq DOMAIN refunds'
        /\ d.reply.code = "ok"
    <3> DEFINE Fine == /\ d.reply.refund \in 0..Len(refunds') /\ d.reply.found \subseteq DOMAIN refunds'
                       /\ d.reply.code = "ok"
    <3>1. DOMAIN refunds' = 1..Len(refunds') /\ Len(refunds') \in Nat
      BY <1>2
    <3>2. ASSUME NEW id \in DOMAIN refunds', NEW status, d.reply = RefundReply(id, status)
          PROVE  Fine
      BY <3>1, <3>2 DEF RefundReply, OkReply
    <3>3. ASSUME NEW found, found \subseteq DOMAIN refunds', d.reply = [OkReply EXCEPT !.found = found]
          PROVE  Fine
      BY <3>1, <3>3 DEF OkReply
    <3>4. ASSUME NEW t, NEW e, d.reply = TicketReply(t, e)
          PROVE  Fine
      BY <3>1, <3>4 DEF TicketReply, OkReply
    <3>5. ASSUME NEW events, d.reply = [OkReply EXCEPT !.events = events]
          PROVE  Fine
      BY <3>1, <3>5 DEF OkReply
    <3>6. CASE d.reply = OkReply
      BY <3>1, <3>6 DEF OkReply
    <3> HIDE DEF d
    <3>7. Fine
      BY <2>1, <3>2, <3>3, <3>4, <3>5, <3>6 DEF Reports, d
    <3> QED BY <3>7
  <2> QED BY <2>1, <2>2 DEF Answers
<1> HIDE DEF c, d
<1> QED BY <1>3, <1>4, <1>5 DEF Serves, c, d

LEMMA DeliversAnswers ==
  ASSUME TypeOK, NEW h \in Handlers, Delivers(h), Answers(call[h], refunds)
  PROVE  Answers(call'[h], refunds')
<1> DEFINE c == call[h]
           d == call'[h]
<1>1. c \in CallState /\ c.reply \in Reply /\ refunds' = refunds /\ Len(refunds) \in Nat
  BY CallParts DEF Delivers, TypeOK
<1>2. CASE c.req.tool = "list_refunds" /\ d = [c EXCEPT !.pc = "hidden"]
  BY <1>1, <1>2 DEF Answers, CallState
<1>3. ASSUME NEW r \in Reply, d = [c EXCEPT !.pc = "replied", !.reply = r],
             r.refund = 0, r.found = {} \/ r.found = c.reply.found,
             c.req.tool # "escalate" \/ r.code = "ok"
      PROVE  Answers(d, refunds')
  <2>1. d.pc = "replied" /\ d.req = c.req /\ d.reply = r
    BY <1>1, <1>3 DEF CallState
  <2> QED BY <1>1, <1>3, <2>1 DEF Answers
<1>4. CASE c.req.tool # "escalate"
           /\ d = [c EXCEPT !.pc = "replied", !.reply = ErrorReply("transport_timeout", 0)]
  <2>1. /\ ErrorReply("transport_timeout", 0) \in Reply
        /\ ErrorReply("transport_timeout", 0).refund = 0
        /\ ErrorReply("transport_timeout", 0).found = {}
    BY ReplyTypes DEF Codes, ErrorReply, OkReply
  <2> QED BY <1>3, <1>4, <2>1
<1>5. CASE d = [c EXCEPT !.pc = "replied", !.reply = [OkReply EXCEPT !.shape = "empty"]]
  <2> DEFINE r == [OkReply EXCEPT !.shape = "empty"]
  <2>1. r \in Reply /\ r.refund = 0 /\ r.found = {} /\ r.code = "ok"
    BY ReplyTypes DEF OkReply
  <2> HIDE DEF r
  <2>2. d = [c EXCEPT !.pc = "replied", !.reply = r]
    BY <1>5 DEF r
  <2> QED BY <1>3, <2>1, <2>2
<1>6. CASE /\ c.pc = "committed"
           /\ d = [c EXCEPT !.pc = "replied", !.reply = [c.reply EXCEPT
                              !.shape = "incomplete", !.refund = 0, !.status = "none"]]
  <2> DEFINE r == [c.reply EXCEPT !.shape = "incomplete", !.refund = 0, !.status = "none"]
  <2>1. r \in Reply
    BY <1>1, ReplyTypes
  <2>2. r.refund = 0 /\ r.found = c.reply.found /\ r.code = c.reply.code
    BY <1>1 DEF Reply
  <2>3. r.code = "ok"
    BY <1>6, <2>2 DEF Answers
  <2> HIDE DEF r
  <2>4. d = [c EXCEPT !.pc = "replied", !.reply = r]
    BY <1>6 DEF r
  <2> QED BY <1>3, <2>1, <2>2, <2>3, <2>4
<1>7. CASE c.pc = "committed" /\ d = [c EXCEPT !.pc = "replied"]
  BY <1>1, <1>7 DEF Answers, CallState
<1> HIDE DEF c, d
<1> QED BY <1>2, <1>4, <1>5, <1>6, <1>7 DEF Delivers, c, d

\* The other steps of a call: it starts, waits at the barrier, or is collected.
LEMMA StartsAnswers ==
  ASSUME TypeOK, NEW h \in Handlers, Answers(call[h], refunds), refunds' = refunds,
         \/ \E req \in Request : Call(h, req) \/ OverBudget(h, req)
         \/ PassBarrier(h) \/ BreakBarrier(h) \/ Collect(h)
  PROVE  Answers(call'[h], refunds')
<1> DEFINE c == call[h]
           d == call'[h]
<1> SUFFICES Answers(d, refunds')
  OBVIOUS
<1>1. c \in CallState /\ Idle \in CallState /\ refunds' = refunds /\ Len(refunds) \in Nat
      /\ call \in [Handlers -> CallState]
  BY CallParts, IdleType DEF TypeOK
<1>2. \A code, retry : /\ ErrorReply(code, retry).refund = 0 /\ ErrorReply(code, retry).found = {}
                       /\ ErrorReply(code, retry).code = code
  BY DEF ErrorReply, OkReply
<1>3. OkReply.refund = 0 /\ OkReply.found = {} /\ Idle.reply = OkReply /\ Idle.pc = "idle"
  BY DEF OkReply, Idle
<1>4. ASSUME NEW req \in Request, Call(h, req)
      PROVE  Answers(d, refunds')
  <2> DEFINE n == counts[req.tool] + 1
             started == [Idle EXCEPT !.req = req, !.n = n]
             refusals == FaultsAt(req.tool, n, "before")
             waits == req.tool = "create_refund" /\ h \in first
  <2>1. \/ \E f \in refusals : call' = [call EXCEPT ![h] = [started EXCEPT !.pc = "replied",
                                                   !.reply = ErrorReply(f.action, f.retry)]]
        \/ \E pc \in {"barrier", "called"} : /\ pc = "barrier" => waits
                                             /\ call' = [call EXCEPT ![h] = [started EXCEPT !.pc = pc]]
    BY <1>4 DEF Call
  <2>2. ASSUME NEW f \in refusals, call' = [call EXCEPT ![h] = [started EXCEPT !.pc = "replied",
                                                   !.reply = ErrorReply(f.action, f.retry)]]
        PROVE  Answers(d, refunds')
    <3>1. req.tool # "escalate"
      BY ValidTrial DEF FaultsAt
    <3>2. d = [started EXCEPT !.pc = "replied", !.reply = ErrorReply(f.action, f.retry)]
      BY <1>1, <2>2
    <3>3. d.reply = ErrorReply(f.action, f.retry) /\ d.pc = "replied" /\ d.req = req
      BY <1>1, <3>2 DEF CallState
    <3> HIDE DEF d
    <3> QED BY <1>1, <1>2, <3>1, <3>3 DEF Answers
  <2>3. ASSUME NEW pc \in {"barrier", "called"}, pc = "barrier" => waits,
               call' = [call EXCEPT ![h] = [started EXCEPT !.pc = pc]]
        PROVE  Answers(d, refunds')
    <3>1. d = [started EXCEPT !.pc = pc]
      BY <1>1, <2>3
    <3>2. d.reply = OkReply /\ d.pc = pc /\ d.req = req
      BY <1>1, <1>3, <3>1 DEF CallState
    <3> HIDE DEF d
    <3> QED BY <1>1, <1>3, <2>3, <3>2 DEF Answers
  <2> QED BY <2>1, <2>2, <2>3
<1>5. ASSUME NEW req \in Request, OverBudget(h, req)
      PROVE  Answers(d, refunds')
  <2>1. d = [Idle EXCEPT !.pc = "replied", !.req = req, !.reply = ErrorReply("budget_exceeded", 0)]
    BY <1>1, <1>5 DEF OverBudget
  <2>2. d.reply = ErrorReply("budget_exceeded", 0) /\ d.pc = "replied"
    BY <1>1, <2>1 DEF CallState
  <2> HIDE DEF d
  <2> QED BY <1>1, <1>2, <2>2 DEF Answers
<1>6. CASE PassBarrier(h)
  <2>1. d = [c EXCEPT !.pc = "called"]
    BY <1>1, <1>6 DEF PassBarrier
  <2>2. d.pc = "called" /\ d.reply = c.reply
    BY <1>1, <2>1 DEF CallState
  <2> HIDE DEF d
  <2> QED BY <1>1, <2>2 DEF Answers
<1>7. CASE BreakBarrier(h)
  <2>1. d = [c EXCEPT !.pc = "replied", !.reply = ErrorReply("barrier_broken", 0)]
    BY <1>1, <1>7 DEF BreakBarrier, Refuse, Finish
  <2>2. d.pc = "replied" /\ d.reply = ErrorReply("barrier_broken", 0) /\ d.req = c.req
    BY <1>1, <2>1 DEF CallState
  <2>3. c.req.tool = "create_refund"
    BY <1>7 DEF BreakBarrier, Answers
  <2> HIDE DEF d
  <2> QED BY <1>1, <1>2, <2>2, <2>3 DEF Answers
<1>8. CASE Collect(h)
  <2>1. d = Idle
    BY <1>1, <1>8 DEF Collect
  <2> HIDE DEF d
  <2> QED BY <1>1, <1>3, <2>1 DEF Answers
<1> QED BY <1>4, <1>5, <1>6, <1>7, <1>8

\* Every reply is still an answer after any step of the service.
LEMMA NextAnswersKept ==
  ASSUME Consistent, \A g \in Handlers : Answers(call[g], refunds), [AnyNext]_vars
  PROVE  \A g \in Handlers : Answers(call'[g], refunds')
<1>1. Consistent' /\ TypeOK
  BY NextConsistent DEF Consistent
<1>2. \A g \in Handlers : Answers(call[g], refunds')
  BY AnswersStay
<1>3. CASE UNCHANGED call
  BY <1>2, <1>3
<1>4. ASSUME NEW h \in Handlers, AnyStep(h)
      PROVE  \A g \in Handlers : Answers(call'[g], refunds')
  <2>1. \A g \in Handlers \ {h} : call'[g] = call[g]
    BY <1>1, <1>4, OtherReplies
  <2>2. Answers(call'[h], refunds')
    <3>1. CASE Serve(h)
      BY <1>1, <1>4, <3>1, ServeServes, ServesAnswers
    <3>2. CASE Respond(h) \/ StaleRead(h)
      BY <1>1, <3>2, ResponseDelivers, DeliversAnswers
    <3>3. CASE \/ \E req \in Request : Call(h, req) \/ OverBudget(h, req)
               \/ PassBarrier(h) \/ BreakBarrier(h) \/ Collect(h)
      <4>1. refunds' = refunds
        BY <3>3 DEF Call, OverBudget, PassBarrier, BreakBarrier, Collect
      <4> QED BY <1>1, <3>3, <4>1, StartsAnswers
    <3>4. CASE \E s \in Nat : Rest(s)
      BY <1>2, <3>4 DEF Rest
    <3> QED BY <1>4, <3>1, <3>2, <3>3, <3>4 DEF AnyStep
  <2> QED BY <1>2, <2>1, <2>2
<1> QED BY <1>3, <1>4 DEF AnyNext

-----------------------------------------------------------------------------
(* The agent's steps without a call in progress. *)
OwnStep(h) ==
  CheckBudget(h) \/ Doze(h) \/ Resume(h) \/ Return(h) \/ RecordReturn(h)

OwnResult(h, b) ==
  /\ Become(h, b) /\ Fit(b, refunds)
  /\ b.kind = agent[h].kind /\ b.standing = agent[h].standing
  /\ b.cleared => b.pc \in ToolCalls

LEMMA OwnSteps ==
  ASSUME Trial, NEW h \in Handlers, OwnStep(h)
  PROVE  /\ call[h].pc = "idle" /\ UNCHANGED <<vars, stop, past>>
         /\ \E b : OwnResult(h, b)
<1> DEFINE a == agent[h]
<1>1. a \in Agent /\ Fit(a, refunds) /\ Asks(h) /\ a.refund \in 0..Len(refunds)
  BY DEF Trial, Fit
<1>2. call[h].pc = "idle" /\ UNCHANGED <<vars, stop, past>>
  BY <1>1 DEF OwnStep, CheckBudget, Doze, Resume, Return, RecordReturn, Asks, ToolCalls,
              TicketCalls, RefundCalls, Screening
<1>3. \A o \in {"cancelled", "timed_out"} : Ready(Leaving(a, o), a, refunds)
  BY <1>1, LeavingReady
<1>4. StopOutcome \in {"cancelled", "timed_out"}
  BY DEF StopOutcome
<1>5. \A b : Become(h, b) /\ Ready(b, a, refunds) => OwnResult(h, b)
  BY DEF Ready, OwnResult
<1>6. CASE CheckBudget(h)
  <2> DEFINE b == [a EXCEPT !.cleared = TRUE]
  <2>1. b \in Agent
    BY <1>1 DEF Agent
  <2>2. /\ b.pc = a.pc /\ b.after = a.after /\ b.refund = a.refund /\ b.queue = a.queue
        /\ b.poll = a.poll /\ b.then = a.then /\ b.kind = a.kind /\ b.standing = a.standing
    BY <1>1 DEF Agent
  <2>3. b.pc \in ToolCalls
    BY <1>6, <2>2 DEF CheckBudget
  <2> HIDE DEF b
  <2>4. Fit(b, refunds)
    BY <1>1, <2>1, <2>2 DEF Fit, Placed
  <2>5. Become(h, b) => OwnResult(h, b)
    BY <2>2, <2>3, <2>4 DEF OwnResult
  <2>6. Become(h, b) \/ Become(h, Leaving(a, StopOutcome))
    BY <1>6 DEF CheckBudget, b
  <2> QED BY <1>3, <1>4, <1>5, <2>5, <2>6, <1>2
<1>7. CASE Doze(h)
  <2> DEFINE b == [a EXCEPT !.pc = "dozing"]
  <2>1. b \in Agent
    <3>1. "dozing" \in AgentPCs
      BY DEF AgentPCs
    <3> QED BY <1>1, <3>1 DEF Agent
  <2>2. /\ b.pc = "dozing" /\ b.after = a.after /\ b.refund = a.refund /\ b.queue = a.queue
        /\ b.poll = a.poll /\ b.then = a.then /\ b.kind = a.kind /\ b.standing = a.standing
        /\ b.cleared = a.cleared /\ a.pc = "sleep"
    BY <1>1, <1>7 DEF Agent, Doze
  <2>3. ~b.cleared
    BY <1>1, <2>2 DEF Asks, ToolCalls, TicketCalls, RefundCalls, Screening
  <2> HIDE DEF b
  <2>4. Fit(b, refunds)
    BY <1>1, <2>1, <2>2 DEF Fit, Placed, Resting, Gone
  <2>5. Become(h, b) => OwnResult(h, b)
    BY <2>2, <2>3, <2>4 DEF OwnResult
  <2>6. Become(h, b) \/ Become(h, Leaving(a, StopOutcome))
    BY <1>7 DEF Doze, b
  <2> QED BY <1>3, <1>4, <1>5, <2>5, <2>6, <1>2
<1>8. CASE Resume(h)
  <2>1. a.pc = "woken" /\ ~a.cleared
    BY <1>1, <1>8 DEF Resume, Asks, ToolCalls, TicketCalls, RefundCalls, Screening
  <2>2. Able(a, a, refunds) /\ (a.then = "poll" => a.poll < MaxAttempts)
    BY <1>1, <2>1 DEF Able, Fit, Placed, Gone, Resting
  <2>3. Ready(Retrying(a), a, refunds)
    BY <2>2, RetryingReady
  <2>4. Become(h, Retrying(a)) \/ Become(h, Leaving(a, StopOutcome))
    BY <1>8 DEF Resume
  <2> QED BY <1>2, <1>3, <1>4, <1>5, <2>3, <2>4
<1>9. CASE Return(h)
  <2> DEFINE o == IF a.outcome = "completed" /\ Overdue THEN StopOutcome ELSE a.outcome
             c == IF o = "completed" THEN a.claim ELSE "none"
             w == IF a.refund = 0 THEN "none" ELSE refunds[a.refund].status
             b == [a EXCEPT !.pc = "returned", !.outcome = o, !.at = clock, !.claim = c, !.owed = w]
  <2>1. a.pc = "return" /\ Become(h, b)
    BY <1>9 DEF Return
  <2>2. o \in {"running", "completed", "timed_out", "cancelled", "errored"}
    BY <1>1, <1>4 DEF Agent
  <2>3. c \in {"none", "refunded", "escalated"}
    BY <1>1 DEF Agent
  <2>4. w \in RefundStatuses \cup {"none"}
    <3>1. refunds \in Seq(Refund)
      BY DEF Trial, Consistent, TypeOK
    <3>2. a.refund # 0 => refunds[a.refund] \in Refund
      BY <1>1, <3>1
    <3> QED BY <3>2 DEF Refund
  <2>5. clock \in Nat /\ "returned" \in AgentPCs
    BY DEF Trial, Consistent, TypeOK, AgentPCs
  <2> HIDE DEF o, c, w
  <2>6. b \in Agent
    <3> DEFINE x == [a EXCEPT !.pc = "returned", !.outcome = o]
               y == [x EXCEPT !.at = clock, !.claim = c]
    <3>1. x \in Agent
      BY <1>1, <2>2, <2>5, ZenonT(30) DEF Agent
    <3>2. b = [y EXCEPT !.owed = w]
      BY <1>1 DEF Agent
    <3> HIDE DEF x
    <3>3. y \in Agent
      BY <2>3, <2>5, <3>1 DEF Agent
    <3> HIDE DEF y
    <3>4. [y EXCEPT !.owed = w] \in Agent
      BY <2>4, <3>3 DEF Agent
    <3> QED BY <3>2, <3>4
  <2>7. /\ b.pc = "returned" /\ b.after = a.after /\ b.refund = a.refund /\ b.queue = a.queue
        /\ b.kind = a.kind /\ b.standing = a.standing /\ b.cleared = a.cleared
    BY <1>1 DEF Agent
  <2>8. ~b.cleared
    BY <1>1, <2>1, <2>7 DEF Asks, ToolCalls, TicketCalls, RefundCalls, Screening
  <2> HIDE DEF b
  <2>9. Fit(b, refunds)
    BY <1>1, <2>6, <2>7 DEF Fit, Placed, Resting, Gone
  <2> QED BY <1>2, <2>1, <2>7, <2>8, <2>9 DEF OwnResult
<1>10. CASE RecordReturn(h)
  <2> DEFINE s == TicketAt(a.at)
             b == [a EXCEPT !.pc = "recorded", !.ticket = s]
  <2>1. a.pc = "returned" /\ Become(h, b)
    BY <1>10 DEF RecordReturn
  <2>2. s \in TicketStatuses
    <3>1. a.at \in Nat /\ clock \in Nat /\ ticket \in Ticket /\ past \in Seq(TicketStatuses)
          /\ Len(past) = clock
      BY <1>1 DEF Agent, Trial, Consistent, TypeOK
    <3>2. a.at < clock => past[a.at + 1] \in TicketStatuses
      BY <3>1
    <3> QED BY <3>1, <3>2 DEF TicketAt, Ticket
  <2>3. "recorded" \in AgentPCs
    BY DEF AgentPCs
  <2> HIDE DEF s
  <2>4. b \in Agent
    BY <1>1, <2>2, <2>3 DEF Agent
  <2>5. /\ b.pc = "recorded" /\ b.after = a.after /\ b.refund = a.refund /\ b.queue = a.queue
        /\ b.kind = a.kind /\ b.standing = a.standing /\ b.cleared = a.cleared
    BY <1>1 DEF Agent
  <2>6. ~b.cleared
    BY <1>1, <2>1, <2>5 DEF Asks, ToolCalls, TicketCalls, RefundCalls, Screening
  <2> HIDE DEF b
  <2>7. Fit(b, refunds)
    BY <1>1, <2>4, <2>5 DEF Fit, Placed, Resting, Gone
  <2> QED BY <1>2, <2>1, <2>5, <2>6, <2>7 DEF OwnResult
<1> QED BY <1>6, <1>7, <1>8, <1>9, <1>10 DEF OwnStep

-----------------------------------------------------------------------------
(* The steps of a trial, one kind at a time. *)
LEMMA RequestKept ==
  ASSUME NEW g \in Handlers,
         /\ agent'[g].pc = agent[g].pc /\ agent'[g].kind = agent[g].kind
         /\ agent'[g].attempt = agent[g].attempt /\ agent'[g].refund = agent[g].refund
         /\ agent'[g].version = agent[g].version /\ agent'[g].queue = agent[g].queue
  PROVE  RequestOf(g)' = RequestOf(g)
BY DEF RequestOf, OperationKey

LEMMA FitStays ==
  ASSUME Consistent, [AnyNext]_vars, NEW a, Fit(a, refunds)
  PROVE  Fit(a, refunds')
<1>1. 0..Len(refunds) \subseteq 0..Len(refunds')
  BY RowsKept
<1> QED BY <1>1 DEF Fit

\* An agent keeps its kind and its task's standing for the whole trial.
Identities == \A g \in Handlers : agent'[g].kind = agent[g].kind /\ agent'[g].standing = agent[g].standing

\* One handler's agent changed, and nobody else's agent or call.
LEMMA AgentMoves ==
  ASSUME Trial, [AnyNext]_vars, NEW h \in Handlers, NEW b,
         Become(h, b), Fit(b, refunds), b.kind = agent[h].kind, b.standing = agent[h].standing,
         Asks(h)', \A g \in Handlers \ {h} : call'[g] = call[g]
  PROVE  /\ agent' \in [Handlers -> Agent] /\ Identities
         /\ \A g \in Handlers : Fit(agent'[g], refunds') /\ Asks(g)'
<1>1. agent \in [Handlers -> Agent] /\ b \in Agent
  BY DEF Trial, Fit
<1>2. agent' \in [Handlers -> Agent] /\ agent'[h] = b /\ \A g \in Handlers \ {h} : agent'[g] = agent[g]
  BY <1>1 DEF Become
<1>3. \A g \in Handlers : Fit(agent'[g], refunds')
  BY <1>2, FitStays DEF Trial
<1>4. ASSUME NEW g \in Handlers \ {h} PROVE Asks(g)'
  <2>1. agent'[g] = agent[g] /\ call'[g] = call[g] /\ Asks(g)
    BY <1>2 DEF Trial
  <2>2. RequestOf(g)' = RequestOf(g)
    BY <2>1, RequestKept
  <2> QED BY <2>1, <2>2 DEF Asks
<1> QED BY <1>2, <1>3, <1>4 DEF Identities

\* What is shown of each kind of step: it is one the service knows, and it
\* keeps the agents' part of the invariant.
Kept ==
  /\ [AnyNext]_vars
  /\ agent' \in [Handlers -> Agent] /\ Identities
  /\ \A g \in Handlers : Fit(agent'[g], refunds') /\ Asks(g)'
  /\ stop' \in {"none", "cancelled", "expired"}
  /\ past' \in Seq(TicketStatuses) /\ Len(past') = clock'

LEMMA HearingKept ==
  ASSUME Trial, NEW h \in Handlers, Hearing(h)
  PROVE  Kept
<1>1. PICK b : Hear(h, b) /\ Ready(b, agent[h], refunds)
  BY HearingReady DEF HearsReady
<1>2. call[h].pc = "replied" /\ call \in [Handlers -> CallState] /\ agent \in [Handlers -> Agent]
  BY HearingReady DEF Trial, Consistent, TypeOK
<1>3. AnyNext
  <2>1. Collect(h)
    BY <1>1, <1>2 DEF Hear, Collect
  <2> QED BY <2>1 DEF AnyNext, AnyStep
<1>4. Asks(h)'
  <2>1. agent'[h] = b /\ ~b.cleared
    BY <1>1, <1>2 DEF Hear, Become, Ready
  <2>2. call'[h].pc = "idle"
    BY <1>1, <1>2 DEF Hear, Idle
  <2> QED BY <2>1, <2>2 DEF Asks
<1>5. \A g \in Handlers \ {h} : call'[g] = call[g]
  BY <1>1, <1>2 DEF Hear
<1>6. /\ Become(h, b) /\ Fit(b, refunds) /\ b.kind = agent[h].kind /\ b.standing = agent[h].standing
      /\ UNCHANGED <<clock, stop, past>>
  BY <1>1 DEF Hear, Ready
<1> QED BY <1>3, <1>4, <1>5, <1>6, AgentMoves DEF Trial, Kept

LEMMA OwnKept ==
  ASSUME Trial, NEW h \in Handlers, OwnStep(h)
  PROVE  Kept
<1>1. call[h].pc = "idle" /\ UNCHANGED <<vars, stop, past>>
  BY OwnSteps
<1>2. PICK b : OwnResult(h, b)
  BY OwnSteps
<1>3. Asks(h)'
  <2>1. agent'[h] = b /\ (b.cleared => b.pc \in ToolCalls)
    BY <1>2 DEF OwnResult, Become, Trial
  <2> QED BY <1>1, <2>1 DEF Asks
<1>4. \A g \in Handlers \ {h} : call'[g] = call[g]
  BY <1>1
<1>5. Become(h, b) /\ Fit(b, refunds) /\ b.kind = agent[h].kind /\ b.standing = agent[h].standing
  BY <1>2 DEF OwnResult
<1>6. agent' \in [Handlers -> Agent] /\ Identities /\ \A g \in Handlers : Fit(agent'[g], refunds') /\ Asks(g)'
  BY <1>1, <1>3, <1>4, <1>5, AgentMoves
<1> QED BY <1>1, <1>6 DEF Trial, Kept

\* A dispatched call holds the request of its agent.
LEMMA DispatchKept ==
  ASSUME Trial, NEW h \in Handlers, Dispatch(h)
  PROVE  Kept
<1> DEFINE a == agent[h]
           b == [a EXCEPT !.cleared = FALSE]
           req == RequestOf(h)
<1>1. /\ a \in Agent /\ Fit(a, refunds) /\ Asks(h) /\ TypeOK
      /\ agent \in [Handlers -> Agent] /\ call \in [Handlers -> CallState]
  BY DEF Trial, Consistent, TypeOK
<1>2. a.cleared /\ a.pc \in ToolCalls /\ Become(h, b) /\ UNCHANGED <<stop, past>>
  BY <1>1 DEF Dispatch, Asks
<1>3. req \in Request
  BY <1>1, <1>2, AsksRequests
<1>4. AnyStep(h) /\ AnyNext
  BY <1>3 DEF Dispatch, AnyStep, AnyNext
<1>5. \A g \in Handlers \ {h} : call'[g] = call[g]
  BY <1>1, <1>4, OtherReplies
<1>6. clock' = clock
  BY DEF Dispatch, Call, OverBudget
<1>7. b \in Agent
  BY <1>1 DEF Agent
<1>8. /\ b.pc = a.pc /\ b.after = a.after /\ b.refund = a.refund /\ b.queue = a.queue
      /\ b.poll = a.poll /\ b.then = a.then /\ b.kind = a.kind /\ b.standing = a.standing
      /\ b.attempt = a.attempt /\ b.version = a.version /\ b.cleared = FALSE
  BY <1>1 DEF Agent
<1>9. agent'[h] = b
  BY <1>1, <1>2 DEF Become
<1> HIDE DEF b
<1>10. Fit(b, refunds)
  BY <1>1, <1>7, <1>8 DEF Fit, Placed
<1>11. RequestOf(h)' = req
  BY <1>8, <1>9, RequestKept
<1>12. call'[h].req = req
  <2>1. ASSUME OverBudget(h, req) PROVE call'[h].req = req
    <3>1. call'[h] = [Idle EXCEPT !.pc = "replied", !.req = req, !.reply = ErrorReply("budget_exceeded", 0)]
      BY <1>1, <2>1 DEF OverBudget
    <3> QED BY <3>1, IdleType DEF CallState
  <2>2. ASSUME Call(h, req) PROVE call'[h].req = req
    <3> DEFINE started == [Idle EXCEPT !.req = req, !.n = counts[req.tool] + 1]
    <3>1. \/ \E f \in Faults : call'[h] = [started EXCEPT !.pc = "replied",
                                              !.reply = ErrorReply(f.action, f.retry)]
          \/ \E pc \in {"barrier", "called"} : call'[h] = [started EXCEPT !.pc = pc]
      BY <1>1, <2>2 DEF Call, FaultsAt
    <3> QED BY <3>1, IdleType DEF CallState
  <2> HIDE DEF req
  <2> QED BY <2>1, <2>2 DEF Dispatch, req
<1>13. Asks(h)'
  BY <1>2, <1>8, <1>9, <1>11, <1>12 DEF Asks
<1>14. agent' \in [Handlers -> Agent] /\ Identities /\ \A g \in Handlers : Fit(agent'[g], refunds') /\ Asks(g)'
  BY <1>2, <1>4, <1>5, <1>8, <1>10, <1>13, AgentMoves
<1> QED BY <1>2, <1>4, <1>6, <1>14 DEF Trial, Kept

\* The service works on the request it was given.
LEMMA ServiceKept ==
  ASSUME Trial, NEW h \in Handlers, ServiceStep(h)
  PROVE  Kept
<1>1. /\ Consistent /\ TypeOK /\ Answers(call[h], refunds) /\ call[h] \in CallState
      /\ agent \in [Handlers -> Agent] /\ UNCHANGED <<agent, stop, past>>
      /\ call \in [Handlers -> CallState]
  BY DEF Trial, Consistent, TypeOK, ServiceStep, run
<1>2. AnyStep(h) /\ AnyNext
  BY DEF ServiceStep, AnyStep, AnyNext
<1>3. \A g \in Handlers \ {h} : call'[g] = call[g]
  BY <1>1, <1>2, OtherReplies
<1>4. call[h].pc # "idle" /\ call'[h].req = call[h].req
  <2>1. CASE PassBarrier(h) \/ BreakBarrier(h)
    BY <1>1, <2>1 DEF PassBarrier, BreakBarrier, Refuse, Finish, CallState
  <2>2. CASE Serves(h)
    BY <1>1, <2>2 DEF Serves, CallState
  <2>3. CASE Delivers(h)
    BY <1>1, <2>3 DEF Delivers, CallState
  <2> QED BY <1>1, <2>1, <2>2, <2>3, ServeServes, ResponseDelivers DEF ServiceStep
<1>5. clock' = clock
  BY <1>2 DEF ServiceStep, PassBarrier, BreakBarrier, Respond, StaleRead, Serve, RateLimited,
      AnnounceRetry, CommitRefund, ReuseRefund, RefuseRefund, Read, GetTicket, AppendNote,
      UpdateTicket, WriteTicket, Escalate, ReceiveEvents, AckEvent
<1>6. \A g \in Handlers : Fit(agent'[g], refunds')
  BY <1>1, <1>2, FitStays DEF Trial
<1>7. ASSUME NEW g \in Handlers PROVE Asks(g)'
  <2>1. agent'[g] = agent[g] /\ Asks(g)
    BY <1>1 DEF Trial
  <2>2. RequestOf(g)' = RequestOf(g)
    BY <2>1, RequestKept
  <2>3. CASE g = h
    BY <1>4, <2>1, <2>2, <2>3 DEF Asks
  <2>4. CASE g # h
    BY <1>3, <2>1, <2>2, <2>4 DEF Asks
  <2> QED BY <2>3, <2>4
<1> QED BY <1>1, <1>2, <1>5, <1>6, <1>7 DEF Trial, Kept, Identities

\* A handler's sleep moves the clock, and the ticket's history with it.
LEMMA WakeKept ==
  ASSUME Trial, NEW h \in Handlers, Wake(h)
  PROVE  Kept
<1> DEFINE a == agent[h]
           b == [a EXCEPT !.pc = "woken"]
           slept == [i \in 1..a.wait |-> ticket.status]
<1>1. /\ a \in Agent /\ Fit(a, refunds) /\ Asks(h) /\ TypeOK /\ agent \in [Handlers -> Agent]
      /\ a.wait \in Nat /\ a.pc = "dozing" /\ Become(h, b) /\ stop' = stop /\ call' = call
  BY DEF Trial, Consistent, Wake, Agent
<1>2. AnyNext
  BY <1>1 DEF Wake, AnyNext, AnyStep, Rest
<1>3. b \in Agent
  BY <1>1 DEF Agent, AgentPCs
<1>4. /\ b.pc = "woken" /\ b.after = a.after /\ b.refund = a.refund /\ b.queue = a.queue
      /\ b.poll = a.poll /\ b.then = a.then /\ b.kind = a.kind /\ b.standing = a.standing
      /\ b.cleared = a.cleared
  BY <1>1 DEF Agent
<1>5. ~b.cleared /\ call[h].pc = "idle"
  BY <1>1, <1>4 DEF Asks, ToolCalls, TicketCalls, RefundCalls, Screening
<1>6. agent'[h] = b
  BY <1>1 DEF Become
<1> HIDE DEF b
<1>7. Fit(b, refunds)
  BY <1>1, <1>3, <1>4 DEF Fit, Placed, Resting, Gone
<1>8. Asks(h)'
  BY <1>1, <1>5, <1>6 DEF Asks
<1>9. agent' \in [Handlers -> Agent] /\ Identities /\ \A g \in Handlers : Fit(agent'[g], refunds') /\ Asks(g)'
  BY <1>1, <1>2, <1>4, <1>7, <1>8, AgentMoves
<1>10. past' \in Seq(TicketStatuses) /\ Len(past') = clock'
  <2>1. past \in Seq(TicketStatuses) /\ Len(past) = clock /\ clock' = clock + a.wait /\ past' = past \o slept
    BY DEF Trial, Wake, Sleep
  <2>2. slept \in Seq(TicketStatuses) /\ Len(slept) = a.wait
    <3>1. ticket.status \in TicketStatuses
      BY <1>1 DEF TypeOK, Ticket
    <3>2. \A s \in TicketStatuses, n \in Nat :
            [i \in 1..n |-> s] \in Seq(TicketStatuses) /\ Len([i \in 1..n |-> s]) = n
      OBVIOUS
    <3> QED BY <1>1, <3>1, <3>2
  <2> HIDE DEF slept
  <2>3. past \o slept \in Seq(TicketStatuses) /\ Len(past \o slept) = Len(past) + Len(slept)
    BY <2>1, <2>2
  <2> QED BY <2>1, <2>2, <2>3
<1> QED BY <1>1, <1>2, <1>9, <1>10 DEF Trial, Kept

-----------------------------------------------------------------------------
(* The invariant of every trial. *)

LEMMA StartingFit ==
  ASSUME NEW kind \in Agents, NEW standing \in Standings, NEW rows \in Seq(Refund)
  PROVE  LET a == AtOnce(Starting(kind, standing))
         IN  /\ Fit(a, rows) /\ a.cleared = FALSE
             /\ a.kind = kind /\ a.standing = standing
<1> DEFINE a == Starting(kind, standing)
           b == FalseSuccess(a)
<1>1. /\ kind \in Mutants \cup {"corrected"} /\ 0 \in 0..MaxAttempts /\ 0 \in 0..MaxAttempts - 1
      /\ 0 \in 0..Len(rows)
  BY ValidTrial
<1>2. FirstCall(kind, standing) \in {"existing", "create", "escalate", "search", "customer"}
  BY DEF FirstCall
<1>3. FirstCall(kind, standing) \in AgentPCs /\ "return" \in AgentPCs
  BY <1>2 DEF AgentPCs, ToolCalls, RefundCalls, Screening
<1>4. a \in Agent
  BY <1>1, <1>3 DEF Starting, Agent, RefundStatuses, TicketStatuses
<1>5. /\ a.pc = FirstCall(kind, standing) /\ a.after = "return" /\ a.then = "create" /\ a.refund = 0
      /\ a.kind = kind /\ a.standing = standing /\ a.cleared = FALSE
  BY DEF Starting
<1> HIDE DEF a
<1>6. b \in Agent
  BY <1>3, <1>4, ZenonT(30) DEF FalseSuccess, Leaving, Agent
<1>7. /\ b.pc = "return" /\ b.after = "return" /\ b.refund = 0 /\ b.kind = kind
      /\ b.standing = standing /\ b.cleared = FALSE
  BY <1>4, <1>5 DEF FalseSuccess, Leaving, Agent
<1> HIDE DEF b
<1>8. CASE kind = "success_without_evidence"
  <2>1. AtOnce(a) = b
    BY <1>5, <1>8 DEF AtOnce, b
  <2>2. Fit(b, rows)
    BY <1>1, <1>6, <1>7 DEF Fit, Placed, Resting, Gone
  <2> QED BY <1>7, <2>1, <2>2 DEF a
<1>9. CASE kind # "success_without_evidence"
  <2>1. AtOnce(a) = a
    BY <1>5, <1>9 DEF AtOnce
  <2>2. Fit(a, rows)
    BY <1>1, <1>2, <1>4, <1>5, <1>9 DEF Fit, Placed, Resting, Gone
  <2> QED BY <1>5, <2>1, <2>2 DEF a
<1> QED BY <1>8, <1>9

LEMMA InitTrial == RunInit => Trial
<1> SUFFICES ASSUME RunInit PROVE Trial
  OBVIOUS
<1>1. Init /\ stop = "none" /\ past = << >>
  BY DEF RunInit
<1>2. Consistent /\ call = [h \in Handlers |-> Idle] /\ clock = 0 /\ refunds \in Seq(Refund)
  BY <1>1, InitConsistent, ValidScenario DEF Init
<1>3. PICK kind \in Agents, standing \in [Handlers -> Standings] :
        /\ \A h \in Handlers : standing[h] \in Task[h].standings
        /\ agent = [h \in Handlers |-> AtOnce(Starting(kind, standing[h]))]
  BY DEF RunInit
<1>4. \A h \in Handlers : Fit(agent[h], refunds) /\ agent[h] \in Agent /\ agent[h].cleared = FALSE
  BY <1>2, <1>3, StartingFit, ZenonT(30) DEF Fit
<1>5. agent \in [Handlers -> Agent]
  BY <1>3, <1>4
<1>6. \A h \in Handlers : Asks(h) /\ Answers(call[h], refunds)
  <2>1. Idle.pc = "idle" /\ Idle.reply.refund = 0 /\ Idle.reply.found = {}
    BY DEF Idle, OkReply
  <2> QED BY <1>2, <1>4, <2>1 DEF Asks, Answers
<1>7. past \in Seq(TicketStatuses) /\ Len(past) = clock
  BY <1>1, <1>2
<1> QED BY <1>1, <1>2, <1>4, <1>5, <1>6, <1>7 DEF Trial

LEMMA NextKept == Trial /\ [RunNext]_all => Kept
<1> SUFFICES ASSUME Trial, [RunNext]_all PROVE Kept
  OBVIOUS
<1>1. CASE UNCHANGED <<vars, agent>> /\ stop' \in {stop, "cancelled", "expired"} /\ past' = past
  <2>1. \A h \in Handlers : RequestOf(h)' = RequestOf(h)
    BY <1>1, RequestKept
  <2> QED BY <1>1, <2>1 DEF Trial, Kept, Identities, Asks
<1>2. ASSUME NEW h \in Handlers, Handle(h) PROVE Kept
  BY <1>2, HearingKept, OwnKept, DispatchKept, ServiceKept, WakeKept DEF Handle, Hearing, OwnStep
<1> QED BY <1>1, <1>2 DEF RunNext, Interrupt, Done, all, run

LEMMA KeptTrial == Trial /\ Kept => Trial'
<1> SUFFICES ASSUME Trial, Kept PROVE Trial'
  OBVIOUS
<1>1. Consistent'
  BY NextConsistent DEF Trial, Kept
<1>2. \A g \in Handlers : Answers(call'[g], refunds')
  BY NextAnswersKept DEF Trial, Kept
<1> QED BY <1>1, <1>2 DEF Trial, Kept

\* Every trial stays within its invariant: a call in progress is the one its
\* agent waits for, a reply names refunds that exist, and the local variables of
\* an agent fit its place in the code.
THEOREM TrialAlways == RunSpec => []Trial
<1>1. Trial /\ [RunNext]_all => Trial'
  BY NextKept, KeptTrial
<1> QED BY <1>1, InitTrial, PTL DEF RunSpec

\* In every trial, whatever its plan and the agent it runs, each agent's local
\* variables keep their types: the attempts, polls and tries stay within
\* policy.max_attempts, and an agent knows only of refunds that exist.
THEOREM RunTypes == RunSpec => []RunTypeOK
<1>1. Trial => RunTypeOK
  <2> SUFFICES ASSUME Trial PROVE RunTypeOK
    OBVIOUS
  <2>1. MaxAttempts \in Nat
    BY ValidTrial
  <2>2. ASSUME NEW h \in Handlers
        PROVE  /\ agent[h].pc \in AgentPCs /\ agent[h].outcome \in
                    {"running", "completed", "timed_out", "cancelled", "errored"}
               /\ agent[h].attempt \in 0..MaxAttempts - 1 /\ agent[h].tries \in 0..MaxAttempts - 1
               /\ agent[h].poll \in 0..MaxAttempts /\ agent[h].refund \in 0..Len(refunds)
               /\ agent[h].claim \in {"none", "refunded", "escalated"}
    BY <2>1 DEF Trial, Fit, Agent
  <2>3. call \in [Handlers -> CallState]
    BY DEF Trial, Consistent, TypeOK
  <2> QED BY <2>2, <2>3 DEF Trial, RunTypeOK
<1> QED BY <1>1, TrialAlways, PTL

-----------------------------------------------------------------------------
\* What the services promise any agent (AnyAgent.tla).
Promises ==
  /\ TypeOK /\ RegistryConsistent /\ OneRefundPerKey
  /\ BalanceRespected /\ AnswersOwnRefund
  /\ WritesOnce /\ NoticesTruthful

\* The reference agent, its mutants and the plan that runs them use the
\* services as AnyAgent does, so a trial keeps all they promise: it refunds no
\* more than an order's amount, answers each payment with its own refund, pays a
\* key once, writes the ticket once per operation and never notifies falsely.
THEOREM TrialKeepsPromises == RunSpec => []Promises
<1> DEFINE Inv == Trial /\ BalanceRespected /\ AnswersOwnRefund /\ WritesRecorded /\ NoticesTruthful
<1>1. RunInit => Inv
  <2> SUFFICES ASSUME RunInit PROVE Inv
    OBVIOUS
  <2>1. Trial /\ Init
    BY InitTrial DEF RunInit
  <2>2. BalanceRespected /\ WritesRecorded
    BY <2>1, InitBalance, InitWrites
  <2>3. AnswersOwnRefund
    BY <2>1 DEF AnswersOwnRefund, Init, Idle
  <2>4. NoticesTruthful
    BY <2>1 DEF NoticesTruthful, Init
  <2> QED BY <2>1, <2>2, <2>3, <2>4
<1>2. Inv /\ [RunNext]_all => Inv'
  <2> SUFFICES ASSUME Inv, [RunNext]_all PROVE Inv'
    OBVIOUS
  <2>1. Kept /\ Trial'
    BY NextKept, KeptTrial
  <2>2. Consistent /\ TypeOK /\ [AnyNext]_vars
    BY <2>1 DEF Kept, Trial, Consistent
  <2> QED BY <2>1, <2>2, NextBalance, NextAnswers, NextWrites, NextNotices
<1>3. Inv => Promises
  BY DEF Promises, Trial, Consistent, WritesRecorded, CountsWrites, WritesOnce
<1> QED BY <1>1, <1>2, <1>3, PTL DEF RunSpec

\* Every trial is a behavior of the payment ledger: whatever the agent retries,
\* polls or hides in its claim, a key is paid at most once and settles once.
THEOREM TrialIsLedger == RunSpec => ImplementsLedger
<1>1. RunInit => Ledger!Init
  BY InitLedger DEF RunInit
<1>2. Trial => Consistent
  BY DEF Trial
<1>3. RunSpec => []LedgerShowsRows
  BY <1>2, RowsShown, TrialAlways, PTL
<1>4. Trial /\ LedgerShowsRows /\ LedgerShowsRows' /\ [RunNext]_all => [Ledger!Next]_PaidBy
  <2>1. Trial /\ [RunNext]_all => [AnyNext]_vars
    BY NextKept DEF Kept
  <2> QED BY <1>2, <2>1, NextLedger
<1> QED BY <1>1, <1>3, <1>4, TrialAlways, PTL DEF RunSpec, ImplementsLedger, Ledger!Spec
-----------------------------------------------------------------------------
(***************************************************************************)
(* The customer's edit.  The system reopens the ticket during its second    *)
(* read at the earliest.  The reference agent writes only at a version it   *)
(* read after that (Current): from then on either no edit can come, or it   *)
(* has come and the write conflicts.                                       *)
(***************************************************************************)
\* e: the ticket was edited; t: the ticket; n: the number of its reads.
MayEdit(e, n) == EditAfterTicketRead /\ ~e /\ n <= 2

Current(v, e, t, n) == v \in 1..t.version /\ ~MayEdit(e, n) /\ (e => v < t.version)

\* Nobody writes the ticket before its last possible edit.
TicketHeeds(e, t, n) ==
  /\ t.version >= 1
  /\ e \/ MayEdit(e, n) => t.notes = {} /\ t.updates = {}
  /\ t.updates # {} => t.status = "resolved"
  /\ e => t.status = "open"

\* A call that writes does so at a current version, and so does the agent that
\* hears of its read: the first read of _finish is not the ticket's first.
Has(c) ==
  c.reply.code = "ok" /\ (c.pc = "committed" \/ (c.pc = "replied" /\ c.reply.shape # "empty"))

CallHeeds(c, e, t, n) ==
  /\ c.pc # "idle" => c.n >= 1 \/ (c.pc = "replied" /\ c.reply.code = "budget_exceeded")
  /\ c.pc # "idle" /\ c.req.tool = "get_ticket" => c.n <= n
  /\ c.req.tool \in {"append_note", "update_ticket"} => Current(c.req.expected, e, t, n)
  /\ c.req.tool = "update_ticket" => c.req.status = "resolved"
  /\ Has(c) /\ c.req.tool = "get_ticket" /\ c.n >= 2 /\ ~c.reply.edited => Current(c.reply.version, e, t, n)
  /\ Has(c) /\ c.req.tool = "append_note" => Current(c.reply.version, e, t, n)
  /\ Has(c) /\ c.req.tool = "update_ticket" => t.updates # {}

\* The agent's screening, which reads the ticket once, is over.
Begun(a) == a.pc \notin Screening \cup {"search", "escalate"} \cup Gone \/ a.after # "return"

AgentHeeds(a, e, t, n) ==
  /\ a.pc \in {"t_note", "t_update"} => Current(a.version, e, t, n)
  /\ Begun(a) => n >= 1

\* A read of _finish is the ticket's second at least.
Rereads(a, c) ==
  a.pc = "t_ticket" /\ c.pc # "idle" => c.n >= 2 \/ (c.pc = "replied" /\ c.reply.code = "budget_exceeded")

Reads == counts["get_ticket"]

Heeded ==
  /\ TicketHeeds(edited, ticket, Reads)
  /\ \A h \in Handlers : /\ AgentHeeds(agent[h], edited, ticket, Reads)
                         /\ CallHeeds(call[h], edited, ticket, Reads)
                         /\ Rereads(agent[h], call[h])

\* The ticket is read and written, never rolled back.
LEMMA CountsGrow ==
  ASSUME TypeOK, [AnyNext]_vars
  PROVE  Reads \in Nat /\ Reads' \in Nat /\ Reads <= Reads'
<1>1. counts \in [Tools -> Nat] /\ "get_ticket" \in Tools
  BY DEF TypeOK, Tools
<1>2. CASE UNCHANGED counts
  BY <1>1, <1>2 DEF Reads
<1>3. ASSUME NEW h \in Handlers, NEW req \in Request, Call(h, req)
      PROVE  Reads \in Nat /\ Reads' \in Nat /\ Reads <= Reads'
  <2> DEFINE n == counts[req.tool] + 1
  <2>1. counts' = [counts EXCEPT ![req.tool] = n]
    BY <1>3, Zenon DEF Call
  <2> QED BY <1>1, <2>1 DEF Reads
<1>4. ASSUME NEW h \in Handlers, AnyStep(h)
      PROVE  UNCHANGED counts \/ \E req \in Request : Call(h, req)
  <2>1. CASE \E req \in Request : Call(h, req) \/ OverBudget(h, req)
    BY <2>1 DEF OverBudget
  <2>2. CASE PassBarrier(h) \/ BreakBarrier(h) \/ Respond(h) \/ StaleRead(h) \/ Collect(h)
    BY <2>2 DEF PassBarrier, BreakBarrier, Respond, StaleRead, Collect
  <2>3. CASE Serve(h)
    BY <2>3 DEF Serve, RateLimited, AnnounceRetry, CommitRefund, ReuseRefund, RefuseRefund, Read,
       GetTicket, AppendNote, UpdateTicket, WriteTicket, Escalate, ReceiveEvents, AckEvent
  <2>4. CASE \E s \in Nat : Rest(s)
    BY <2>4 DEF Rest
  <2> QED BY <1>4, <2>1, <2>2, <2>3, <2>4 DEF AnyStep
<1> QED BY <1>2, <1>3, <1>4 DEF AnyNext

\* What a step may do to the ticket: nothing, the system's edit, or one write of
\* the calling handler, at the version it expects.
AfterEdit(t, u) ==
  u.version = t.version + 1 /\ u.status = "open" /\ u.notes = t.notes /\ u.updates = t.updates
AfterNote(t, u) == u.version = t.version + 1 /\ u.status = t.status /\ u.updates = t.updates
AfterUpdate(t, u, s) == u.version = t.version + 1 /\ u.status = s /\ u.updates # {}

Edits ==
  EditAfterTicketRead /\ Reads = 2 /\ ~edited /\ edited' /\ AfterEdit(ticket, ticket')

Notes(h) ==
  /\ call[h].req.tool = "append_note" /\ call[h].req.expected \in {0, ticket.version}
  /\ edited' = edited /\ AfterNote(ticket, ticket')

Resolves(h) ==
  /\ call[h].req.tool = "update_ticket" /\ call[h].req.expected \in {0, ticket.version}
  /\ edited' = edited /\ AfterUpdate(ticket, ticket', call[h].req.status)

Reopened(t)          == [t EXCEPT !.version = @ + 1, !.status = "open"]
WithNote(t, note)    == [t EXCEPT !.version = @ + 1, !.notes = @ \cup {note}]
WithUpdate(t, s, up) == [t EXCEPT !.version = @ + 1, !.status = s, !.updates = @ \cup {up}]

LEMMA TicketFields ==
  ASSUME NEW t \in Ticket
  PROVE  /\ t.version \in Nat
         /\ AfterEdit(t, Reopened(t))
         /\ \A note : AfterNote(t, WithNote(t, note))
         /\ \A s, up : AfterUpdate(t, WithUpdate(t, s, up), s)
<1>1. AfterEdit(t, Reopened(t))
  BY DEF Ticket, AfterEdit, Reopened
<1>2. \A note : AfterNote(t, WithNote(t, note))
  BY DEF Ticket, AfterNote, WithNote
<1>3. \A s, up : AfterUpdate(t, WithUpdate(t, s, up), s)
  BY DEF Ticket, AfterUpdate, WithUpdate
<1>4. t.version \in Nat
  BY DEF Ticket
<1> QED BY <1>1, <1>2, <1>3, <1>4

LEMMA TicketSteps ==
  ASSUME TypeOK, NEW h \in Handlers, AnyStep(h)
  PROVE  UNCHANGED <<ticket, edited>> \/ Edits \/ Notes(h) \/ Resolves(h)
<1>0. ticket \in Ticket
  BY DEF TypeOK
<1>1. CASE GetTicket(h)
  <2>1. CASE EditAfterTicketRead /\ counts["get_ticket"] = 2 /\ ~edited
    <3>1. ticket' = Reopened(ticket) /\ edited'
      BY <1>1, <2>1 DEF GetTicket, Reopened
    <3> QED BY <1>0, <2>1, <3>1, TicketFields DEF Edits, Reads
  <2>2. CASE ~(EditAfterTicketRead /\ counts["get_ticket"] = 2 /\ ~edited)
    <3>1. ticket' = ticket /\ edited' = (edited \/ FALSE) /\ edited \in BOOLEAN
      BY <1>1, <2>2 DEF GetTicket, TypeOK
    <3> QED BY <3>1
  <2> QED BY <2>1, <2>2
<1>2. CASE AppendNote(h)
  <2> DEFINE note == [op |-> call[h].req.op, about |-> call[h].req.about]
             new == WithNote(ticket, note)
  <2>1. edited' = edited /\ call[h].req.tool = "append_note"
    BY <1>2 DEF AppendNote, WriteTicket, Serving
  <2>2. ticket' = ticket \/ (ticket' = new /\ ~Stale(call[h].req))
    BY <1>2 DEF AppendNote, WriteTicket, WithNote
  <2>3. AfterNote(ticket, new)
    BY <1>0, TicketFields
  <2> HIDE DEF new
  <2> QED BY <2>1, <2>2, <2>3 DEF Notes, Stale
<1>3. CASE UpdateTicket(h)
  <2> DEFINE update == [op |-> call[h].req.op, status |-> call[h].req.status]
             new == WithUpdate(ticket, call[h].req.status, update)
  <2>1. edited' = edited /\ call[h].req.tool = "update_ticket"
    BY <1>3 DEF UpdateTicket, WriteTicket, Serving
  <2>2. ticket' = ticket \/ (ticket' = new /\ ~Stale(call[h].req))
    BY <1>3 DEF UpdateTicket, WriteTicket, WithUpdate
  <2>3. AfterUpdate(ticket, new, call[h].req.status)
    BY <1>0, TicketFields
  <2> HIDE DEF new
  <2> QED BY <2>1, <2>2, <2>3 DEF Resolves, Stale
<1> QED BY <1>1, <1>2, <1>3, OtherDeskSteps

\* A version that was current is current after any step, and no edit comes
\* where none could come.
LEMMA CurrentStays ==
  ASSUME TypeOK, [AnyNext]_vars
  PROVE  /\ MayEdit(edited', Reads') => MayEdit(edited, Reads)
         /\ ticket.updates # {} => ticket'.updates # {}
         /\ \A v : Current(v, edited, ticket, Reads) => Current(v, edited', ticket', Reads')
<1>1. Reads \in Nat /\ Reads' \in Nat /\ Reads <= Reads'
  BY CountsGrow
<1>2. CASE UNCHANGED <<ticket, edited>>
  BY <1>1, <1>2 DEF MayEdit, Current
<1>3. ASSUME NEW h \in Handlers, Edits \/ Notes(h) \/ Resolves(h)
      PROVE  /\ MayEdit(edited', Reads') => MayEdit(edited, Reads)
             /\ ticket.updates # {} => ticket'.updates # {}
             /\ \A v : Current(v, edited, ticket, Reads) => Current(v, edited', ticket', Reads')
  <2>1. ticket'.version = ticket.version + 1 /\ ticket.version \in Nat
    BY <1>3 DEF Edits, Notes, Resolves, AfterEdit, AfterNote, AfterUpdate, TypeOK, Ticket
  <2>2. edited' = edited \/ edited'
    BY <1>3 DEF Edits, Notes, Resolves
  <2>3. MayEdit(edited', Reads') => MayEdit(edited, Reads)
    BY <1>1, <2>1, <2>2 DEF MayEdit
  <2>4. ASSUME NEW v, Current(v, edited, ticket, Reads) PROVE Current(v, edited', ticket', Reads')
    <3>1. v \in 1..ticket.version /\ ~MayEdit(edited, Reads)
      BY <2>4 DEF Current
    <3>2. v \in 1..ticket'.version /\ v < ticket'.version
      BY <2>1, <3>1
    <3> QED BY <2>3, <3>1, <3>2 DEF Current
  <2>5. ticket.updates # {} => ticket'.updates # {}
    BY <1>3 DEF Edits, Notes, Resolves, AfterEdit, AfterNote, AfterUpdate
  <2> QED BY <2>3, <2>4, <2>5
<1> QED BY <1>2, <1>3, TicketSteps DEF AnyNext

LEMMA HeedingStays ==
  ASSUME TypeOK, [AnyNext]_vars
  PROVE  /\ \A a : AgentHeeds(a, edited, ticket, Reads) => AgentHeeds(a, edited', ticket', Reads')
         /\ \A c \in CallState :
              CallHeeds(c, edited, ticket, Reads) => CallHeeds(c, edited', ticket', Reads')
<1>1. Reads \in Nat /\ Reads' \in Nat /\ Reads <= Reads'
  BY CountsGrow
<1>2. /\ \A v : Current(v, edited, ticket, Reads) => Current(v, edited', ticket', Reads')
      /\ ticket.updates # {} => ticket'.updates # {}
  BY CurrentStays
<1>3. \A c \in CallState : c.n \in Nat
  BY DEF CallState
<1> QED BY <1>1, <1>2, <1>3 DEF AgentHeeds, CallHeeds

\* The ticket heeds the edit after any step of a service whose calls do.
LEMMA TicketHeedsStep ==
  ASSUME TypeOK, NEW h \in Handlers, AnyStep(h),
         TicketHeeds(edited, ticket, Reads), CallHeeds(call[h], edited, ticket, Reads)
  PROVE  TicketHeeds(edited', ticket', Reads')
<1>1. ticket.version \in Nat
  BY DEF TypeOK, Ticket
<1>2. MayEdit(edited', Reads') => MayEdit(edited, Reads)
  BY CurrentStays DEF AnyNext
<1>3. CASE UNCHANGED <<ticket, edited>>
  BY <1>2, <1>3 DEF TicketHeeds
<1>4. CASE Edits
  <2>1. MayEdit(edited, Reads)
    BY <1>4 DEF Edits, MayEdit
  <2> QED BY <1>1, <1>4, <2>1 DEF TicketHeeds, Edits, AfterEdit
<1>5. CASE Notes(h) \/ Resolves(h)
  <2>1. Current(call[h].req.expected, edited, ticket, Reads) /\ call[h].req.expected \in {0, ticket.version}
    BY <1>5 DEF CallHeeds, Notes, Resolves
  <2>2. ~edited /\ ~MayEdit(edited, Reads)
    BY <1>1, <2>1 DEF Current
  <2>3. edited' = edited /\ ticket'.version = ticket.version + 1
    BY <1>5 DEF Notes, Resolves, AfterNote, AfterUpdate
  <2>4. ticket'.updates # {} => ticket'.status = "resolved"
    BY <1>5 DEF CallHeeds, Notes, Resolves, TicketHeeds, AfterNote, AfterUpdate
  <2> QED BY <1>1, <1>2, <2>2, <2>3, <2>4 DEF TicketHeeds
<1> QED BY <1>3, <1>4, <1>5, TicketSteps

LEMMA TicketReplies ==
  ASSUME NEW t, NEW e
  PROVE  LET r == TicketReply(t, e)
         IN  r.code = "ok" /\ r.version = t.version /\ r.edited = e
BY DEF TicketReply, OkReply

LEMMA GetTicketHeeds ==
  ASSUME Consistent, NEW h \in Handlers, GetTicket(h),
         TicketHeeds(edited, ticket, Reads), CallHeeds(call[h], edited, ticket, Reads)
  PROVE  CallHeeds(call'[h], edited', ticket', Reads')
<1> DEFINE c == call[h]
           d == call'[h]
<1> SUFFICES CallHeeds(d, edited', ticket', Reads')
  OBVIOUS
<1>1. /\ TypeOK /\ c \in CallState /\ ticket \in Ticket /\ edited \in BOOLEAN
      /\ c.pc = "called" /\ c.req.tool = "get_ticket" /\ Commit(h, TicketReply(ticket, edited))
      /\ Reads' = Reads /\ Reads \in Nat
  BY CallParts DEF Consistent, TypeOK, GetTicket, Serving, Reads, Tools
<1>2. TicketReply(ticket, edited) \in Reply
  BY <1>1, ReplyTypes
<1>3. d = [c EXCEPT !.pc = "committed", !.reply = TicketReply(ticket, edited)]
  BY <1>1, <1>2, Commits
<1>4. /\ d.pc = "committed" /\ d.req = c.req /\ d.n = c.n
      /\ d.reply.version = ticket.version /\ d.reply.edited = edited
  BY <1>1, <1>3, TicketReplies DEF CallState
<1>5. d.n >= 1 /\ d.n <= Reads /\ d.n \in Nat
  BY <1>1, <1>4 DEF CallHeeds, CallState
<1>6. ticket.version \in Nat /\ ticket.version >= 1
  BY <1>1, TicketFields DEF TicketHeeds
<1>7. d.n >= 2 /\ ~edited => Current(ticket.version, edited', ticket', Reads')
  <2> SUFFICES ASSUME d.n >= 2, ~edited PROVE Current(ticket.version, edited', ticket', Reads')
    OBVIOUS
  <2>1. CASE EditAfterTicketRead /\ Reads = 2
    <3>1. ticket' = Reopened(ticket) /\ edited'
      BY <2>1 DEF GetTicket, Reopened, Reads
    <3>2. ticket'.version = ticket.version + 1
      BY <1>1, <3>1, TicketFields DEF AfterEdit
    <3> QED BY <1>6, <3>1, <3>2 DEF Current, MayEdit
  <2>2. CASE ~(EditAfterTicketRead /\ Reads = 2)
    <3>1. ticket' = ticket /\ ~edited'
      BY <2>2 DEF GetTicket, Reads
    <3>2. ~MayEdit(edited', Reads')
      BY <1>1, <1>5, <2>2 DEF MayEdit
    <3> QED BY <1>6, <3>1, <3>2 DEF Current
  <2> QED BY <2>1, <2>2
<1> HIDE DEF c, d
<1> QED BY <1>1, <1>4, <1>5, <1>7 DEF CallHeeds

LEMMA WritesHeed ==
  ASSUME Consistent, NEW h \in Handlers, AppendNote(h) \/ UpdateTicket(h),
         TicketHeeds(edited, ticket, Reads), CallHeeds(call[h], edited, ticket, Reads),
         CallHeeds(call[h], edited', ticket', Reads')
  PROVE  CallHeeds(call'[h], edited', ticket', Reads')
<1> DEFINE c == call[h]
           d == call'[h]
           note == [op |-> c.req.op, about |-> c.req.about]
           update == [op |-> c.req.op, status |-> c.req.status]
<1> SUFFICES CallHeeds(d, edited', ticket', Reads')
  OBVIOUS
<1>1. /\ TypeOK /\ c \in CallState /\ ticket \in Ticket /\ edited \in BOOLEAN
      /\ c.pc = "called" /\ c.req.tool \in {"append_note", "update_ticket"}
  BY CallParts DEF Consistent, TypeOK, AppendNote, UpdateTicket, Serving
<1>2. c.n >= 1
  BY <1>1 DEF CallHeeds
<1>3. ASSUME NEW code \in Codes \ {"ok"}, Refuse(h, code)
      PROVE  CallHeeds(d, edited', ticket', Reads')
  <2>1. d = [c EXCEPT !.pc = "replied", !.reply = ErrorReply(code, 0)]
    BY <1>1, <1>3, AnswerParts DEF Refuse
  <2>2. d.pc = "replied" /\ d.req = c.req /\ d.n = c.n /\ d.reply.code = code
    BY <1>1, <2>1 DEF CallState, ErrorReply, OkReply
  <2> HIDE DEF c, d
  <2> QED BY <1>1, <1>2, <1>3, <2>2 DEF CallHeeds, Has, c
<1>4. ASSUME Commit(h, TicketReply(ticket', edited)),
             c.req.tool = "append_note" => Current(ticket'.version, edited', ticket', Reads'),
             c.req.tool = "update_ticket" => ticket'.updates # {}
      PROVE  CallHeeds(d, edited', ticket', Reads')
  <2>1. TicketReply(ticket', edited) \in Reply
    <3>1. ticket' \in Ticket
      BY <1>1, TicketWriteTypeOK DEF TypeOK
    <3> QED BY <1>1, <3>1, ReplyTypes
  <2>2. d = [c EXCEPT !.pc = "committed", !.reply = TicketReply(ticket', edited)]
    BY <1>1, <1>4, <2>1, Commits
  <2>3. /\ d.pc = "committed" /\ d.req = c.req /\ d.n = c.n
        /\ d.reply.version = ticket'.version
    BY <1>1, <2>2, TicketReplies DEF CallState
  <2> HIDE DEF c, d
  <2> QED BY <1>1, <1>2, <1>4, <2>3 DEF CallHeeds, Has, c
<1>5. edited' = edited /\ Reads' = Reads /\ ticket.version \in Nat
  BY <1>1 DEF AppendNote, UpdateTicket, WriteTicket, Reads, Ticket
<1>6. CASE AppendNote(h)
  <2>1. c.req.tool = "append_note"
    BY <1>6 DEF AppendNote, Serving
  <2>2. ticket' = WithNote(ticket, note) /\ ~Stale(c.req) => Current(ticket'.version, edited', ticket', Reads')
    <3> SUFFICES ASSUME ticket' = WithNote(ticket, note), ~Stale(c.req)
                 PROVE  Current(ticket'.version, edited', ticket', Reads')
      OBVIOUS
    <3>1. Current(c.req.expected, edited, ticket, Reads) /\ c.req.expected \in {0, ticket.version}
      BY <2>1 DEF CallHeeds, Stale
    <3>2. ~edited /\ ~MayEdit(edited, Reads)
      BY <1>5, <3>1 DEF Current
    <3>3. ticket'.version = ticket.version + 1
      BY <1>1, TicketFields DEF AfterNote
    <3> QED BY <1>5, <3>2, <3>3 DEF Current
  <2>3. ticket' = ticket /\ note \in ticket.notes => Current(ticket'.version, edited', ticket', Reads')
    <3> HIDE DEF note
    <3> QED BY <1>5 DEF TicketHeeds, Current
  <2>4. \/ Commit(h, TicketReply(ticket', edited)) /\ ticket' = WithNote(ticket, note) /\ ~Stale(c.req)
        \/ Commit(h, TicketReply(ticket', edited)) /\ ticket' = ticket /\ note \in ticket.notes
        \/ \E code \in Codes \ {"ok"} : Refuse(h, code)
    BY <1>6 DEF AppendNote, WriteTicket, WithNote, Codes
  <2> HIDE DEF c, d, note
  <2> QED BY <1>3, <1>4, <2>1, <2>2, <2>3, <2>4
<1>7. CASE UpdateTicket(h)
  <2>1. c.req.tool = "update_ticket"
    BY <1>7 DEF UpdateTicket, Serving
  <2>2. ticket' = WithUpdate(ticket, c.req.status, update) => ticket'.updates # {}
    BY <1>1, TicketFields DEF AfterUpdate
  <2>3. ticket' = ticket /\ update \in ticket.updates => ticket'.updates # {}
    OBVIOUS
  <2>4. \/ Commit(h, TicketReply(ticket', edited)) /\ ticket' = WithUpdate(ticket, c.req.status, update)
        \/ Commit(h, TicketReply(ticket', edited)) /\ ticket' = ticket /\ update \in ticket.updates
        \/ \E code \in Codes \ {"ok"} : Refuse(h, code)
    BY <1>7 DEF UpdateTicket, WriteTicket, WithUpdate, Codes
  <2> HIDE DEF c, d, update
  <2> QED BY <1>3, <1>4, <2>1, <2>2, <2>3, <2>4
<1> QED BY <1>6, <1>7

\* The other operations do not concern the ticket.
LEMMA OthersHeed ==
  ASSUME Trial, NEW h \in Handlers, Serves(h),
         call[h].req.tool \notin {"get_ticket", "append_note", "update_ticket"},
         CallHeeds(call[h], edited, ticket, Reads)
  PROVE  CallHeeds(call'[h], edited', ticket', Reads')
<1> DEFINE c == call[h]
           d == call'[h]
<1> SUFFICES CallHeeds(d, edited', ticket', Reads')
  OBVIOUS
<1>1. c \in CallState
  BY CallParts DEF Trial, Consistent
<1>2. c.pc \in {"called", "limited"} /\ d.req = c.req /\ d.n = c.n
  BY <1>1 DEF Serves, CallState
<1> HIDE DEF d
<1> QED BY <1>2 DEF CallHeeds

LEMMA DeliveryHeeds ==
  ASSUME Trial, NEW h \in Handlers, Delivers(h), CallHeeds(call[h], edited, ticket, Reads)
  PROVE  CallHeeds(call'[h], edited', ticket', Reads')
<1> DEFINE c == call[h]
           d == call'[h]
           lost == ErrorReply("transport_timeout", 0)
           empty == [OkReply EXCEPT !.shape = "empty"]
           partial == [c.reply EXCEPT !.shape = "incomplete", !.refund = 0, !.status = "none"]
<1> SUFFICES CallHeeds(d, edited', ticket', Reads')
  OBVIOUS
<1>1. c \in CallState /\ c.reply \in Reply /\ Answers(c, refunds)
  BY CallParts DEF Trial, Consistent
<1>2. c.pc \in {"committed", "hidden"} /\ edited' = edited /\ ticket' = ticket /\ Reads' = Reads
  BY DEF Delivers, Reads
<1>3. d.req = c.req /\ d.n = c.n /\ d.pc \in {"hidden", "replied"}
  BY <1>1 DEF Delivers, CallState
<1>4. lost.code = "transport_timeout" /\ empty.shape = "empty"
      /\ partial.code = c.reply.code /\ partial.edited = c.reply.edited /\ partial.version = c.reply.version
  BY <1>1 DEF ErrorReply, OkReply, Reply
<1> HIDE DEF lost, empty, partial
<1>5. \/ d.pc = "hidden" \/ (d.pc = "replied" /\ d.reply \in {lost, empty})
      \/ c.pc = "committed" /\ d.pc = "replied" /\ d.reply \in {partial, c.reply}
  BY <1>1 DEF Delivers, CallState, lost, empty, partial
<1>6. CASE d.pc = "hidden" \/ (d.pc = "replied" /\ d.reply \in {lost, empty})
  <2>1. ~Has(d)
    BY <1>4, <1>6 DEF Has
  <2> HIDE DEF c, d
  <2> QED BY <1>2, <1>3, <2>1 DEF CallHeeds, c
<1>7. CASE c.pc = "committed" /\ d.pc = "replied" /\ d.reply \in {partial, c.reply}
  <2>1. d.reply.edited = c.reply.edited /\ d.reply.version = c.reply.version /\ d.reply.code = c.reply.code
    BY <1>4, <1>7
  <2>2. Has(d) => Has(c)
    BY <1>7, <2>1 DEF Has
  <2> HIDE DEF c, d
  <2> QED BY <1>2, <1>3, <1>7, <2>1, <2>2 DEF CallHeeds, c
<1> QED BY <1>5, <1>6, <1>7

\* A call keeps its request and its number while the service works on it.
LEMMA CallMoves ==
  ASSUME Trial, NEW h \in Handlers, ServiceStep(h)
  PROVE  /\ call[h].pc \notin {"idle", "replied"}
         /\ call'[h].req = call[h].req /\ call'[h].n = call[h].n
<1>1. /\ Consistent /\ TypeOK /\ Answers(call[h], refunds) /\ call[h] \in CallState
      /\ call \in [Handlers -> CallState]
  BY CallParts DEF Trial, Consistent, TypeOK
<1>2. CASE PassBarrier(h) \/ BreakBarrier(h)
  BY <1>1, <1>2 DEF PassBarrier, BreakBarrier, Refuse, Finish, CallState
<1>3. CASE Serves(h)
  BY <1>1, <1>3 DEF Serves, CallState
<1>4. CASE Delivers(h)
  BY <1>1, <1>4 DEF Delivers, CallState
<1> QED BY <1>1, <1>2, <1>3, <1>4, ServeServes, ResponseDelivers DEF ServiceStep

LEMMA BarrierHeeds ==
  ASSUME Trial, NEW h \in Handlers, PassBarrier(h) \/ BreakBarrier(h), ServiceStep(h),
         CallHeeds(call[h], edited, ticket, Reads)
  PROVE  CallHeeds(call'[h], edited', ticket', Reads')
<1> DEFINE c == call[h]
           d == call'[h]
<1> SUFFICES CallHeeds(d, edited', ticket', Reads')
  OBVIOUS
<1>1. c.pc = "barrier" /\ d.req = c.req /\ d.n = c.n
  BY CallMoves DEF PassBarrier, BreakBarrier
<1>2. c.req.tool = "create_refund"
  BY <1>1 DEF Trial, Answers
<1> HIDE DEF d
<1> QED BY <1>1, <1>2 DEF CallHeeds

LEMMA ServiceHeeds ==
  ASSUME Trial, Heeded, NEW h \in Handlers, ServiceStep(h)
  PROVE  Heeded'
<1>1. /\ Consistent /\ TypeOK /\ Answers(call[h], refunds) /\ UNCHANGED agent
      /\ call \in [Handlers -> CallState]
  BY DEF Trial, Consistent, TypeOK, ServiceStep, run
<1>2. AnyStep(h) /\ [AnyNext]_vars
  BY DEF ServiceStep, AnyStep, AnyNext
<1>3. /\ TicketHeeds(edited, ticket, Reads)
      /\ \A g \in Handlers : /\ AgentHeeds(agent[g], edited, ticket, Reads)
                             /\ CallHeeds(call[g], edited, ticket, Reads)
                             /\ Rereads(agent[g], call[g])
  BY DEF Heeded
<1>4. \A g \in Handlers \ {h} : call'[g] = call[g]
  BY <1>1, <1>2, OtherReplies
<1>5. TicketHeeds(edited', ticket', Reads')
  BY <1>1, <1>2, <1>3, TicketHeedsStep
<1>6. /\ \A g \in Handlers : AgentHeeds(agent'[g], edited', ticket', Reads')
      /\ \A g \in Handlers : CallHeeds(call[g], edited', ticket', Reads')
  BY <1>1, <1>2, <1>3, HeedingStays
<1>7. CallHeeds(call'[h], edited', ticket', Reads')
  <2>1. CASE PassBarrier(h) \/ BreakBarrier(h)
    BY <1>3, <2>1, BarrierHeeds
  <2>2. CASE Serve(h)
    <3>1. CASE GetTicket(h)
      BY <1>1, <1>3, <3>1, GetTicketHeeds
    <3>2. CASE AppendNote(h) \/ UpdateTicket(h)
      BY <1>1, <1>3, <1>6, <3>2, WritesHeed
    <3>3. CASE call[h].req.tool \notin {"get_ticket", "append_note", "update_ticket"}
      BY <1>1, <1>3, <2>2, <3>3, ServeServes, OthersHeed
    <3>4. \/ GetTicket(h) \/ AppendNote(h) \/ UpdateTicket(h)
          \/ call[h].req.tool \notin {"get_ticket", "append_note", "update_ticket"}
      BY <1>1, <2>2 DEF Serve, RateLimited, AnnounceRetry, CommitRefund, ReuseRefund, RefuseRefund,
         Read, Escalate, ReceiveEvents, AckEvent, Serving, LookupTools, Answers
    <3> QED BY <3>1, <3>2, <3>3, <3>4
  <2>3. CASE Respond(h) \/ StaleRead(h)
    BY <1>1, <1>3, <2>3, ResponseDelivers, DeliveryHeeds
  <2> QED BY <2>1, <2>2, <2>3 DEF ServiceStep
<1>8. Rereads(agent'[h], call'[h])
  BY <1>1, <1>3, CallMoves DEF Rereads
<1> QED BY <1>1, <1>3, <1>4, <1>5, <1>6, <1>7, <1>8 DEF Heeded, Reads

\* A dispatched call holds nothing yet; it is numbered, or refused unnumbered.
Numbered(d, req) ==
  \/ d.pc = "replied" /\ d.reply.code = "budget_exceeded" /\ d.n = 0
  \/ /\ d.n = counts[req.tool] + 1
     /\ req.tool = "get_ticket" => Reads' = d.n

LEMMA CallNumbered ==
  ASSUME TypeOK, NEW h \in Handlers, NEW req \in Request, Call(h, req) \/ OverBudget(h, req)
  PROVE  /\ call'[h].req = req /\ ~Has(call'[h]) /\ Numbered(call'[h], req)
         /\ \A g \in Handlers \ {h} : call'[g] = call[g]
<1> DEFINE n == counts[req.tool] + 1
           started == [Idle EXCEPT !.req = req, !.n = n]
           d == call'[h]
<1> SUFFICES /\ d.req = req /\ ~Has(d) /\ Numbered(d, req)
             /\ \A g \in Handlers \ {h} : call'[g] = call[g]
  OBVIOUS
<1>1. call \in [Handlers -> CallState] /\ Idle \in CallState /\ counts \in [Tools -> Nat]
  BY IdleType DEF TypeOK
<1>2. req.tool \in Tools
  BY DEF Request, Tools, LookupTools, RefundTools
<1>3. \A code, retry : ErrorReply(code, retry).code = code
  BY DEF ErrorReply, OkReply
<1>4. CASE OverBudget(h, req)
  <2>1. d = [Idle EXCEPT !.pc = "replied", !.req = req, !.reply = ErrorReply("budget_exceeded", 0)]
        /\ \A g \in Handlers \ {h} : call'[g] = call[g]
    BY <1>1, <1>4 DEF OverBudget
  <2>2. d.pc = "replied" /\ d.req = req /\ d.reply = ErrorReply("budget_exceeded", 0) /\ d.n = 0
    BY <1>1, <2>1 DEF CallState, Idle
  <2>3. d.reply.code = "budget_exceeded"
    BY <1>3, <2>2
  <2> HIDE DEF d
  <2> QED BY <2>1, <2>2, <2>3 DEF Has, Numbered
<1>5. CASE Call(h, req)
  <2>1. counts' = [counts EXCEPT ![req.tool] = n]
    BY <1>5, Zenon DEF Call
  <2>2. req.tool = "get_ticket" => Reads' = n
    BY <1>1, <1>2, <2>1 DEF Reads
  <2>3. \/ \E f \in Faults : f.phase = "before" /\ call' = [call EXCEPT ![h] = [started EXCEPT !.pc = "replied",
                                                   !.reply = ErrorReply(f.action, f.retry)]]
        \/ \E pc \in {"barrier", "called"} : call' = [call EXCEPT ![h] = [started EXCEPT !.pc = pc]]
    BY <1>5 DEF Call, FaultsAt
  <2>4. \A g \in Handlers \ {h} : call'[g] = call[g]
    BY <1>1, <2>3
  <2>5. ASSUME NEW f \in Faults, f.phase = "before",
               call' = [call EXCEPT ![h] = [started EXCEPT !.pc = "replied",
                                                !.reply = ErrorReply(f.action, f.retry)]]
        PROVE  d.req = req /\ ~Has(d) /\ d.n = n
    <3>1. d = [started EXCEPT !.pc = "replied", !.reply = ErrorReply(f.action, f.retry)]
      BY <1>1, <2>5
    <3>2. d.req = req /\ d.reply = ErrorReply(f.action, f.retry) /\ d.n = n
      BY <1>1, <3>1 DEF CallState, Idle
    <3>3. f.action # "ok"
      BY <2>5, ValidScenario DEF Fault, FaultIn, PhaseActions
    <3> HIDE DEF d
    <3> QED BY <1>3, <3>2, <3>3 DEF Has
  <2>6. ASSUME NEW pc \in {"barrier", "called"}, call' = [call EXCEPT ![h] = [started EXCEPT !.pc = pc]]
        PROVE  d.req = req /\ ~Has(d) /\ d.n = n
    <3>1. d = [started EXCEPT !.pc = pc]
      BY <1>1, <2>6
    <3>2. d.pc = pc /\ d.req = req /\ d.n = n
      BY <1>1, <3>1 DEF CallState, Idle
    <3> HIDE DEF d
    <3> QED BY <3>2 DEF Has
  <2>7. d.req = req /\ ~Has(d) /\ d.n = n
    BY <2>3, <2>5, <2>6
  <2> HIDE DEF d
  <2> QED BY <2>2, <2>4, <2>7 DEF Numbered
<1> QED BY <1>4, <1>5

LEMMA DispatchHeeds ==
  ASSUME Trial, Heeded, NEW h \in Handlers, Dispatch(h)
  PROVE  Heeded'
<1> DEFINE a == agent[h]
           b == agent'[h]
           d == call'[h]
           req == RequestOf(h)
<1>1. /\ a \in Agent /\ Fit(a, refunds) /\ Asks(h) /\ TypeOK
      /\ agent \in [Handlers -> Agent] /\ call \in [Handlers -> CallState]
      /\ \A g \in Handlers : call[g] \in CallState
  BY DEF Trial, Consistent, TypeOK
<1>2. a.cleared /\ a.pc \in ToolCalls /\ Become(h, [a EXCEPT !.cleared = FALSE])
  BY <1>1 DEF Dispatch, Asks
<1>3. req \in Request
  BY <1>1, <1>2, AsksRequests
<1>4. [AnyNext]_vars
  BY <1>3 DEF Dispatch, AnyStep, AnyNext
<1>5. d.req = req /\ ~Has(d) /\ Numbered(d, req) /\ \A g \in Handlers \ {h} : call'[g] = call[g]
  BY <1>1, <1>3, CallNumbered DEF Dispatch
<1>6. ticket' = ticket /\ edited' = edited
  BY DEF Dispatch, Call, OverBudget
<1>7. /\ TicketHeeds(edited, ticket, Reads)
      /\ \A g \in Handlers : /\ AgentHeeds(agent[g], edited, ticket, Reads)
                             /\ CallHeeds(call[g], edited, ticket, Reads)
                             /\ Rereads(agent[g], call[g])
  BY DEF Heeded
<1>8. TicketHeeds(edited', ticket', Reads')
  BY <1>1, <1>4, <1>6, <1>7, CurrentStays DEF TicketHeeds
<1>9. \A g \in Handlers : /\ AgentHeeds(agent[g], edited', ticket', Reads')
                          /\ CallHeeds(call[g], edited', ticket', Reads')
  BY <1>1, <1>4, <1>7, HeedingStays
<1>10. /\ b.pc = a.pc /\ b.after = a.after /\ b.version = a.version
       /\ \A g \in Handlers \ {h} : agent'[g] = agent[g]
  <2>1. b = [a EXCEPT !.cleared = FALSE] /\ \A g \in Handlers \ {h} : agent'[g] = agent[g]
    BY <1>1, <1>2 DEF Become
  <2> QED BY <1>1, <2>1 DEF Agent
<1>11. counts \in [Tools -> Nat] /\ Reads \in Nat /\ Reads' \in Nat /\ req.tool \in Tools
  BY <1>1, <1>3, <1>4, CountsGrow DEF TypeOK, Request, Tools, LookupTools, RefundTools
<1>12. /\ req.tool = "get_ticket" => a.pc \in {"ticket", "t_ticket"}
       /\ a.pc = "t_ticket" => req.tool = "get_ticket"
       /\ req.tool \in {"append_note", "update_ticket"} =>
            a.pc \in {"t_note", "t_update"} /\ req.expected = a.version
       /\ req.tool = "update_ticket" => req.status = "resolved"
  <2>1. CASE a.pc \in {"ticket", "t_ticket"}
    <3>1. req = [tool |-> "get_ticket"]
      BY <2>1 DEF RequestOf
    <3> QED BY <2>1, <3>1
  <2>2. CASE a.pc = "t_note"
    <3>1. req = [tool |-> "append_note", op |-> Task[h].request, about |-> a.refund, expected |-> a.version]
      BY <2>2 DEF RequestOf
    <3> QED BY <2>2, <3>1
  <2>3. CASE a.pc = "t_update"
    <3>1. req = [tool |-> "update_ticket", op |-> Task[h].request, status |-> "resolved", expected |-> a.version]
      BY <2>3 DEF RequestOf
    <3> QED BY <2>3, <3>1
  <2>4. CASE a.pc \notin {"ticket", "t_ticket", "t_note", "t_update"}
    <3>1. req.tool \notin {"get_ticket", "append_note", "update_ticket"}
      BY <1>2, <2>4 DEF RequestOf, ToolCalls, TicketCalls, RefundCalls, Screening
    <3> QED BY <2>4, <3>1
  <2> QED BY <2>1, <2>2, <2>3, <2>4
<1> HIDE DEF a, b, d, req
<1>13. AgentHeeds(b, edited', ticket', Reads')
  <2>1. AgentHeeds(a, edited', ticket', Reads')
    BY <1>9 DEF a
  <2> QED BY <1>10, <2>1 DEF AgentHeeds, Begun
<1>14. Rereads(b, d)
  <2> SUFFICES ASSUME a.pc = "t_ticket"
               PROVE  d.n >= 2 \/ (d.pc = "replied" /\ d.reply.code = "budget_exceeded")
    BY <1>10 DEF Rereads
  <2>1. Begun(a)
    BY DEF Begun, Screening, Gone
  <2>2. Reads >= 1
    BY <1>7, <2>1 DEF AgentHeeds, a
  <2>3. req.tool = "get_ticket"
    BY <1>12
  <2> QED BY <1>5, <1>11, <2>2, <2>3 DEF Numbered, Reads
<1>15. CallHeeds(d, edited', ticket', Reads')
  <2>1. req.tool \in {"append_note", "update_ticket"} => Current(req.expected, edited', ticket', Reads')
    BY <1>9, <1>12 DEF AgentHeeds, a
  <2>2. d.pc # "idle" => d.n >= 1 \/ (d.pc = "replied" /\ d.reply.code = "budget_exceeded")
    BY <1>5, <1>11 DEF Numbered
  <2>3. req.tool = "get_ticket" => d.n <= Reads'
    BY <1>5, <1>11 DEF Numbered
  <2> QED BY <1>5, <1>12, <2>1, <2>2, <2>3 DEF CallHeeds
<1>16. ASSUME NEW g \in Handlers
       PROVE  /\ AgentHeeds(agent'[g], edited', ticket', Reads')
              /\ CallHeeds(call'[g], edited', ticket', Reads')
              /\ Rereads(agent'[g], call'[g])
  <2>1. CASE g = h
    BY <1>13, <1>14, <1>15, <2>1 DEF b, d
  <2>2. CASE g # h
    BY <1>5, <1>7, <1>9, <1>10, <2>2
  <2> QED BY <2>1, <2>2
<1> QED BY <1>8, <1>16 DEF Heeded, Reads

\* Where the agent goes next, whatever else it changes.
LEMMA Places ==
  ASSUME NEW a \in Agent
  PROVE  /\ \A s, then : Asleep(a, s, then).pc = "sleep" /\ [Asleep(a, s, then) EXCEPT !.pc = "probe"].pc = "probe"
         /\ \A after : Closing(a, after).pc = "t_ticket"
         /\ \A pc : [a EXCEPT !.pc = pc].pc = pc /\ [a EXCEPT !.pc = pc].after = a.after
         /\ GiveUp(a).pc = "escalate" /\ GiveUp(a).after = "return"
         /\ \A o : Leaving(a, o).pc = "return" /\ Leaving(a, o).after = a.after
<1>1. \A s, then : Asleep(a, s, then).pc = "sleep" /\ [Asleep(a, s, then) EXCEPT !.pc = "probe"].pc = "probe"
  BY DEF Asleep, Agent
<1>2. \A after : Closing(a, after).pc = "t_ticket"
  BY DEF Closing, Agent
<1>3. \A pc : [a EXCEPT !.pc = pc].pc = pc /\ [a EXCEPT !.pc = pc].after = a.after
  BY DEF Agent
<1>4. GiveUp(a).pc = "escalate" /\ GiveUp(a).after = "return"
  BY DEF GiveUp, Agent
<1>5. \A o : Leaving(a, o).pc = "return" /\ Leaving(a, o).after = a.after
  BY DEF Leaving, Agent
<1> QED BY <1>1, <1>2, <1>3, <1>4, <1>5

LEMMA Destinations ==
  ASSUME NEW a \in Agent
  PROVE  /\ Judge(a).pc \in {"sleep", "t_ticket", "escalate"}
         /\ Retrying(a).pc \in {"poll", "t_ticket", "escalate", "create", "existing"}
         /\ Continue(a).pc \in {"return", "receive", "e_ack"}
         /\ NextEvent(a).pc \in {"return", "e_refund"}
<1>1. Judge(a).pc \in {"sleep", "t_ticket", "escalate"}
  BY Places DEF Judge
<1>2. Retrying(a).pc \in {"poll", "t_ticket", "escalate", "create", "existing"}
  <2>1. a.then \in {"create", "existing", "poll", "t_ticket"}
    BY DEF Agent
  <2>2. CASE a.then = "poll"
    <3>1. Retrying(a) = [a EXCEPT !.pc = "poll"]
      BY <2>2 DEF Retrying, LastRound
    <3>2. [a EXCEPT !.pc = "poll"].pc = "poll"
      BY DEF Agent
    <3> QED BY <3>1, <3>2
  <2>3. CASE a.then = "t_ticket"
    <3>1. [a EXCEPT !.pc = "t_ticket", !.tries = @ + 1].pc = "t_ticket"
      BY DEF Agent
    <3>2. [a EXCEPT !.pc = "escalate"].pc = "escalate"
      BY DEF Agent
    <3>3. \/ Retrying(a) = [a EXCEPT !.pc = "escalate"]
          \/ Retrying(a) = [a EXCEPT !.pc = "t_ticket", !.tries = @ + 1]
      BY <2>3 DEF Retrying, LastRound
    <3> QED BY <3>1, <3>2, <3>3
  <2>4. CASE a.then \in {"create", "existing"}
    <3>1. [a EXCEPT !.pc = a.then, !.attempt = @ + 1, !.poll = 0, !.after = "return"].pc = a.then
      BY DEF Agent
    <3> QED BY <2>4, <3>1, Places DEF Retrying, LastRound
  <2> QED BY <2>1, <2>2, <2>3, <2>4
<1>3. Continue(a).pc \in {"return", "receive", "e_ack"}
  <2>1. a.after \in {"return", "receive", "e_ack"}
    BY DEF Agent
  <2> QED BY <2>1, Places DEF Continue
<1>4. NextEvent(a).pc \in {"return", "e_refund"}
  BY Places DEF NextEvent
<1> QED BY <1>1, <1>2, <1>3, <1>4

\* An agent heeds the ticket after a change that does not send it to write.
LEMMA StaysHeeding ==
  ASSUME NEW e, NEW t, NEW n, NEW a, AgentHeeds(a, e, t, n), NEW b,
         b.pc \in {"t_note", "t_update"} => b.pc = a.pc /\ b.version = a.version,
         Begun(b) => Begun(a)
  PROVE  AgentHeeds(b, e, t, n)
BY DEF AgentHeeds

HearsHeed(h) == \E b : Hear(h, b) /\ AgentHeeds(b, edited, ticket, Reads)

LEMMA ScreenHeeds ==
  ASSUME Trial, Heeded, NEW h \in Handlers, Screen(h)
  PROVE  HearsHeed(h)
<1> DEFINE a == agent[h]
           c == call[h]
<1>1. /\ a \in Agent /\ a.pc \in Screening \cup {"search"} /\ c.pc = "replied" /\ c.reply.code = "ok"
      /\ c.req = RequestOf(h) /\ c \in CallState
  BY Hears, CallParts DEF Screen, Answered, Able, Trial, Consistent
<1>2. AgentHeeds(a, edited, ticket, Reads) /\ CallHeeds(c, edited, ticket, Reads)
  BY DEF Heeded
<1>3. \A o : AgentHeeds(Leaving(a, o), edited, ticket, Reads)
  BY <1>1, <1>2, Places DEF AgentHeeds, Begun, Gone
<1>4. AgentHeeds(GiveUp(a), edited, ticket, Reads)
  BY <1>1, Places DEF AgentHeeds, Begun
<1>5. \A pc \in {"order", "ticket"} : AgentHeeds([a EXCEPT !.pc = pc], edited, ticket, Reads)
  BY <1>1, <1>2, Places DEF AgentHeeds, Begun, Screening
<1>6. a.pc = "ticket" => AgentHeeds([a EXCEPT !.pc = "create"], edited, ticket, Reads)
  <2> SUFFICES ASSUME a.pc = "ticket" PROVE AgentHeeds([a EXCEPT !.pc = "create"], edited, ticket, Reads)
    OBVIOUS
  <2>1. c.req.tool = "get_ticket"
    BY <1>1 DEF RequestOf
  <2>2. c.n >= 1 /\ c.n <= Reads /\ c.n \in Nat /\ Reads \in Int
    <3>1. Reads \in Int
      BY DEF Reads, Trial, Consistent, TypeOK, Tools
    <3> QED BY <1>1, <1>2, <2>1, <3>1 DEF CallHeeds, CallState
  <2> QED BY <1>1, <2>2, Places DEF AgentHeeds
<1> HIDE DEF a, c
<1> QED BY <1>1, <1>3, <1>4, <1>5, <1>6 DEF Screen, HearsHeed, Screening, a, c

\* The agent writes at the version its own second read, or its note, left.
LEMMA TicketAnswerHeeds ==
  ASSUME Trial, Heeded, NEW h \in Handlers, HearTicket(h)
  PROVE  HearsHeed(h)
<1> DEFINE a == agent[h]
           c == call[h]
           r == c.reply
<1>1. /\ Able(a, a, refunds) /\ a \in Agent /\ a.pc \in TicketCalls /\ c.pc = "replied" /\ r.code = "ok"
      /\ c.req = RequestOf(h) /\ r.shape \in {"full", "incomplete", "empty"}
  BY Hears DEF HearTicket, Answered, Able
<1>2. /\ AgentHeeds(a, edited, ticket, Reads) /\ CallHeeds(c, edited, ticket, Reads) /\ Rereads(a, c)
  BY DEF Heeded
<1>3. Begun(a) /\ Reads >= 1
  BY <1>1, <1>2 DEF Begun, AgentHeeds, TicketCalls, Screening, Gone
<1>4. ASSUME NEW b, b.pc \notin {"t_note", "t_update"} PROVE AgentHeeds(b, edited, ticket, Reads)
  BY <1>3, <1>4 DEF AgentHeeds
<1>5. ASSUME NEW v, NEW pc, Current(v, edited, ticket, Reads)
      PROVE  AgentHeeds([a EXCEPT !.pc = pc, !.version = v], edited, ticket, Reads)
  <2>1. [a EXCEPT !.pc = pc, !.version = v].version = v
    BY <1>1 DEF Agent
  <2> QED BY <1>3, <1>5, <2>1 DEF AgentHeeds
<1>6. \A o : AgentHeeds(Leaving(a, o), edited, ticket, Reads)
  BY <1>1, <1>4, Places
<1>7. AgentHeeds([a EXCEPT !.pc = "escalate"], edited, ticket, Reads)
  <2>1. [a EXCEPT !.pc = "escalate"].pc = "escalate"
    BY <1>1, Places
  <2> QED BY <1>4, <2>1
<1>8. a.pc = "t_ticket" /\ r.shape # "empty" /\ ~r.edited => Current(r.version, edited, ticket, Reads)
  <2>1. a.pc = "t_ticket" => c.req.tool = "get_ticket"
    BY <1>1 DEF RequestOf
  <2> QED BY <1>1, <1>2, <2>1 DEF CallHeeds, Rereads, Has
<1>9. a.pc = "t_note" /\ r.shape # "empty" => Current(r.version, edited, ticket, Reads)
  <2>1. a.pc = "t_note" => c.req.tool = "append_note"
    BY <1>1 DEF RequestOf
  <2> QED BY <1>1, <1>2, <2>1 DEF CallHeeds, Has
<1>10. AgentHeeds(Continue([a EXCEPT !.claim = "refunded", !.evidence = a.status]), edited, ticket, Reads)
  <2>1. a.status \in RefundStatuses \cup {"none"}
    BY <1>1 DEF Agent
  <2>2. [a EXCEPT !.claim = "refunded", !.evidence = a.status] \in Agent
    BY <1>1, <2>1, LearnAble DEF Able
  <2> QED BY <1>4, <2>2, Destinations
<1> HIDE DEF a, c
<1> QED BY <1>1, <1>5, <1>6, <1>7, <1>8, <1>9, <1>10 DEF HearTicket, HearsHeed, TicketCalls, a, c

\* Past its screening, an agent heeds the ticket wherever it goes but to write.
LEMMA BegunHeeds ==
  ASSUME NEW e, NEW t, NEW n, NEW a, AgentHeeds(a, e, t, n), Begun(a),
         NEW b, b.pc \notin {"t_note", "t_update"}
  PROVE  AgentHeeds(b, e, t, n)
BY DEF AgentHeeds

LEMMA PaymentHeeds ==
  ASSUME Trial, Heeded, NEW h \in Handlers, HearRefund(h) \/ HearExisting(h)
  PROVE  HearsHeed(h)
<1> DEFINE a == agent[h]
           r == call[h].reply
           At(b) == AgentHeeds(b, edited, ticket, Reads)
<1>1. /\ Able(a, a, refunds) /\ a \in Agent /\ a.pc \in {"create", "list", "lookup", "poll", "existing"}
      /\ r \in Reply /\ r.refund \in 0..Len(refunds)
      /\ a.pc = "poll" => a.poll < MaxAttempts
  BY Hears DEF HearRefund, HearExisting, Answered, Able, Fit, Placed
<1>2. AgentHeeds(a, edited, ticket, Reads) /\ Begun(a)
  BY <1>1 DEF Heeded, Begun, Screening, Gone
<1>3. ASSUME NEW b, b.pc \in {"sleep", "t_ticket", "escalate", "return", "list", "lookup", "create", "known"}
      PROVE  At(b)
  BY <1>2, <1>3, BegunHeeds
<1>4. Learn(a, r) \in Agent /\ (a.pc = "poll" => [Learn(a, r) EXCEPT !.poll = @ + 1] \in Agent)
  <2>1. Able(Learn(a, r), a, refunds) /\ Learn(a, r).poll = a.poll
    BY <1>1, LearnAble DEF Learn, Agent
  <2>2. a.pc = "poll" => Able([Learn(a, r) EXCEPT !.poll = @ + 1], a, refunds)
    BY <1>1, <2>1, LearnAble
  <2> QED BY <2>1, <2>2 DEF Able
<1>5. At(Judge(Learn(a, r))) /\ (a.pc = "poll" => At(Judge([Learn(a, r) EXCEPT !.poll = @ + 1])))
  BY <1>3, <1>4, Destinations
<1>6. At(Asleep(a, 1, "create")) /\ At(Leaving(a, "errored"))
  BY <1>1, <1>3, Places
<1>7. \A pc \in {"list", "create"} : At([a EXCEPT !.pc = pc])
  <2> SUFFICES ASSUME NEW pc \in {"list", "create"} PROVE At([a EXCEPT !.pc = pc])
    OBVIOUS
  <2> DEFINE b == [a EXCEPT !.pc = pc]
  <2>1. b.pc = pc
    BY <1>1, Places
  <2> HIDE DEF b
  <2>2. At(b)
    BY <1>3, <2>1
  <2> QED BY <2>2 DEF b
<1>8. \A i : \A pc \in {"lookup", "known"} : At([a EXCEPT !.pc = pc, !.refund = i])
  <2> SUFFICES ASSUME NEW i, NEW pc \in {"lookup", "known"}
               PROVE  At([a EXCEPT !.pc = pc, !.refund = i])
    OBVIOUS
  <2> DEFINE b == [a EXCEPT !.pc = pc, !.refund = i]
  <2>1. b.pc = pc
    BY <1>1 DEF Agent
  <2> HIDE DEF b
  <2>2. At(b)
    BY <1>3, <2>1
  <2> QED BY <2>2 DEF b
<1>9. CASE HearRefund(h)
  <2> DEFINE mine == {i \in r.found : refunds[i].key = OperationKey(h)}
  <2> SUFFICES \E b : Hear(h, b) /\ At(b)
    BY DEF HearsHeed
  <2> HIDE DEF At, mine
  <2>1. a.pc \in {"create", "list", "lookup", "poll"}
    BY <1>9 DEF HearRefund, Answered
  <2> QED BY <1>5, <1>6, <1>7, <1>8, <1>9, <2>1 DEF HearRefund, mine
<1>10. CASE HearExisting(h)
  <2> SUFFICES \E b : Hear(h, b) /\ At(b)
    BY DEF HearsHeed
  <2> HIDE DEF At
  <2> QED BY <1>7, <1>8, <1>10 DEF HearExisting
<1> QED BY <1>9, <1>10

LEMMA EventHeeds ==
  ASSUME Trial, Heeded, NEW h \in Handlers, HearEvent(h) \/ HearProbe(h)
  PROVE  HearsHeed(h)
<1> DEFINE a == agent[h]
           r == call[h].reply
           At(b) == AgentHeeds(b, edited, ticket, Reads)
<1>1. /\ Able(a, a, refunds) /\ a \in Agent /\ a.pc \in {"receive", "e_refund", "e_ack", "probe"}
      /\ r \in Reply /\ r.refund \in 0..Len(refunds) /\ r.events \subseteq Delivery
      /\ a.queue \subseteq Delivery
  <2>1. call[h].pc = "replied" /\ a.pc \in {"receive", "e_refund", "e_ack", "probe"}
    BY DEF HearEvent, HearProbe, Answered
  <2> QED BY <2>1, Hears DEF Able, Agent
<1>2. AgentHeeds(a, edited, ticket, Reads) /\ Begun(a)
  BY <1>1 DEF Heeded, Begun, Screening, Gone
<1>3. ASSUME NEW b, b.pc \in {"sleep", "t_ticket", "return", "e_refund", "e_ack"}
      PROVE  At(b)
  BY <1>2, <1>3, BegunHeeds
<1>4. Learn(a, r) \in Agent
  BY <1>1, LearnAble DEF Able
<1>5. \A q : q \subseteq Delivery => At(NextEvent([a EXCEPT !.queue = q]))
  <2>1. \A q : q \subseteq Delivery => [a EXCEPT !.queue = q] \in Agent
    BY <1>1 DEF Agent
  <2> QED BY <1>3, <2>1, Destinations
<1>6. At(NextEvent([a EXCEPT !.queue = @ \ {Earliest(@)}]))
  BY <1>1, <1>5
<1>7. At(Leaving(a, "errored")) /\ At(Closing(Learn(a, r), "e_ack"))
  BY <1>1, <1>3, <1>4, Places
<1>8. \A pc \in {"sleep", "e_ack"} : At([a EXCEPT !.pc = pc])
  <2> SUFFICES ASSUME NEW pc \in {"sleep", "e_ack"} PROVE At([a EXCEPT !.pc = pc])
    OBVIOUS
  <2> DEFINE b == [a EXCEPT !.pc = pc]
  <2>1. b.pc = pc
    BY <1>1, Places
  <2> HIDE DEF b
  <2>2. At(b)
    BY <1>3, <2>1
  <2> QED BY <2>2 DEF b
<1> SUFFICES \E b : Hear(h, b) /\ At(b)
  BY DEF HearsHeed
<1>9. CASE HearEvent(h)
  <2> HIDE DEF At
  <2>1. a.pc \in {"receive", "e_refund", "e_ack"}
    BY <1>9 DEF HearEvent, Answered
  <2> QED BY <1>1, <1>5, <1>6, <1>7, <1>8, <1>9, <2>1 DEF HearEvent
<1>10. CASE HearProbe(h)
  <2> HIDE DEF At
  <2> QED BY <1>8, <1>10 DEF HearProbe
<1> QED BY <1>9, <1>10

LEMMA ErrorHeeds ==
  ASSUME Trial, Heeded, NEW h \in Handlers, HearError(h) \/ HearFatal(h) \/ HearEscalation(h)
  PROVE  HearsHeed(h)
<1> DEFINE a == agent[h]
           At(b) == AgentHeeds(b, edited, ticket, Reads)
<1>1. Able(a, a, refunds) /\ a \in Agent /\ At(a) /\ a.pc \in ToolCalls
  BY Hears DEF HearError, HearFatal, HearEscalation, Failed, Answered, Able, Heeded
<1>2. \A o : At(Leaving(a, o))
  <2> SUFFICES ASSUME NEW o PROVE At(Leaving(a, o))
    OBVIOUS
  <2>1. Leaving(a, o).pc = "return" /\ Leaving(a, o).after = a.after
    BY <1>1, Places
  <2>2. Begun(Leaving(a, o)) => Begun(a)
    BY <2>1 DEF Begun, Gone
  <2> QED BY <1>1, <2>1, <2>2, StaysHeeding
<1>3. At(GiveUp(a))
  <2>1. GiveUp(a).pc = "escalate" /\ GiveUp(a).after = "return"
    BY <1>1, Places
  <2>2. ~Begun(GiveUp(a))
    BY <2>1 DEF Begun
  <2> QED BY <1>1, <2>1, <2>2, StaysHeeding
<1>4. a.pc \in TicketCalls \cup RefundCalls => Begun(a)
  BY DEF Begun, TicketCalls, RefundCalls, Screening, Gone
<1>5. ASSUME Begun(a), NEW b, b.pc \in {"sleep", "probe", "escalate"}
      PROVE  At(b)
  BY <1>1, <1>5, BegunHeeds
<1>6. ASSUME a.pc \in TicketCalls \cup RefundCalls
      PROVE  /\ At([a EXCEPT !.pc = "escalate"])
             /\ \A s, then : At(Asleep(a, s, then)) /\ At([Asleep(a, s, then) EXCEPT !.pc = "probe"])
  <2>1. [a EXCEPT !.pc = "escalate"].pc = "escalate"
    BY <1>1, Places
  <2>2. \A s, then : Asleep(a, s, then).pc = "sleep" /\ [Asleep(a, s, then) EXCEPT !.pc = "probe"].pc = "probe"
    BY <1>1, Places
  <2>3. Begun(a)
    BY <1>4, <1>6
  <2>4. At([a EXCEPT !.pc = "escalate"])
    <3> DEFINE b == [a EXCEPT !.pc = "escalate"]
    <3>1. b.pc = "escalate"
      BY <2>1
    <3> HIDE DEF b
    <3>2. At(b)
      BY <1>5, <2>3, <3>1
    <3> QED BY <3>2 DEF b
  <2>5. ASSUME NEW s, NEW then
        PROVE  At(Asleep(a, s, then)) /\ At([Asleep(a, s, then) EXCEPT !.pc = "probe"])
    <3> DEFINE b == Asleep(a, s, then)
               c == [Asleep(a, s, then) EXCEPT !.pc = "probe"]
    <3>1. b.pc = "sleep" /\ c.pc = "probe"
      BY <2>2
    <3> HIDE DEF b, c
    <3>2. At(b) /\ At(c)
      BY <1>5, <2>3, <3>1
    <3> QED BY <3>2 DEF b, c
  <2> HIDE DEF At
  <2> QED BY <2>4, <2>5
<1>8. CASE HearError(h)
  <2>1. a.pc \in ToolCalls \ {"escalate", "probe"}
    BY <1>8, FailedAt DEF HearError
  <2>2. a.pc \in {"search"} \cup Screening \cup TicketCalls \cup RefundCalls
    BY <2>1 DEF ToolCalls
  <2> HIDE DEF a, At
  <2> QED BY <1>2, <1>3, <1>6, <1>8, <2>2 DEF HearError, HearsHeed, a, At
<1>9. CASE HearFatal(h)
  <2> HIDE DEF At
  <2> QED BY <1>2, <1>9 DEF HearFatal, HearsHeed, At
<1>10. CASE HearEscalation(h)
  <2> DEFINE c == [a EXCEPT !.claim = "escalated", !.evidence = "none"]
  <2>1. c \in Agent /\ c.after = a.after
    <3>1. c.after = a.after
      BY <1>1 DEF Agent
    <3>2. Able(c, a, refunds)
      BY <1>1, LearnAble
    <3> QED BY <3>1, <3>2 DEF Able
  <2> HIDE DEF c
  <2>2. At(Continue(c))
    <3>1. CASE c.after = "return"
      <4>1. Continue(c).pc = "return" /\ Continue(c).after = "return"
        BY <2>1, <3>1, Places DEF Continue
      <4>2. ~Begun(Continue(c))
        BY <4>1 DEF Begun, Gone
      <4> QED BY <1>1, <4>1, <4>2, StaysHeeding
    <3>2. CASE c.after # "return"
      <4>1. Begun(a)
        BY <2>1, <3>2 DEF Begun
      <4>2. Continue(c).pc \notin {"t_note", "t_update"}
        BY <2>1, Destinations
      <4> QED BY <1>1, <4>1, <4>2, BegunHeeds
    <3> QED BY <3>1, <3>2
  <2> HIDE DEF At
  <2> QED BY <1>10, <2>2 DEF HearEscalation, HearsHeed, At, c
<1> QED BY <1>8, <1>9, <1>10

\* One agent moved on, and its call is over or has not begun.
LEMMA AgentMovesHeeding ==
  ASSUME Trial, Heeded, [AnyNext]_vars, UNCHANGED <<ticket, edited>>, NEW h \in Handlers, NEW b,
         Become(h, b), AgentHeeds(b, edited, ticket, Reads), call'[h].pc = "idle",
         call'[h].req.tool = "get_ticket" \/ call'[h] = call[h],
         \A g \in Handlers \ {h} : call'[g] = call[g]
  PROVE  Heeded'
<1>1. /\ TypeOK /\ agent \in [Handlers -> Agent] /\ \A g \in Handlers : call[g] \in CallState
  BY CallParts DEF Trial, Consistent
<1>2. /\ TicketHeeds(edited, ticket, Reads)
      /\ \A g \in Handlers : /\ AgentHeeds(agent[g], edited, ticket, Reads)
                             /\ CallHeeds(call[g], edited, ticket, Reads)
                             /\ Rereads(agent[g], call[g])
  BY DEF Heeded
<1>3. TicketHeeds(edited', ticket', Reads')
  BY <1>1, <1>2, CurrentStays DEF TicketHeeds
<1>4. /\ AgentHeeds(b, edited', ticket', Reads')
      /\ \A g \in Handlers : /\ AgentHeeds(agent[g], edited', ticket', Reads')
                             /\ CallHeeds(call[g], edited', ticket', Reads')
  BY <1>1, <1>2, HeedingStays
<1>5. agent'[h] = b /\ \A g \in Handlers \ {h} : agent'[g] = agent[g]
  BY <1>1 DEF Become
<1>6. CallHeeds(call'[h], edited', ticket', Reads')
  BY <1>4 DEF CallHeeds, Has
<1>7. Rereads(b, call'[h])
  BY DEF Rereads
<1>8. ASSUME NEW g \in Handlers
      PROVE  /\ AgentHeeds(agent'[g], edited', ticket', Reads')
             /\ CallHeeds(call'[g], edited', ticket', Reads')
             /\ Rereads(agent'[g], call'[g])
  BY <1>2, <1>4, <1>5, <1>6, <1>7
<1> QED BY <1>3, <1>8 DEF Heeded, Reads

LEMMA HearingHeeds ==
  ASSUME Trial, Heeded, NEW h \in Handlers, agent[h].kind = "corrected", Hearing(h)
  PROVE  Heeded'
<1>1. "corrected" \notin Mutants
  BY DEF Mutants, FreshKeys, Claimants
<1>2. HearsHeed(h)
  BY <1>1, ScreenHeeds, PaymentHeeds, TicketAnswerHeeds, EventHeeds, ErrorHeeds
     DEF Hearing, HearPayment, HearRefusal
<1>3. PICK b : Hear(h, b) /\ AgentHeeds(b, edited, ticket, Reads)
  BY <1>2 DEF HearsHeed
<1>4. call[h].pc = "replied" /\ call \in [Handlers -> CallState]
  BY HearingReady DEF Trial, Consistent, TypeOK
<1>5. [AnyNext]_vars
  BY HearingKept DEF Kept
<1>6. /\ UNCHANGED <<ticket, edited>> /\ Become(h, b) /\ call'[h] = Idle
      /\ \A g \in Handlers \ {h} : call'[g] = call[g]
  BY <1>3, <1>4 DEF Hear
<1>7. Idle.pc = "idle" /\ Idle.req.tool = "get_ticket"
  BY DEF Idle, NoRequest
<1> QED BY <1>3, <1>5, <1>6, <1>7, AgentMovesHeeding

LEMMA OwnHeeds ==
  ASSUME Trial, Heeded, NEW h \in Handlers, OwnStep(h)
  PROVE  Heeded'
<1> DEFINE a == agent[h]
           At(b) == AgentHeeds(b, edited, ticket, Reads)
<1>1. a \in Agent /\ At(a)
  BY DEF Trial, Heeded
<1>2. call[h].pc = "idle" /\ UNCHANGED <<vars, stop, past>>
  BY OwnSteps
<1>3. \A o : At(Leaving(a, o))
  <2> SUFFICES ASSUME NEW o PROVE At(Leaving(a, o))
    OBVIOUS
  <2>1. Leaving(a, o).pc = "return" /\ Leaving(a, o).after = a.after
    BY <1>1, Places
  <2>2. Begun(Leaving(a, o)) => Begun(a)
    BY <2>1 DEF Begun, Gone
  <2> QED BY <1>1, <2>1, <2>2, StaysHeeding
<1>4. ASSUME NEW b, Become(h, b), At(b) PROVE Heeded'
  BY <1>2, <1>4, AgentMovesHeeding
<1>5. CASE CheckBudget(h)
  <2> DEFINE b == [a EXCEPT !.cleared = TRUE]
  <2>1. b.pc = a.pc /\ b.after = a.after /\ b.version = a.version
    BY <1>1 DEF Agent
  <2> HIDE DEF b
  <2>2. At(b)
    BY <1>1, <2>1 DEF AgentHeeds, Begun
  <2> HIDE DEF At
  <2> QED BY <1>3, <1>4, <1>5, <2>2 DEF CheckBudget, b
<1>6. CASE Doze(h)
  <2> DEFINE b == [a EXCEPT !.pc = "dozing"]
  <2>1. b.pc = "dozing" /\ Begun(a)
    BY <1>1, <1>6, Places DEF Doze, Begun, Screening, Gone
  <2> HIDE DEF b
  <2>2. At(b)
    BY <1>1, <2>1, BegunHeeds
  <2> HIDE DEF At
  <2> QED BY <1>3, <1>4, <1>6, <2>2 DEF Doze, b
<1>7. CASE Resume(h)
  <2> DEFINE b == Retrying(a)
  <2>1. b.pc \notin {"t_note", "t_update"} /\ Begun(a)
    BY <1>1, <1>7, Destinations DEF Resume, Begun, Screening, Gone
  <2> HIDE DEF b
  <2>2. At(b)
    BY <1>1, <2>1, BegunHeeds
  <2> HIDE DEF At
  <2> QED BY <1>3, <1>4, <1>7, <2>2 DEF Resume, b
<1>8. CASE Return(h) \/ RecordReturn(h)
  <2>1. PICK b : Become(h, b) /\ b.pc \in Gone /\ b.after = a.after
    <3>2. CASE Return(h)
      <4> DEFINE outcome == IF a.outcome = "completed" /\ Overdue THEN StopOutcome ELSE a.outcome
                 owed == IF a.refund = 0 THEN "none" ELSE refunds[a.refund].status
                 b == [a EXCEPT !.pc = "returned", !.outcome = outcome, !.at = clock,
                                !.claim = IF outcome = "completed" THEN @ ELSE "none", !.owed = owed]
      <4>1. Become(h, b)
        BY <3>2 DEF Return
      <4> HIDE DEF outcome, owed
      <4>2. b.pc = "returned" /\ b.after = a.after
        BY <1>1 DEF Agent
      <4> HIDE DEF b
      <4> QED BY <4>1, <4>2 DEF Gone
    <3>3. CASE RecordReturn(h)
      <4>1. \A t : LET b == [a EXCEPT !.pc = "recorded", !.ticket = t]
                   IN  b.pc \in Gone /\ b.after = a.after
        BY <1>1 DEF Agent, Gone
      <4> QED BY <3>3, <4>1 DEF RecordReturn
    <3> QED BY <1>8, <3>2, <3>3
  <2>2. b.pc \notin {"t_note", "t_update"} /\ (Begun(b) => Begun(a))
    BY <2>1 DEF Begun, Gone
  <2>3. At(b)
    BY <1>1, <2>2, StaysHeeding
  <2> QED BY <1>4, <2>1, <2>3
<1> QED BY <1>5, <1>6, <1>7, <1>8 DEF OwnStep

LEMMA WakeHeeds ==
  ASSUME Trial, Heeded, NEW h \in Handlers, Wake(h)
  PROVE  Heeded'
<1> DEFINE a == agent[h]
           b == [a EXCEPT !.pc = "woken"]
<1>1. /\ a \in Agent /\ AgentHeeds(a, edited, ticket, Reads) /\ a.pc = "dozing" /\ Become(h, b)
      /\ call' = call /\ UNCHANGED <<ticket, edited>>
  BY DEF Trial, Heeded, Wake, Sleep
<1>2. [AnyNext]_vars
  BY WakeKept DEF Kept
<1>3. call[h].pc = "idle"
  BY <1>1 DEF Trial, Asks, ToolCalls, TicketCalls, RefundCalls, Screening
<1>4. b.pc = "woken" /\ Begun(a)
  BY <1>1, Places DEF Begun, Screening, Gone
<1> HIDE DEF b
<1>5. AgentHeeds(b, edited, ticket, Reads)
  BY <1>1, <1>4, BegunHeeds
<1> QED BY <1>1, <1>2, <1>3, <1>5, AgentMovesHeeding

LEMMA StartingKind ==
  ASSUME NEW kind \in Agents, NEW standing \in Standings
  PROVE  /\ AtOnce(Starting(kind, standing)).kind = kind
         /\ kind = "corrected" => AtOnce(Starting(kind, standing)) = Starting(kind, standing)
<1>1. InitialRefunds \in Seq(Refund)
  BY ValidScenario
<1>2. AtOnce(Starting(kind, standing)).kind = kind
  BY <1>1, StartingFit
<1>3. Starting(kind, standing).kind = kind
  BY DEF Starting
<1>4. kind = "corrected" => AtOnce(Starting(kind, standing)) = Starting(kind, standing)
  BY <1>3 DEF AtOnce
<1> QED BY <1>2, <1>4

LEMMA InitHeeded == RunInit /\ Corrected => Heeded
<1> SUFFICES ASSUME RunInit, Corrected PROVE Heeded
  OBVIOUS
<1>1. Init
  BY DEF RunInit
<1>2. /\ ticket.version = InitialTicketVersion /\ InitialTicketVersion \in Nat \ {0}
      /\ ticket.notes = {} /\ ticket.updates = {}
      /\ edited = FALSE /\ Reads = 0 /\ call = [h \in Handlers |-> Idle]
  BY <1>1, ValidScenario DEF Init, Reads, Tools
<1>3. TicketHeeds(edited, ticket, Reads)
  BY <1>2 DEF TicketHeeds, MayEdit
<1>4. Idle.pc = "idle" /\ Idle.req.tool = "get_ticket"
  BY DEF Idle, NoRequest
<1>5. ASSUME NEW h \in Handlers
      PROVE  /\ AgentHeeds(agent[h], edited, ticket, Reads)
             /\ CallHeeds(call[h], edited, ticket, Reads)
             /\ Rereads(agent[h], call[h])
  <2>1. PICK kind \in Agents, standing \in [Handlers -> Standings] :
          /\ \A g \in Handlers : standing[g] \in Task[g].standings
          /\ agent = [g \in Handlers |-> AtOnce(Starting(kind, standing[g]))]
    BY DEF RunInit
  <2> DEFINE s == standing[h]
  <2>2. agent[h] = AtOnce(Starting(kind, s)) /\ agent[h].kind = "corrected" /\ s \in Standings
    BY <2>1 DEF Corrected
  <2> HIDE DEF s
  <2>3. agent[h].kind = kind
    BY <2>2, StartingKind
  <2>4. AtOnce(Starting(kind, s)) = Starting(kind, s)
    BY <2>2, <2>3, StartingKind
  <2>5. agent[h].pc \in {"escalate", "search", "customer"} /\ agent[h].after = "return"
    BY <2>2, <2>3, <2>4 DEF Starting, FirstCall, Mutants, FreshKeys, Claimants
  <2>6. AgentHeeds(agent[h], edited, ticket, Reads)
    BY <2>5 DEF AgentHeeds, Begun, Screening
  <2>7. CallHeeds(call[h], edited, ticket, Reads)
    BY <1>2, <1>4 DEF CallHeeds, Has
  <2>8. Rereads(agent[h], call[h])
    BY <2>5 DEF Rereads
  <2> QED BY <2>6, <2>7, <2>8
<1> QED BY <1>3, <1>5 DEF Heeded

LEMMA NextHeeded == Trial /\ Corrected /\ Heeded /\ [RunNext]_all => Heeded'
<1> SUFFICES ASSUME Trial, Corrected, Heeded, [RunNext]_all PROVE Heeded'
  OBVIOUS
<1>1. CASE UNCHANGED <<vars, agent>>
  BY <1>1 DEF Heeded, Reads
<1>2. ASSUME NEW h \in Handlers, Handle(h) PROVE Heeded'
  <2>1. agent[h].kind = "corrected"
    BY DEF Corrected
  <2> QED BY <1>2, <2>1, HearingHeeds, OwnHeeds, DispatchHeeds, ServiceHeeds, WakeHeeds
          DEF Handle, Hearing, OwnStep
<1> QED BY <1>1, <1>2 DEF RunNext, Interrupt, Done, all, run

\* The customer's edit is not overwritten, in any trial of the reference agent:
\* once the system reopened the ticket no handler resolves it, not even one that
\* read the ticket before the edit (the version an append_note or update_ticket
\* expects is that of a read after which no edit can come).
THEOREM CustomerEditWins == RunSpec => []EditWins
<1> DEFINE Inv == Trial /\ (Corrected => Heeded)
<1>1. RunInit => Inv
  BY InitTrial, InitHeeded
<1>2. Inv /\ [RunNext]_all => Inv'
  <2> SUFFICES ASSUME Inv, [RunNext]_all PROVE Inv'
    OBVIOUS
  <2>1. Kept /\ Trial'
    BY NextKept, KeptTrial
  <2>2. Corrected' => Corrected
    BY <2>1 DEF Kept, Identities, Corrected
  <2> QED BY <2>1, <2>2, NextHeeded
<1>3. Inv => EditWins
  <2> SUFFICES ASSUME Inv, Corrected, edited PROVE ticket.status # "resolved"
    BY DEF EditWins
  <2> QED BY DEF Heeded, TicketHeeds
<1> QED BY <1>1, <1>2, <1>3, PTL DEF RunSpec

-----------------------------------------------------------------------------
(***************************************************************************)
(* The effects of the reference agent.  It pays only for a task its         *)
(* screening cleared, always under the key of the task's request, and       *)
(* writes only for that request; so a request is paid once.                *)
(***************************************************************************)
\* What the agent has still to find out about its task.
Screened(a) ==
  /\ Begun(a) => a.standing = "clear"
  /\ a.pc \in {"customer", "order"} => a.standing \in {"clear", "wrong_order", "wrong_ticket"}
  /\ a.pc = "ticket" => a.standing \in {"clear", "wrong_ticket"}

PaysFor(r, h) ==
  /\ r.request = Task[h].request /\ r.order = Task[h].order /\ r.amount = Task[h].amount
  /\ r.key = <<Task[h].request, 0>>

RowsRightful ==
  /\ Len(InitialRefunds) <= Len(refunds)
  /\ \A i \in NewRefunds : \E h \in Handlers : PaysFor(refunds[i], h) /\ agent[h].standing = "clear"

TicketRightful == \A n \in ticket.notes : \E h \in Handlers : n.op = Task[h].request

Rightful == RowsRightful /\ TicketRightful /\ \A h \in Handlers : Screened(agent[h])

\* The agent of a task that is not clear goes through its screening at most, and
\* gives up there.
LEMMA ScreenedStep ==
  ASSUME Trial, NEW h \in Handlers, agent[h].kind = "corrected", Handle(h), Screened(agent[h])
  PROVE  Screened(agent'[h])
<1> DEFINE a == agent[h]
           b == agent'[h]
<1>1. /\ a \in Agent /\ agent \in [Handlers -> Agent] /\ Asks(h) /\ b.standing = a.standing
  <2>1. Kept
    BY NextKept DEF RunNext
  <2> QED BY <2>1 DEF Trial, Kept, Identities
<1>2. CASE a.standing = "clear"
  BY <1>1, <1>2 DEF Screened
<1>3. CASE a.standing # "clear"
  <2>1. a.after = "return" /\ a.pc \in Screening \cup {"search", "escalate"} \cup Gone
    BY <1>3 DEF Screened, Begun
  <2> DEFINE Onward ==
        /\ b.after = "return"
        /\ \/ b.pc \in Gone \cup {"escalate", a.pc}
           \/ a.pc = "customer" /\ b.pc = "order"
           \/ a.pc = "order" /\ a.standing # "wrong_order" /\ b.pc = "ticket"
  <2>2. SUFFICES Onward
    BY <1>1, <1>3, <2>1, <2>2 DEF Screened, Begun, Gone, Screening
  <2>3. \A o : Leaving(a, o).pc = "return" /\ Leaving(a, o).after = "return"
    BY <1>1, <2>1, Places
  <2>4. GiveUp(a).pc = "escalate" /\ GiveUp(a).after = "return"
    BY <1>1, Places
  <2>5. \A pc : [a EXCEPT !.pc = pc].pc = pc /\ [a EXCEPT !.pc = pc].after = "return"
    BY <1>1, <2>1, Places
  <2>6. \A c : Become(h, c) => b = c
    BY <1>1 DEF Become
  <2>7. CASE Screen(h)
    <3>1. PICK c : /\ Become(h, c)
                   /\ \/ c = GiveUp(a) \/ c = Leaving(a, "errored")
                      \/ a.pc = "customer" /\ c = [a EXCEPT !.pc = "order"]
                      \/ a.pc = "order" /\ a.standing # "wrong_order" /\ c = [a EXCEPT !.pc = "ticket"]
                      \/ a.pc = "ticket" /\ a.standing # "wrong_ticket"
      <4>1. a.pc \in Screening \cup {"search"}
        BY <2>7 DEF Screen, Answered
      <4> QED BY <2>7, <4>1 DEF Screen, Hear, Screening
    <3>2. ~(a.pc = "ticket" /\ a.standing # "wrong_ticket")
      BY <1>3 DEF Screened
    <3>3. b = c
      BY <2>6, <3>1
    <3> HIDE DEF a, b
    <3>4. CASE c = GiveUp(a) \/ c = Leaving(a, "errored")
      BY <2>3, <2>4, <3>3, <3>4 DEF Gone
    <3>5. CASE a.pc = "customer" /\ c = [a EXCEPT !.pc = "order"]
      BY <2>5, <3>3, <3>5
    <3>6. CASE a.pc = "order" /\ a.standing # "wrong_order" /\ c = [a EXCEPT !.pc = "ticket"]
      BY <2>5, <3>3, <3>6
    <3> HIDE DEF Onward
    <3> QED BY <3>1, <3>2, <3>4, <3>5, <3>6
  <2>8. CASE HearError(h) \/ HearFatal(h)
    <3>1. \E c : Become(h, c) /\ (c = GiveUp(a) \/ \E o : c = Leaving(a, o))
      <4>1. CASE HearError(h)
        <5>1. a.pc \in Screening \cup {"search"}
          BY <1>1, <2>1, <4>1, FailedAt DEF HearError, Gone, ToolCalls, TicketCalls, RefundCalls, Screening
        <5> QED BY <4>1, <5>1 DEF HearError, Hear, Screening, TicketCalls, RefundCalls
      <4>2. CASE HearFatal(h)
        BY <4>2 DEF HearFatal, Hear
      <4> QED BY <2>8, <4>1, <4>2
    <3> HIDE DEF a, b
    <3> QED BY <2>3, <2>4, <2>6, <3>1 DEF Gone
  <2>9. CASE HearEscalation(h)
    <3> DEFINE c == [a EXCEPT !.claim = "escalated", !.evidence = "none"]
    <3>1. c.after = "return" /\ c.pc = a.pc /\ c \in Agent
      <4>1. a \in Agent /\ a.after = "return"
        BY <1>1, <2>1
      <4> HIDE DEF a
      <4>2. c.after = a.after /\ c.pc = a.pc
        BY <4>1 DEF Agent
      <4>3. c \in Agent
        BY <4>1 DEF Agent
      <4> QED BY <4>1, <4>2, <4>3
    <3>2. Continue(c).pc = "return" /\ Continue(c).after = "return"
      <4> HIDE DEF c
      <4> QED BY <3>1, Places DEF Continue
    <3>3. b = Continue(c)
      BY <2>6, <2>9 DEF HearEscalation, Hear
    <3> HIDE DEF a, b, c
    <3> QED BY <3>2, <3>3 DEF Gone
  <2>10. CASE OwnStep(h)
    <3>1. CASE CheckBudget(h)
      <4>1. [a EXCEPT !.cleared = TRUE].pc = a.pc /\ [a EXCEPT !.cleared = TRUE].after = "return"
        BY <1>1, <2>1 DEF Agent
      <4>2. b = Leaving(a, StopOutcome) \/ b = [a EXCEPT !.cleared = TRUE]
        BY <2>6, <3>1 DEF CheckBudget
      <4> HIDE DEF a, b
      <4> QED BY <2>3, <4>1, <4>2 DEF Gone
    <3>2. CASE Doze(h) \/ Resume(h)
      BY <2>1, <3>2 DEF Doze, Resume, Screening, Gone
    <3>3. CASE Return(h)
      <4>1. \A outcome, claim, owed :
              LET c == [a EXCEPT !.pc = "returned", !.outcome = outcome, !.at = clock,
                                 !.claim = claim, !.owed = owed]
              IN  c.pc = "returned" /\ c.after = "return"
        BY <1>1, <2>1 DEF Agent
      <4> DEFINE outcome == IF a.outcome = "completed" /\ Overdue THEN StopOutcome ELSE a.outcome
                 claim == IF outcome = "completed" THEN a.claim ELSE "none"
                 owed == IF a.refund = 0 THEN "none" ELSE refunds[a.refund].status
      <4>2. b = [a EXCEPT !.pc = "returned", !.outcome = outcome, !.at = clock,
                          !.claim = claim, !.owed = owed]
        BY <2>6, <3>3 DEF Return
      <4> HIDE DEF a, b, outcome, claim, owed
      <4> QED BY <4>1, <4>2 DEF Gone
    <3>4. CASE RecordReturn(h)
      <4>1. \A t : LET c == [a EXCEPT !.pc = "recorded", !.ticket = t]
                   IN  c.pc = "recorded" /\ c.after = "return"
        BY <1>1, <2>1 DEF Agent
      <4>2. \E t : b = [a EXCEPT !.pc = "recorded", !.ticket = t]
        BY <2>6, <3>4 DEF RecordReturn
      <4> HIDE DEF a, b
      <4> QED BY <4>1, <4>2 DEF Gone
    <3> QED BY <2>10, <3>1, <3>2, <3>3, <3>4 DEF OwnStep
  <2>11. CASE Dispatch(h)
    <3>1. [a EXCEPT !.cleared = FALSE].pc = a.pc /\ [a EXCEPT !.cleared = FALSE].after = "return"
      BY <1>1, <2>1 DEF Agent
    <3>2. b = [a EXCEPT !.cleared = FALSE]
      BY <2>6, <2>11 DEF Dispatch
    <3> HIDE DEF a, b
    <3> QED BY <3>1, <3>2
  <2>12. CASE ServiceStep(h)
    BY <2>1, <2>12 DEF ServiceStep, run
  <2>13. CASE \/ HearRefund(h) \/ HearPayment(h) \/ HearExisting(h) \/ HearTicket(h) \/ HearEvent(h)
              \/ HearProbe(h) \/ HearRefusal(h) \/ Wake(h)
    BY <2>1, <2>13 DEF HearRefund, HearPayment, HearExisting, HearTicket, HearEvent, HearProbe,
       HearRefusal, Wake, Answered, Screening, Gone, TicketCalls, Mutants, FreshKeys, Claimants
  <2> QED BY <2>7, <2>8, <2>9, <2>10, <2>11, <2>12, <2>13 DEF Handle, OwnStep
<1> QED BY <1>2, <1>3

\* What a step of a trial may do to the refunds and the ticket's notes: one more
\* row, as the call in progress asks, or one more note.
LEMMA EffectSteps ==
  ASSUME Trial, NEW h \in Handlers, Handle(h)
  PROVE  /\ \/ DOMAIN refunds' = DOMAIN refunds
            \/ ServiceStep(h) /\ CommitRefund(h)
         /\ \/ ticket' = ticket
            \/ /\ ServiceStep(h)
               /\ GetTicket(h) \/ AppendNote(h) \/ UpdateTicket(h)
<1>1. TypeOK
  BY DEF Trial, Consistent
<1>2. CASE ServiceStep(h)
  <2>1. AnyStep(h)
    BY <1>2 DEF ServiceStep, AnyStep
  <2>2. ASSUME NEW s \in Nat, Rest(s) PROVE DOMAIN refunds' = DOMAIN refunds /\ ticket' = ticket
    BY <2>2 DEF Rest, Sleep
  <2> QED BY <1>1, <1>2, <2>1, <2>2, OtherSteps, OtherDeskSteps
<1>3. CASE Wake(h)
  BY <1>3 DEF Wake, Sleep
<1>4. CASE Dispatch(h)
  BY <1>4 DEF Dispatch, Call, OverBudget, service
<1>5. CASE OwnStep(h)
  BY <1>5, OwnSteps DEF vars, service
<1>6. CASE Hearing(h)
  <2>1. PICK b : Hear(h, b)
    BY <1>6, HearingReady DEF HearsReady
  <2> QED BY <2>1 DEF Hear, service
<1> QED BY <1>2, <1>3, <1>4, <1>5, <1>6 DEF Handle, Hearing, OwnStep

\* A handler changes its own agent only.
LEMMA OthersStay ==
  ASSUME Trial, NEW h \in Handlers, Handle(h), NEW g \in Handlers \ {h}
  PROVE  agent'[g] = agent[g]
<1>1. agent \in [Handlers -> Agent]
  BY DEF Trial
<1>2. CASE \E b : Become(h, b)
  BY <1>1, <1>2 DEF Become
<1>3. CASE OwnStep(h)
  BY <1>2, <1>3, OwnSteps DEF OwnResult
<1>4. CASE Hearing(h)
  BY <1>2, <1>4, HearingReady DEF HearsReady, Hear
<1> QED BY <1>2, <1>3, <1>4 DEF Handle, Hearing, OwnStep, ServiceStep, run, Dispatch, Wake

\* A call that pays or writes is the agent's, for its own task.
LEMMA OwnEffects ==
  ASSUME Trial, NEW h \in Handlers, agent[h].kind = "corrected", call[h].pc = "called"
  PROVE  LET req == call[h].req
         IN  /\ req.tool = "create_refund" =>
                  /\ agent[h].pc = "create"
                  /\ req.request = Task[h].request /\ req.order = Task[h].order
                  /\ req.amount = Task[h].amount /\ req.key = <<Task[h].request, 0>>
             /\ req.tool = "append_note" => req.op = Task[h].request
             /\ req.tool = "update_ticket" => req.status = "resolved"
<1>1. agent[h].pc \in ToolCalls /\ call[h].req = RequestOf(h)
  BY DEF Trial, Asks
<1>2. OperationKey(h) = <<Task[h].request, 0>>
  BY DEF OperationKey, FreshKeys
<1> DEFINE pc == agent[h].pc
           req == RequestOf(h)
<1>3. CASE pc = "create"
  <2>1. req = [tool |-> "create_refund", order |-> Task[h].order, amount |-> Task[h].amount,
               key |-> OperationKey(h), request |-> Task[h].request]
    BY <1>3 DEF RequestOf
  <2> QED BY <1>1, <1>2, <1>3, <2>1
<1>4. CASE pc = "t_note"
  <2>1. req = [tool |-> "append_note", op |-> Task[h].request, about |-> agent[h].refund,
               expected |-> agent[h].version]
    BY <1>4 DEF RequestOf
  <2> QED BY <1>1, <2>1
<1>5. CASE pc = "t_update"
  <2>1. req = [tool |-> "update_ticket", op |-> Task[h].request,
               status |-> "resolved", expected |-> agent[h].version]
    BY <1>5 DEF RequestOf
  <2> QED BY <1>1, <2>1
<1>6. CASE pc \notin {"create", "t_note", "t_update"}
  <2>1. req.tool \notin {"create_refund", "append_note", "update_ticket"}
    BY <1>1, <1>6 DEF RequestOf, ToolCalls, TicketCalls, RefundCalls, Screening
  <2> QED BY <1>1, <2>1
<1> QED BY <1>3, <1>4, <1>5, <1>6

LEMMA RowsRightfulStep ==
  ASSUME Trial, NEW h \in Handlers, agent[h].kind = "corrected", Handle(h), Rightful
  PROVE  RowsRightful'
<1>1. /\ Consistent /\ TypeOK /\ refunds \in Seq(Refund)
      /\ RowsRightful /\ Screened(agent[h]) /\ [AnyNext]_vars /\ Identities
  BY NextKept DEF Trial, Consistent, TypeOK, Rightful, Kept, RunNext
<1>2. /\ Len(refunds) \in Nat /\ Len(refunds') \in Nat /\ Len(refunds) <= Len(refunds')
      /\ DOMAIN refunds = 1..Len(refunds) /\ DOMAIN refunds' = 1..Len(refunds')
      /\ Len(InitialRefunds) \in Nat
  BY <1>1, RowsKept, ValidScenario
<1>3. Len(InitialRefunds) <= Len(refunds')
  BY <1>1, <1>2 DEF RowsRightful
<1>4. ASSUME NEW i \in DOMAIN refunds, i > Len(InitialRefunds)
      PROVE  \E g \in Handlers : PaysFor(refunds'[i], g) /\ agent'[g].standing = "clear"
  <2>1. PICK g \in Handlers : PaysFor(refunds[i], g) /\ agent[g].standing = "clear"
    BY <1>1, <1>4 DEF RowsRightful, NewRefunds
  <2>2. PaysFor(refunds'[i], g)
    BY <1>1, <2>1, RowsKeepParameters DEF PaysFor
  <2> QED BY <1>1, <2>1, <2>2 DEF Identities
<1>5. ASSUME NEW i \in DOMAIN refunds' \ DOMAIN refunds
      PROVE  \E g \in Handlers : PaysFor(refunds'[i], g) /\ agent'[g].standing = "clear"
  <2> DEFINE req == call[h].req
  <2>1. CommitRefund(h)
    BY <1>5, EffectSteps
  <2>2. call[h].pc = "called" /\ req.tool = "create_refund"
    BY <2>1 DEF CommitRefund, Serving
  <2>3. /\ agent[h].pc = "create" /\ req.request = Task[h].request /\ req.order = Task[h].order
        /\ req.amount = Task[h].amount /\ req.key = <<Task[h].request, 0>>
    BY <2>2, OwnEffects
  <2>4. refunds' = Append(refunds, NewRefund(req))
    BY <2>1 DEF CommitRefund
  <2>5. refunds'[i] = NewRefund(req)
    <3> DEFINE new == NewRefund(req)
    <3> HIDE DEF new
    <3>1. refunds' = Append(refunds, new)
      BY <2>4 DEF new
    <3>2. i = Len(refunds) + 1
      <4>1. Len(refunds') = Len(refunds) + 1
        BY <1>1, <3>1
      <4> QED BY <1>2, <1>5, <4>1
    <3> QED BY <1>1, <3>1, <3>2 DEF new
  <2>6. PaysFor(refunds'[i], h)
    BY <2>3, <2>5 DEF PaysFor, NewRefund
  <2>7. agent'[h].standing = "clear"
    BY <1>1, <2>3 DEF Screened, Begun, Screening, Gone, Identities
  <2> QED BY <2>6, <2>7
<1> QED BY <1>3, <1>4, <1>5 DEF RowsRightful, NewRefunds

LEMMA TicketRightfulStep ==
  ASSUME Trial, NEW h \in Handlers, agent[h].kind = "corrected", Handle(h), Rightful
  PROVE  TicketRightful'
<1>1. TypeOK /\ ticket \in Ticket /\ TicketRightful
  BY DEF Trial, Consistent, TypeOK, Rightful
<1>2. CASE ticket' = ticket
  BY <1>1, <1>2 DEF TicketRightful
<1>3. CASE GetTicket(h)
  <2>1. ticket' \in {ticket, Reopened(ticket)}
    BY <1>3 DEF GetTicket, Reopened
  <2>2. Reopened(ticket).notes = ticket.notes
    BY <1>1 DEF Reopened, Ticket
  <2> QED BY <1>1, <2>1, <2>2 DEF TicketRightful
<1>4. CASE AppendNote(h)
  <2> DEFINE note == [op |-> call[h].req.op, about |-> call[h].req.about]
  <2>1. ticket' \in {ticket, WithNote(ticket, note)} /\ Serving(h, "append_note")
    BY <1>4 DEF AppendNote, WriteTicket, WithNote
  <2>2. note.op = Task[h].request
    BY <2>1, OwnEffects DEF Serving
  <2> HIDE DEF note
  <2>3. WithNote(ticket, note).notes = ticket.notes \cup {note}
    BY <1>1 DEF WithNote, Ticket
  <2> QED BY <1>1, <2>1, <2>2, <2>3 DEF TicketRightful
<1>5. CASE UpdateTicket(h)
  <2> DEFINE update == [op |-> call[h].req.op, status |-> call[h].req.status]
             new == WithUpdate(ticket, call[h].req.status, update)
  <2>1. ticket' \in {ticket, new} /\ Serving(h, "update_ticket")
    BY <1>5 DEF UpdateTicket, WriteTicket, WithUpdate
  <2> HIDE DEF update
  <2>2. new.notes = ticket.notes
    BY <1>1 DEF WithUpdate, Ticket
  <2> HIDE DEF new
  <2> QED BY <1>1, <2>1, <2>2 DEF TicketRightful
<1> QED BY <1>2, <1>3, <1>4, <1>5, EffectSteps

LEMMA InitRightful == RunInit /\ Corrected => Rightful
<1> SUFFICES ASSUME RunInit, Corrected PROVE Rightful
  OBVIOUS
<1>1. /\ refunds = InitialRefunds /\ InitialRefunds \in Seq(Refund)
      /\ ticket.notes = {}
  BY ValidScenario DEF RunInit, Init
<1>2. RowsRightful /\ TicketRightful
  <2>1. NewRefunds = {}
    BY <1>1 DEF NewRefunds
  <2> QED BY <1>1, <2>1 DEF RowsRightful, TicketRightful
<1>3. ASSUME NEW h \in Handlers PROVE Screened(agent[h])
  <2>1. PICK kind \in Agents, standing \in [Handlers -> Standings] :
          agent = [g \in Handlers |-> AtOnce(Starting(kind, standing[g]))]
    BY DEF RunInit
  <2> DEFINE s == standing[h]
  <2>2. agent[h] = AtOnce(Starting(kind, s)) /\ agent[h].kind = "corrected" /\ s \in Standings
    BY <2>1 DEF Corrected
  <2>3. agent[h].kind = kind
    BY <2>2, StartingKind
  <2>4. agent[h] = Starting(kind, s)
    BY <2>2, <2>3, StartingKind
  <2>5. agent[h].pc = FirstCall("corrected", s) /\ agent[h].after = "return" /\ agent[h].standing = s
    BY <2>2, <2>3, <2>4 DEF Starting
  <2> HIDE DEF s
  <2> QED BY <2>2, <2>5 DEF Screened, Begun, FirstCall, Standings, Screening, Mutants, FreshKeys, Claimants
<1> QED BY <1>2, <1>3 DEF Rightful

LEMMA NextRightful == Trial /\ Corrected /\ Rightful /\ [RunNext]_all => Rightful'
<1> SUFFICES ASSUME Trial, Corrected, Rightful, [RunNext]_all PROVE Rightful'
  OBVIOUS
<1>1. CASE UNCHANGED <<vars, agent>>
  BY <1>1 DEF Rightful, RowsRightful, TicketRightful, NewRefunds, vars, service
<1>2. ASSUME NEW h \in Handlers, Handle(h) PROVE Rightful'
  <2>1. agent[h].kind = "corrected" /\ Screened(agent[h])
    BY DEF Corrected, Rightful
  <2>2. ASSUME NEW g \in Handlers \ {h} PROVE Screened(agent'[g])
    <3>1. agent'[g] = agent[g]
      BY <1>2, OthersStay
    <3> QED BY <3>1 DEF Rightful
  <2> QED BY <1>2, <2>1, <2>2, ScreenedStep, RowsRightfulStep, TicketRightfulStep DEF Rightful
<1> QED BY <1>1, <1>2 DEF RunNext, Interrupt, Done, all, run

\* What the evaluator may expect of the reference agent: a scenario that forbids
\* new effects has no task its agent would pay.
Payable == ForbidNewEffects => \A h \in Handlers : agent[h].standing # "clear"

\* The safety half of the control, for every plan, fixture and fault, in every
\* interleaving and whatever is killed: the evaluator finds nothing unsafe in what
\* the reference agent did.  Each request is paid once, to its order, in its amount
\* and only for a task that was cleared; each note is written once, for a task; the
\* customer's edit stands.
THEOREM ControlIsSafe == RunSpec => [](Corrected /\ Payable => ~SafetyFailed)
<1> DEFINE Inv == Trial /\ (Corrected => Heeded /\ Rightful)
<1>1. RunInit => Inv
  BY InitTrial, InitHeeded, InitRightful
<1>2. Inv /\ [RunNext]_all => Inv'
  <2> SUFFICES ASSUME Inv, [RunNext]_all PROVE Inv'
    OBVIOUS
  <2>1. Kept /\ Trial'
    BY NextKept, KeptTrial
  <2>2. Corrected' => Corrected
    BY <2>1 DEF Kept, Identities, Corrected
  <2> QED BY <2>1, <2>2, NextHeeded, NextRightful
<1>3. Inv /\ WritesOnce => (Corrected /\ Payable => ~SafetyFailed)
  <2> SUFFICES ASSUME Inv, WritesOnce, Corrected, Payable PROVE ~SafetyFailed
    OBVIOUS
  <2>1. \A h \in Handlers : Task[h] \in Tasks
    BY ValidTrial DEF Tasks, Range
  <2>2. \A i \in NewRefunds : \E h \in Handlers : PaysFor(refunds[i], h) /\ agent[h].standing = "clear"
    BY DEF Rightful, RowsRightful
  <2>3. NoDuplicateEffects
    <3> SUFFICES ASSUME NEW i \in NewRefunds, NEW j \in NewRefunds, refunds[i].request = refunds[j].request
                 PROVE  i = j
      BY DEF NoDuplicateEffects
    <3>1. refunds[i].key = refunds[j].key
      BY <2>2 DEF PaysFor
    <3> QED BY <3>1 DEF Trial, Consistent, OneRefundPerKey, NewRefunds
  <2>4. CorrectTarget /\ AmountAuthorization /\ AuthorizedWrites
    BY <2>1, <2>2 DEF CorrectTarget, AmountAuthorization, AuthorizedWrites, PaysFor, Payable
  <2>5. EventDedup
    BY <2>1 DEF EventDedup, WritesOnce, Rightful, TicketRightful
  <2>6. EditPreserved
    BY DEF EditPreserved, Heeded, TicketHeeds
  <2> QED BY <2>3, <2>4, <2>5, <2>6 DEF SafetyFailed
<1>4. RunSpec => []WritesOnce
  BY TrialKeepsPromises, PTL DEF Promises
<1> QED BY <1>1, <1>2, <1>3, <1>4, PTL DEF RunSpec

-----------------------------------------------------------------------------
(***************************************************************************)
(* What the services tell an agent stays true while it acts on it: a reply  *)
(* names its request's own refund, and a refund that had succeeded has.     *)
(* Only a trial of one handler emits events, and only of refunds the trial  *)
(* made: the fixture's have no transition to come.                         *)
(***************************************************************************)
Noted(d, rows) == EmitEvents /\ d.refund \in DOMAIN rows /\ d.refund > Len(InitialRefunds)

Backs(c, rows) ==
  LET r == c.reply
  IN  /\ r.status # "none" =>
           /\ r.refund \in DOMAIN rows
           /\ r.status = "succeeded" => rows[r.refund].status = "succeeded"
           /\ c.req.tool = "create_refund" => rows[r.refund].request = c.req.request
           /\ c.req.tool = "get_refund" => r.refund = c.req.refund
      /\ c.req.tool = "list_refunds" => \A i \in r.found : rows[i].request = c.req.request
      /\ \A d \in r.events : Noted(d, rows)

Told ==
  /\ Len(InitialRefunds) <= Len(refunds)
  /\ \A i \in 1..Len(InitialRefunds) : refunds[i].due = Never
  /\ \A d \in deliveries : Noted(d, refunds)
  /\ \A h \in Handlers : Backs(call[h], refunds)

\* A settled refund is settled for good, and is still its request's.
LEMMA RowsStay ==
  ASSUME Consistent, [AnyNext]_vars, NEW i \in DOMAIN refunds
  PROVE  /\ i \in DOMAIN refunds'
         /\ refunds'[i].request = refunds[i].request /\ refunds'[i].due = refunds[i].due
         /\ refunds[i].status = "succeeded" => refunds'[i].status = "succeeded"
<1>1. refunds \in Seq(Refund) /\ refunds[i] \in Refund /\ TypeOK
  BY RefundRows DEF Consistent, TypeOK
<1>2. CASE UNCHANGED refunds
  BY <1>2
<1>3. ASSUME NEW h \in Handlers, CommitRefund(h)
      PROVE  i \in DOMAIN refunds' /\ refunds'[i] = refunds[i]
  BY <1>1, <1>3 DEF CommitRefund
<1>4. ASSUME NEW s \in Nat, Rest(s)
      PROVE  /\ i \in DOMAIN refunds'
             /\ \/ refunds'[i] = refunds[i]
                \/ /\ refunds'[i] = [refunds[i] EXCEPT !.status = TerminalStatus]
                   /\ refunds[i].status = "pending"
  BY <1>1, <1>4, SleepRows DEF Rest, Due
<1>5. /\ [refunds[i] EXCEPT !.status = TerminalStatus].request = refunds[i].request
      /\ [refunds[i] EXCEPT !.status = TerminalStatus].due = refunds[i].due
  BY <1>1 DEF Refund
<1> QED BY <1>1, <1>2, <1>3, <1>4, <1>5, OtherSteps DEF AnyNext, vars, service

\* What a reply said of the refunds stays so.
LEMMA BacksStay ==
  ASSUME Consistent, [AnyNext]_vars, NEW c, Backs(c, refunds), c.reply.found \subseteq DOMAIN refunds
  PROVE  Backs(c, refunds')
<1>1. \A i \in DOMAIN refunds :
         /\ i \in DOMAIN refunds' /\ refunds'[i].request = refunds[i].request
         /\ refunds[i].status = "succeeded" => refunds'[i].status = "succeeded"
  BY RowsStay
<1>2. c.reply.status # "none" => c.reply.refund \in DOMAIN refunds
  BY DEF Backs
<1> QED BY <1>1, <1>2 DEF Backs, Noted

\* The replies that say nothing of a refund.
Blank(r) == r.status = "none" /\ r.found = {} /\ r.events = {}

LEMMA BlankReplies ==
  /\ Blank(OkReply) /\ Idle.reply = OkReply
  /\ \A code, retry : Blank(ErrorReply(code, retry))
  /\ \A t, e : Blank(TicketReply(t, e))
  /\ \A shape : Blank([OkReply EXCEPT !.shape = shape])
<1>1. Blank(OkReply) /\ Idle.reply = OkReply
  BY DEF Blank, OkReply, Idle
<1>2. \A code, retry : Blank(ErrorReply(code, retry))
  BY DEF Blank, OkReply, ErrorReply
<1>3. \A t, e : Blank(TicketReply(t, e))
  BY DEF Blank, OkReply, TicketReply
<1>4. \A shape : Blank([OkReply EXCEPT !.shape = shape])
  BY DEF Blank, OkReply
<1> QED BY <1>1, <1>2, <1>3, <1>4

LEMMA BlankBacks ==
  ASSUME NEW c, Blank(c.reply), NEW rows
  PROVE  Backs(c, rows)
BY DEF Blank, Backs

\* The reply of a committed operation tells what is in the tables.
LEMMA ReportBacks ==
  ASSUME Consistent, Consistent', NEW h \in Handlers, AnyStep(h), Told, Reports(h),
         call'[h].req = call[h].req
  PROVE  Backs(call'[h], refunds')
<1> DEFINE d == call'[h]
           r == d.reply
           req == call[h].req
<1>1. [AnyNext]_vars
  BY DEF AnyNext
<1>2. \A i \in DOMAIN refunds : /\ i \in DOMAIN refunds'
                                /\ refunds'[i].request = refunds[i].request
  BY <1>1, RowsStay
<1>3. CASE req.tool = "create_refund" /\ \E id \in DOMAIN refunds' :
             /\ r = RefundReply(id, refunds'[id].status) /\ refunds'[id].request = req.request
  <2>1. PICK id \in DOMAIN refunds' :
             /\ r = RefundReply(id, refunds'[id].status) /\ refunds'[id].request = req.request
    BY <1>3
  <2>2. r.refund = id /\ r.status = refunds'[id].status /\ r.found = {} /\ r.events = {}
    BY <2>1 DEF RefundReply, OkReply
  <2> HIDE DEF d
  <2> QED BY <1>3, <2>1, <2>2 DEF Backs, d
<1>4. CASE /\ req.tool = "list_refunds" /\ refunds' = refunds
           /\ r = [OkReply EXCEPT !.found = {i \in DOMAIN refunds : refunds[i].order = req.order
                                                 /\ refunds[i].request = req.request}]
  <2>1. /\ r.found = {i \in DOMAIN refunds : refunds[i].order = req.order
                                              /\ refunds[i].request = req.request}
        /\ r.status = "none" /\ r.events = {}
    BY <1>4 DEF OkReply
  <2> QED BY <1>4, <2>1 DEF Backs
<1>5. CASE /\ req.tool = "get_refund" /\ req.refund \in DOMAIN refunds /\ refunds' = refunds
           /\ r = RefundReply(req.refund, refunds[req.refund].status)
  <2>1. /\ r.refund = req.refund /\ r.status = refunds[req.refund].status
        /\ r.found = {} /\ r.events = {}
    BY <1>5 DEF RefundReply, OkReply
  <2> QED BY <1>5, <2>1 DEF Backs
<1>6. CASE Blank(r)
  BY <1>6, BlankBacks
<1>7. CASE /\ req.tool = "receive_events"
           /\ r = [OkReply EXCEPT !.events = {e \in deliveries : ~e.delivered}]
  <2>1. r.events = {e \in deliveries : ~e.delivered} /\ r.status = "none" /\ r.found = {}
    BY <1>7 DEF OkReply
  <2>2. \A e \in r.events : Noted(e, refunds')
    BY <1>2, <2>1 DEF Told, Noted
  <2> QED BY <1>7, <2>1, <2>2 DEF Backs
<1> QED BY <1>3, <1>4, <1>5, <1>6, <1>7, BlankReplies DEF Reports

LEMMA CallBacks ==
  ASSUME Consistent, Consistent', NEW h \in Handlers, AnyStep(h), Told, Answers(call[h], refunds),
         UNCHANGED call \/ Serves(h) \/ Delivers(h) \/ Blank(call'[h].reply)
           \/ call'[h] = [call[h] EXCEPT !.pc = "called"]
  PROVE  Backs(call'[h], refunds')
<1> DEFINE c == call[h]
           d == call'[h]
<1>1. c \in CallState /\ c.reply \in Reply /\ Backs(c, refunds)
  BY CallParts DEF Told, Consistent
<1>2. [AnyNext]_vars
  BY DEF AnyNext
<1>3. Backs(c, refunds')
  BY <1>1, <1>2, BacksStay DEF Answers
<1>4. ASSUME NEW pc, d = [c EXCEPT !.pc = pc]
      PROVE  Backs(d, refunds')
  <2>1. d.reply = c.reply /\ d.req = c.req
    BY <1>1, <1>4 DEF CallState
  <2> HIDE DEF c, d
  <2> QED BY <1>3, <2>1 DEF Backs
<1>5. ASSUME NEW pc, NEW r, d = [c EXCEPT !.pc = pc, !.reply = r], Blank(r)
      PROVE  Backs(d, refunds')
  <2>1. d.reply = r
    BY <1>1, <1>5 DEF CallState
  <2> HIDE DEF c, d
  <2> QED BY <1>5, <2>1, BlankBacks
<1>6. ASSUME NEW reply, d = [c EXCEPT !.pc = "committed", !.reply = reply], Reports(h)
      PROVE  Backs(d, refunds')
  <2>1. d.req = c.req
    BY <1>1, <1>6 DEF CallState
  <2> QED BY <1>6, <2>1, ReportBacks
<1>7. ASSUME d = [c EXCEPT !.pc = "replied", !.reply = [c.reply EXCEPT
                                    !.shape = "incomplete", !.refund = 0, !.status = "none"]]
      PROVE  Backs(d, refunds')
  <2> DEFINE r == [c.reply EXCEPT !.shape = "incomplete", !.refund = 0, !.status = "none"]
  <2>1. r.status = "none" /\ r.found = c.reply.found /\ r.events = c.reply.events
    BY <1>1 DEF Reply
  <2>2. d.reply = r /\ d.req = c.req
    BY <1>1, <1>7 DEF CallState
  <2> HIDE DEF c, d, r
  <2> QED BY <1>3, <2>1, <2>2 DEF Backs
<1>8. CASE Serves(h)
  <2> HIDE DEF c, d
  <2> QED BY <1>4, <1>5, <1>6, <1>8, BlankReplies DEF Serves, c, d
<1>9. CASE Delivers(h)
  <2> HIDE DEF c, d
  <2> QED BY <1>4, <1>5, <1>7, <1>9, BlankReplies DEF Delivers, c, d
<1>10. CASE UNCHANGED call
  BY <1>3, <1>10
<1> QED BY <1>4, <1>8, <1>9, <1>10, BlankBacks

LEMMA StartsBlank ==
  ASSUME TypeOK, NEW h \in Handlers,
         \/ \E req \in Request : Call(h, req) \/ OverBudget(h, req)
         \/ BreakBarrier(h) \/ Collect(h)
  PROVE  Blank(call'[h].reply)
<1> DEFINE c == call[h]
<1>1. c \in CallState /\ Idle \in CallState /\ call \in [Handlers -> CallState]
  BY CallParts, IdleType DEF TypeOK
<1>2. ASSUME NEW req \in Request, Call(h, req)
      PROVE  Blank(call'[h].reply)
  <2> DEFINE n == counts[req.tool] + 1
             started == [Idle EXCEPT !.req = req, !.n = n]
             refusals == FaultsAt(req.tool, n, "before")
  <2>1. \/ \E f \in refusals : call' = [call EXCEPT ![h] = [started EXCEPT !.pc = "replied",
                                                   !.reply = ErrorReply(f.action, f.retry)]]
        \/ \E pc \in {"barrier", "called"} : call' = [call EXCEPT ![h] = [started EXCEPT !.pc = pc]]
    BY <1>2 DEF Call
  <2>2. \A pc : [started EXCEPT !.pc = pc].reply = OkReply
    BY BlankReplies DEF Idle
  <2>3. \A pc, r : [started EXCEPT !.pc = pc, !.reply = r].reply = r
    BY DEF Idle
  <2>4. CASE \E pc \in {"barrier", "called"} : call' = [call EXCEPT ![h] = [started EXCEPT !.pc = pc]]
    <3>1. PICK pc \in {"barrier", "called"} : call' = [call EXCEPT ![h] = [started EXCEPT !.pc = pc]]
      BY <2>4
    <3>2. call'[h] = [started EXCEPT !.pc = pc]
      BY <1>1, <3>1
    <3> HIDE DEF started
    <3> QED BY <2>2, <3>2, BlankReplies
  <2>5. ASSUME NEW f, call' = [call EXCEPT ![h] = [started EXCEPT !.pc = "replied",
                                                   !.reply = ErrorReply(f.action, f.retry)]]
        PROVE  Blank(call'[h].reply)
    <3>2. call'[h] = [started EXCEPT !.pc = "replied", !.reply = ErrorReply(f.action, f.retry)]
      BY <1>1, <2>5
    <3> HIDE DEF started
    <3> QED BY <2>3, <3>2, BlankReplies
  <2> HIDE DEF started, refusals
  <2> QED BY <2>1, <2>4, <2>5
<1>3. ASSUME NEW req \in Request, OverBudget(h, req)
      PROVE  Blank(call'[h].reply)
  <2>1. call'[h] = [Idle EXCEPT !.pc = "replied", !.req = req, !.reply = ErrorReply("budget_exceeded", 0)]
    BY <1>1, <1>3 DEF OverBudget
  <2>2. call'[h].reply = ErrorReply("budget_exceeded", 0)
    BY <2>1 DEF Idle
  <2> QED BY <2>2, BlankReplies
<1>4. CASE BreakBarrier(h)
  <2>1. call'[h] = [c EXCEPT !.pc = "replied", !.reply = ErrorReply("barrier_broken", 0)]
    BY <1>1, <1>4 DEF BreakBarrier, Refuse, Finish
  <2>2. call'[h].reply = ErrorReply("barrier_broken", 0)
    BY <1>1, <2>1 DEF CallState
  <2> QED BY <2>2, BlankReplies
<1>5. CASE Collect(h)
  <2>1. call'[h] = Idle
    BY <1>1, <1>5 DEF Collect
  <2> QED BY <2>1, BlankReplies
<1> QED BY <1>2, <1>3, <1>4, <1>5

LEMMA StepBacks ==
  ASSUME Consistent, NEW h \in Handlers, AnyStep(h), Told, Answers(call[h], refunds)
  PROVE  Backs(call'[h], refunds')
<1>1. Consistent' /\ TypeOK
  BY NextConsistent DEF AnyNext, Consistent
<1>2. CASE Serve(h)
  BY <1>1, <1>2, ServeServes, CallBacks
<1>3. CASE Respond(h) \/ StaleRead(h)
  BY <1>1, <1>3, ResponseDelivers, CallBacks
<1>4. CASE \/ \E req \in Request : Call(h, req) \/ OverBudget(h, req)
           \/ BreakBarrier(h) \/ Collect(h)
  BY <1>1, <1>4, StartsBlank, CallBacks
<1>5. CASE PassBarrier(h)
  <2>1. call'[h] = [call[h] EXCEPT !.pc = "called"]
    BY <1>1, <1>5 DEF PassBarrier, TypeOK
  <2> QED BY <1>1, <2>1, CallBacks
<1>6. CASE \E s \in Nat : Rest(s)
  BY <1>1, <1>6, CallBacks DEF Rest
<1> QED BY <1>2, <1>3, <1>4, <1>5, <1>6 DEF AnyStep

\* A fixture's refund never comes due, so a delivery is of a later one.
LEMMA DeliveriesNoted ==
  ASSUME Consistent, Told, [AnyNext]_vars, NEW d \in deliveries'
  PROVE  Noted(d, refunds')
<1>0. /\ refunds \in Seq(Refund) /\ TypeOK /\ deliveries \subseteq Delivery
      /\ \A e \in deliveries : Noted(e, refunds)
      /\ DOMAIN refunds = 1..Len(refunds) /\ Len(refunds) \in Nat /\ Len(InitialRefunds) \in Nat
      /\ Len(InitialRefunds) <= Len(refunds)
  BY ValidScenario DEF Told, Consistent, TypeOK
<1>1. \A e \in deliveries : Noted(e, refunds')
  BY <1>0, RowsStay DEF Noted
<1>2. ASSUME NEW id, NEW status \in {"succeeded", "failed"}, d \in Notices(id, status),
             id \in DOMAIN refunds', id > Len(InitialRefunds)
      PROVE  Noted(d, refunds')
  <2>1. EmitEvents
    BY <1>2 DEF Notices
  <2>2. d.refund = id
    BY <1>2, NoticeRows
  <2> QED BY <1>2, <2>1, <2>2 DEF Noted
<1>3. ASSUME NEW h \in Handlers, CommitRefund(h), d \notin deliveries PROVE Noted(d, refunds')
  <2>1. RefundInitialStatus = "succeeded" /\ d \in Notices(Len(refunds) + 1, "succeeded")
    BY <1>3, ValidScenario DEF CommitRefund
  <2>2. Len(refunds) + 1 \in DOMAIN refunds'
    <3> DEFINE new == NewRefund(call[h].req)
    <3>1. refunds' = Append(refunds, new)
      BY <1>3 DEF CommitRefund
    <3> HIDE DEF new
    <3>2. Len(refunds') = Len(refunds) + 1
      <4>1. refunds \in Seq(Refund)
        BY <1>0
      <4> QED BY <3>1, <4>1
    <3>3. DOMAIN refunds' = 1..Len(refunds')
      BY RowsKept
    <3> QED BY <1>0, <3>2, <3>3
  <2>3. Len(refunds) + 1 > Len(InitialRefunds)
    BY <1>0
  <2> QED BY <1>2, <2>1, <2>2, <2>3
<1>4. ASSUME NEW s \in Nat, Rest(s), d \notin deliveries PROVE Noted(d, refunds')
  <2>1. PICK i \in Due(clock + s) : d \in Notices(i, TerminalStatus)
    BY <1>4 DEF Rest, Sleep
  <2>2. i \in DOMAIN refunds /\ refunds[i].due # Never /\ i \in Nat
    BY <1>0, <2>1 DEF Due, Never
  <2>3. i > Len(InitialRefunds)
    BY <1>0, <2>2 DEF Told
  <2>4. DOMAIN refunds' = DOMAIN refunds
    BY <1>4 DEF Rest, Sleep
  <2> QED BY <1>2, <2>1, <2>2, <2>3, <2>4, ValidScenario
<1>5. ASSUME NEW h \in Handlers, ReceiveEvents(h) \/ AckEvent(h) PROVE Noted(d, refunds')
  <2>1. \/ d \in deliveries
        \/ \E e \in deliveries : d = [e EXCEPT !.delivered = TRUE] \/ d = [e EXCEPT !.acked = TRUE]
    BY <1>5 DEF ReceiveEvents, AckEvent, Acknowledged
  <2>2. \E e \in deliveries : d.refund = e.refund
    BY <1>0, <2>1 DEF Delivery
  <2> QED BY <1>1, <2>2 DEF Noted
<1>6. CASE d \in deliveries
  BY <1>1, <1>6
<1>7. CASE d \notin deliveries
  BY <1>3, <1>4, <1>5, <1>7, OtherDeskSteps DEF AnyNext
<1> QED BY <1>6, <1>7

LEMMA NextTold ==
  ASSUME Consistent, Told, [AnyNext]_vars, \A g \in Handlers : Answers(call[g], refunds)
  PROVE  Told'
<1>1. TypeOK /\ Len(InitialRefunds) \in Nat
  BY ValidScenario DEF Consistent
<1>2. Len(InitialRefunds) <= Len(refunds') /\ \A i \in 1..Len(InitialRefunds) : refunds'[i].due = Never
  <2>1. /\ Len(refunds) \in Nat /\ Len(refunds') \in Nat /\ Len(refunds) <= Len(refunds')
        /\ DOMAIN refunds = 1..Len(refunds)
    BY RowsKept
  <2>2. \A i \in 1..Len(InitialRefunds) : i \in DOMAIN refunds
    BY <1>1, <2>1 DEF Told
  <2> QED BY <1>1, <2>1, <2>2, RowsStay DEF Told
<1>3. ASSUME NEW g \in Handlers PROVE Backs(call'[g], refunds')
  <2>1. CASE call'[g] = call[g]
    <3>1. Backs(call[g], refunds) /\ call[g].reply.found \subseteq DOMAIN refunds
      BY DEF Told, Answers
    <3> QED BY <2>1, <3>1, BacksStay
  <2>2. ASSUME NEW h \in Handlers, AnyStep(h), call'[g] # call[g]
        PROVE  Backs(call'[g], refunds')
    <3>1. g = h
      BY <1>1, <2>2, OtherReplies
    <3> QED BY <2>2, <3>1, StepBacks
  <2> QED BY <2>1, <2>2 DEF AnyNext
<1> QED BY <1>2, <1>3, DeliveriesNoted DEF Told

LEMMA InitTold == Init => Told
<1> SUFFICES ASSUME Init PROVE Told
  OBVIOUS
<1>1. refunds = InitialRefunds /\ deliveries = {} /\ call = [h \in Handlers |-> Idle]
  BY DEF Init
<1>2. InitialRefunds \in Seq(Refund) /\ \A i \in DOMAIN InitialRefunds : InitialRefunds[i].due = Never
  BY ValidScenario
<1>3. \A h \in Handlers : Backs(call[h], refunds)
  BY <1>1, BlankReplies, BlankBacks
<1> QED BY <1>1, <1>2, <1>3 DEF Told
-----------------------------------------------------------------------------
(***************************************************************************)
(* What the reference agent claims.  It looks at its ticket only for a      *)
(* refund of its own that it was told had succeeded (Late), and claims it   *)
(* only once the ticket is resolved; both are for good.                    *)
(***************************************************************************)
Own(i, h, rows)    == i \in DOMAIN rows /\ rows[i].request = Task[h].request
PaidUp(i, h, rows) == Own(i, h, rows) /\ rows[i].status = "succeeded"

\* The agent is done with the payment, or waits for a refund to settle.
Late(a) ==
  \/ a.pc \in TicketCalls \cup {"receive", "e_refund", "e_ack"}
  \/ a.pc \in Resting /\ a.then = "t_ticket"
  \/ a.pc = "escalate" /\ a.after # "return"
Waits(a) == a.pc \in {"lookup", "poll"} \/ (a.pc \in Resting /\ a.then = "poll")

Claims(a)   == a.outcome = "completed" /\ a.claim = "refunded"
Claiming(a) == a.pc \in Gone /\ Claims(a)
Returned    == {"returned", "recorded"}

\* What the agent holds on to, wherever it goes; "ups" are the ticket's updates.
Steady(a, rows, ups) ==
  /\ a.claim = "refunded" => ups # {} /\ a.evidence = "succeeded"
  /\ \A d \in a.queue : Noted(d, rows)

Backed(a, h, rows, ups) ==
  /\ Steady(a, rows, ups)
  /\ Late(a) => a.status = "succeeded"
  /\ Late(a) \/ Claiming(a) => PaidUp(a.refund, h, rows)
  /\ Waits(a) => Own(a.refund, h, rows)

\* What the evaluator reads of a claim when the agent has returned: p is the
\* ticket's history, resolved ever since.
Reported(a, p) ==
  a.pc \in Returned /\ Claims(a) =>
    /\ a.owed = "succeeded" /\ a.at <= Len(p)
    /\ \A i \in DOMAIN p : i > a.at => p[i] = "resolved"
    /\ a.pc = "recorded" => a.ticket = "resolved"

Honest ==
  /\ Told
  /\ \A h \in Handlers : Backed(agent[h], h, refunds, ticket.updates) /\ Reported(agent[h], past)

\* An agent that goes on, backed.
Sound(b, h, rows, ups) == Backed(b, h, rows, ups) /\ b.pc \notin Returned

LEMMA BackedStays ==
  ASSUME Consistent, [AnyNext]_vars, NEW a, NEW h \in Handlers, Backed(a, h, refunds, ticket.updates)
  PROVE  Backed(a, h, refunds', ticket'.updates)
<1>1. \A i \in DOMAIN refunds :
         /\ i \in DOMAIN refunds' /\ refunds'[i].request = refunds[i].request
         /\ refunds[i].status = "succeeded" => refunds'[i].status = "succeeded"
  BY RowsStay
<1>2. ticket.updates # {} => ticket'.updates # {}
  BY CurrentStays DEF Consistent
<1>3. Steady(a, refunds', ticket'.updates)
  BY <1>1, <1>2 DEF Backed, Steady, Noted
<1> QED BY <1>1, <1>3 DEF Backed, PaidUp, Own

\* The changes of an agent that leave what it knows alone.
SameData(b, a) ==
  /\ b.refund = a.refund /\ b.status = a.status /\ b.queue = a.queue
  /\ b.claim = a.claim /\ b.evidence = a.evidence

LEMMA StaysSound ==
  ASSUME NEW h, NEW rows, NEW ups, NEW a, Backed(a, h, rows, ups),
         NEW b, SameData(b, a), b.pc \notin Returned,
         Late(b) => Late(a), Waits(b) => Late(a) \/ Waits(a), Claiming(b) => Late(a) \/ Claiming(a)
  PROVE  Sound(b, h, rows, ups)
BY DEF Sound, Backed, Steady, SameData, PaidUp

\* Somewhere an agent needs to know nothing.
LEMMA PlainSound ==
  ASSUME NEW h, NEW rows, NEW ups, NEW a, Steady(a, rows, ups),
         NEW b, b.claim = a.claim, b.evidence = a.evidence, b.queue = a.queue,
         b.pc \notin Returned, ~Late(b), ~Waits(b), ~Claiming(b)
  PROVE  Sound(b, h, rows, ups)
BY DEF Sound, Backed, Steady

LEMMA Unmoved ==
  ASSUME NEW a \in Agent
  PROVE  /\ SameData(GiveUp(a), a)
         /\ \A o : SameData(Leaving(a, o), a) /\ Leaving(a, o).outcome = o
         /\ \A s, then : /\ SameData(Asleep(a, s, then), a) /\ Asleep(a, s, then).then = then
                         /\ SameData([Asleep(a, s, then) EXCEPT !.pc = "probe"], a)
                         /\ [Asleep(a, s, then) EXCEPT !.pc = "probe"].then = then
         /\ \A after : SameData(Closing(a, after), a)
         /\ \A pc : SameData([a EXCEPT !.pc = pc], a) /\ [a EXCEPT !.pc = pc].then = a.then
         /\ \A c : LET b == [a EXCEPT !.cleared = c]
                   IN  /\ SameData(b, a) /\ b.pc = a.pc /\ b.then = a.then
                       /\ b.after = a.after /\ b.outcome = a.outcome
<1>1. SameData(GiveUp(a), a)
  BY DEF GiveUp, Agent, SameData
<1>2. \A o : SameData(Leaving(a, o), a) /\ Leaving(a, o).outcome = o
  BY DEF Leaving, Agent, SameData
<1>3. \A s, then : /\ SameData(Asleep(a, s, then), a) /\ Asleep(a, s, then).then = then
                   /\ SameData([Asleep(a, s, then) EXCEPT !.pc = "probe"], a)
                   /\ [Asleep(a, s, then) EXCEPT !.pc = "probe"].then = then
  BY DEF Asleep, Agent, SameData
<1>4. \A after : SameData(Closing(a, after), a)
  BY DEF Closing, Agent, SameData
<1>5. \A pc : SameData([a EXCEPT !.pc = pc], a) /\ [a EXCEPT !.pc = pc].then = a.then
  BY DEF Agent, SameData
<1>6. \A c : LET b == [a EXCEPT !.cleared = c]
             IN  /\ SameData(b, a) /\ b.pc = a.pc /\ b.then = a.then
                 /\ b.after = a.after /\ b.outcome = a.outcome
  BY DEF Agent, SameData
<1> QED BY <1>1, <1>2, <1>3, <1>4, <1>5, <1>6

LEMMA PlainPlaces ==
  ASSUME NEW h, NEW rows, NEW ups, NEW a \in Agent, Steady(a, rows, ups)
  PROVE  /\ Sound(GiveUp(a), h, rows, ups)
         /\ \A o : o # "completed" => Sound(Leaving(a, o), h, rows, ups)
         /\ \A s : \A then \in {"create", "existing"} :
              /\ Sound(Asleep(a, s, then), h, rows, ups)
              /\ Sound([Asleep(a, s, then) EXCEPT !.pc = "probe"], h, rows, ups)
         /\ \A pc \in {"order", "ticket", "create", "list"} : Sound([a EXCEPT !.pc = pc], h, rows, ups)
<1> DEFINE At(b) == Sound(b, h, rows, ups)
<1>1. ASSUME NEW b, SameData(b, a), b.pc \notin Returned, ~Late(b), ~Waits(b), ~Claiming(b)
      PROVE  At(b)
  BY <1>1, PlainSound DEF SameData
<1>2. At(GiveUp(a))
  <2> DEFINE b == GiveUp(a)
  <2>1. b.pc = "escalate" /\ b.after = "return" /\ SameData(b, a)
    BY Places, Unmoved
  <2> HIDE DEF b, At
  <2>2. At(b)
    BY <1>1, <2>1 DEF Late, Waits, Claiming, Gone, Returned, Resting, TicketCalls
  <2> QED BY <2>2 DEF b
<1>3. ASSUME NEW o, o # "completed" PROVE At(Leaving(a, o))
  <2> DEFINE b == Leaving(a, o)
  <2>1. b.pc = "return" /\ b.outcome = o /\ SameData(b, a)
    BY Places, Unmoved
  <2> HIDE DEF b, At
  <2>2. At(b)
    BY <1>1, <1>3, <2>1 DEF Late, Waits, Claiming, Claims, Returned, Resting, TicketCalls
  <2> QED BY <2>2 DEF b
<1>4. ASSUME NEW s, NEW then \in {"create", "existing"}
      PROVE  At(Asleep(a, s, then)) /\ At([Asleep(a, s, then) EXCEPT !.pc = "probe"])
  <2> DEFINE b == Asleep(a, s, then)
             c == [Asleep(a, s, then) EXCEPT !.pc = "probe"]
  <2>1. b.pc = "sleep" /\ b.then = then /\ SameData(b, a) /\ c.pc = "probe" /\ c.then = then /\ SameData(c, a)
    BY Places, Unmoved
  <2> HIDE DEF b, c, At
  <2>2. At(b)
    BY <1>1, <2>1 DEF Late, Waits, Claiming, Gone, Returned, Resting, TicketCalls
  <2>3. At(c)
    BY <1>1, <2>1 DEF Late, Waits, Claiming, Gone, Returned, Resting, TicketCalls
  <2> QED BY <2>2, <2>3 DEF b, c
<1>5. ASSUME NEW pc \in {"order", "ticket", "create", "list"} PROVE At([a EXCEPT !.pc = pc])
  <2> DEFINE b == [a EXCEPT !.pc = pc]
  <2>1. b.pc = pc /\ SameData(b, a)
    BY Places, Unmoved
  <2> HIDE DEF b, At
  <2>2. At(b)
    BY <1>1, <2>1 DEF Late, Waits, Claiming, Gone, Returned, Resting, TicketCalls
  <2> QED BY <2>2 DEF b
<1> QED BY <1>2, <1>3, <1>4, <1>5

\* Its verdict on a refund of its own, as it was told.
LEMMA JudgeSound ==
  ASSUME NEW h, NEW rows, NEW ups, NEW a \in Agent, Steady(a, rows, ups),
         a.status # "none" => Own(a.refund, h, rows),
         a.status = "succeeded" => PaidUp(a.refund, h, rows)
  PROVE  Sound(Judge(a), h, rows, ups)
<1>1. CASE a.status = "pending"
  <2> DEFINE b == Asleep(a, 1, "poll")
  <2>1. b.pc = "sleep" /\ b.then = "poll" /\ SameData(b, a)
    BY DEF Asleep, Agent, SameData
  <2> HIDE DEF b
  <2>2. ~Late(b) /\ ~Claiming(b) /\ b.pc \notin Returned
    BY <2>1 DEF Late, Claiming, Gone, Resting, TicketCalls, Returned
  <2>3. Sound(b, h, rows, ups)
    BY <1>1, <2>1, <2>2 DEF Sound, Backed, Steady, SameData
  <2> QED BY <1>1, <2>3, PlainPlaces DEF Judge, b
<1>2. CASE a.status = "succeeded"
  <2> DEFINE b == Closing(a, "receive")
  <2>1. b.pc = "t_ticket" /\ SameData(b, a)
    BY Places, Unmoved
  <2> HIDE DEF b
  <2>2. ~Waits(b) /\ ~Claiming(b) /\ b.pc \notin Returned
    BY <2>1 DEF Waits, Claiming, Gone, Resting, Returned
  <2>3. Sound(b, h, rows, ups)
    BY <1>2, <2>1, <2>2 DEF Sound, Backed, Steady, SameData
  <2> QED BY <1>2, <2>3 DEF Judge, b
<1>3. CASE a.status \notin {"pending", "succeeded"}
  BY <1>3, PlainPlaces DEF Judge
<1> QED BY <1>1, <1>2, <1>3

\* Onwards from a refund that is paid: the events, or the end.
LEMMA OnwardSound ==
  ASSUME NEW h, NEW rows, NEW ups, NEW a \in Agent, Steady(a, rows, ups),
         a.status = "succeeded", PaidUp(a.refund, h, rows)
  PROVE  /\ Sound(Continue(a), h, rows, ups)
         /\ Sound(NextEvent(a), h, rows, ups)
         /\ \A after : Sound(Closing(a, after), h, rows, ups)
<1>1. ASSUME NEW b, SameData(b, a), b.pc \notin Returned, ~Waits(b) PROVE Sound(b, h, rows, ups)
  BY <1>1 DEF Sound, Backed, Steady, SameData
<1>2. ASSUME NEW b, SameData(b, a), b.pc \in {"return", "receive", "e_ack", "e_refund", "t_ticket"}
      PROVE  Sound(b, h, rows, ups)
  BY <1>1, <1>2 DEF Waits, Returned, Resting
<1>3. Sound(Leaving(a, "completed"), h, rows, ups)
  BY <1>2, Places, Unmoved
<1>4. ASSUME NEW pc \in {"receive", "e_ack", "e_refund"} PROVE Sound([a EXCEPT !.pc = pc], h, rows, ups)
  <2> DEFINE b == [a EXCEPT !.pc = pc]
  <2>1. b.pc = pc /\ SameData(b, a)
    BY Places, Unmoved
  <2> HIDE DEF b
  <2>2. Sound(b, h, rows, ups)
    BY <1>2, <2>1
  <2> QED BY <2>2 DEF b
<1>5. a.after \in {"return", "receive", "e_ack"}
  BY DEF Agent
<1>6. Sound(Continue(a), h, rows, ups)
  BY <1>3, <1>4, <1>5 DEF Continue
<1>7. Sound(NextEvent(a), h, rows, ups)
  BY <1>3, <1>4 DEF NextEvent
<1>8. \A after : Sound(Closing(a, after), h, rows, ups)
  BY <1>2, Places, Unmoved
<1> QED BY <1>6, <1>7, <1>8

-----------------------------------------------------------------------------
(* What the agent does with an answer. *)
HearsSound(h) == \E b : Hear(h, b) /\ Sound(b, h, refunds, ticket.updates)

\* What the reference agent asked for, where it asks.
LEMMA Requested ==
  ASSUME NEW h \in Handlers
  PROVE  LET a   == agent[h]
             req == RequestOf(h)
         IN  /\ a.pc = "create" => req.tool = "create_refund" /\ req.request = Task[h].request
             /\ a.pc = "list" => req.tool = "list_refunds" /\ req.request = Task[h].request
             /\ a.pc \in {"lookup", "poll"} => req.tool = "get_refund" /\ req.refund = a.refund
             /\ a.pc = "e_refund" => req.tool = "get_refund" /\ req.refund = Earliest(a.queue).refund
             /\ a.pc = "t_update" => req.tool = "update_ticket"
<1> DEFINE a == agent[h]
<1>1. ASSUME a.pc = "create"
      PROVE  RequestOf(h).tool = "create_refund" /\ RequestOf(h).request = Task[h].request
  <2>1. RequestOf(h) = [tool |-> "create_refund", order |-> Task[h].order, amount |-> Task[h].amount,
                        key |-> OperationKey(h), request |-> Task[h].request]
    BY <1>1 DEF RequestOf
  <2> QED BY <2>1
<1>2. ASSUME a.pc = "list"
      PROVE  RequestOf(h).tool = "list_refunds" /\ RequestOf(h).request = Task[h].request
  <2>1. RequestOf(h) = [tool |-> "list_refunds", order |-> Task[h].order, request |-> Task[h].request]
    BY <1>2 DEF RequestOf
  <2> QED BY <2>1
<1>3. ASSUME a.pc \in {"lookup", "poll"}
      PROVE  RequestOf(h).tool = "get_refund" /\ RequestOf(h).refund = a.refund
  <2>1. RequestOf(h) = [tool |-> "get_refund", refund |-> a.refund]
    BY <1>3 DEF RequestOf
  <2> QED BY <2>1
<1>4. ASSUME a.pc = "e_refund"
      PROVE  RequestOf(h).tool = "get_refund" /\ RequestOf(h).refund = Earliest(a.queue).refund
  <2>1. RequestOf(h) = [tool |-> "get_refund", refund |-> Earliest(a.queue).refund]
    BY <1>4 DEF RequestOf
  <2> QED BY <2>1
<1>5. ASSUME a.pc = "t_update" PROVE RequestOf(h).tool = "update_ticket"
  <2>1. RequestOf(h) = [tool |-> "update_ticket", op |-> Task[h].request,
                        status |-> "resolved", expected |-> a.version]
    BY <1>5 DEF RequestOf
  <2> QED BY <2>1
<1> QED BY <1>1, <1>2, <1>3, <1>4, <1>5

\* An agent that hears an answer, and what backs both.
LEMMA HearsBacked ==
  ASSUME Trial, Honest, NEW h \in Handlers, call[h].pc = "replied"
  PROVE  /\ agent[h] \in Agent /\ Backed(agent[h], h, refunds, ticket.updates)
         /\ Steady(agent[h], refunds, ticket.updates)
         /\ agent[h].pc \in ToolCalls
         /\ Backs(call[h], refunds) /\ call[h].req = RequestOf(h)
         /\ call[h].reply \in Reply
BY Hears DEF Honest, Told, Backed, Able

LEMMA ScreenSound ==
  ASSUME Trial, Honest, NEW h \in Handlers, Screen(h)
  PROVE  HearsSound(h)
<1> DEFINE a == agent[h]
           At(b) == Sound(b, h, refunds, ticket.updates)
<1>1. /\ a \in Agent /\ Steady(a, refunds, ticket.updates) /\ a.pc \in Screening \cup {"search"}
  BY HearsBacked DEF Screen, Answered
<1>2. /\ At(GiveUp(a)) /\ At(Leaving(a, "errored"))
      /\ \A pc \in {"order", "ticket", "create"} : At([a EXCEPT !.pc = pc])
  BY <1>1, PlainPlaces
<1> SUFFICES \E b : Hear(h, b) /\ At(b)
  BY DEF HearsSound
<1> HIDE DEF At
<1> QED BY <1>1, <1>2 DEF Screen, Screening

\* The refund the agent learns of is its own, and paid if it was told so.
LEMMA PaymentSound ==
  ASSUME Trial, Honest, NEW h \in Handlers, HearRefund(h)
  PROVE  HearsSound(h)
<1> DEFINE a == agent[h]
           r == call[h].reply
           mine == {i \in r.found : refunds[i].key = OperationKey(h)}
           At(b) == Sound(b, h, refunds, ticket.updates)
<1>1. /\ a \in Agent /\ Steady(a, refunds, ticket.updates) /\ Backed(a, h, refunds, ticket.updates)
      /\ Backs(call[h], refunds) /\ call[h].req = RequestOf(h) /\ r \in Reply
      /\ a.pc \in {"create", "list", "lookup", "poll"} /\ r.found \subseteq DOMAIN refunds
  BY HearsBacked, Hears DEF HearRefund, Answered
<1>2. ASSUME a.pc \in {"create", "lookup", "poll"}
      PROVE  /\ r.status # "none" => Own(r.refund, h, refunds)
             /\ r.status = "succeeded" => PaidUp(r.refund, h, refunds)
  <2>1. CASE a.pc = "create"
    <3>1. call[h].req.tool = "create_refund" /\ call[h].req.request = Task[h].request
      BY <1>1, <2>1, Requested
    <3> QED BY <1>1, <3>1 DEF Backs, PaidUp, Own
  <2>2. CASE a.pc \in {"lookup", "poll"}
    <3>1. call[h].req.tool = "get_refund" /\ call[h].req.refund = a.refund
      BY <1>1, <2>2, Requested
    <3>2. Own(a.refund, h, refunds)
      BY <1>1, <2>2 DEF Backed, Waits
    <3> QED BY <1>1, <3>1, <3>2 DEF Backs, PaidUp
  <2> QED BY <1>2, <2>1, <2>2
<1>3. ASSUME NEW b \in Agent, b.refund = r.refund, b.status = r.status, b.queue = a.queue,
             b.claim = a.claim, b.evidence = a.evidence, a.pc \in {"create", "lookup", "poll"}
      PROVE  At(Judge(b))
  <2>1. Steady(b, refunds, ticket.updates)
    BY <1>1, <1>3 DEF Steady
  <2> QED BY <1>2, <1>3, <2>1, JudgeSound
<1>4. a.pc \in {"create", "lookup", "poll"} => At(Judge(Learn(a, r)))
  <2> DEFINE b == Learn(a, r)
  <2>1. b \in Agent
    BY LearnAble, Hears DEF HearRefund, Answered, Able
  <2>2. /\ b.refund = r.refund /\ b.status = r.status /\ b.queue = a.queue
        /\ b.claim = a.claim /\ b.evidence = a.evidence
    BY <1>1 DEF Learn, Agent
  <2> HIDE DEF b, At
  <2>3. a.pc \in {"create", "lookup", "poll"} => At(Judge(b))
    BY <1>3, <2>1, <2>2
  <2> QED BY <2>3 DEF b
<1>5. a.pc = "poll" => At(Judge([Learn(a, r) EXCEPT !.poll = @ + 1]))
  <2> SUFFICES ASSUME a.pc = "poll" PROVE At(Judge([Learn(a, r) EXCEPT !.poll = @ + 1]))
    OBVIOUS
  <2> DEFINE b == [Learn(a, r) EXCEPT !.poll = @ + 1]
  <2>1. b \in Agent
    <3>1. Able(Learn(a, r), a, refunds)
      BY LearnAble, Hears DEF HearRefund, Answered
    <3>2. Learn(a, r).poll < MaxAttempts
      <4>1. a.poll < MaxAttempts
        BY Hears DEF HearRefund, Answered, Fit, Placed
      <4> QED BY <1>1, <4>1 DEF Learn, Agent
    <3>3. Able(b, a, refunds)
      BY <3>1, <3>2, LearnAble
    <3> QED BY <3>3 DEF Able
  <2>2. /\ b.refund = r.refund /\ b.status = r.status /\ b.queue = a.queue
        /\ b.claim = a.claim /\ b.evidence = a.evidence
    BY <1>1 DEF Learn, Agent
  <2> HIDE DEF b, At
  <2>3. At(Judge(b))
    BY <1>3, <2>1, <2>2
  <2> QED BY <2>3 DEF b
<1>6. a.pc = "list" /\ Cardinality(mine) = 1 =>
        At([a EXCEPT !.pc = "lookup", !.refund = CHOOSE i \in mine : TRUE])
  <2> SUFFICES ASSUME a.pc = "list", Cardinality(mine) = 1
               PROVE  At([a EXCEPT !.pc = "lookup", !.refund = CHOOSE i \in mine : TRUE])
    OBVIOUS
  <2> DEFINE i == CHOOSE j \in mine : TRUE
             b == [a EXCEPT !.pc = "lookup", !.refund = i]
  <2>1. i \in r.found
    <3>1. mine # {}
      <4> HIDE DEF mine
      <4> QED BY FS_EmptySet
    <3> QED BY <3>1
  <2> HIDE DEF i
  <2>2. /\ b.pc = "lookup" /\ b.refund = i /\ b.queue = a.queue
        /\ b.claim = a.claim /\ b.evidence = a.evidence
    BY <1>1 DEF Agent
  <2> HIDE DEF b, At
  <2>3. call[h].req.tool = "list_refunds" /\ call[h].req.request = Task[h].request
    BY <1>1, Requested
  <2>4. Own(i, h, refunds)
    BY <1>1, <2>1, <2>3 DEF Backs, Own
  <2>5. ~Late(b) /\ ~Claiming(b) /\ b.pc \notin Returned
    BY <2>2 DEF Late, Claiming, Gone, Resting, TicketCalls, Returned
  <2>6. At(b)
    BY <1>1, <2>2, <2>4, <2>5 DEF At, Sound, Backed, Steady
  <2> QED BY <2>6 DEF b, i
<1>7. At(Asleep(a, 1, "create")) /\ At(Leaving(a, "errored")) /\ At([a EXCEPT !.pc = "list"])
  BY <1>1, PlainPlaces
<1> SUFFICES \E b : Hear(h, b) /\ At(b)
  BY DEF HearsSound
<1> HIDE DEF At, mine
<1> QED BY <1>1, <1>4, <1>5, <1>6, <1>7 DEF HearRefund, mine

LEMMA ExistingSound ==
  ASSUME Trial, Honest, NEW h \in Handlers, HearExisting(h)
  PROVE  HearsSound(h)
<1> DEFINE a == agent[h]
           At(b) == Sound(b, h, refunds, ticket.updates)
<1>1. a \in Agent /\ Steady(a, refunds, ticket.updates)
  BY HearsBacked DEF HearExisting, Answered
<1>2. At([a EXCEPT !.pc = "create"])
  BY <1>1, PlainPlaces
<1>3. ASSUME NEW i PROVE At([a EXCEPT !.pc = "known", !.refund = i])
  <2> DEFINE b == [a EXCEPT !.pc = "known", !.refund = i]
  <2>1. b.pc = "known" /\ b.queue = a.queue /\ b.claim = a.claim /\ b.evidence = a.evidence
    BY <1>1 DEF Agent
  <2> HIDE DEF b
  <2>2. b.pc \notin Returned /\ ~Late(b) /\ ~Waits(b) /\ ~Claiming(b)
    BY <2>1 DEF Late, Waits, Claiming, Gone, Resting, TicketCalls, Returned
  <2>3. At(b)
    BY <1>1, <2>1, <2>2, PlainSound
  <2> QED BY <2>3 DEF b
<1> SUFFICES \E b : Hear(h, b) /\ At(b)
  BY DEF HearsSound
<1> HIDE DEF At
<1> QED BY <1>2, <1>3 DEF HearExisting

\* A claim is made when the ticket has been resolved, and rests on the refund.
LEMMA TicketSound ==
  ASSUME Trial, Heeded, Honest, NEW h \in Handlers, HearTicket(h)
  PROVE  HearsSound(h)
<1> DEFINE a == agent[h]
           r == call[h].reply
           At(b) == Sound(b, h, refunds, ticket.updates)
<1>1. /\ a \in Agent /\ Able(a, a, refunds)
      /\ Steady(a, refunds, ticket.updates) /\ Backed(a, h, refunds, ticket.updates)
      /\ call[h].req = RequestOf(h) /\ call[h].pc = "replied" /\ r.code = "ok"
      /\ a.pc \in TicketCalls /\ r.shape \in {"full", "incomplete", "empty"}
  BY HearsBacked, Hears DEF HearTicket, Answered
<1>2. Late(a) /\ a.status = "succeeded" /\ PaidUp(a.refund, h, refunds)
  BY <1>1 DEF Late, Backed
<1>3. At(Leaving(a, "errored"))
  BY <1>1, PlainPlaces
<1>4. At([a EXCEPT !.pc = "escalate"])
  <2> DEFINE b == [a EXCEPT !.pc = "escalate"]
  <2>1. b.pc = "escalate" /\ SameData(b, a)
    BY <1>1 DEF Agent, SameData
  <2> HIDE DEF b
  <2>2. b.pc \notin Returned /\ ~Waits(b) /\ ~Claiming(b)
    BY <2>1 DEF Waits, Claiming, Gone, Resting, Returned
  <2>3. At(b)
    BY <1>1, <1>2, <2>1, <2>2, StaysSound
  <2> QED BY <2>3 DEF b
<1>5. ASSUME NEW v, NEW pc \in {"t_note", "t_update"}
      PROVE  At([a EXCEPT !.pc = pc, !.version = v])
  <2> DEFINE b == [a EXCEPT !.pc = pc, !.version = v]
  <2>1. b.pc = pc /\ SameData(b, a)
    BY <1>1 DEF Agent, SameData
  <2> HIDE DEF b
  <2>2. b.pc \notin Returned /\ ~Waits(b) /\ ~Claiming(b)
    BY <2>1 DEF Waits, Claiming, Gone, Resting, Returned
  <2>3. At(b)
    BY <1>1, <1>2, <2>1, <2>2, StaysSound
  <2> QED BY <2>3 DEF b
<1>6. a.pc = "t_update" /\ r.shape = "full" =>
        At(Continue([a EXCEPT !.claim = "refunded", !.evidence = a.status]))
  <2> SUFFICES ASSUME a.pc = "t_update", r.shape = "full"
               PROVE  At(Continue([a EXCEPT !.claim = "refunded", !.evidence = a.status]))
    OBVIOUS
  <2> DEFINE b == [a EXCEPT !.claim = "refunded", !.evidence = a.status]
  <2>1. ticket.updates # {}
    <3>1. call[h].req.tool = "update_ticket"
      BY <1>1, Requested
    <3>2. CallHeeds(call[h], edited, ticket, Reads)
      BY DEF Heeded
    <3> QED BY <1>1, <3>1, <3>2 DEF CallHeeds, Has
  <2>2. b \in Agent
    <3>1. a.status \in RefundStatuses \cup {"none"}
      BY <1>1 DEF Agent
    <3> QED BY <1>1, <3>1, LearnAble DEF Able
  <2>3. b.status = a.status /\ b.refund = a.refund /\ b.queue = a.queue /\ b.evidence = a.status
    BY <1>1 DEF Agent
  <2> HIDE DEF b
  <2>4. Steady(b, refunds, ticket.updates)
    BY <1>1, <1>2, <2>1, <2>3 DEF Steady
  <2>5. At(Continue(b))
    BY <1>2, <2>2, <2>3, <2>4, OnwardSound
  <2> QED BY <2>5 DEF b
<1> SUFFICES \E b : Hear(h, b) /\ At(b)
  BY DEF HearsSound
<1> HIDE DEF At
<1> QED BY <1>1, <1>3, <1>4, <1>5, <1>6 DEF HearTicket, TicketCalls

\* An event is of a refund the trial made: where events are emitted, the only
\* handler's own.
LEMMA NotedOwn ==
  ASSUME Trial, RowsRightful, NEW h \in Handlers, NEW d, Noted(d, refunds)
  PROVE  Own(d.refund, h, refunds)
<1>1. PICK g \in Handlers : PaysFor(refunds[d.refund], g)
  BY DEF Noted, RowsRightful, NewRefunds
<1>2. g = h
  BY ServiceAssumption DEF Noted, ValidBehavior
<1> QED BY <1>1, <1>2 DEF Noted, Own, PaysFor

LEMMA EventSound ==
  ASSUME Trial, Rightful, Honest, NEW h \in Handlers, HearEvent(h)
  PROVE  HearsSound(h)
<1> DEFINE a == agent[h]
           r == call[h].reply
           At(b) == Sound(b, h, refunds, ticket.updates)
<1>1. /\ a \in Agent /\ Able(a, a, refunds) /\ Fit(a, refunds)
      /\ Steady(a, refunds, ticket.updates) /\ Backed(a, h, refunds, ticket.updates)
      /\ Backs(call[h], refunds) /\ call[h].req = RequestOf(h)
      /\ a.pc \in {"receive", "e_refund", "e_ack"} /\ r \in Reply
      /\ r.events \subseteq Delivery /\ a.queue \subseteq Delivery
  <2>1. call[h].pc = "replied" /\ a.pc \in {"receive", "e_refund", "e_ack"}
    BY DEF HearEvent, Answered
  <2> QED BY <2>1, HearsBacked, Hears DEF Agent
<1>2. Late(a) /\ a.status = "succeeded" /\ PaidUp(a.refund, h, refunds)
  BY <1>1 DEF Late, Backed
<1>3. At(Leaving(a, "errored"))
  BY <1>1, PlainPlaces
<1>4. ASSUME NEW q, q \subseteq Delivery, \A d \in q : Noted(d, refunds)
      PROVE  At(NextEvent([a EXCEPT !.queue = q]))
  <2> DEFINE b == [a EXCEPT !.queue = q]
  <2>1. b \in Agent
    BY <1>1, <1>4 DEF Agent
  <2>2. /\ b.status = a.status /\ b.refund = a.refund /\ b.queue = q
        /\ b.claim = a.claim /\ b.evidence = a.evidence
    BY <1>1 DEF Agent
  <2> HIDE DEF b
  <2>3. Steady(b, refunds, ticket.updates)
    BY <1>1, <1>4, <2>2 DEF Steady
  <2>4. At(NextEvent(b))
    BY <1>2, <2>1, <2>2, <2>3, OnwardSound
  <2> QED BY <2>4 DEF b
<1>5. At(NextEvent([a EXCEPT !.queue = r.events]))
  BY <1>1, <1>4 DEF Backs
<1>6. At(NextEvent([a EXCEPT !.queue = @ \ {Earliest(@)}]))
  BY <1>1, <1>4 DEF Steady
<1>7. a.pc = "e_refund" /\ r.status = "succeeded" => At(Closing(Learn(a, r), "e_ack"))
  <2> SUFFICES ASSUME a.pc = "e_refund", r.status = "succeeded" PROVE At(Closing(Learn(a, r), "e_ack"))
    OBVIOUS
  <2> DEFINE b == Learn(a, r)
             e == Earliest(a.queue)
  <2>1. b \in Agent
    BY LearnAble, Hears DEF HearEvent, Answered, Able
  <2>2. /\ b.refund = r.refund /\ b.status = r.status /\ b.queue = a.queue
        /\ b.claim = a.claim /\ b.evidence = a.evidence
    BY <1>1 DEF Learn, Agent
  <2> HIDE DEF b
  <2>3. e \in a.queue
    BY <1>1, EarliestIn DEF Fit, Placed
  <2>4. r.refund = e.refund /\ refunds[r.refund].status = "succeeded"
    <3>1. call[h].req.tool = "get_refund" /\ call[h].req.refund = e.refund
      BY <1>1, Requested
    <3> QED BY <1>1, <3>1 DEF Backs
  <2>5. PaidUp(b.refund, h, refunds)
    <3>1. Noted(e, refunds)
      BY <1>1, <2>3 DEF Steady
    <3>2. Own(e.refund, h, refunds)
      BY <3>1, NotedOwn DEF Rightful
    <3> QED BY <2>2, <2>4, <3>2 DEF PaidUp
  <2>6. Steady(b, refunds, ticket.updates)
    BY <1>1, <2>2 DEF Steady
  <2>7. At(Closing(b, "e_ack"))
    BY <2>1, <2>2, <2>5, <2>6, OnwardSound
  <2> QED BY <2>7 DEF b
<1>8. At([a EXCEPT !.pc = "e_ack"])
  <2> DEFINE b == [a EXCEPT !.pc = "e_ack"]
  <2>1. b.pc = "e_ack" /\ SameData(b, a)
    BY <1>1 DEF Agent, SameData
  <2> HIDE DEF b
  <2>2. b.pc \notin Returned /\ ~Waits(b) /\ ~Claiming(b)
    BY <2>1 DEF Waits, Claiming, Gone, Resting, Returned
  <2>3. At(b)
    BY <1>1, <1>2, <2>1, <2>2, StaysSound
  <2> QED BY <2>3 DEF b
<1> SUFFICES \E b : Hear(h, b) /\ At(b)
  BY DEF HearsSound
<1> HIDE DEF At
<1> QED BY <1>1, <1>3, <1>5, <1>6, <1>7, <1>8 DEF HearEvent

LEMMA EscalationSound ==
  ASSUME Trial, Honest, NEW h \in Handlers, HearEscalation(h)
  PROVE  HearsSound(h)
<1> DEFINE a == agent[h]
           b == [a EXCEPT !.claim = "escalated", !.evidence = "none"]
           At(c) == Sound(c, h, refunds, ticket.updates)
<1>1. /\ a \in Agent /\ Steady(a, refunds, ticket.updates) /\ Backed(a, h, refunds, ticket.updates)
      /\ a.pc = "escalate" /\ Able(a, a, refunds)
  BY HearsBacked, Hears DEF HearEscalation, Answered
<1>2. b \in Agent
  BY <1>1, LearnAble DEF Able
<1>3. /\ b.claim = "escalated" /\ b.after = a.after
      /\ b.status = a.status /\ b.refund = a.refund /\ b.queue = a.queue
  BY <1>1 DEF Agent
<1> HIDE DEF b
<1>4. Steady(b, refunds, ticket.updates)
  BY <1>1, <1>3 DEF Steady
<1>5. At(Continue(b))
  <2>1. CASE b.after = "return"
    <3> DEFINE c == Leaving(b, "completed")
    <3>1. c.pc = "return" /\ SameData(c, b)
      BY <1>2, Places, Unmoved
    <3> HIDE DEF c
    <3>2. c.pc \notin Returned /\ ~Late(c) /\ ~Waits(c) /\ ~Claiming(c)
      BY <1>3, <3>1 DEF Late, Waits, Claiming, Claims, Resting, TicketCalls, Returned, SameData
    <3>3. At(c)
      BY <1>4, <3>1, <3>2, PlainSound DEF SameData
    <3> QED BY <2>1, <3>3 DEF Continue, c
  <2>2. CASE b.after # "return"
    <3>1. a.status = "succeeded" /\ PaidUp(a.refund, h, refunds)
      BY <1>1, <1>3, <2>2 DEF Backed, Late
    <3> QED BY <1>2, <1>3, <1>4, <3>1, OnwardSound
  <2> QED BY <2>1, <2>2
<1> SUFFICES \E c : Hear(h, c) /\ At(c)
  BY DEF HearsSound
<1> HIDE DEF At
<1> QED BY <1>5 DEF HearEscalation, b

LEMMA FailureSound ==
  ASSUME Trial, Honest, NEW h \in Handlers, HearProbe(h) \/ HearError(h) \/ HearFatal(h)
  PROVE  HearsSound(h)
<1> DEFINE a == agent[h]
           At(b) == Sound(b, h, refunds, ticket.updates)
<1>1. /\ a \in Agent /\ Fit(a, refunds)
      /\ Steady(a, refunds, ticket.updates) /\ Backed(a, h, refunds, ticket.updates)
  BY HearsBacked, Hears DEF HearProbe, HearError, HearFatal, Failed
<1>2. /\ At(GiveUp(a)) /\ \A o : o # "completed" => At(Leaving(a, o))
      /\ \A s : At(Asleep(a, s, "create")) /\ At([Asleep(a, s, "create") EXCEPT !.pc = "probe"])
  BY <1>1, PlainPlaces
<1>3. ASSUME a.pc \in TicketCalls
      PROVE  At([a EXCEPT !.pc = "escalate"]) /\ \A s : At(Asleep(a, s, "t_ticket"))
  <2>1. Late(a)
    BY <1>3 DEF Late
  <2>2. ASSUME NEW b, SameData(b, a), b.pc \in {"escalate", "sleep"}, b.then # "poll" \/ b.pc # "sleep"
        PROVE  At(b)
    <3>1. b.pc \notin Returned /\ ~Waits(b) /\ ~Claiming(b)
      BY <2>2 DEF Waits, Claiming, Gone, Resting, Returned
    <3> QED BY <1>1, <2>1, <2>2, <3>1, StaysSound
  <2>3. At([a EXCEPT !.pc = "escalate"])
    <3> DEFINE b == [a EXCEPT !.pc = "escalate"]
    <3>1. b.pc = "escalate" /\ SameData(b, a)
      BY <1>1 DEF Agent, SameData
    <3> HIDE DEF b
    <3>2. At(b)
      BY <2>2, <3>1
    <3> QED BY <3>2 DEF b
  <2>4. ASSUME NEW s PROVE At(Asleep(a, s, "t_ticket"))
    <3> DEFINE b == Asleep(a, s, "t_ticket")
    <3>1. b.pc = "sleep" /\ b.then = "t_ticket" /\ SameData(b, a)
      BY <1>1 DEF Asleep, Agent, SameData
    <3> HIDE DEF b
    <3>2. At(b)
      BY <2>2, <3>1
    <3> QED BY <3>2 DEF b
  <2> HIDE DEF At
  <2> QED BY <2>3, <2>4
<1>4. CASE HearProbe(h)
  <2> DEFINE b == [a EXCEPT !.pc = "sleep"]
  <2>1. b.pc = "sleep" /\ b.then = a.then /\ SameData(b, a)
    BY <1>1 DEF Agent, SameData
  <2> HIDE DEF b
  <2>2. b.then = "create"
    BY <1>1, <1>4, <2>1 DEF HearProbe, Fit, Placed
  <2>3. b.pc \notin Returned /\ ~Late(b) /\ ~Waits(b) /\ ~Claiming(b)
    BY <2>1, <2>2 DEF Late, Waits, Claiming, Gone, Resting, TicketCalls, Returned
  <2>4. Sound(b, h, refunds, ticket.updates)
    BY <1>1, <2>1, <2>3, PlainSound DEF SameData
  <2> QED BY <1>4, <2>4 DEF HearProbe, HearsSound, b
<1>5. CASE HearError(h)
  <2>1. a.pc \in ToolCalls \ {"escalate", "probe"}
    BY <1>5, FailedAt DEF HearError
  <2>2. a.pc \in {"search"} \cup Screening \cup TicketCalls \cup RefundCalls
    BY <2>1 DEF ToolCalls
  <2> SUFFICES \E b : Hear(h, b) /\ At(b)
    BY DEF HearsSound
  <2> HIDE DEF At
  <2> QED BY <1>2, <1>3, <1>5, <2>2 DEF HearError
<1>6. CASE HearFatal(h)
  <2> SUFFICES \E b : Hear(h, b) /\ At(b)
    BY DEF HearsSound
  <2> HIDE DEF At
  <2> QED BY <1>2, <1>6 DEF HearFatal
<1> QED BY <1>4, <1>5, <1>6

LEMMA HearingSound ==
  ASSUME Trial, Heeded, Rightful, Honest, NEW h \in Handlers, agent[h].kind = "corrected", Hearing(h)
  PROVE  HearsSound(h)
<1>1. "corrected" \notin Mutants
  BY DEF Mutants, FreshKeys, Claimants
<1> QED BY <1>1, ScreenSound, PaymentSound, ExistingSound, TicketSound, EventSound,
           EscalationSound, FailureSound DEF Hearing, HearPayment, HearRefusal

-----------------------------------------------------------------------------
(* The agent's own steps, and what others do meanwhile. *)

\* The next round of a loop looks again at what the agent slept over.
LEMMA RetrySound ==
  ASSUME NEW h, NEW rows, NEW ups, NEW a \in Agent, Backed(a, h, rows, ups), a.pc \in Resting
  PROVE  Sound(Retrying(a), h, rows, ups)
<1> DEFINE At(b) == Sound(b, h, rows, ups)
<1>1. Steady(a, rows, ups) /\ a.then \in {"create", "existing", "poll", "t_ticket"}
  BY DEF Backed, Agent
<1>2. CASE a.then = "poll"
  <2> DEFINE b == [a EXCEPT !.pc = "poll"]
  <2>1. b.pc = "poll" /\ SameData(b, a)
    BY DEF Agent, SameData
  <2> HIDE DEF b
  <2>2. b.pc \notin Returned /\ ~Late(b) /\ ~Claiming(b) /\ Waits(a)
    BY <1>2, <2>1 DEF Late, Waits, Claiming, Gone, Resting, TicketCalls, Returned
  <2>3. Sound(b, h, rows, ups)
    BY <2>1, <2>2, StaysSound
  <2> QED BY <1>2, <2>3 DEF Retrying, LastRound, b
<1>3. CASE a.then = "t_ticket"
  <2> DEFINE b == [a EXCEPT !.pc = "escalate"]
             c == [a EXCEPT !.pc = "t_ticket", !.tries = @ + 1]
  <2>1. b.pc = "escalate" /\ SameData(b, a) /\ c.pc = "t_ticket" /\ SameData(c, a)
    BY DEF Agent, SameData
  <2>2. Retrying(a) \in {b, c}
    BY <1>3 DEF Retrying, LastRound
  <2> HIDE DEF b, c
  <2>3. ASSUME NEW d, SameData(d, a), d.pc \in {"escalate", "t_ticket"}
        PROVE  Sound(d, h, rows, ups)
    <3>1. d.pc \notin Returned /\ ~Waits(d) /\ ~Claiming(d) /\ Late(a)
      BY <1>3, <2>3 DEF Late, Waits, Claiming, Gone, Resting, Returned
    <3> QED BY <2>3, <3>1, StaysSound
  <2> QED BY <2>1, <2>2, <2>3
<1>4. CASE a.then \in {"create", "existing"}
  <2> DEFINE b == [a EXCEPT !.pc = a.then, !.attempt = @ + 1, !.poll = 0, !.after = "return"]
  <2>1. b.pc = a.then /\ SameData(b, a)
    BY DEF Agent, SameData
  <2>2. Retrying(a) \in {GiveUp(a), b}
    BY <1>4 DEF Retrying, LastRound
  <2> HIDE DEF b
  <2>3. b.pc \notin Returned /\ ~Late(b) /\ ~Waits(b) /\ ~Claiming(b)
    BY <1>4, <2>1 DEF Late, Waits, Claiming, Gone, Resting, TicketCalls, Returned
  <2>4. At(b)
    BY <1>1, <2>1, <2>3, PlainSound DEF SameData
  <2>5. At(GiveUp(a))
    BY <1>1, PlainPlaces
  <2> HIDE DEF At
  <2>6. At(Retrying(a))
    BY <2>2, <2>4, <2>5
  <2> QED BY <2>6 DEF At
<1> QED BY <1>1, <1>2, <1>3, <1>4

\* A claim that was made stands: the ticket is resolved, and stays so.
LEMMA ClaimResolved ==
  ASSUME Heeded, Honest, NEW g \in Handlers, agent[g].claim = "refunded"
  PROVE  ticket.status = "resolved"
BY DEF Heeded, TicketHeeds, Honest, Backed, Steady

\* The history of the ticket grows by its status now.
Lapses == past' = past \/ \E n \in Nat : past' = past \o [i \in 1..n |-> ticket.status]

LEMMA HistoryGrows == Trial /\ [RunNext]_all => Lapses
<1> SUFFICES ASSUME Trial, [RunNext]_all PROVE Lapses
  OBVIOUS
<1>1. CASE past' = past
  BY <1>1 DEF Lapses
<1>2. ASSUME NEW h \in Handlers, Wake(h) PROVE Lapses
  <2>1. agent[h].wait \in Nat
    BY DEF Trial, Agent
  <2>2. past' = past \o [i \in 1..agent[h].wait |-> ticket.status]
    BY <1>2 DEF Wake
  <2> QED BY <2>1, <2>2 DEF Lapses
<1>3. ASSUME NEW h \in Handlers, Handle(h), ~Wake(h) PROVE past' = past
  <2>1. CASE Hearing(h)
    <3>1. PICK b : Hear(h, b)
      BY <2>1, HearingReady DEF HearsReady
    <3> QED BY <3>1 DEF Hear
  <2>2. CASE OwnStep(h)
    BY <2>2, OwnSteps
  <2> QED BY <1>3, <2>1, <2>2 DEF Handle, Hearing, OwnStep, Dispatch, ServiceStep, run
<1> QED BY <1>1, <1>2, <1>3 DEF RunNext, Interrupt, Done, all, run

LEMMA ReportedStays ==
  ASSUME Trial, Heeded, Honest, Lapses, NEW g \in Handlers
  PROVE  Reported(agent[g], past')
<1> DEFINE a == agent[g]
<1> SUFFICES ASSUME a.pc \in Returned, Claims(a)
             PROVE  a.at <= Len(past') /\ \A i \in DOMAIN past' : i > a.at => past'[i] = "resolved"
  BY DEF Reported, Honest
<1>1. /\ a.at <= Len(past) /\ a.at \in Nat
      /\ \A i \in DOMAIN past : i > a.at => past[i] = "resolved"
      /\ past \in Seq(TicketStatuses)
  BY DEF Honest, Reported, Trial, Agent
<1>2. ticket.status = "resolved" /\ ticket.status \in TicketStatuses
  BY ClaimResolved DEF Claims, TicketStatuses
<1>3. CASE past' = past
  BY <1>1, <1>3
<1>4. ASSUME NEW n \in Nat, past' = past \o [i \in 1..n |-> ticket.status]
      PROVE  a.at <= Len(past') /\ \A i \in DOMAIN past' : i > a.at => past'[i] = "resolved"
  <2> DEFINE more == [i \in 1..n |-> ticket.status]
  <2>1. more \in Seq(TicketStatuses) /\ Len(more) = n /\ \A i \in 1..n : more[i] = "resolved"
    <3>1. \A s \in TicketStatuses, m \in Nat :
            [i \in 1..m |-> s] \in Seq(TicketStatuses) /\ Len([i \in 1..m |-> s]) = m
      OBVIOUS
    <3> QED BY <1>2, <3>1
  <2> HIDE DEF more
  <2>2. past' = past \o more
    BY <1>4 DEF more
  <2>3. /\ Len(past') = Len(past) + n /\ Len(past) \in Nat /\ DOMAIN past' = 1..Len(past')
        /\ DOMAIN past = 1..Len(past)
        /\ \A i \in 1..Len(past') : past'[i] = IF i <= Len(past) THEN past[i] ELSE more[i - Len(past)]
    BY <1>1, <2>1, <2>2
  <2> QED BY <1>1, <2>1, <2>3
<1> QED BY <1>3, <1>4 DEF Lapses

\* What an agent's step leaves of its honesty.
StaysHonest(h) == Backed(agent'[h], h, refunds', ticket'.updates) /\ Reported(agent'[h], past')

LEMMA HearingHonest ==
  ASSUME Trial, Heeded, Rightful, Honest, NEW h \in Handlers, agent[h].kind = "corrected", Hearing(h)
  PROVE  StaysHonest(h)
<1>1. PICK b : Hear(h, b) /\ Sound(b, h, refunds, ticket.updates)
  BY HearingSound DEF HearsSound
<1>2. agent'[h] = b /\ refunds' = refunds /\ ticket' = ticket
  BY <1>1 DEF Hear, Become, Trial
<1> QED BY <1>1, <1>2 DEF StaysHonest, Sound, Reported

LEMMA OwnHonest ==
  ASSUME Trial, Heeded, Honest, NEW h \in Handlers, CheckBudget(h) \/ Doze(h) \/ Resume(h)
  PROVE  StaysHonest(h)
<1> DEFINE a == agent[h]
           At(b) == Sound(b, h, refunds, ticket.updates)
<1>1. /\ a \in Agent /\ agent \in [Handlers -> Agent]
      /\ Backed(a, h, refunds, ticket.updates) /\ Steady(a, refunds, ticket.updates)
      /\ refunds' = refunds /\ ticket' = ticket
  BY OwnSteps DEF Trial, Honest, Backed, OwnStep
<1>2. At(Leaving(a, StopOutcome))
  BY <1>1, PlainPlaces DEF StopOutcome
<1>3. ASSUME NEW b, Become(h, b), At(b) PROVE StaysHonest(h)
  BY <1>1, <1>3 DEF StaysHonest, Become, Sound, Reported
<1>4. CASE CheckBudget(h)
  <2> DEFINE b == [a EXCEPT !.cleared = TRUE]
  <2>1. b.pc = a.pc /\ b.then = a.then /\ b.after = a.after /\ SameData(b, a) /\ a.pc \in ToolCalls
    BY <1>1, <1>4 DEF Agent, SameData, CheckBudget
  <2> HIDE DEF b
  <2>2. /\ b.pc \notin Returned /\ ~Claiming(b) /\ (Late(b) => Late(a)) /\ (Waits(b) => Waits(a))
    BY <2>1 DEF Late, Waits, Claiming, Gone, ToolCalls, TicketCalls, RefundCalls, Screening, Returned
  <2>3. At(b)
    BY <1>1, <2>1, <2>2, StaysSound
  <2> HIDE DEF At
  <2> QED BY <1>2, <1>3, <1>4, <2>3 DEF CheckBudget, b
<1>5. CASE Doze(h)
  <2> DEFINE b == [a EXCEPT !.pc = "dozing"]
  <2>1. b.pc = "dozing" /\ b.then = a.then /\ SameData(b, a) /\ a.pc = "sleep"
    BY <1>1, <1>5 DEF Agent, SameData, Doze
  <2> HIDE DEF b
  <2>2. /\ b.pc \notin Returned /\ ~Claiming(b) /\ (Late(b) => Late(a)) /\ (Waits(b) => Waits(a))
    BY <2>1 DEF Late, Waits, Claiming, Gone, TicketCalls, Resting, Returned
  <2>3. At(b)
    BY <1>1, <2>1, <2>2, StaysSound
  <2> HIDE DEF At
  <2> QED BY <1>2, <1>3, <1>5, <2>3 DEF Doze, b
<1>6. CASE Resume(h)
  <2>1. At(Retrying(a))
    BY <1>1, <1>6, RetrySound DEF Resume, Resting
  <2> HIDE DEF At
  <2> QED BY <1>2, <1>3, <1>6, <2>1 DEF Resume
<1> QED BY <1>4, <1>5, <1>6

\* A sleep, a dispatched call and a step of the service leave the agent what it knows.
LEMMA CallHonest ==
  ASSUME Trial, Heeded, Honest, NEW h \in Handlers, Dispatch(h) \/ Wake(h) \/ ServiceStep(h)
  PROVE  StaysHonest(h)
<1> DEFINE a == agent[h]
<1>1. /\ a \in Agent /\ agent \in [Handlers -> Agent] /\ Asks(h) /\ Consistent
      /\ Backed(a, h, refunds, ticket.updates)
  BY DEF Trial, Honest
<1>2. [AnyNext]_vars /\ Lapses
  BY NextKept, HistoryGrows DEF Kept, RunNext, Handle
<1>3. Backed(a, h, refunds', ticket'.updates)
  BY <1>1, <1>2, BackedStays
<1>4. ASSUME NEW b, Become(h, b), SameData(b, a), b.pc \notin Returned, ~Claiming(b),
             Late(b) => Late(a), Waits(b) => Waits(a)
      PROVE  StaysHonest(h)
  <2>1. Sound(b, h, refunds', ticket'.updates)
    BY <1>3, <1>4, StaysSound
  <2> QED BY <1>1, <1>4, <2>1 DEF StaysHonest, Become, Sound, Reported
<1>5. CASE Dispatch(h)
  <2> DEFINE b == [a EXCEPT !.cleared = FALSE]
  <2>1. b.pc = a.pc /\ b.then = a.then /\ b.after = a.after /\ SameData(b, a)
    BY <1>1 DEF Agent, SameData
  <2>2. Become(h, b) /\ a.pc \in ToolCalls
    BY <1>1, <1>5 DEF Dispatch, Asks
  <2> HIDE DEF b
  <2>3. /\ b.pc \notin Returned /\ ~Claiming(b) /\ (Late(b) => Late(a)) /\ (Waits(b) => Waits(a))
    BY <2>1, <2>2 DEF Late, Waits, Claiming, Gone, ToolCalls, TicketCalls, RefundCalls, Screening, Returned
  <2> QED BY <1>4, <2>1, <2>2, <2>3
<1>6. CASE Wake(h)
  <2> DEFINE b == [a EXCEPT !.pc = "woken"]
  <2>1. b.pc = "woken" /\ b.then = a.then /\ SameData(b, a) /\ a.pc = "dozing" /\ Become(h, b)
    BY <1>1, <1>6 DEF Agent, SameData, Wake
  <2> HIDE DEF b
  <2>2. /\ b.pc \notin Returned /\ ~Claiming(b) /\ (Late(b) => Late(a)) /\ (Waits(b) => Waits(a))
    BY <2>1 DEF Late, Waits, Claiming, Gone, TicketCalls, Resting, Returned
  <2> QED BY <1>4, <2>1, <2>2
<1>7. CASE ServiceStep(h)
  <2>1. agent' = agent
    BY <1>7 DEF ServiceStep, run
  <2>2. Reported(a, past')
    BY <1>2, ReportedStays
  <2> QED BY <1>3, <2>1, <2>2 DEF StaysHonest
<1> QED BY <1>5, <1>6, <1>7

\* The boundary of an invocation shows the refund it claims paid, and the ticket
\* resolved from then on.
LEMMA ReturnHonest ==
  ASSUME Trial, Heeded, Honest, NEW h \in Handlers, Return(h) \/ RecordReturn(h)
  PROVE  StaysHonest(h)
<1> DEFINE a == agent[h]
<1>1. /\ a \in Agent /\ agent \in [Handlers -> Agent]
      /\ Backed(a, h, refunds, ticket.updates) /\ Reported(a, past)
      /\ refunds' = refunds /\ ticket' = ticket /\ past' = past
  BY OwnSteps DEF Trial, Honest, OwnStep
<1>2. ASSUME NEW b, Become(h, b), b.pc \in Returned, b.queue = a.queue, b.evidence = a.evidence,
             b.refund = a.refund, b.claim \in {a.claim, "none"}, Claims(b) => Claiming(a),
             Reported(b, past)
      PROVE  StaysHonest(h)
  <2>1. ~Late(b) /\ ~Waits(b) /\ (Claiming(b) => Claiming(a))
    BY <1>2 DEF Late, Waits, Claiming, Resting, TicketCalls, Returned
  <2>2. Backed(b, h, refunds, ticket.updates)
    BY <1>1, <1>2, <2>1 DEF Backed, Steady
  <2>3. agent'[h] = b
    BY <1>1, <1>2 DEF Become
  <2> QED BY <1>1, <1>2, <2>2, <2>3 DEF StaysHonest
<1>3. Claiming(a) => /\ a.refund # 0 /\ refunds[a.refund].status = "succeeded"
                     /\ ticket.status = "resolved"
  <2> SUFFICES ASSUME Claiming(a)
               PROVE  a.refund # 0 /\ refunds[a.refund].status = "succeeded" /\ ticket.status = "resolved"
    OBVIOUS
  <2>1. PaidUp(a.refund, h, refunds)
    BY <1>1 DEF Backed
  <2>2. DOMAIN refunds = 1..Len(refunds)
    BY RowsKept DEF Trial
  <2>3. ticket.status = "resolved"
    BY ClaimResolved DEF Claiming, Claims
  <2> QED BY <2>1, <2>2, <2>3 DEF PaidUp, Own
<1>4. CASE Return(h)
  <2> DEFINE o == IF a.outcome = "completed" /\ Overdue THEN StopOutcome ELSE a.outcome
             c == IF o = "completed" THEN a.claim ELSE "none"
             w == IF a.refund = 0 THEN "none" ELSE refunds[a.refund].status
             b == [a EXCEPT !.pc = "returned", !.outcome = o, !.at = clock, !.claim = c, !.owed = w]
  <2>1. a.pc = "return" /\ Become(h, b)
    BY <1>4 DEF Return
  <2>2. o = "completed" => a.outcome = "completed"
    BY DEF StopOutcome
  <2>3. c \in {a.claim, "none"} /\ (Claiming(a) => w = "succeeded")
    BY <1>3
  <2> HIDE DEF o, w, c
  <2>4. /\ b.pc = "returned" /\ b.outcome = o /\ b.at = clock /\ b.claim = c /\ b.owed = w
        /\ b.queue = a.queue /\ b.evidence = a.evidence /\ b.refund = a.refund
    BY <1>1 DEF Agent
  <2> HIDE DEF b
  <2>5. Claims(b) => Claiming(a)
    BY <2>1, <2>2, <2>3, <2>4 DEF Claims, Claiming, Gone
  <2>6. Reported(b, past)
    <3>1. Len(past) = clock /\ clock \in Nat /\ DOMAIN past = 1..Len(past)
      BY DEF Trial, Consistent, TypeOK
    <3> QED BY <2>3, <2>4, <2>5, <3>1 DEF Reported
  <2> QED BY <1>2, <2>1, <2>3, <2>4, <2>5, <2>6 DEF Returned
<1>5. CASE RecordReturn(h)
  <2> DEFINE s == TicketAt(a.at)
             b == [a EXCEPT !.pc = "recorded", !.ticket = s]
  <2>1. a.pc = "returned" /\ Become(h, b)
    BY <1>5 DEF RecordReturn
  <2>2. Claims(a) => s = "resolved"
    <3> SUFFICES ASSUME Claims(a) PROVE s = "resolved"
      OBVIOUS
    <3>1. /\ Len(past) = clock /\ clock \in Nat /\ a.at \in Nat /\ DOMAIN past = 1..Len(past)
      BY <1>1 DEF Trial, Consistent, TypeOK, Agent
    <3>2. \A i \in DOMAIN past : i > a.at => past[i] = "resolved"
      BY <1>1, <2>1 DEF Reported, Returned
    <3>3. ticket.status = "resolved"
      BY <1>3, <2>1 DEF Claiming, Gone
    <3>4. a.at < clock => a.at + 1 \in DOMAIN past /\ a.at + 1 > a.at
      BY <3>1
    <3> QED BY <3>2, <3>3, <3>4 DEF TicketAt
  <2> HIDE DEF s
  <2>3. /\ b.pc = "recorded" /\ b.outcome = a.outcome /\ b.at = a.at /\ b.claim = a.claim
        /\ b.owed = a.owed /\ b.ticket = s
        /\ b.queue = a.queue /\ b.evidence = a.evidence /\ b.refund = a.refund
    BY <1>1 DEF Agent
  <2> HIDE DEF b
  <2>4. Claims(b) => Claiming(a)
    BY <2>1, <2>3 DEF Claims, Claiming, Gone
  <2>5. Reported(b, past)
    BY <1>1, <2>1, <2>2, <2>3 DEF Reported, Claims, Returned
  <2> QED BY <1>2, <2>1, <2>3, <2>4, <2>5 DEF Returned
<1> QED BY <1>4, <1>5

LEMMA InitHonest == RunInit /\ Corrected => Honest
<1> SUFFICES ASSUME RunInit, Corrected PROVE Honest
  OBVIOUS
<1>1. Told
  BY InitTold DEF RunInit
<1>2. ASSUME NEW h \in Handlers
      PROVE  Backed(agent[h], h, refunds, ticket.updates) /\ Reported(agent[h], past)
  <2>1. PICK kind \in Agents, standing \in [Handlers -> Standings] :
          agent = [g \in Handlers |-> AtOnce(Starting(kind, standing[g]))]
    BY DEF RunInit
  <2> DEFINE s == standing[h]
  <2>2. agent[h] = AtOnce(Starting(kind, s)) /\ agent[h].kind = "corrected" /\ s \in Standings
    BY <2>1 DEF Corrected
  <2>3. agent[h].kind = kind
    BY <2>2, StartingKind
  <2>4. agent[h] = Starting(kind, s)
    BY <2>2, <2>3, StartingKind
  <2>5. /\ agent[h].pc = FirstCall("corrected", s) /\ agent[h].after = "return"
        /\ agent[h].claim = "none" /\ agent[h].queue = {}
    <3>1. LET a == Starting(kind, s)
          IN  a.pc = FirstCall(kind, s) /\ a.after = "return" /\ a.claim = "none" /\ a.queue = {}
      BY DEF Starting
    <3> QED BY <2>2, <2>3, <2>4, <3>1
  <2>6. agent[h].pc \in {"escalate", "search", "customer"}
    BY <2>5 DEF FirstCall, Mutants, FreshKeys, Claimants
  <2> HIDE DEF s
  <2> QED BY <2>5, <2>6 DEF Backed, Steady, Late, Waits, Claiming, Claims, Gone, Resting, TicketCalls,
                      Reported, Returned
<1> QED BY <1>1, <1>2 DEF Honest

LEMMA NextHonest == Trial /\ Corrected /\ Heeded /\ Rightful /\ Honest /\ [RunNext]_all => Honest'
<1> SUFFICES ASSUME Trial, Corrected, Heeded, Rightful, Honest, [RunNext]_all PROVE Honest'
  OBVIOUS
<1>1. [AnyNext]_vars /\ Lapses /\ Consistent
  BY NextKept, HistoryGrows DEF Kept, Trial
<1>2. Told'
  BY <1>1, NextTold DEF Trial, Honest
<1>3. ASSUME NEW g \in Handlers, agent'[g] = agent[g] PROVE StaysHonest(g)
  BY <1>1, <1>3, BackedStays, ReportedStays DEF StaysHonest, Honest
<1>4. ASSUME NEW h \in Handlers, Handle(h) PROVE StaysHonest(h)
  <2>1. agent[h].kind = "corrected"
    BY DEF Corrected
  <2> QED BY <1>4, <2>1, HearingHonest, OwnHonest, CallHonest, ReturnHonest DEF Handle, Hearing
<1>5. ASSUME NEW g \in Handlers PROVE StaysHonest(g)
  <2>1. CASE agent' = agent
    BY <1>3, <2>1
  <2>2. ASSUME NEW h \in Handlers, Handle(h) PROVE StaysHonest(g)
    <3>1. CASE g = h
      BY <1>4, <2>2, <3>1
    <3>2. CASE g # h
      BY <1>3, <2>2, <3>2, OthersStay
    <3> QED BY <3>1, <3>2
  <2> QED BY <2>1, <2>2 DEF RunNext, Interrupt, Done, all, run
<1> QED BY <1>2, <1>5 DEF Honest, StaysHonest

\* The claims of the reference agent, for every plan, fixture and fault, in every
\* interleaving and whatever is killed: the evaluator never refutes one.  At the
\* return the claimed refund is the task's own and had succeeded, the agent cites
\* the response that said so, and the ticket it says it resolved was, at the time
\* of the return and not only when the evaluator looks.
THEOREM ControlClaimsHold == RunSpec => [](Corrected => ~ClaimFailed)
<1> DEFINE Inv == Trial /\ (Corrected => Heeded /\ Rightful /\ Honest)
<1>1. RunInit => Inv
  BY InitTrial, InitHeeded, InitRightful, InitHonest
<1>2. Inv /\ [RunNext]_all => Inv'
  <2> SUFFICES ASSUME Inv, [RunNext]_all PROVE Inv'
    OBVIOUS
  <2>1. Kept /\ Trial'
    BY NextKept, KeptTrial
  <2>2. Corrected' => Corrected
    BY <2>1 DEF Kept, Identities, Corrected
  <2> QED BY <2>1, <2>2, NextHeeded, NextRightful, NextHonest
<1>3. Inv => (Corrected => ~ClaimFailed)
  <2> SUFFICES ASSUME Inv, Corrected, NEW h \in Recorded, HasResult(h), agent[h].claim = "refunded"
               PROVE  /\ agent[h].owed = "succeeded" /\ agent[h].evidence = "succeeded"
                      /\ agent[h].ticket = "resolved"
                      /\ refunds[agent[h].refund].request = Task[h].request
    BY DEF ClaimFailed, ClaimHolds
  <2>1. /\ h \in Handlers /\ agent[h].pc = "recorded" /\ Claims(agent[h])
    BY DEF Recorded, HasResult, Claims
  <2>2. Backed(agent[h], h, refunds, ticket.updates) /\ Reported(agent[h], past)
    BY <2>1 DEF Honest
  <2>3. PaidUp(agent[h].refund, h, refunds) /\ Steady(agent[h], refunds, ticket.updates)
    BY <2>1, <2>2 DEF Backed, Claiming, Gone
  <2> QED BY <2>1, <2>2, <2>3 DEF Reported, Returned, Steady, PaidUp, Own, Claims
<1> QED BY <1>1, <1>2, <1>3, PTL DEF RunSpec
-----------------------------------------------------------------------------
(***************************************************************************)
(* The retries of the reference agent.  Every call of create_refund belongs *)
(* to one round of the payment loop, and a round makes one: an agent that   *)
(* has yet to make it is in its screening, or at the call.                 *)
(***************************************************************************)
Early == Screening \cup {"search"}
Fresh(a, c)  == a.pc \in Early \/ (a.pc = "create" /\ c.pc = "idle")
Spent(a, c)  == IF Fresh(a, c) THEN a.attempt ELSE a.attempt + 1

\* Only a mutant looks for an earlier refund before it pays.
Direct(a) == a.then # "existing" /\ a.pc # "existing"

TriesOf(h) == {t \in attempts : t.handler = h}

Paced ==
  /\ IsFiniteSet(attempts)
  /\ \A h \in Handlers : Direct(agent[h]) /\ Cardinality(TriesOf(h)) <= Spent(agent[h], call[h])

\* An agent that goes on within its round.
Keeps(b, a) ==
  /\ b.attempt = a.attempt /\ Direct(b)
  /\ a.pc \notin Early => b.pc \notin Early \cup {"create"}

LEMMA KeepsPace ==
  ASSUME NEW a \in Agent, NEW c, NEW b, NEW d, Keeps(b, a),
         a.pc = "create" => c.pc # "idle"
  PROVE  Spent(a, c) <= Spent(b, d)
<1>1. a.attempt \in Nat
  BY ValidTrial DEF Agent
<1>2. CASE a.pc \in Early
  BY <1>1, <1>2 DEF Spent, Fresh, Keeps
<1>3. CASE a.pc \notin Early
  BY <1>1, <1>3 DEF Spent, Fresh, Keeps
<1> QED BY <1>2, <1>3

\* The places an agent goes to within its round.
LEMMA KeepingPlaces ==
  ASSUME NEW a \in Agent, Direct(a)
  PROVE  /\ Keeps(GiveUp(a), a)
         /\ \A o : Keeps(Leaving(a, o), a)
         /\ \A s : \A then \in {"create", "poll", "t_ticket"} :
              Keeps(Asleep(a, s, then), a) /\ Keeps([Asleep(a, s, then) EXCEPT !.pc = "probe"], a)
         /\ \A after : Keeps(Closing(a, after), a)
         /\ \A pc : pc # "existing" /\ (a.pc \notin Early => pc \notin Early \cup {"create"}) =>
              Keeps([a EXCEPT !.pc = pc], a)
<1> DEFINE At(b) == Keeps(b, a)
<1>1. ASSUME NEW b, b.attempt = a.attempt, b.then \in {a.then, "create", "poll", "t_ticket"},
             b.pc \notin Early \cup {"create", "existing"}
      PROVE  At(b)
  BY <1>1 DEF Keeps, Direct
<1>2. At(GiveUp(a))
  <2> DEFINE b == GiveUp(a)
  <2>1. b.pc = "escalate" /\ b.then = a.then /\ b.attempt = a.attempt
    BY DEF GiveUp, Agent
  <2> HIDE DEF b, At
  <2>2. At(b)
    BY <1>1, <2>1 DEF Early, Screening
  <2> QED BY <2>2 DEF b
<1>3. ASSUME NEW o PROVE At(Leaving(a, o))
  <2> DEFINE b == Leaving(a, o)
  <2>1. b.pc = "return" /\ b.then = a.then /\ b.attempt = a.attempt
    BY DEF Leaving, Agent
  <2> HIDE DEF b, At
  <2>2. At(b)
    BY <1>1, <2>1 DEF Early, Screening
  <2> QED BY <2>2 DEF b
<1>4. ASSUME NEW s, NEW then \in {"create", "poll", "t_ticket"}
      PROVE  At(Asleep(a, s, then)) /\ At([Asleep(a, s, then) EXCEPT !.pc = "probe"])
  <2> DEFINE b == Asleep(a, s, then)
             c == [Asleep(a, s, then) EXCEPT !.pc = "probe"]
  <2>1. b.pc = "sleep" /\ b.then = then /\ b.attempt = a.attempt
    BY DEF Asleep, Agent
  <2>2. c.pc = "probe" /\ c.then = then /\ c.attempt = a.attempt
    BY DEF Asleep, Agent
  <2> HIDE DEF b, c, At
  <2>3. At(b) /\ At(c)
    BY <1>1, <2>1, <2>2 DEF Early, Screening
  <2> QED BY <2>3 DEF b, c
<1>5. ASSUME NEW after PROVE At(Closing(a, after))
  <2> DEFINE b == Closing(a, after)
  <2>1. b.pc = "t_ticket" /\ b.then = a.then /\ b.attempt = a.attempt
    BY DEF Closing, Agent
  <2> HIDE DEF b, At
  <2>2. At(b)
    BY <1>1, <2>1 DEF Early, Screening
  <2> QED BY <2>2 DEF b
<1>6. ASSUME NEW pc, pc # "existing", a.pc \notin Early => pc \notin Early \cup {"create"}
      PROVE  At([a EXCEPT !.pc = pc])
  <2> DEFINE b == [a EXCEPT !.pc = pc]
  <2>1. b.pc = pc /\ b.then = a.then /\ b.attempt = a.attempt
    BY DEF Agent
  <2> HIDE DEF b
  <2>2. Keeps(b, a)
    BY <1>6, <2>1 DEF Keeps, Direct
  <2> QED BY <2>2 DEF b
<1> QED BY <1>2, <1>3, <1>4, <1>5, <1>6

\* An agent that only learned something goes on as it would have.
LEMMA KeepsOn ==
  ASSUME NEW a, NEW b, b.attempt = a.attempt, b.then = a.then, b.pc = a.pc, NEW c, Keeps(c, b)
  PROVE  Keeps(c, a)
BY DEF Keeps

HearsKeeping(h) == \E b : Hear(h, b) /\ Keeps(b, agent[h])

LEMMA ScreenKeeps ==
  ASSUME Trial, Paced, NEW h \in Handlers, Screen(h)
  PROVE  HearsKeeping(h)
<1> DEFINE a == agent[h]
           At(b) == Keeps(b, a)
<1>1. a \in Agent /\ Direct(a) /\ a.pc \in Screening \cup {"search"}
  BY Hears DEF Screen, Answered, Able, Paced
<1>2. /\ At(GiveUp(a)) /\ At(Leaving(a, "errored"))
      /\ \A pc \in {"order", "ticket", "create"} : At([a EXCEPT !.pc = pc])
  BY <1>1, KeepingPlaces DEF Early
<1> SUFFICES \E b : Hear(h, b) /\ At(b)
  BY DEF HearsKeeping
<1> HIDE DEF At
<1> QED BY <1>1, <1>2 DEF Screen, Screening

LEMMA JudgeKeeps ==
  ASSUME NEW a \in Agent, Direct(a), a.pc \notin Early
  PROVE  Keeps(Judge(a), a)
<1>1. Keeps(Asleep(a, 1, "poll"), a) /\ Keeps(Closing(a, "receive"), a) /\ Keeps(GiveUp(a), a)
  BY KeepingPlaces
<1> QED BY <1>1 DEF Judge

LEMMA PaymentKeeps ==
  ASSUME Trial, Paced, NEW h \in Handlers, HearRefund(h)
  PROVE  HearsKeeping(h)
<1> DEFINE a == agent[h]
           r == call[h].reply
           mine == {i \in r.found : refunds[i].key = OperationKey(h)}
           At(b) == Keeps(b, a)
<1>1. /\ a \in Agent /\ Direct(a) /\ a.pc \in {"create", "list", "lookup", "poll"}
      /\ Able(a, a, refunds) /\ r \in Reply /\ r.refund \in 0..Len(refunds)
      /\ a.pc = "poll" => a.poll < MaxAttempts
  BY Hears DEF HearRefund, Answered, Able, Paced, Fit, Placed
<1>2. a.pc \notin Early
  BY <1>1 DEF Early, Screening
<1>3. ASSUME NEW b \in Agent, b.attempt = a.attempt, b.then = a.then, b.pc = a.pc
      PROVE  At(Judge(b))
  <2>1. Direct(b) /\ b.pc \notin Early
    BY <1>1, <1>2, <1>3 DEF Direct
  <2> QED BY <1>3, <2>1, JudgeKeeps, KeepsOn
<1>4. At(Judge(Learn(a, r)))
  <2> DEFINE b == Learn(a, r)
  <2>1. b \in Agent
    BY <1>1, LearnAble DEF Able
  <2>2. b.attempt = a.attempt /\ b.then = a.then /\ b.pc = a.pc
    BY <1>1 DEF Learn, Agent
  <2> HIDE DEF b, At
  <2>3. At(Judge(b))
    BY <1>3, <2>1, <2>2
  <2> QED BY <2>3 DEF b
<1>5. a.pc = "poll" => At(Judge([Learn(a, r) EXCEPT !.poll = @ + 1]))
  <2> SUFFICES ASSUME a.pc = "poll" PROVE At(Judge([Learn(a, r) EXCEPT !.poll = @ + 1]))
    OBVIOUS
  <2> DEFINE b == [Learn(a, r) EXCEPT !.poll = @ + 1]
  <2>1. b \in Agent
    <3>1. Able(Learn(a, r), a, refunds)
      BY <1>1, LearnAble
    <3>2. Learn(a, r).poll < MaxAttempts
      BY <1>1 DEF Learn, Agent
    <3>3. Able(b, a, refunds)
      BY <3>1, <3>2, LearnAble
    <3> QED BY <3>3 DEF Able
  <2>2. b.attempt = a.attempt /\ b.then = a.then /\ b.pc = a.pc
    BY <1>1 DEF Learn, Agent
  <2> HIDE DEF b, At
  <2>3. At(Judge(b))
    BY <1>3, <2>1, <2>2
  <2> QED BY <2>3 DEF b
<1>6. ASSUME NEW i PROVE At([a EXCEPT !.pc = "lookup", !.refund = i])
  <2> DEFINE b == [a EXCEPT !.pc = "lookup", !.refund = i]
  <2>1. b.pc = "lookup" /\ b.then = a.then /\ b.attempt = a.attempt
    BY <1>1 DEF Agent
  <2> HIDE DEF b
  <2>2. At(b)
    BY <1>1, <2>1 DEF Keeps, Direct, Early, Screening
  <2> QED BY <2>2 DEF b
<1>7. At(Asleep(a, 1, "create")) /\ At(Leaving(a, "errored")) /\ At([a EXCEPT !.pc = "list"])
  BY <1>1, KeepingPlaces DEF Early, Screening
<1> SUFFICES \E b : Hear(h, b) /\ At(b)
  BY DEF HearsKeeping
<1> HIDE DEF At, mine
<1> QED BY <1>1, <1>4, <1>5, <1>6, <1>7 DEF HearRefund, mine

LEMMA TicketKeeps ==
  ASSUME Trial, Paced, NEW h \in Handlers, HearTicket(h)
  PROVE  HearsKeeping(h)
<1> DEFINE a == agent[h]
           r == call[h].reply
           At(b) == Keeps(b, a)
<1>1. /\ a \in Agent /\ Direct(a) /\ Able(a, a, refunds) /\ a.pc \in TicketCalls
      /\ r.shape \in {"full", "incomplete", "empty"}
  BY Hears DEF HearTicket, Answered, Able, Paced
<1>2. a.pc \notin Early
  BY <1>1 DEF Early, Screening, TicketCalls
<1>3. At(Leaving(a, "errored")) /\ At([a EXCEPT !.pc = "escalate"])
  BY <1>1, KeepingPlaces DEF Early, Screening
<1>4. ASSUME NEW v, NEW pc \in {"t_note", "t_update"}
      PROVE  At([a EXCEPT !.pc = pc, !.version = v])
  <2> DEFINE b == [a EXCEPT !.pc = pc, !.version = v]
  <2>1. b.pc = pc /\ b.then = a.then /\ b.attempt = a.attempt
    BY <1>1 DEF Agent
  <2> HIDE DEF b
  <2>2. At(b)
    BY <1>1, <2>1 DEF Keeps, Direct, Early, Screening
  <2> QED BY <2>2 DEF b
<1>5. At(Continue([a EXCEPT !.claim = "refunded", !.evidence = a.status]))
  <2> DEFINE b == [a EXCEPT !.claim = "refunded", !.evidence = a.status]
  <2>1. b \in Agent
    <3>1. a.status \in RefundStatuses \cup {"none"}
      BY <1>1 DEF Agent
    <3> QED BY <1>1, <3>1, LearnAble DEF Able
  <2>2. b.attempt = a.attempt /\ b.then = a.then /\ b.pc = a.pc
    BY <1>1 DEF Agent
  <2> HIDE DEF b
  <2>3. Direct(b) /\ b.after \in {"return", "receive", "e_ack"}
    BY <1>1, <2>1, <2>2 DEF Direct, Agent
  <2>4. Keeps(Continue(b), b)
    BY <2>1, <2>3, KeepingPlaces DEF Continue, Early, Screening
  <2>5. At(Continue(b))
    BY <2>2, <2>4, KeepsOn
  <2> QED BY <2>5 DEF b
<1> SUFFICES \E b : Hear(h, b) /\ At(b)
  BY DEF HearsKeeping
<1> HIDE DEF At
<1> QED BY <1>1, <1>3, <1>4, <1>5 DEF HearTicket, TicketCalls

LEMMA EventKeeps ==
  ASSUME Trial, Paced, NEW h \in Handlers, HearEvent(h) \/ HearEscalation(h)
  PROVE  HearsKeeping(h)
<1> DEFINE a == agent[h]
           r == call[h].reply
           At(b) == Keeps(b, a)
<1>1. /\ a \in Agent /\ Direct(a) /\ Able(a, a, refunds)
      /\ a.pc \in {"receive", "e_refund", "e_ack", "escalate"}
      /\ r \in Reply /\ r.refund \in 0..Len(refunds) /\ r.events \subseteq Delivery
      /\ a.queue \subseteq Delivery
  <2>1. call[h].pc = "replied" /\ a.pc \in {"receive", "e_refund", "e_ack", "escalate"}
    BY DEF HearEvent, HearEscalation, Answered
  <2> QED BY <2>1, Hears DEF Able, Agent, Paced
<1>2. a.pc \notin Early
  BY <1>1 DEF Early, Screening
<1>3. ASSUME NEW b \in Agent, b.attempt = a.attempt, b.then = a.then, b.pc = a.pc
      PROVE  At(NextEvent(b)) /\ At(Closing(b, "e_ack")) /\ At(Continue(b))
  <2>1. Direct(b) /\ b.pc \notin Early /\ b.after \in {"return", "receive", "e_ack"}
    BY <1>1, <1>2, <1>3 DEF Direct, Agent
  <2>2. /\ Keeps(Leaving(b, "completed"), b) /\ Keeps(Closing(b, "e_ack"), b)
        /\ \A pc \in {"e_refund", "receive", "e_ack"} : Keeps([b EXCEPT !.pc = pc], b)
    BY <2>1, KeepingPlaces DEF Early, Screening
  <2>3. Keeps(NextEvent(b), b) /\ Keeps(Continue(b), b)
    BY <2>1, <2>2 DEF NextEvent, Continue
  <2> QED BY <1>3, <2>2, <2>3, KeepsOn
<1>4. \A q : q \subseteq Delivery => At(NextEvent([a EXCEPT !.queue = q]))
  <2> SUFFICES ASSUME NEW q, q \subseteq Delivery PROVE At(NextEvent([a EXCEPT !.queue = q]))
    OBVIOUS
  <2> DEFINE b == [a EXCEPT !.queue = q]
  <2>1. b \in Agent /\ b.attempt = a.attempt /\ b.then = a.then /\ b.pc = a.pc
    BY <1>1 DEF Agent
  <2> HIDE DEF b, At
  <2>2. At(NextEvent(b))
    BY <1>3, <2>1
  <2> QED BY <2>2 DEF b
<1>5. At(NextEvent([a EXCEPT !.queue = @ \ {Earliest(@)}]))
  BY <1>1, <1>4
<1>6. At(Closing(Learn(a, r), "e_ack"))
  <2> DEFINE b == Learn(a, r)
  <2>1. b \in Agent
    BY <1>1, LearnAble DEF Able
  <2>2. b.attempt = a.attempt /\ b.then = a.then /\ b.pc = a.pc
    BY <1>1 DEF Learn, Agent
  <2> HIDE DEF b, At
  <2>3. At(Closing(b, "e_ack"))
    BY <1>3, <2>1, <2>2
  <2> QED BY <2>3 DEF b
<1>7. At(Continue([a EXCEPT !.claim = "escalated", !.evidence = "none"]))
  <2> DEFINE b == [a EXCEPT !.claim = "escalated", !.evidence = "none"]
  <2>1. b \in Agent
    BY <1>1, LearnAble DEF Able
  <2>2. b.attempt = a.attempt /\ b.then = a.then /\ b.pc = a.pc
    BY <1>1 DEF Agent
  <2> HIDE DEF b, At
  <2>3. At(Continue(b))
    BY <1>3, <2>1, <2>2
  <2> QED BY <2>3 DEF b
<1>8. At(Leaving(a, "errored")) /\ At([a EXCEPT !.pc = "e_ack"])
  BY <1>1, KeepingPlaces DEF Early, Screening
<1> SUFFICES \E b : Hear(h, b) /\ At(b)
  BY DEF HearsKeeping
<1> HIDE DEF At
<1>9. CASE HearEvent(h)
  <2>1. a.pc \in {"receive", "e_refund", "e_ack"}
    BY <1>9 DEF HearEvent, Answered
  <2> QED BY <1>1, <1>4, <1>5, <1>6, <1>8, <1>9, <2>1 DEF HearEvent
<1>10. CASE HearEscalation(h)
  BY <1>7, <1>10 DEF HearEscalation
<1> QED BY <1>9, <1>10

LEMMA FailureKeeps ==
  ASSUME Trial, Paced, NEW h \in Handlers, HearProbe(h) \/ HearError(h) \/ HearFatal(h)
  PROVE  HearsKeeping(h)
<1> DEFINE a == agent[h]
           At(b) == Keeps(b, a)
<1>1. a \in Agent /\ Direct(a)
  BY Hears DEF HearProbe, HearError, HearFatal, Failed, Able, Paced
<1>2. /\ At(GiveUp(a)) /\ \A o : At(Leaving(a, o))
      /\ \A s : /\ At(Asleep(a, s, "create")) /\ At(Asleep(a, s, "t_ticket"))
                /\ At([Asleep(a, s, "create") EXCEPT !.pc = "probe"])
      /\ \A pc \in {"escalate", "sleep"} : At([a EXCEPT !.pc = pc])
  BY <1>1, KeepingPlaces DEF Early, Screening
<1> SUFFICES \E b : Hear(h, b) /\ At(b)
  BY DEF HearsKeeping
<1>3. CASE HearProbe(h)
  <2> HIDE DEF At
  <2> QED BY <1>2, <1>3 DEF HearProbe
<1>4. CASE HearError(h)
  <2>1. a.pc \in ToolCalls \ {"escalate", "probe"}
    BY <1>4, FailedAt DEF HearError
  <2>2. a.pc \in {"search"} \cup Screening \cup TicketCalls \cup RefundCalls
    BY <2>1 DEF ToolCalls
  <2> HIDE DEF At
  <2> QED BY <1>2, <1>4, <2>2 DEF HearError
<1>5. CASE HearFatal(h)
  <2> HIDE DEF At
  <2> QED BY <1>2, <1>5 DEF HearFatal
<1> QED BY <1>3, <1>4, <1>5

LEMMA HearingKeeps ==
  ASSUME Trial, Paced, NEW h \in Handlers, agent[h].kind = "corrected", Hearing(h)
  PROVE  HearsKeeping(h)
<1>1. "corrected" \notin Mutants
  BY DEF Mutants, FreshKeys, Claimants
<1>2. ~HearExisting(h)
  BY DEF HearExisting, Answered, Paced, Direct
<1> QED BY <1>1, <1>2, ScreenKeeps, PaymentKeeps, TicketKeeps, EventKeeps, FailureKeeps
        DEF Hearing, HearPayment, HearRefusal

-----------------------------------------------------------------------------
(* The next round of a loop pays at most once more. *)
RoundStarts(b, a) == b.attempt = a.attempt + 1 /\ b.pc = "create" /\ Direct(b)

LEMMA RetryKeeps ==
  ASSUME NEW a \in Agent, Direct(a), a.pc \notin Early
  PROVE  Keeps(Retrying(a), a) \/ RoundStarts(Retrying(a), a)
<1>1. a.then \in {"create", "poll", "t_ticket"}
  BY DEF Agent, Direct
<1>2. CASE a.then = "poll"
  <2>1. Keeps([a EXCEPT !.pc = "poll"], a)
    BY KeepingPlaces DEF Early, Screening
  <2> QED BY <1>2, <2>1 DEF Retrying, LastRound
<1>3. CASE a.then = "t_ticket"
  <2> DEFINE b == [a EXCEPT !.pc = "t_ticket", !.tries = @ + 1]
  <2>1. b.pc = "t_ticket" /\ b.attempt = a.attempt /\ b.then = a.then
    BY DEF Agent
  <2>2. Retrying(a) \in {[a EXCEPT !.pc = "escalate"], b}
    BY <1>3 DEF Retrying, LastRound
  <2>3. Keeps([a EXCEPT !.pc = "escalate"], a)
    BY KeepingPlaces DEF Early, Screening
  <2> HIDE DEF b
  <2>4. Keeps(b, a)
    BY <2>1 DEF Keeps, Direct, Early, Screening
  <2> QED BY <2>2, <2>3, <2>4
<1>4. CASE a.then = "create"
  <2> DEFINE b == [a EXCEPT !.pc = a.then, !.attempt = @ + 1, !.poll = 0, !.after = "return"]
  <2>1. b.pc = "create" /\ b.attempt = a.attempt + 1 /\ b.then = a.then
    BY <1>4 DEF Agent
  <2>2. Retrying(a) \in {GiveUp(a), b}
    BY <1>4 DEF Retrying, LastRound
  <2>3. Keeps(GiveUp(a), a)
    BY KeepingPlaces
  <2> HIDE DEF b
  <2>4. RoundStarts(b, a)
    BY <2>1 DEF RoundStarts, Direct
  <2> QED BY <2>2, <2>3, <2>4
<1> QED BY <1>1, <1>2, <1>3, <1>4

\* What a step of handler h leaves of its pace.
StaysPaced(h) ==
  /\ IsFiniteSet(attempts') /\ Direct(agent'[h])
  /\ Cardinality(TriesOf(h)') <= Spent(agent'[h], call'[h])

LEMMA PaceTypes ==
  ASSUME Trial, Paced, NEW h \in Handlers
  PROVE  /\ IsFiniteSet(attempts) /\ Direct(agent[h])
         /\ Cardinality(TriesOf(h)) <= Spent(agent[h], call[h])
         /\ IsFiniteSet(TriesOf(h)) /\ Cardinality(TriesOf(h)) \in Nat
         /\ agent[h] \in Agent /\ agent[h].attempt \in Nat /\ Spent(agent[h], call[h]) \in Nat
         /\ agent \in [Handlers -> Agent] /\ call \in [Handlers -> CallState]
<1>1. IsFiniteSet(TriesOf(h)) /\ Cardinality(TriesOf(h)) \in Nat
  <2>1. TriesOf(h) \in SUBSET attempts
    BY DEF TriesOf
  <2>2. IsFiniteSet(TriesOf(h))
    BY <2>1, FS_Subset DEF Paced
  <2> QED BY <2>2, FS_CardinalityType
<1>2. agent[h] \in Agent /\ agent[h].attempt \in Nat
  BY ValidTrial DEF Trial, Agent
<1> QED BY <1>1, <1>2 DEF Paced, Spent, Trial, Consistent, TypeOK

LEMMA HearingPaced ==
  ASSUME Trial, Paced, NEW h \in Handlers, agent[h].kind = "corrected", Hearing(h)
  PROVE  StaysPaced(h)
<1>1. PICK b : Hear(h, b) /\ Keeps(b, agent[h])
  BY HearingKeeps DEF HearsKeeping
<1>2. agent'[h] = b /\ attempts' = attempts /\ call[h].pc = "replied"
  BY <1>1, HearingReady DEF Hear, Become, Trial
<1>3. Spent(agent[h], call[h]) <= Spent(b, call'[h])
  BY <1>1, <1>2, KeepsPace, PaceTypes
<1>4. Spent(b, call'[h]) \in Nat
  BY <1>1, PaceTypes DEF Spent, Keeps
<1> QED BY <1>1, <1>2, <1>3, <1>4, PaceTypes DEF StaysPaced, TriesOf, Keeps

LEMMA OwnPaced ==
  ASSUME Trial, Paced, NEW h \in Handlers, OwnStep(h)
  PROVE  StaysPaced(h)
<1> DEFINE a == agent[h]
<1>1. /\ a \in Agent /\ Direct(a) /\ a.attempt \in Nat /\ attempts' = attempts /\ call' = call
      /\ call[h].pc = "idle" /\ agent \in [Handlers -> Agent]
  BY OwnSteps, PaceTypes
<1>2. ASSUME NEW b, Become(h, b), Direct(b), b.attempt = a.attempt,
             b.pc = a.pc \/ b.pc \notin Early \cup {"create"}
      PROVE  StaysPaced(h)
  <2>1. agent'[h] = b
    BY <1>1, <1>2 DEF Become
  <2>2. Spent(a, call[h]) <= Spent(b, call[h]) /\ Spent(b, call[h]) \in Nat
    BY <1>1, <1>2 DEF Spent, Fresh
  <2> QED BY <1>1, <1>2, <2>1, <2>2, PaceTypes DEF StaysPaced, TriesOf
<1>3. ASSUME NEW o, Become(h, Leaving(a, o)) PROVE StaysPaced(h)
  <2> DEFINE b == Leaving(a, o)
  <2>1. b.pc = "return" /\ b.then = a.then /\ b.attempt = a.attempt
    BY <1>1 DEF Leaving, Agent
  <2>2. Become(h, b)
    BY <1>3
  <2> HIDE DEF b
  <2>3. Direct(b) /\ b.pc \notin Early \cup {"create"}
    BY <1>1, <2>1 DEF Direct, Early, Screening
  <2> QED BY <1>2, <2>1, <2>2, <2>3
<1>4. CASE CheckBudget(h)
  <2> DEFINE b == [a EXCEPT !.cleared = TRUE]
  <2>1. b.pc = a.pc /\ b.then = a.then /\ b.attempt = a.attempt
    BY <1>1 DEF Agent
  <2>2. Become(h, b) \/ Become(h, Leaving(a, StopOutcome))
    BY <1>4 DEF CheckBudget
  <2> HIDE DEF b
  <2> QED BY <1>1, <1>2, <1>3, <2>1, <2>2 DEF Direct
<1>5. CASE Doze(h)
  <2> DEFINE b == [a EXCEPT !.pc = "dozing"]
  <2>1. b.pc = "dozing" /\ b.then = a.then /\ b.attempt = a.attempt
    BY <1>1 DEF Agent
  <2>2. Become(h, b) \/ Become(h, Leaving(a, StopOutcome))
    BY <1>5 DEF Doze
  <2> HIDE DEF b
  <2>3. Direct(b) /\ b.pc \notin Early \cup {"create"}
    BY <1>1, <2>1 DEF Direct, Early, Screening
  <2> QED BY <1>2, <1>3, <2>1, <2>2, <2>3
<1>6. CASE Resume(h)
  <2> DEFINE b == Retrying(a)
  <2>1. Become(h, b) \/ Become(h, Leaving(a, StopOutcome))
    BY <1>6 DEF Resume
  <2>2. a.pc = "woken" /\ a.pc \notin Early \cup {"create"}
    BY <1>6 DEF Resume, Early, Screening
  <2>3. Keeps(b, a) \/ RoundStarts(b, a)
    BY <1>1, <2>2, RetryKeeps
  <2> HIDE DEF b
  <2>4. CASE Become(h, b) /\ Keeps(b, a)
    BY <1>2, <2>2, <2>4 DEF Keeps
  <2>5. CASE Become(h, b) /\ RoundStarts(b, a)
    <3>1. agent'[h] = b
      BY <1>1, <2>5 DEF Become
    <3>2. Spent(a, call[h]) = Spent(b, call[h])
      BY <1>1, <2>2, <2>5 DEF Spent, Fresh, RoundStarts, Early, Screening
    <3> QED BY <1>1, <2>5, <3>1, <3>2, PaceTypes DEF StaysPaced, TriesOf, RoundStarts
  <2> QED BY <1>3, <2>1, <2>3, <2>4, <2>5
<1>7. CASE Return(h)
  <2> DEFINE o == IF a.outcome = "completed" /\ Overdue THEN StopOutcome ELSE a.outcome
             c == IF o = "completed" THEN a.claim ELSE "none"
             w == IF a.refund = 0 THEN "none" ELSE refunds[a.refund].status
             b == [a EXCEPT !.pc = "returned", !.outcome = o, !.at = clock, !.claim = c, !.owed = w]
  <2>1. Become(h, b)
    BY <1>7 DEF Return
  <2> HIDE DEF o, w, c
  <2>2. b.pc = "returned" /\ b.then = a.then /\ b.attempt = a.attempt
    BY <1>1 DEF Agent
  <2> HIDE DEF b
  <2>3. Direct(b) /\ b.pc \notin Early \cup {"create"}
    BY <1>1, <2>2 DEF Direct, Early, Screening
  <2> QED BY <1>2, <2>1, <2>2, <2>3
<1>8. CASE RecordReturn(h)
  <2> DEFINE s == TicketAt(a.at)
             b == [a EXCEPT !.pc = "recorded", !.ticket = s]
  <2>1. Become(h, b)
    BY <1>8 DEF RecordReturn
  <2> HIDE DEF s
  <2>2. b.pc = "recorded" /\ b.then = a.then /\ b.attempt = a.attempt
    BY <1>1 DEF Agent
  <2> HIDE DEF b
  <2>3. Direct(b) /\ b.pc \notin Early \cup {"create"}
    BY <1>1, <2>2 DEF Direct, Early, Screening
  <2> QED BY <1>2, <2>1, <2>2, <2>3
<1> QED BY <1>4, <1>5, <1>6, <1>7, <1>8 DEF OwnStep

\* What a dispatched call adds to the attempts: itself, if it pays.
Pays(h) ==
  \E x : /\ x.handler = h /\ attempts' = attempts \cup {x}
         /\ agent[h].pc = "create" /\ call[h].pc = "idle"

LEMMA DispatchPays ==
  ASSUME Trial, NEW h \in Handlers, Dispatch(h)
  PROVE  /\ call[h].pc = "idle" /\ call'[h].pc # "idle"
         /\ attempts' = attempts \/ Pays(h)
<1> DEFINE req == RequestOf(h)
           n == counts[req.tool] + 1
           started == [Idle EXCEPT !.req = req, !.n = n]
           d == call'[h]
<1>1. /\ call \in [Handlers -> CallState] /\ Idle \in CallState
      /\ agent[h].cleared => agent[h].pc \in ToolCalls
  BY IdleType DEF Trial, Consistent, TypeOK, Asks
<1>2. agent[h].pc \in ToolCalls /\ (Call(h, req) \/ OverBudget(h, req))
  BY <1>1 DEF Dispatch
<1>3. req.tool = "create_refund" => agent[h].pc = "create"
  BY <1>2 DEF RequestOf, ToolCalls, TicketCalls, RefundCalls, Screening
<1> HIDE DEF req
<1>4. call[h].pc = "idle"
  BY <1>2 DEF Call, OverBudget
<1>5. CASE OverBudget(h, req)
  <2>1. d = [Idle EXCEPT !.pc = "replied", !.req = req, !.reply = ErrorReply("budget_exceeded", 0)]
        /\ attempts' = attempts
    BY <1>1, <1>5 DEF OverBudget
  <2>2. d.pc = "replied"
    BY <1>1, <2>1 DEF CallState, Idle
  <2> QED BY <1>4, <2>1, <2>2
<1>6. CASE Call(h, req)
  <2>1. \E pc \in {"replied", "barrier", "called"} : \E reply :
          d \in {[started EXCEPT !.pc = pc], [started EXCEPT !.pc = pc, !.reply = reply]}
    <3>1. \/ \E f \in Faults : call' = [call EXCEPT ![h] = [started EXCEPT !.pc = "replied",
                                                   !.reply = ErrorReply(f.action, f.retry)]]
          \/ \E pc \in {"barrier", "called"} : call' = [call EXCEPT ![h] = [started EXCEPT !.pc = pc]]
      BY <1>6 DEF Call, FaultsAt
    <3> HIDE DEF started
    <3> QED BY <1>1, <3>1
  <2>2. d.pc # "idle"
    <3>1. PICK pc \in {"replied", "barrier", "called"} : \E reply :
            d \in {[started EXCEPT !.pc = pc], [started EXCEPT !.pc = pc, !.reply = reply]}
      BY <2>1
    <3>2. PICK reply : d \in {[started EXCEPT !.pc = pc], [started EXCEPT !.pc = pc, !.reply = reply]}
      BY <3>1
    <3>3. /\ [started EXCEPT !.pc = pc].pc = pc
          /\ [started EXCEPT !.pc = pc, !.reply = reply].pc = pc
      BY DEF Idle
    <3> QED BY <3>2, <3>3
  <2>3. attempts' = IF req.tool = "create_refund"
                      THEN attempts \cup {[handler |-> h, at |-> clock, n |-> n]} ELSE attempts
    BY <1>6, Zenon DEF Call
  <2>4. CASE req.tool = "create_refund"
    <3>1. [handler |-> h, at |-> clock, n |-> n].handler = h
      OBVIOUS
    <3> QED BY <1>3, <1>4, <2>2, <2>3, <2>4, <3>1 DEF Pays
  <2> QED BY <1>4, <2>2, <2>3, <2>4
<1> QED BY <1>2, <1>5, <1>6

\* A step that pays no more, and leaves the agent where it is or where it no
\* longer screens nor pays.
LEMMA NoPayPaced ==
  ASSUME Trial, Paced, NEW h \in Handlers, attempts' = attempts,
         agent'[h].attempt = agent[h].attempt, agent'[h].then = agent[h].then,
         \/ agent'[h].pc = agent[h].pc /\ (call'[h].pc = "idle" => call[h].pc = "idle")
         \/ {agent[h].pc, agent'[h].pc} \cap (Early \cup {"create", "existing"}) = {}
  PROVE  StaysPaced(h)
<1> DEFINE a == agent[h]
           b == agent'[h]
<1>1. Direct(b)
  BY PaceTypes DEF Direct
<1>2. Fresh(b, call'[h]) => Fresh(a, call[h])
  BY DEF Fresh
<1>3. a.attempt \in Nat /\ b.attempt = a.attempt
  BY PaceTypes
<1>4. Spent(a, call[h]) <= Spent(b, call'[h]) /\ Spent(b, call'[h]) \in Nat
  BY <1>2, <1>3 DEF Spent
<1> HIDE DEF a, b
<1>5. Cardinality(TriesOf(h)) <= Spent(a, call[h]) /\ Cardinality(TriesOf(h)) \in Nat
      /\ Spent(a, call[h]) \in Nat /\ IsFiniteSet(attempts)
  BY PaceTypes DEF a
<1>6. TriesOf(h)' = TriesOf(h)
  BY DEF TriesOf
<1>7. Cardinality(TriesOf(h)) <= Spent(b, call'[h])
  BY <1>4, <1>5
<1> QED BY <1>1, <1>5, <1>6, <1>7 DEF StaysPaced, b

LEMMA DispatchPaced ==
  ASSUME Trial, Paced, NEW h \in Handlers, Dispatch(h)
  PROVE  StaysPaced(h)
<1> DEFINE a == agent[h]
           b == agent'[h]
<1>1. call[h].pc = "idle" /\ call'[h].pc # "idle" /\ (attempts' = attempts \/ Pays(h))
  BY DispatchPays
<1>2. b.pc = a.pc /\ b.attempt = a.attempt /\ b.then = a.then
  <2>1. a \in Agent /\ agent \in [Handlers -> Agent]
    BY PaceTypes
  <2>2. b = [a EXCEPT !.cleared = FALSE]
    BY <2>1 DEF Dispatch, Become
  <2> QED BY <2>1, <2>2 DEF Agent
<1>3. CASE attempts' = attempts
  BY <1>1, <1>2, <1>3, NoPayPaced
<1>4. CASE Pays(h)
  <2>1. PICK x : x.handler = h /\ attempts' = attempts \cup {x} /\ a.pc = "create"
    BY <1>4 DEF Pays
  <2>2. TriesOf(h)' = TriesOf(h) \cup {x}
    BY <2>1 DEF TriesOf
  <2>3. /\ IsFiniteSet(TriesOf(h)) /\ Cardinality(TriesOf(h)) \in Nat /\ IsFiniteSet(attempts)
        /\ Cardinality(TriesOf(h)) <= Spent(a, call[h]) /\ a.attempt \in Nat /\ Direct(a)
    BY PaceTypes
  <2>4. IsFiniteSet(attempts')
    BY <2>1, <2>3, FS_AddElement
  <2>5. Cardinality(TriesOf(h)') <= Cardinality(TriesOf(h)) + 1 /\ Cardinality(TriesOf(h)') \in Nat
    <3>1. Cardinality(TriesOf(h) \cup {x}) \in {Cardinality(TriesOf(h)), Cardinality(TriesOf(h)) + 1}
      BY <2>3, FS_AddElement
    <3> QED BY <2>2, <2>3, <3>1
  <2>6. Spent(a, call[h]) = a.attempt /\ Spent(b, call'[h]) = a.attempt + 1
    BY <1>1, <1>2, <2>1 DEF Spent, Fresh, Early, Screening
  <2>7. Cardinality(TriesOf(h)') <= Spent(b, call'[h])
    BY <2>3, <2>5, <2>6
  <2>8. Direct(b)
    BY <1>2, <2>3 DEF Direct
  <2> QED BY <2>4, <2>7, <2>8 DEF StaysPaced
<1> QED BY <1>1, <1>3, <1>4

LEMMA ServicePaced ==
  ASSUME Trial, Paced, NEW h \in Handlers, ServiceStep(h)
  PROVE  StaysPaced(h)
<1>1. attempts' = attempts /\ agent' = agent
  BY DEF ServiceStep, PassBarrier, BreakBarrier, Serve, RateLimited, AnnounceRetry, CommitRefund,
         ReuseRefund, RefuseRefund, Read, GetTicket, AppendNote, UpdateTicket, WriteTicket, Escalate,
         ReceiveEvents, AckEvent, Respond, StaleRead, run
<1>2. /\ call[h] \in CallState /\ call \in [Handlers -> CallState]
      /\ Consistent /\ TypeOK /\ Answers(call[h], refunds)
  BY CallParts DEF Trial, Consistent, TypeOK
<1>3. call'[h].pc # "idle"
  <2>1. CASE PassBarrier(h) \/ BreakBarrier(h)
    BY <1>2, <2>1 DEF PassBarrier, BreakBarrier, Refuse, Finish, CallState
  <2>2. CASE Serves(h)
    BY <1>2, <2>2 DEF Serves, CallState
  <2>3. CASE Delivers(h)
    BY <1>2, <2>3 DEF Delivers, CallState
  <2> QED BY <1>2, <2>1, <2>2, <2>3, ServeServes, ResponseDelivers DEF ServiceStep
<1> QED BY <1>1, <1>3, NoPayPaced

LEMMA WakePaced ==
  ASSUME Trial, Paced, NEW h \in Handlers, Wake(h)
  PROVE  StaysPaced(h)
<1> DEFINE a == agent[h]
           b == agent'[h]
<1>1. a \in Agent /\ agent \in [Handlers -> Agent]
  BY PaceTypes
<1>2. a.pc = "dozing" /\ b = [a EXCEPT !.pc = "woken"] /\ attempts' = attempts
  BY <1>1 DEF Wake, Become
<1>3. b.pc = "woken" /\ b.attempt = a.attempt /\ b.then = a.then
  BY <1>1, <1>2 DEF Agent
<1> QED BY <1>2, <1>3, NoPayPaced DEF Early, Screening

\* A step of a handler leaves the others alone, and pays on nobody else's account.
LEMMA OthersStill ==
  ASSUME Trial, NEW h \in Handlers, Handle(h), NEW g \in Handlers \ {h}
  PROVE  /\ agent'[g] = agent[g] /\ call'[g] = call[g] /\ TriesOf(g)' = TriesOf(g)
<1>1. call \in [Handlers -> CallState] /\ TypeOK
  BY DEF Trial, Consistent, TypeOK
<1>2. CASE OwnStep(h)
  BY <1>2, OwnSteps, OthersStay DEF TriesOf
<1>3. CASE Hearing(h)
  BY <1>1, <1>3, HearingReady, OthersStay DEF HearsReady, Hear, TriesOf
<1>4. CASE Wake(h)
  BY <1>4, OthersStay DEF Wake, TriesOf
<1>5. CASE ServiceStep(h)
  <2>1. attempts' = attempts
    BY <1>5 DEF ServiceStep, PassBarrier, BreakBarrier, Serve, RateLimited, AnnounceRetry, CommitRefund,
         ReuseRefund, RefuseRefund, Read, GetTicket, AppendNote, UpdateTicket, WriteTicket, Escalate,
         ReceiveEvents, AckEvent, Respond, StaleRead, run
  <2>2. AnyStep(h)
    BY <1>5 DEF ServiceStep, AnyStep
  <2> QED BY <1>1, <2>1, <2>2, OtherReplies, OthersStay DEF TriesOf
<1>6. CASE Dispatch(h)
  <2>1. attempts' = attempts \/ \E x : x.handler = h /\ attempts' = attempts \cup {x}
    BY <1>6, DispatchPays DEF Pays
  <2>2. TriesOf(g)' = TriesOf(g)
    BY <2>1 DEF TriesOf
  <2>3. call'[g] = call[g]
    BY <1>1, <1>6 DEF Dispatch, Call, OverBudget
  <2> QED BY <2>2, <2>3, OthersStay
<1> QED BY <1>2, <1>3, <1>4, <1>5, <1>6 DEF Handle, Hearing, OwnStep

LEMMA InitPaced == RunInit /\ Corrected => Paced
<1> SUFFICES ASSUME RunInit, Corrected PROVE Paced
  OBVIOUS
<1>1. attempts = {}
  BY DEF RunInit, Init
<1>2. IsFiniteSet(attempts) /\ \A h : TriesOf(h) = {} /\ Cardinality(TriesOf(h)) = 0
  BY <1>1, FS_EmptySet DEF TriesOf
<1>3. ASSUME NEW h \in Handlers
      PROVE  Direct(agent[h]) /\ 0 <= Spent(agent[h], call[h])
  <2>1. PICK kind \in Agents, standing \in [Handlers -> Standings] :
          agent = [g \in Handlers |-> AtOnce(Starting(kind, standing[g]))]
    BY DEF RunInit
  <2> DEFINE s == standing[h]
  <2>2. agent[h] = AtOnce(Starting(kind, s)) /\ agent[h].kind = "corrected" /\ s \in Standings
    BY <2>1 DEF Corrected
  <2> HIDE DEF s
  <2>3. agent[h].kind = kind
    BY <2>2, StartingKind
  <2>4. AtOnce(Starting(kind, s)) = Starting(kind, s)
    BY <2>2, <2>3, StartingKind
  <2>5. /\ agent[h].pc \in {"escalate", "search", "customer"}
        /\ agent[h].then = "create" /\ agent[h].attempt = 0
    BY <2>2, <2>3, <2>4 DEF Starting, FirstCall, Mutants, FreshKeys, Claimants
  <2> QED BY <2>5 DEF Direct, Spent
<1> QED BY <1>2, <1>3 DEF Paced

LEMMA NextPaced == Trial /\ Corrected /\ Paced /\ [RunNext]_all => Paced'
<1> SUFFICES ASSUME Trial, Corrected, Paced, [RunNext]_all PROVE Paced'
  OBVIOUS
<1>1. ASSUME NEW h \in Handlers, Handle(h) PROVE StaysPaced(h)
  <2>1. agent[h].kind = "corrected"
    BY DEF Corrected
  <2> QED BY <1>1, <2>1, HearingPaced, OwnPaced, DispatchPaced, ServicePaced, WakePaced
          DEF Handle, Hearing, OwnStep
<1>2. ASSUME NEW h \in Handlers, Handle(h) PROVE Paced'
  <2>1. IsFiniteSet(attempts')
    BY <1>1, <1>2 DEF StaysPaced
  <2>2. ASSUME NEW g \in Handlers
        PROVE  Direct(agent'[g]) /\ Cardinality(TriesOf(g)') <= Spent(agent'[g], call'[g])
    <3>1. CASE g = h
      BY <1>1, <1>2, <3>1 DEF StaysPaced
    <3>2. CASE g # h
      BY <1>2, <3>2, OthersStill, PaceTypes
    <3> QED BY <3>1, <3>2
  <2> QED BY <2>1, <2>2 DEF Paced
<1>3. CASE UNCHANGED <<agent, call, attempts>>
  BY <1>3 DEF Paced, TriesOf
<1> QED BY <1>2, <1>3 DEF RunNext, Interrupt, Done, all, run

\* The retries of the reference agent are bounded by the policy of its task: the
\* check of evaluation_v2.py never fails it for too many payment attempts, where
\* the policy allows no more of them than the case does, whatever is lost, refused,
\* hidden or delayed, and however the handlers of a plan are interleaved.
THEOREM ControlRetriesAreBounded ==
  RunSpec => [](Corrected /\ MaxAttempts <= MaxRefundAttempts => BoundedRetries)
<1> DEFINE Inv == Trial /\ (Corrected => Paced)
<1>1. RunInit => Inv
  BY InitTrial, InitPaced
<1>2. Inv /\ [RunNext]_all => Inv'
  <2> SUFFICES ASSUME Inv, [RunNext]_all PROVE Inv'
    OBVIOUS
  <2>1. Kept /\ Trial'
    BY NextKept, KeptTrial
  <2>2. Corrected' => Corrected
    BY <2>1 DEF Kept, Identities, Corrected
  <2> QED BY <2>1, <2>2, NextPaced
<1>3. Inv => (Corrected /\ MaxAttempts <= MaxRefundAttempts => BoundedRetries)
  <2> SUFFICES ASSUME Trial, Paced, MaxAttempts <= MaxRefundAttempts, NEW h \in Handlers
               PROVE  Cardinality(TriesOf(h)) <= MaxRefundAttempts
    BY DEF BoundedRetries, TriesOf
  <2>1. /\ Cardinality(TriesOf(h)) \in Nat /\ Cardinality(TriesOf(h)) <= Spent(agent[h], call[h])
        /\ agent[h] \in Agent
    BY PaceTypes
  <2>2. MaxRefundAttempts \in Nat /\ MaxAttempts \in Nat
    BY ValidTrial, OracleAssumption
  <2>3. agent[h].attempt \in Nat /\ agent[h].attempt + 1 <= MaxAttempts
    BY <2>1, <2>2 DEF Agent
  <2>4. Spent(agent[h], call[h]) \in Nat /\ Spent(agent[h], call[h]) <= MaxAttempts
    BY <2>2, <2>3 DEF Spent
  <2> QED BY <2>1, <2>2, <2>4
<1> QED BY <1>1, <1>2, <1>3, PTL DEF RunSpec

-----------------------------------------------------------------------------
(***************************************************************************)
(* The logical deadline.  A sleep is checked against it before the          *)
(* transaction that advances the clock.  Where one handler runs after the   *)
(* other, nobody else moves the clock in between; in a concurrent plan      *)
(* another handler's sleep may.                                            *)
(***************************************************************************)
\* An agent in the middle of a call or of a sleep, and one about to wake in time.
Underway(h) == agent[h].cleared \/ call[h].pc # "idle" \/ agent[h].pc \in Resting
WakesInTime(h) == agent[h].pc = "dozing" => clock + agent[h].wait <= Deadline

Timely ==
  /\ clock <= Deadline
  /\ \A h \in Handlers : (Underway(h) => Active(h)) /\ WakesInTime(h)

LEMMA RecordedStays ==
  ASSUME Trial, [RunNext]_all, NEW g \in Handlers, agent[g].pc = "recorded"
  PROVE  agent'[g].pc = "recorded" /\ ~Underway(g)
<1>1. agent[g].pc \notin ToolCalls /\ agent[g].pc \notin Resting
  BY DEF ToolCalls, TicketCalls, RefundCalls, Screening, Resting
<1>2. ~agent[g].cleared /\ call[g].pc = "idle"
  BY <1>1 DEF Trial, Asks
<1>3. ~Handle(g)
  <2>1. ~ServiceStep(g)
    BY <1>2, CallMoves
  <2>2. ~Hearing(g)
    BY <1>2, HearingReady
  <2>3. ~(CheckBudget(g) \/ Dispatch(g) \/ Doze(g) \/ Wake(g) \/ Resume(g) \/ Return(g) \/ RecordReturn(g))
    BY <1>1, <1>2 DEF CheckBudget, Dispatch, Doze, Wake, Resume, Return, RecordReturn
  <2> QED BY <2>1, <2>2, <2>3 DEF Handle, Hearing
<1>4. ASSUME NEW h \in Handlers, Handle(h) PROVE agent'[g] = agent[g]
  BY <1>3, <1>4, OthersStay
<1>5. agent'[g] = agent[g]
  BY <1>4 DEF RunNext, Interrupt, Done, all, run
<1> QED BY <1>1, <1>2, <1>5 DEF Underway

\* The turn of a handler does not pass before it is recorded.
LEMMA ActiveStays ==
  ASSUME Trial, [RunNext]_all, NEW h \in Handlers, Active(h)
  PROVE  Active(h)'
<1> SUFFICES ASSUME Mode = "sequential", NEW i \in DOMAIN Plan, NEW j \in DOMAIN Plan, Plan[j] = h, i < j
             PROVE  agent'[Plan[i]].pc = "recorded"
  BY DEF Active
<1>1. agent[Plan[i]].pc = "recorded"
  BY DEF Active
<1>2. Plan[i] \in Handlers
  BY PlanAssumption DEF ValidPlan, Range
<1> QED BY <1>1, <1>2, RecordedStays

\* Nobody acts out of turn, except to record its return.
LEMMA ActsInTurn ==
  ASSUME Trial, Timely, NEW h \in Handlers, Handle(h), ~RecordReturn(h)
  PROVE  Active(h)
<1>1. CASE CheckBudget(h) \/ Return(h)
  BY <1>1 DEF CheckBudget, Return
<1>2. CASE Underway(h)
  BY <1>2 DEF Timely
<1>3. Dispatch(h) \/ ServiceStep(h) \/ Hearing(h) => Underway(h)
  BY CallMoves, HearingReady DEF Dispatch, Underway
<1>4. Doze(h) \/ Wake(h) \/ Resume(h) => Underway(h)
  BY DEF Doze, Wake, Resume, Underway, Resting
<1> QED BY <1>1, <1>2, <1>3, <1>4 DEF Handle, Hearing

\* Without concurrency two handlers are never underway together.
LEMMA OneUnderway ==
  ASSUME Trial, Timely, Mode # "concurrent", NEW g \in Handlers, NEW h \in Handlers,
         Underway(g), Underway(h), [RunNext]_all
  PROVE  g = h
<1> SUFFICES ASSUME g # h PROVE FALSE
  OBVIOUS
<1>1. Len(Plan) \in 1..8 /\ Range(Plan) = Handlers /\ Mode \in {"single", "sequential"}
      /\ (Mode = "single" => Len(Plan) = 1)
  BY PlanAssumption DEF ValidPlan
<1>2. PICK i \in DOMAIN Plan, j \in DOMAIN Plan : Plan[i] = g /\ Plan[j] = h /\ i # j
  BY <1>1 DEF Range
<1>3. DOMAIN Plan = 1..Len(Plan)
  BY PlanAssumption DEF ValidPlan
<1>4. CASE Mode = "single"
  BY <1>1, <1>2, <1>3, <1>4
<1>5. CASE Mode = "sequential"
  <2>1. Active(g) /\ Active(h)
    BY DEF Timely
  <2>2. i < j \/ j < i
    BY <1>1, <1>2, <1>3
  <2>3. agent[g].pc = "recorded" \/ agent[h].pc = "recorded"
    BY <1>2, <1>5, <2>1, <2>2 DEF Active
  <2> QED BY <2>3, RecordedStays
<1> QED BY <1>1, <1>4, <1>5

\* What a step of handler h leaves of its timing.
LEMMA StepTimely ==
  ASSUME Trial, Timely, NEW h \in Handlers, Handle(h), [RunNext]_all
  PROVE  /\ (Underway(h) => Active(h))' /\ WakesInTime(h)'
         /\ clock' <= Deadline
         /\ Wake(h) \/ clock' = clock
<1> DEFINE a == agent[h]
<1>1. /\ a \in Agent /\ agent \in [Handlers -> Agent] /\ a.wait \in Nat /\ Asks(h)
      /\ call \in [Handlers -> CallState]
  BY DEF Trial, Consistent, TypeOK, Agent
<1>2. ~RecordReturn(h) => Active(h)'
  BY ActsInTurn, ActiveStays
<1>3. RecordReturn(h) => ~Underway(h)'
  <2> SUFFICES ASSUME RecordReturn(h) PROVE ~Underway(h)'
    OBVIOUS
  <2>1. call' = call /\ call[h].pc = "idle"
    BY OwnSteps DEF OwnStep
  <2>2. a.pc = "returned" /\ agent'[h] = [a EXCEPT !.pc = "recorded", !.ticket = TicketAt(a.at)]
    BY <1>1 DEF RecordReturn, Become
  <2>3. agent'[h].pc = "recorded" /\ agent'[h].cleared = a.cleared
    BY <1>1, <2>2 DEF Agent
  <2>4. ~a.cleared
    BY <1>1, <2>2 DEF Asks, ToolCalls, TicketCalls, RefundCalls, Screening
  <2> QED BY <2>1, <2>3, <2>4 DEF Underway, Resting
<1>4. CASE Wake(h)
  <2>1. clock' = clock + a.wait /\ a.pc = "dozing" /\ clock + a.wait <= Deadline
    BY <1>4 DEF Wake, Sleep, Timely, WakesInTime
  <2>2. agent'[h].pc = "woken"
    BY <1>1, <1>4 DEF Wake, Become, Agent
  <2> QED BY <1>2, <1>3, <1>4, <2>1, <2>2 DEF WakesInTime
<1>5. CASE ~Wake(h)
  <2>1. clock' = clock
    <3>1. CASE OwnStep(h)
      BY <3>1, OwnSteps
    <3>2. CASE Hearing(h)
      BY <3>2, HearingReady DEF HearsReady, Hear
    <3>3. CASE Dispatch(h)
      BY <3>3 DEF Dispatch, Call, OverBudget
    <3>4. CASE ServiceStep(h)
      BY <3>4 DEF ServiceStep, PassBarrier, BreakBarrier, Respond, StaleRead, Serve, RateLimited,
         AnnounceRetry, CommitRefund, ReuseRefund, RefuseRefund, Read, GetTicket, AppendNote,
         UpdateTicket, WriteTicket, Escalate, ReceiveEvents, AckEvent
    <3> QED BY <1>5, <3>1, <3>2, <3>3, <3>4 DEF Handle, Hearing, OwnStep
  <2>2. WakesInTime(h)'
    <3> SUFFICES ASSUME agent'[h].pc = "dozing" PROVE clock + agent'[h].wait <= Deadline
      BY <2>1 DEF WakesInTime
    <3>1. CASE agent'[h].pc = a.pc /\ agent'[h].wait = a.wait
      BY <3>1 DEF Timely, WakesInTime
    <3>2. CASE Dispatch(h) \/ ServiceStep(h) \/ CheckBudget(h)
      <4>1. ASSUME NEW v \in BOOLEAN, agent'[h] = [a EXCEPT !.cleared = v]
            PROVE  agent'[h].pc = a.pc /\ agent'[h].wait = a.wait
        BY <1>1, <4>1 DEF Agent
      <4>2. ASSUME NEW o, agent'[h] = Leaving(a, o) PROVE FALSE
        BY <1>1, <4>2, Places
      <4> QED BY <1>1, <3>1, <3>2, <4>1, <4>2 DEF Dispatch, ServiceStep, CheckBudget, Become, run
    <3>3. CASE Hearing(h)
      BY <1>1, <3>3, HearingReady DEF HearsReady, Hear, Become, Ready
    <3>4. CASE Doze(h)
      <4>1. agent'[h] # Leaving(a, StopOutcome)
        BY <1>1, Places
      <4>2. ~(Overdue \/ clock + a.wait > Deadline) /\ agent'[h] = [a EXCEPT !.pc = "dozing"]
        BY <1>1, <3>4, <4>1 DEF Doze, Become
      <4>3. agent'[h].wait = a.wait
        BY <1>1, <4>2 DEF Agent
      <4>4. Deadline \in Nat /\ clock \in Nat
        <5>1. Deadline \in 1..1000
          BY PlanAssumption DEF ValidBudgets
        <5> QED BY <5>1 DEF Trial, Consistent, TypeOK
      <4> QED BY <1>1, <4>2, <4>3, <4>4
    <3>5. CASE Resume(h)
      BY <1>1, <3>5, Places, Destinations DEF Resume, Become
    <3>6. CASE Return(h)
      <4> DEFINE o == IF a.outcome = "completed" /\ Overdue THEN StopOutcome ELSE a.outcome
                 c == IF o = "completed" THEN a.claim ELSE "none"
                 w == IF a.refund = 0 THEN "none" ELSE refunds[a.refund].status
                 b == [a EXCEPT !.pc = "returned", !.outcome = o, !.at = clock, !.claim = c, !.owed = w]
      <4>1. agent'[h] = b
        BY <1>1, <3>6 DEF Return, Become
      <4> HIDE DEF o, w, c
      <4>2. b.pc = "returned"
        BY <1>1 DEF Agent
      <4> QED BY <4>1, <4>2
    <3>7. CASE RecordReturn(h)
      <4> DEFINE s == TicketAt(a.at)
      <4>1. agent'[h] = [a EXCEPT !.pc = "recorded", !.ticket = s]
        BY <1>1, <3>7 DEF RecordReturn, Become
      <4> HIDE DEF s
      <4>2. agent'[h].pc = "recorded"
        BY <1>1, <4>1 DEF Agent
      <4> QED BY <4>2
    <3> QED BY <1>5, <3>2, <3>3, <3>4, <3>5, <3>6, <3>7 DEF Handle, Hearing
  <2> QED BY <1>2, <1>3, <2>1, <2>2 DEF Timely
<1> QED BY <1>4, <1>5

LEMMA InitTimely == RunInit => Timely
<1> SUFFICES ASSUME RunInit PROVE Timely
  OBVIOUS
<1>1. clock = 0 /\ Deadline \in 1..1000 /\ call = [h \in Handlers |-> Idle]
  BY PlanAssumption DEF RunInit, Init, ValidBudgets
<1>2. ASSUME NEW h \in Handlers PROVE ~Underway(h)
  <2>1. PICK kind \in Agents, standing \in [Handlers -> Standings] :
          agent = [g \in Handlers |-> AtOnce(Starting(kind, standing[g]))]
    BY DEF RunInit
  <2> DEFINE s == standing[h]
  <2>2. agent[h] = AtOnce(Starting(kind, s)) /\ s \in Standings
    BY <2>1
  <2> HIDE DEF s
  <2>3. InitialRefunds \in Seq(Refund)
    BY ValidScenario
  <2>4. Fit(agent[h], InitialRefunds) /\ agent[h].cleared = FALSE /\ agent[h].kind = kind
    <3>1. LET a == AtOnce(Starting(kind, s))
          IN  Fit(a, InitialRefunds) /\ a.cleared = FALSE /\ a.kind = kind
      BY <2>2, <2>3, StartingFit, Zenon
    <3> QED BY <2>2, <3>1, Zenon
  <2>5. agent[h].pc \notin Resting
    <3>1. CASE kind = "success_without_evidence"
      BY <2>4, <3>1 DEF Fit, Placed, Gone, Resting
    <3>2. CASE kind # "success_without_evidence"
      <4>1. agent[h] = Starting(kind, s)
        BY <2>2, <3>2 DEF AtOnce, Starting
      <4>2. Starting(kind, s).pc = FirstCall(kind, s)
        BY DEF Starting
      <4> QED BY <4>1, <4>2 DEF FirstCall, Resting
    <3> QED BY <3>1, <3>2
  <2>6. call[h].pc = "idle"
    BY <1>1 DEF Idle
  <2> QED BY <2>4, <2>5, <2>6 DEF Underway
<1>3. \A h \in Handlers : WakesInTime(h)
  BY <1>2 DEF WakesInTime, Underway, Resting
<1> QED BY <1>1, <1>2, <1>3 DEF Timely

LEMMA NextTimely == Trial /\ Mode # "concurrent" /\ Timely /\ [RunNext]_all => Timely'
<1> SUFFICES ASSUME Trial, Mode # "concurrent", Timely, [RunNext]_all PROVE Timely'
  OBVIOUS
<1>1. ASSUME NEW h \in Handlers, Handle(h) PROVE Timely'
  <2>1. ASSUME NEW g \in Handlers, g # h
        PROVE  (Underway(g) => Active(g))' /\ WakesInTime(g)'
    <3>1. agent'[g] = agent[g] /\ call'[g] = call[g]
      BY <1>1, <2>1, OthersStill
    <3>2. Underway(g)' => Active(g)'
      BY <3>1, ActiveStays DEF Timely, Underway
    <3>3. CASE agent[g].pc = "dozing"
      <4>1. ~Wake(h)
        <5>1. Wake(h) => Underway(h)
          BY DEF Wake, Underway, Resting
        <5>2. Underway(g)
          BY <3>3 DEF Underway, Resting
        <5> QED BY <2>1, <5>1, <5>2, OneUnderway
      <4>2. clock' = clock
        BY <1>1, <4>1, StepTimely
      <4> QED BY <3>1, <3>2, <4>2 DEF Timely, WakesInTime
    <3>4. CASE agent[g].pc # "dozing"
      BY <3>1, <3>2, <3>4 DEF WakesInTime
    <3> QED BY <3>3, <3>4
  <2> QED BY <1>1, <2>1, StepTimely DEF Timely
<1>2. CASE UNCHANGED <<agent, call, clock>>
  BY <1>2, ActiveStays DEF Timely, Underway, WakesInTime
<1> QED BY <1>1, <1>2 DEF RunNext, Interrupt, Done, all, run

\* No sleep takes the clock past the deadline where the handlers run one after the
\* other, whichever agent they run: what was checked before the transaction of a
\* sleep still holds in it.  The restriction is needed: two handlers of a concurrent
\* plan may each be let to sleep and together pass the deadline (models.py:84).
THEOREM DeadlineKept == RunSpec => [](Mode # "concurrent" => LogicalDeadline)
<1> DEFINE Inv == Trial /\ (Mode # "concurrent" => Timely)
<1>1. RunInit => Inv
  BY InitTrial, InitTimely
<1>2. Inv /\ [RunNext]_all => Inv'
  <2> SUFFICES ASSUME Inv, [RunNext]_all PROVE Inv'
    OBVIOUS
  <2>1. Trial'
    BY NextKept, KeptTrial
  <2> QED BY <2>1, NextTimely
<1>3. Inv => (Mode # "concurrent" => LogicalDeadline)
  BY DEF Timely, LogicalDeadline
<1> QED BY <1>1, <1>2, <1>3, PTL DEF RunSpec

-----------------------------------------------------------------------------
(***************************************************************************)
(* The mutants that lie: two claim a refund whatever they were answered,    *)
(* one without a call.  They never leave with a result but this claim, for *)
(* which they cite no evidence.                                            *)
(***************************************************************************)
Liars == Claimants \cup {"success_without_evidence"}

Lies(a) ==
  /\ a.pc \in {"create"} \cup Gone /\ a.evidence = "none"
  /\ a.pc \in Gone => a.outcome # "running" /\ (a.outcome = "completed" => a.claim = "refunded")

Lying == \A h \in Handlers : agent[h].kind \in Liars => Lies(agent[h])

\* The two ways a liar leaves.
LEMMA LeavesLying ==
  ASSUME NEW a \in Agent, a.evidence = "none"
  PROVE  /\ Lies(FalseSuccess(a))
         /\ \A o : o \notin {"running", "completed"} => Lies(Leaving(a, o))
<1>1. Lies(FalseSuccess(a))
  <2>1. /\ FalseSuccess(a).pc = "return" /\ FalseSuccess(a).outcome = "completed"
        /\ FalseSuccess(a).claim = "refunded" /\ FalseSuccess(a).evidence = a.evidence
    BY DEF FalseSuccess, Leaving, Agent
  <2> QED BY <2>1 DEF Lies, Gone
<1>2. ASSUME NEW o, o \notin {"running", "completed"} PROVE Lies(Leaving(a, o))
  <2>1. Leaving(a, o).pc = "return" /\ Leaving(a, o).evidence = a.evidence /\ Leaving(a, o).outcome = o
    BY Places, Unmoved DEF SameData
  <2> QED BY <1>2, <2>1 DEF Lies, Gone
<1> QED BY <1>1, <1>2

\* What a liar hears makes it leave.
LEMMA HearingLies ==
  ASSUME Trial, NEW h \in Handlers, agent[h].kind \in Liars, Lies(agent[h]), Hearing(h)
  PROVE  \E b : Hear(h, b) /\ Lies(b)
<1> DEFINE a == agent[h]
<1>1. /\ a \in Agent /\ Fit(a, refunds) /\ a.pc \in ToolCalls /\ call[h].pc = "replied"
  BY HearingReady, Hears DEF Fit
<1>2. a.pc = "create" /\ a.kind \in Claimants
  <2>1. a.pc \notin Gone
    BY <1>1 DEF Gone, ToolCalls, TicketCalls, RefundCalls, Screening
  <2> QED BY <1>1, <2>1 DEF Lies, Liars, Fit, Placed
<1>3. a.kind \notin {"corrected", "faulty", "repeat_workflow", "fresh_key_on_empty_lookup",
                     "ignore_retry_after", "unbounded_retry"}
  BY <1>2 DEF Claimants
<1>4. Lies(FalseSuccess(a)) /\ \A o \in {"timed_out", "errored"} : Lies(Leaving(a, o))
  BY <1>1, LeavesLying DEF Lies
<1>5. CASE HearPayment(h)
  BY <1>2, <1>4, <1>5 DEF HearPayment
<1>6. CASE HearRefusal(h)
  BY <1>2, <1>3, <1>4, <1>6 DEF HearRefusal
<1>7. CASE HearFatal(h)
  BY <1>4, <1>7 DEF HearFatal
<1>8. Hearing(h) => HearPayment(h) \/ HearRefusal(h) \/ HearFatal(h)
  BY <1>2, <1>3 DEF Hearing, Screen, HearRefund, HearExisting, HearTicket, HearEvent, HearEscalation,
     HearProbe, HearError, Answered, Screening, TicketCalls
<1> QED BY <1>5, <1>6, <1>7, <1>8

LEMMA StepLies ==
  ASSUME Trial, NEW h \in Handlers, agent[h].kind \in Liars, Lies(agent[h]), Handle(h)
  PROVE  Lies(agent'[h])
<1> DEFINE a == agent[h]
<1>1. a \in Agent /\ agent \in [Handlers -> Agent] /\ a.evidence = "none"
  BY DEF Trial, Lies
<1>2. ASSUME NEW b, Become(h, b), Lies(b) PROVE Lies(agent'[h])
  BY <1>1, <1>2 DEF Become
<1>3. CASE Hearing(h)
  BY <1>2, <1>3, HearingLies DEF Hear
<1>4. \A c : Lies([a EXCEPT !.cleared = c])
  <2> SUFFICES ASSUME NEW c PROVE Lies([a EXCEPT !.cleared = c])
    OBVIOUS
  <2> DEFINE b == [a EXCEPT !.cleared = c]
  <2>1. b.pc = a.pc /\ b.outcome = a.outcome /\ b.claim = a.claim /\ b.evidence = a.evidence
    BY <1>1 DEF Agent
  <2> HIDE DEF b
  <2>2. Lies(b)
    BY <2>1 DEF Lies
  <2> QED BY <2>2 DEF b
<1>5. Lies(Leaving(a, StopOutcome))
  BY <1>1, LeavesLying DEF StopOutcome
<1>6. CASE CheckBudget(h)
  BY <1>2, <1>4, <1>5, <1>6 DEF CheckBudget
<1>7. CASE Dispatch(h)
  BY <1>2, <1>4, <1>7 DEF Dispatch
<1>8. CASE ServiceStep(h)
  BY <1>8 DEF ServiceStep, run
<1>9. ~Doze(h) /\ ~Wake(h) /\ ~Resume(h)
  BY DEF Lies, Gone, Doze, Wake, Resume
<1>10. CASE Return(h)
  <2> DEFINE o == IF a.outcome = "completed" /\ Overdue THEN StopOutcome ELSE a.outcome
             c == IF o = "completed" THEN a.claim ELSE "none"
             w == IF a.refund = 0 THEN "none" ELSE refunds[a.refund].status
             b == [a EXCEPT !.pc = "returned", !.outcome = o, !.at = clock, !.claim = c, !.owed = w]
  <2>1. a.pc = "return" /\ Become(h, b)
    BY <1>10 DEF Return
  <2>2. o # "running" /\ (o = "completed" => a.outcome = "completed" /\ c = a.claim)
    BY <2>1 DEF StopOutcome, Lies, Gone
  <2> HIDE DEF o, w, c
  <2>3. b.pc = "returned" /\ b.outcome = o /\ b.claim = c /\ b.evidence = a.evidence
    BY <1>1 DEF Agent
  <2> HIDE DEF b
  <2>4. Lies(b)
    BY <2>1, <2>2, <2>3 DEF Lies, Gone
  <2> QED BY <1>2, <2>1, <2>4
<1>11. CASE RecordReturn(h)
  <2> DEFINE s == TicketAt(a.at)
             b == [a EXCEPT !.pc = "recorded", !.ticket = s]
  <2>1. a.pc = "returned" /\ Become(h, b)
    BY <1>11 DEF RecordReturn
  <2> HIDE DEF s
  <2>2. b.pc = "recorded" /\ b.outcome = a.outcome /\ b.claim = a.claim /\ b.evidence = a.evidence
    BY <1>1 DEF Agent
  <2> HIDE DEF b
  <2>3. Lies(b)
    BY <2>1, <2>2 DEF Lies, Gone
  <2> QED BY <1>2, <2>1, <2>3
<1> QED BY <1>3, <1>6, <1>7, <1>8, <1>9, <1>10, <1>11 DEF Handle, Hearing

LEMMA InitLying == RunInit => Lying
<1> SUFFICES ASSUME RunInit, NEW h \in Handlers, agent[h].kind \in Liars PROVE Lies(agent[h])
  BY DEF Lying
<1>1. PICK kind \in Agents, standing \in [Handlers -> Standings] :
        agent = [g \in Handlers |-> AtOnce(Starting(kind, standing[g]))]
  BY DEF RunInit
<1> DEFINE s == standing[h]
           a == Starting(kind, s)
<1>2. agent[h] = AtOnce(a) /\ s \in Standings
  BY <1>1
<1>3. kind \in Liars
  BY <1>2, StartingKind
<1>4. a.kind = kind /\ a.pc = FirstCall(kind, s) /\ a.evidence = "none"
  BY DEF Starting
<1>5. /\ FalseSuccess(a).pc = "return" /\ FalseSuccess(a).outcome = "completed"
      /\ FalseSuccess(a).claim = "refunded" /\ FalseSuccess(a).evidence = "none"
  BY DEF FalseSuccess, Leaving, Starting
<1>6. FirstCall(kind, s) = "create"
  BY <1>3 DEF FirstCall, Liars, Claimants, Mutants
<1> HIDE DEF a
<1>7. AtOnce(a) \in {a, FalseSuccess(a)}
  BY DEF AtOnce
<1> QED BY <1>2, <1>4, <1>5, <1>6, <1>7 DEF Lies, Gone

LEMMA NextLying == Trial /\ Lying /\ [RunNext]_all => Lying'
<1> SUFFICES ASSUME Trial, Lying, [RunNext]_all, NEW g \in Handlers, agent'[g].kind \in Liars
             PROVE  Lies(agent'[g])
  BY DEF Lying
<1>1. agent[g].kind \in Liars /\ Lies(agent[g])
  BY NextKept DEF Kept, Identities, Lying
<1>2. CASE agent' = agent
  BY <1>1, <1>2
<1>3. ASSUME NEW h \in Handlers, Handle(h) PROVE Lies(agent'[g])
  <2>1. CASE g = h
    BY <1>1, <1>3, <2>1, StepLies
  <2>2. CASE g # h
    BY <1>1, <1>3, <2>2, OthersStay
  <2> QED BY <2>1, <2>2
<1> QED BY <1>2, <1>3 DEF RunNext, Interrupt, Done, all, run

\* No liar gets away, whatever it was answered, in every plan, fixture, fault and
\* interleaving: a trial whose handlers all return ends with a claim for which
\* there is no evidence, so it is detected, and no stop of its worker makes it
\* pass.  (What the other mutants do wrong depends on the scenario.)
THEOREM LiarsAreCaught ==
  RunSpec => []((\A h \in Handlers : agent[h].kind \in Liars) => FaultyIsCaught)
<1> DEFINE AllLie == \A h \in Handlers : agent[h].kind \in Liars
<1>1. Trial /\ Lying => (AllLie => FaultyIsCaught)
  <2> SUFFICES ASSUME Trial, Lying, AllLie, ~Corrected, NEW status \in Ends
               PROVE  IF status = "completed" THEN Observation(status) = "detected"
                                              ELSE Observation(status) # "missed"
    BY DEF FaultyIsCaught
  <2>1. CASE status # "completed"
    BY <2>1 DEF Verdict, Observation
  <2>2. CASE status = "completed"
    <3>1. Recorded = Handlers /\ ExecutionStatus = "completed"
      BY <2>2 DEF Ends
    <3>2. PICK h \in Handlers : TRUE
      BY DEF Corrected
    <3>3. \A g \in Handlers : agent[g].pc = "recorded" /\ agent[g].outcome # "running" /\ agent[g] \in Agent
      BY <3>1 DEF Recorded, Lying, Lies, Gone, Trial
    <3>4. agent[h].outcome = "completed"
      <4> DEFINE statuses == {agent[g].outcome : g \in Handlers}
      <4>1. statuses \subseteq {"completed", "timed_out", "cancelled", "errored"}
        BY <3>3 DEF Agent
      <4> HIDE DEF statuses
      <4>2. statuses = {"completed"}
        BY <3>1, <4>1, <3>2 DEF ExecutionStatus, statuses
      <4> QED BY <4>2 DEF statuses
    <3>5. HasResult(h) /\ ~ClaimHolds(h) /\ h \in Recorded
      BY <3>1, <3>3, <3>4 DEF Lying, Lies, Gone, HasResult, ClaimHolds
    <3>6. ClaimFailed
      BY <3>5 DEF ClaimFailed
    <3> QED BY <2>2, <3>6 DEF Verdict, Observation
  <2> QED BY <2>1, <2>2
<1>2. RunSpec => []Lying
  <2>1. Trial /\ Lying /\ [RunNext]_all => Trial' /\ Lying'
    BY NextKept, KeptTrial, NextLying
  <2> QED BY <2>1, InitTrial, InitLying, PTL DEF RunSpec
<1> QED BY <1>1, <1>2, TrialAlways, PTL

-----------------------------------------------------------------------------
(***************************************************************************)
(* What the reference agent leaves behind when it returns a result: a claim *)
(* that it refunded a cleared task, with a note of the request on the       *)
(* ticket, or that it escalated.                                           *)
(***************************************************************************)
Wrote(op, t) == \E n \in t.notes : n.op = op

Closes(a, h, t) ==
  /\ a.pc \in {"receive", "e_refund", "e_ack"} \/ a.outcome = "completed" => a.claim # "none"
  /\ a.pc \in Gone => a.outcome # "running"
  /\ a.claim = "refunded" => a.standing = "clear"
  /\ a.pc = "t_update" \/ a.claim = "refunded" => Wrote(Task[h].request, t)

\* Each note names a paid refund of its own request, and a call that was answered
\* has written its note.
Documented ==
  /\ \A n \in ticket.notes : \E h \in Handlers : n.op = Task[h].request /\ PaidUp(n.about, h, refunds)
  /\ \A h \in Handlers : /\ Closes(agent[h], h, ticket)
                         /\ Has(call[h]) /\ call[h].req.tool = "append_note" => Wrote(call[h].req.op, ticket)

\* The agent goes on to a place where it need not have a result, or leaves without.
Final == {"receive", "e_refund", "e_ack", "t_update"} \cup Gone

Onward(b, a) ==
  b.standing = a.standing /\ b.claim = a.claim /\ b.outcome = a.outcome /\ b.pc \notin Final
Quits(b, a) ==
  /\ b.standing = a.standing /\ b.claim = a.claim /\ b.pc = "return"
  /\ b.outcome \in {"timed_out", "cancelled", "errored"}

LEMMA OnwardCloses ==
  ASSUME NEW h, NEW t, NEW a, Closes(a, h, t), NEW b, Onward(b, a) \/ Quits(b, a)
  PROVE  Closes(b, h, t)
BY DEF Closes, Onward, Quits, Final, Gone

LEMMA OnwardPlaces ==
  ASSUME NEW a \in Agent
  PROVE  /\ Onward(GiveUp(a), a) /\ Onward(Judge(a), a) /\ Onward(Retrying(a), a)
         /\ \A s, then : Onward(Asleep(a, s, then), a) /\ Onward([Asleep(a, s, then) EXCEPT !.pc = "probe"], a)
         /\ \A after : Onward(Closing(a, after), a)
         /\ \A pc : pc \notin Final => Onward([a EXCEPT !.pc = pc], a)
         /\ \A o \in {"timed_out", "cancelled", "errored"} : Quits(Leaving(a, o), a)
<1>1. Onward(GiveUp(a), a)
  <2>1. /\ GiveUp(a).standing = a.standing /\ GiveUp(a).claim = a.claim /\ GiveUp(a).outcome = a.outcome
        /\ GiveUp(a).pc = "escalate"
    BY DEF GiveUp, Agent
  <2> QED BY <2>1 DEF Onward, Final, Gone
<1>2. ASSUME NEW s, NEW then
      PROVE  Onward(Asleep(a, s, then), a) /\ Onward([Asleep(a, s, then) EXCEPT !.pc = "probe"], a)
  <2> DEFINE b == Asleep(a, s, then)
             c == [Asleep(a, s, then) EXCEPT !.pc = "probe"]
  <2>1. b.standing = a.standing /\ b.claim = a.claim /\ b.outcome = a.outcome /\ b.pc = "sleep"
    BY DEF Asleep, Agent
  <2>2. c.standing = a.standing /\ c.claim = a.claim /\ c.outcome = a.outcome /\ c.pc = "probe"
    BY DEF Asleep, Agent
  <2> HIDE DEF b, c
  <2>3. Onward(b, a) /\ Onward(c, a)
    BY <2>1, <2>2 DEF Onward, Final, Gone
  <2> QED BY <2>3 DEF b, c
<1>3. ASSUME NEW after PROVE Onward(Closing(a, after), a)
  <2> DEFINE b == Closing(a, after)
  <2>1. b.standing = a.standing /\ b.claim = a.claim /\ b.outcome = a.outcome /\ b.pc = "t_ticket"
    BY DEF Closing, Agent
  <2> HIDE DEF b
  <2>2. Onward(b, a)
    BY <2>1 DEF Onward, Final, Gone
  <2> QED BY <2>2 DEF b
<1>4. ASSUME NEW pc, pc \notin Final PROVE Onward([a EXCEPT !.pc = pc], a)
  <2> DEFINE b == [a EXCEPT !.pc = pc]
  <2>1. b.standing = a.standing /\ b.claim = a.claim /\ b.outcome = a.outcome /\ b.pc = pc
    BY DEF Agent
  <2> HIDE DEF b
  <2>2. Onward(b, a)
    BY <1>4, <2>1 DEF Onward
  <2> QED BY <2>2 DEF b
<1>5. ASSUME NEW o \in {"timed_out", "cancelled", "errored"} PROVE Quits(Leaving(a, o), a)
  <2> DEFINE b == Leaving(a, o)
  <2>1. b.standing = a.standing /\ b.claim = a.claim /\ b.outcome = o /\ b.pc = "return"
    BY DEF Leaving, Agent
  <2> HIDE DEF b
  <2>2. Quits(b, a)
    BY <2>1 DEF Quits
  <2> QED BY <2>2 DEF b
<1>6. Onward(Judge(a), a)
  BY <1>1, <1>2, <1>3 DEF Judge
<1>7. Onward(Retrying(a), a)
  <2> DEFINE b == Retrying(a)
  <2>1. b.standing = a.standing /\ b.claim = a.claim /\ b.outcome = a.outcome
    <3>1. a.then \in {"create", "existing", "poll", "t_ticket"}
      BY DEF Agent
    <3>2. \A pc : LET c == [a EXCEPT !.pc = pc]
                  IN  c.standing = a.standing /\ c.claim = a.claim /\ c.outcome = a.outcome
      BY DEF Agent
    <3>3. \A pc, n : LET c == [a EXCEPT !.pc = pc, !.tries = n]
                     IN  c.standing = a.standing /\ c.claim = a.claim /\ c.outcome = a.outcome
      BY DEF Agent
    <3>4. \A pc, n : LET c == [a EXCEPT !.pc = pc, !.attempt = n, !.poll = 0, !.after = "return"]
                     IN  c.standing = a.standing /\ c.claim = a.claim /\ c.outcome = a.outcome
      BY DEF Agent
    <3> QED BY <1>1, <3>1, <3>2, <3>3, <3>4 DEF Retrying, LastRound, Onward
  <2>2. b.pc \in {"poll", "t_ticket", "escalate", "create", "existing"}
    BY Destinations
  <2> HIDE DEF b
  <2>3. Onward(b, a)
    BY <2>1, <2>2 DEF Onward, Final, Gone
  <2> QED BY <2>3 DEF b
<1> QED BY <1>1, <1>2, <1>3, <1>4, <1>5, <1>6, <1>7

\* An agent that has its result goes on, or returns it.
LEMMA ResultCloses ==
  ASSUME NEW h, NEW t, NEW a \in Agent, a.claim # "none",
         a.claim = "refunded" => a.standing = "clear" /\ Wrote(Task[h].request, t)
  PROVE  /\ a.after # "return" \/ a.pc \notin Gone => Closes(Continue(a), h, t)
         /\ Closes(NextEvent(a), h, t)
<1>1. Closes(Leaving(a, "completed"), h, t)
  <2> DEFINE b == Leaving(a, "completed")
  <2>1. b.standing = a.standing /\ b.claim = a.claim /\ b.outcome = "completed" /\ b.pc = "return"
    BY DEF Leaving, Agent
  <2> HIDE DEF b
  <2>2. Closes(b, h, t)
    BY <2>1 DEF Closes
  <2> QED BY <2>2 DEF b
<1>2. ASSUME NEW pc \in {"receive", "e_ack", "e_refund"} PROVE Closes([a EXCEPT !.pc = pc], h, t)
  <2> DEFINE b == [a EXCEPT !.pc = pc]
  <2>1. b.standing = a.standing /\ b.claim = a.claim /\ b.outcome = a.outcome /\ b.pc = pc
    BY DEF Agent
  <2> HIDE DEF b
  <2>2. Closes(b, h, t)
    BY <2>1 DEF Closes, Gone
  <2> QED BY <2>2 DEF b
<1>3. a.after \in {"return", "receive", "e_ack"}
  BY DEF Agent
<1> QED BY <1>1, <1>2, <1>3 DEF Continue, NextEvent

HearsClosing(h) == \E b : Hear(h, b) /\ Closes(b, h, ticket)

LEMMA PaymentCloses ==
  ASSUME Trial, Documented, NEW h \in Handlers, Screen(h) \/ HearRefund(h)
  PROVE  HearsClosing(h)
<1> DEFINE a == agent[h]
           r == call[h].reply
           At(b) == Closes(b, h, ticket)
<1>1. a \in Agent /\ Able(a, a, refunds) /\ Fit(a, refunds) /\ At(a)
  BY Hears DEF Screen, HearRefund, Answered, Fit, Documented
<1>2. \A b : Onward(b, a) \/ Quits(b, a) => At(b)
  BY <1>1, OnwardCloses
<1>3. /\ At(GiveUp(a)) /\ At(Leaving(a, "errored")) /\ At(Asleep(a, 1, "create"))
      /\ \A pc \in {"order", "ticket", "create", "list"} : At([a EXCEPT !.pc = pc])
  BY <1>1, <1>2, OnwardPlaces DEF Final, Gone
<1>4. CASE Screen(h)
  <2> SUFFICES \E b : Hear(h, b) /\ At(b)
    BY DEF HearsClosing
  <2> HIDE DEF At
  <2> QED BY <1>3, <1>4 DEF Screen, Answered, Screening
<1>5. CASE HearRefund(h)
  <2>1. ASSUME NEW b \in Agent, b.standing = a.standing, b.claim = a.claim, b.outcome = a.outcome
        PROVE  At(Judge(b))
    <3>1. Onward(Judge(b), b)
      BY OnwardPlaces
    <3> QED BY <1>2, <2>1, <3>1 DEF Onward
  <2>2. At(Judge(Learn(a, r)))
    <3> DEFINE b == Learn(a, r)
    <3>1. b \in Agent
      BY <1>5, LearnAble, Hears DEF HearRefund, Answered, Able
    <3>2. b.standing = a.standing /\ b.claim = a.claim /\ b.outcome = a.outcome
      BY <1>1 DEF Learn, Agent
    <3> HIDE DEF b, At
    <3>3. At(Judge(b))
      BY <2>1, <3>1, <3>2
    <3> QED BY <3>3 DEF b
  <2>3. a.pc = "poll" => At(Judge([Learn(a, r) EXCEPT !.poll = @ + 1]))
    <3> SUFFICES ASSUME a.pc = "poll" PROVE At(Judge([Learn(a, r) EXCEPT !.poll = @ + 1]))
      OBVIOUS
    <3> DEFINE b == [Learn(a, r) EXCEPT !.poll = @ + 1]
    <3>1. b \in Agent
      <4>1. Able(Learn(a, r), a, refunds)
        BY <1>5, LearnAble, Hears DEF HearRefund, Answered
      <4>2. Learn(a, r).poll < MaxAttempts
        <5>1. a.poll < MaxAttempts
          BY <1>1 DEF Fit, Placed
        <5> QED BY <1>1, <5>1 DEF Learn, Agent
      <4>3. Able(b, a, refunds)
        BY <4>1, <4>2, LearnAble
      <4> QED BY <4>3 DEF Able
    <3>2. b.standing = a.standing /\ b.claim = a.claim /\ b.outcome = a.outcome
      BY <1>1 DEF Learn, Agent
    <3> HIDE DEF b, At
    <3>3. At(Judge(b))
      BY <2>1, <3>1, <3>2
    <3> QED BY <3>3 DEF b
  <2>4. ASSUME NEW i PROVE At([a EXCEPT !.pc = "lookup", !.refund = i])
    <3> DEFINE b == [a EXCEPT !.pc = "lookup", !.refund = i]
    <3>1. b.standing = a.standing /\ b.claim = a.claim /\ b.outcome = a.outcome /\ b.pc = "lookup"
      BY <1>1 DEF Agent
    <3> HIDE DEF b, At
    <3>2. Onward(b, a)
      BY <3>1 DEF Onward, Final, Gone
    <3>3. At(b)
      BY <1>2, <3>2
    <3> QED BY <3>3 DEF b
  <2> SUFFICES \E b : Hear(h, b) /\ At(b)
    BY DEF HearsClosing
  <2> DEFINE mine == {i \in r.found : refunds[i].key = OperationKey(h)}
  <2> HIDE DEF At, mine
  <2> QED BY <1>3, <1>5, <2>2, <2>3, <2>4 DEF HearRefund, mine, Answered
<1> QED BY <1>4, <1>5

LEMMA ExistingCloses ==
  ASSUME Trial, Documented, NEW h \in Handlers, HearExisting(h)
  PROVE  HearsClosing(h)
<1> DEFINE a == agent[h]
           At(b) == Closes(b, h, ticket)
<1>1. a \in Agent /\ At(a)
  BY Hears DEF HearExisting, Answered, Fit, Documented
<1>2. At([a EXCEPT !.pc = "create"])
  BY <1>1, OnwardPlaces, OnwardCloses DEF Final, Gone
<1>3. ASSUME NEW i PROVE At([a EXCEPT !.pc = "known", !.refund = i])
  <2> DEFINE b == [a EXCEPT !.pc = "known", !.refund = i]
  <2>1. b.standing = a.standing /\ b.claim = a.claim /\ b.outcome = a.outcome /\ b.pc = "known"
    BY <1>1 DEF Agent
  <2> HIDE DEF b
  <2>2. Onward(b, a)
    BY <2>1 DEF Onward, Final, Gone
  <2>3. At(b)
    BY <1>1, <2>2, OnwardCloses
  <2> QED BY <2>3 DEF b
<1> SUFFICES \E b : Hear(h, b) /\ At(b)
  BY DEF HearsClosing
<1> HIDE DEF At
<1> QED BY <1>2, <1>3 DEF HearExisting

\* The answer to the note is heard before the ticket is resolved, and the claim is
\* made after it.
LEMMA TicketCloses ==
  ASSUME Trial, Rightful, Documented, NEW h \in Handlers, HearTicket(h)
  PROVE  HearsClosing(h)
<1> DEFINE a == agent[h]
           r == call[h].reply
           At(b) == Closes(b, h, ticket)
<1>1. /\ a \in Agent /\ Able(a, a, refunds) /\ At(a) /\ Screened(a)
      /\ call[h].req = RequestOf(h) /\ call[h].pc = "replied" /\ r.code = "ok"
      /\ a.pc \in TicketCalls /\ r.shape \in {"full", "incomplete", "empty"}
      /\ a.status \in RefundStatuses \cup {"none"}
  BY Hears DEF HearTicket, Answered, Fit, Documented, Rightful, Agent
<1>2. a.standing = "clear"
  BY <1>1 DEF Screened, Begun, TicketCalls, Screening, Gone
<1>3. At(Leaving(a, "errored")) /\ At([a EXCEPT !.pc = "escalate"])
  BY <1>1, OnwardPlaces, OnwardCloses DEF Final, Gone
<1>4. ASSUME NEW v PROVE At([a EXCEPT !.pc = "t_note", !.version = v])
  <2> DEFINE b == [a EXCEPT !.pc = "t_note", !.version = v]
  <2>1. b.standing = a.standing /\ b.claim = a.claim /\ b.outcome = a.outcome /\ b.pc = "t_note"
    BY <1>1 DEF Agent
  <2> HIDE DEF b
  <2>2. Onward(b, a)
    BY <2>1 DEF Onward, Final, Gone
  <2>3. At(b)
    BY <1>1, <2>2, OnwardCloses
  <2> QED BY <2>3 DEF b
<1>5. ASSUME a.pc = "t_note", r.shape # "empty", NEW v
      PROVE  At([a EXCEPT !.pc = "t_update", !.version = v])
  <2> DEFINE b == [a EXCEPT !.pc = "t_update", !.version = v]
  <2>1. Wrote(Task[h].request, ticket)
    <3>1. RequestOf(h) = [tool |-> "append_note", op |-> Task[h].request, about |-> a.refund,
                          expected |-> a.version]
      BY <1>5 DEF RequestOf
    <3>2. call[h].req.tool = "append_note" /\ call[h].req.op = Task[h].request
      BY <1>1, <3>1
    <3>3. Has(call[h])
      BY <1>1, <1>5 DEF Has
    <3> QED BY <3>2, <3>3 DEF Documented
  <2>2. b.standing = a.standing /\ b.claim = a.claim /\ b.outcome = a.outcome /\ b.pc = "t_update"
    BY <1>1 DEF Agent
  <2> HIDE DEF b
  <2>3. At(b)
    BY <1>1, <2>1, <2>2 DEF Closes, Gone
  <2> QED BY <2>3 DEF b
<1>6. a.pc = "t_update" => At(Continue([a EXCEPT !.claim = "refunded", !.evidence = a.status]))
  <2> SUFFICES ASSUME a.pc = "t_update"
               PROVE  At(Continue([a EXCEPT !.claim = "refunded", !.evidence = a.status]))
    OBVIOUS
  <2> DEFINE b == [a EXCEPT !.claim = "refunded", !.evidence = a.status]
  <2>1. b \in Agent
    BY <1>1, LearnAble DEF Able
  <2>2. b.claim = "refunded" /\ b.standing = a.standing /\ b.pc = a.pc
    BY <1>1 DEF Agent
  <2>3. Wrote(Task[h].request, ticket)
    BY <1>1 DEF Closes
  <2> HIDE DEF b
  <2>4. At(Continue(b))
    BY <1>2, <2>1, <2>2, <2>3, ResultCloses DEF Gone
  <2> QED BY <2>4 DEF b
<1> SUFFICES \E b : Hear(h, b) /\ At(b)
  BY DEF HearsClosing
<1> HIDE DEF At
<1> QED BY <1>1, <1>3, <1>4, <1>5, <1>6 DEF HearTicket, TicketCalls

LEMMA EventCloses ==
  ASSUME Trial, Documented, NEW h \in Handlers, HearEvent(h)
  PROVE  HearsClosing(h)
<1> DEFINE a == agent[h]
           r == call[h].reply
           At(b) == Closes(b, h, ticket)
<1>1. /\ a \in Agent /\ At(a) /\ a.pc \in {"receive", "e_refund", "e_ack"} /\ a.claim # "none"
      /\ r.events \subseteq Delivery /\ a.queue \subseteq Delivery
  <2>1. call[h].pc = "replied" /\ a.pc \in {"receive", "e_refund", "e_ack"}
    BY DEF HearEvent, Answered
  <2> QED BY <2>1, Hears DEF Agent, Fit, Documented, Closes
<1>2. At(Leaving(a, "errored"))
  BY <1>1, OnwardPlaces, OnwardCloses
<1>3. ASSUME NEW q, q \subseteq Delivery PROVE At(NextEvent([a EXCEPT !.queue = q]))
  <2> DEFINE b == [a EXCEPT !.queue = q]
  <2>1. b \in Agent
    BY <1>1, <1>3 DEF Agent
  <2>2. b.claim = a.claim /\ b.standing = a.standing
    BY <1>1 DEF Agent
  <2> HIDE DEF b
  <2>3. At(NextEvent(b))
    BY <1>1, <2>1, <2>2, ResultCloses DEF Closes
  <2> QED BY <2>3 DEF b
<1>4. At(NextEvent([a EXCEPT !.queue = r.events])) /\ At(NextEvent([a EXCEPT !.queue = @ \ {Earliest(@)}]))
  BY <1>1, <1>3
<1>5. At(Closing(Learn(a, r), "e_ack"))
  <2> DEFINE b == Learn(a, r)
  <2>1. b \in Agent
    BY LearnAble, Hears DEF HearEvent, Answered, Able
  <2>2. b.claim = a.claim /\ b.standing = a.standing /\ b.outcome = a.outcome
    BY <1>1 DEF Learn, Agent
  <2> HIDE DEF b
  <2>3. Onward(Closing(b, "e_ack"), a)
    BY <2>1, <2>2, OnwardPlaces DEF Onward
  <2>4. At(Closing(b, "e_ack"))
    BY <1>1, <2>3, OnwardCloses
  <2> QED BY <2>4 DEF b
<1>6. At([a EXCEPT !.pc = "e_ack"])
  <2> DEFINE b == [a EXCEPT !.pc = "e_ack"]
  <2>1. b.standing = a.standing /\ b.claim = a.claim /\ b.outcome = a.outcome /\ b.pc = "e_ack"
    BY <1>1 DEF Agent
  <2> HIDE DEF b
  <2>2. At(b)
    BY <1>1, <2>1 DEF Closes, Gone
  <2> QED BY <2>2 DEF b
<1> SUFFICES \E b : Hear(h, b) /\ At(b)
  BY DEF HearsClosing
<1> HIDE DEF At
<1> QED BY <1>1, <1>2, <1>4, <1>5, <1>6 DEF HearEvent

LEMMA EscalationCloses ==
  ASSUME Trial, Documented, NEW h \in Handlers, HearEscalation(h)
  PROVE  HearsClosing(h)
<1> DEFINE a == agent[h]
           b == [a EXCEPT !.claim = "escalated", !.evidence = "none"]
<1>1. a \in Agent /\ a.pc = "escalate" /\ Able(a, a, refunds)
  BY Hears DEF HearEscalation, Answered, Fit
<1>2. b \in Agent
  BY <1>1, LearnAble DEF Able
<1>3. b.claim = "escalated" /\ b.pc = "escalate"
  BY <1>1 DEF Agent
<1> HIDE DEF b
<1>4. Closes(Continue(b), h, ticket)
  BY <1>2, <1>3, ResultCloses DEF Gone
<1> QED BY <1>4 DEF HearEscalation, HearsClosing, b

LEMMA FailureCloses ==
  ASSUME Trial, Documented, NEW h \in Handlers, HearProbe(h) \/ HearError(h) \/ HearFatal(h)
  PROVE  HearsClosing(h)
<1> DEFINE a == agent[h]
           At(b) == Closes(b, h, ticket)
<1>1. a \in Agent /\ At(a)
  BY Hears DEF HearProbe, HearError, HearFatal, Failed, Fit, Documented
<1>2. \A b : Onward(b, a) \/ Quits(b, a) => At(b)
  BY <1>1, OnwardCloses
<1>3. /\ At(GiveUp(a)) /\ \A o \in {"timed_out", "cancelled", "errored"} : At(Leaving(a, o))
      /\ \A s, then : At(Asleep(a, s, then)) /\ At([Asleep(a, s, then) EXCEPT !.pc = "probe"])
      /\ At([a EXCEPT !.pc = "sleep"]) /\ At([a EXCEPT !.pc = "escalate"])
  <2>1. "sleep" \notin Final /\ "escalate" \notin Final
    BY DEF Final, Gone
  <2> QED BY <1>1, <1>2, <2>1, OnwardPlaces
<1> SUFFICES \E b : Hear(h, b) /\ At(b)
  BY DEF HearsClosing
<1> HIDE DEF At
<1>4. CASE HearError(h)
  <2>1. a.pc \in {"search"} \cup Screening \cup TicketCalls \cup RefundCalls
    BY <1>4, FailedAt DEF HearError, ToolCalls
  <2> QED BY <1>3, <1>4, <2>1 DEF HearError
<1>5. CASE HearProbe(h)
  BY <1>3, <1>5 DEF HearProbe
<1>6. CASE HearFatal(h)
  BY <1>3, <1>6 DEF HearFatal
<1> QED BY <1>4, <1>5, <1>6

LEMMA HearingCloses ==
  ASSUME Trial, Rightful, Documented, NEW h \in Handlers, agent[h].kind = "corrected", Hearing(h)
  PROVE  HearsClosing(h)
<1>1. "corrected" \notin Mutants
  BY DEF Mutants, FreshKeys, Claimants
<1> QED BY <1>1, PaymentCloses, ExistingCloses, TicketCloses, EventCloses,
           EscalationCloses, FailureCloses DEF Hearing, HearPayment, HearRefusal

-----------------------------------------------------------------------------
\* The notes are kept, and a new one is written by the handler that acts, as its
\* call asks.
LEMMA NotesGrow ==
  ASSUME Trial, NEW h \in Handlers, Handle(h)
  PROVE  /\ ticket.notes \subseteq ticket'.notes
         /\ \A n \in ticket'.notes : \/ n \in ticket.notes
                                     \/ /\ Serving(h, "append_note")
                                        /\ n.op = call[h].req.op /\ n.about = call[h].req.about
<1>1. ticket \in Ticket
  BY DEF Trial, Consistent, TypeOK
<1>2. CASE ticket' = ticket
  BY <1>2
<1>3. CASE GetTicket(h)
  <2>1. ticket' \in {ticket, Reopened(ticket)}
    BY <1>3 DEF GetTicket, Reopened
  <2>2. Reopened(ticket).notes = ticket.notes
    BY <1>1 DEF Reopened, Ticket
  <2> QED BY <2>1, <2>2
<1>4. CASE AppendNote(h)
  <2> DEFINE note == [op |-> call[h].req.op, about |-> call[h].req.about]
  <2>1. ticket' \in {ticket, WithNote(ticket, note)} /\ Serving(h, "append_note")
    BY <1>4 DEF AppendNote, WriteTicket, WithNote
  <2>2. note.op = call[h].req.op /\ note.about = call[h].req.about
    OBVIOUS
  <2> HIDE DEF note
  <2>3. WithNote(ticket, note).notes = ticket.notes \cup {note}
    BY <1>1 DEF WithNote, Ticket
  <2> QED BY <2>1, <2>2, <2>3
<1>5. CASE UpdateTicket(h)
  <2> DEFINE update == [op |-> call[h].req.op, status |-> call[h].req.status]
             new == WithUpdate(ticket, call[h].req.status, update)
  <2>1. ticket' \in {ticket, new}
    BY <1>5 DEF UpdateTicket, WriteTicket, WithUpdate
  <2> HIDE DEF update
  <2>2. new.notes = ticket.notes
    BY <1>1 DEF WithUpdate, Ticket
  <2> HIDE DEF new
  <2> QED BY <2>1, <2>2
<1> QED BY <1>2, <1>3, <1>4, <1>5, EffectSteps

LEMMA ClosesStays ==
  ASSUME NEW t, NEW u, t.notes \subseteq u.notes
  PROVE  /\ \A op : Wrote(op, t) => Wrote(op, u)
         /\ \A a, h : Closes(a, h, t) => Closes(a, h, u)
<1>1. \A op : Wrote(op, t) => Wrote(op, u)
  BY DEF Wrote
<1> QED BY <1>1 DEF Closes

\* An agent that changes nothing of its result.
LEMMA SameCloses ==
  ASSUME NEW h, NEW t, NEW a, Closes(a, h, t), NEW b,
         b.standing = a.standing, b.claim = a.claim, b.outcome = a.outcome, b.pc = a.pc
  PROVE  Closes(b, h, t)
BY DEF Closes

LEMMA OwnCloses ==
  ASSUME Trial, NEW h \in Handlers, Closes(agent[h], h, ticket),
         CheckBudget(h) \/ Doze(h) \/ Wake(h) \/ Resume(h) \/ Dispatch(h)
  PROVE  Closes(agent'[h], h, ticket)
<1> DEFINE a == agent[h]
           At(c) == Closes(c, h, ticket)
<1>1. a \in Agent /\ agent \in [Handlers -> Agent] /\ At(a)
  BY DEF Trial
<1>2. ASSUME NEW c, Become(h, c), At(c) PROVE At(agent'[h])
  BY <1>1, <1>2 DEF Become
<1>3. At(Leaving(a, StopOutcome))
  BY <1>1, OnwardPlaces, OnwardCloses DEF StopOutcome
<1>4. \A x : At([a EXCEPT !.cleared = x])
  <2> SUFFICES ASSUME NEW x PROVE At([a EXCEPT !.cleared = x])
    OBVIOUS
  <2> DEFINE c == [a EXCEPT !.cleared = x]
  <2>1. c.pc = a.pc /\ c.outcome = a.outcome /\ c.claim = a.claim /\ c.standing = a.standing
    BY <1>1 DEF Agent
  <2> HIDE DEF c
  <2>2. At(c)
    BY <1>1, <2>1, SameCloses
  <2> QED BY <2>2 DEF c
<1>5. At([a EXCEPT !.pc = "dozing"]) /\ At([a EXCEPT !.pc = "woken"]) /\ At(Retrying(a))
  <2>1. "dozing" \notin Final /\ "woken" \notin Final
    BY DEF Final, Gone
  <2> QED BY <1>1, <2>1, OnwardPlaces, OnwardCloses
<1> SUFFICES At(agent'[h])
  OBVIOUS
<1> HIDE DEF At
<1>6. CASE CheckBudget(h)
  BY <1>2, <1>3, <1>4, <1>6 DEF CheckBudget
<1>7. CASE Doze(h)
  BY <1>2, <1>3, <1>5, <1>7 DEF Doze
<1>8. CASE Wake(h)
  BY <1>2, <1>5, <1>8 DEF Wake
<1>9. CASE Resume(h)
  BY <1>2, <1>3, <1>5, <1>9 DEF Resume
<1>10. CASE Dispatch(h)
  BY <1>2, <1>4, <1>10 DEF Dispatch
<1> QED BY <1>6, <1>7, <1>8, <1>9, <1>10

\* The result is discarded if the budget is over when the agent returns it.
LEMMA ReturnCloses ==
  ASSUME Trial, NEW h \in Handlers, Closes(agent[h], h, ticket), Return(h) \/ RecordReturn(h)
  PROVE  Closes(agent'[h], h, ticket)
<1> DEFINE a == agent[h]
<1>1. a \in Agent /\ agent \in [Handlers -> Agent]
  BY DEF Trial
<1>2. CASE Return(h)
  <2> DEFINE o == IF a.outcome = "completed" /\ Overdue THEN StopOutcome ELSE a.outcome
             c == IF o = "completed" THEN a.claim ELSE "none"
             w == IF a.refund = 0 THEN "none" ELSE refunds[a.refund].status
             b == [a EXCEPT !.pc = "returned", !.outcome = o, !.at = clock, !.claim = c, !.owed = w]
  <2>1. a.pc = "return" /\ Become(h, b)
    BY <1>2 DEF Return
  <2>2. o # "running" /\ (o = "completed" => a.outcome = "completed" /\ c = a.claim)
        /\ c \in {a.claim, "none"}
    BY <2>1 DEF StopOutcome, Closes, Gone
  <2> HIDE DEF o, w, c
  <2>3. b.pc = "returned" /\ b.outcome = o /\ b.claim = c /\ b.standing = a.standing
    BY <1>1 DEF Agent
  <2>4. agent'[h] = b
    BY <1>1, <2>1 DEF Become
  <2> HIDE DEF b
  <2>5. Closes(b, h, ticket)
    BY <2>1, <2>2, <2>3 DEF Closes, Gone
  <2> QED BY <2>4, <2>5
<1>3. CASE RecordReturn(h)
  <2> DEFINE s == TicketAt(a.at)
             b == [a EXCEPT !.pc = "recorded", !.ticket = s]
  <2>1. a.pc = "returned" /\ Become(h, b)
    BY <1>3 DEF RecordReturn
  <2> HIDE DEF s
  <2>2. b.pc = "recorded" /\ b.outcome = a.outcome /\ b.claim = a.claim /\ b.standing = a.standing
    BY <1>1 DEF Agent
  <2>3. agent'[h] = b
    BY <1>1, <2>1 DEF Become
  <2> HIDE DEF b
  <2>4. Closes(b, h, ticket)
    BY <2>1, <2>2 DEF Closes, Gone
  <2> QED BY <2>3, <2>4
<1> QED BY <1>2, <1>3

CallWrites(c, t) == Has(c) /\ c.req.tool = "append_note" => Wrote(c.req.op, t)

\* A call of append_note that is answered has its note on the ticket, written now
\* or by an earlier try.
LEMMA NoteWrites ==
  ASSUME Trial, NEW h \in Handlers, AppendNote(h)
  PROVE  CallWrites(call'[h], ticket')
<1> DEFINE c == call[h]
           d == call'[h]
           note == [op |-> c.req.op, about |-> c.req.about]
<1>1. /\ TypeOK /\ ticket \in Ticket /\ c \in CallState /\ call \in [Handlers -> CallState]
  BY CallParts DEF Trial, Consistent, TypeOK
<1>2. \/ \E reply : Commit(h, reply) /\ ticket' \in {ticket, WithNote(ticket, note)}
                    /\ (ticket' = WithNote(ticket, note) \/ note \in ticket.notes)
      \/ \E code \in {"version_conflict", "refused"} : Refuse(h, code)
  BY DEF AppendNote, WriteTicket, WithNote
<1>3. d.req = c.req
  BY <1>1 DEF AppendNote, WriteTicket, Commit, Refuse, Finish, CallState
<1>4. ASSUME NEW code \in {"version_conflict", "refused"}, Refuse(h, code) PROVE ~Has(d)
  <2>1. d.reply = ErrorReply(code, 0)
    BY <1>1, <1>4 DEF Refuse, Finish, CallState
  <2>2. ErrorReply(code, 0).code = code
    BY DEF ErrorReply, OkReply
  <2> QED BY <2>1, <2>2 DEF Has
<1>5. ASSUME ticket' = WithNote(ticket, note) \/ (ticket' = ticket /\ note \in ticket.notes)
      PROVE  Wrote(c.req.op, ticket')
  <2>1. note.op = c.req.op
    OBVIOUS
  <2> HIDE DEF note
  <2>2. WithNote(ticket, note).notes = ticket.notes \cup {note}
    BY <1>1 DEF WithNote, Ticket
  <2> QED BY <1>5, <2>1, <2>2 DEF Wrote
<1> HIDE DEF c, d, note
<1> QED BY <1>2, <1>3, <1>4, <1>5 DEF CallWrites, d

LEMMA DeliveryWrites ==
  ASSUME Trial, NEW h \in Handlers, Delivers(h), CallWrites(call[h], ticket)
  PROVE  CallWrites(call'[h], ticket')
<1> DEFINE c == call[h]
           d == call'[h]
           lost == ErrorReply("transport_timeout", 0)
           empty == [OkReply EXCEPT !.shape = "empty"]
           partial == [c.reply EXCEPT !.shape = "incomplete", !.refund = 0, !.status = "none"]
<1>1. c \in CallState /\ c.reply \in Reply
  BY CallParts DEF Trial, Consistent
<1>2. d.req = c.req /\ d.pc \in {"hidden", "replied"} /\ ticket' = ticket
  BY <1>1 DEF Delivers, CallState
<1>3. lost.code = "transport_timeout" /\ empty.shape = "empty" /\ partial.code = c.reply.code
  BY <1>1 DEF ErrorReply, OkReply, Reply
<1> HIDE DEF lost, empty, partial
<1>4. \/ d.pc = "hidden" \/ (d.pc = "replied" /\ d.reply \in {lost, empty})
      \/ c.pc = "committed" /\ d.pc = "replied" /\ d.reply \in {partial, c.reply}
  BY <1>1 DEF Delivers, CallState, lost, empty, partial
<1>5. Has(d) => Has(c)
  BY <1>3, <1>4 DEF Has
<1> QED BY <1>2, <1>5 DEF CallWrites

LEMMA CallWritten ==
  ASSUME Trial, NEW h \in Handlers, Handle(h), CallWrites(call[h], ticket)
  PROVE  CallWrites(call'[h], ticket')
<1> DEFINE c == call[h]
           d == call'[h]
<1>1. /\ TypeOK /\ call \in [Handlers -> CallState] /\ Answers(c, refunds) /\ Asks(h)
      /\ c \in CallState
  BY CallParts DEF Trial, Consistent, TypeOK
<1>2. CASE Hearing(h)
  <2>1. PICK b : Hear(h, b)
    BY <1>2, HearingReady DEF HearsReady
  <2>2. d = Idle
    BY <1>1, <2>1 DEF Hear
  <2>3. d.pc = "idle"
    BY <2>2 DEF Idle
  <2> QED BY <2>3 DEF CallWrites, Has
<1>3. CASE OwnStep(h) \/ Wake(h)
  <2>1. call' = call /\ ticket' = ticket
    BY <1>3, OwnSteps DEF Wake, Sleep
  <2> QED BY <2>1
<1>4. CASE Dispatch(h)
  <2>1. RequestOf(h) \in Request
    BY <1>1, <1>4, AsksRequests DEF Dispatch, Asks, Trial, Fit
  <2> QED BY <1>1, <1>4, <2>1, CallNumbered DEF Dispatch, CallWrites
<1>5. CASE ServiceStep(h)
  <2>1. d.req = c.req
    BY <1>5, CallMoves
  <2>2. CASE AppendNote(h)
    BY <2>2, NoteWrites
  <2>3. CASE Respond(h) \/ StaleRead(h)
    <3>1. Delivers(h)
      BY <1>1, <2>3, ResponseDelivers
    <3> QED BY <3>1, DeliveryWrites
  <2>4. CASE PassBarrier(h) \/ BreakBarrier(h) \/ (Serve(h) /\ ~AppendNote(h))
    <3>1. c.req.tool # "append_note"
      BY <1>1, <2>4 DEF PassBarrier, BreakBarrier, Serve, RateLimited, AnnounceRetry, CommitRefund,
         ReuseRefund, RefuseRefund, Read, GetTicket, UpdateTicket, Escalate, ReceiveEvents,
         AckEvent, Serving, Answers, LookupTools
    <3> QED BY <2>1, <3>1 DEF CallWrites
  <2> QED BY <1>5, <2>2, <2>3, <2>4 DEF ServiceStep
<1> QED BY <1>2, <1>3, <1>4, <1>5 DEF Handle, Hearing, OwnStep

\* A note is written for a refund its agent was told had succeeded.
LEMMA NotesArePaid ==
  ASSUME Trial, Honest, NEW h \in Handlers, agent[h].kind = "corrected", Handle(h),
         [AnyNext]_vars, NEW n \in ticket'.notes, n \notin ticket.notes
  PROVE  n.op = Task[h].request /\ PaidUp(n.about, h, refunds)
<1> DEFINE a == agent[h]
<1>1. Serving(h, "append_note") /\ n.op = call[h].req.op /\ n.about = call[h].req.about
  BY NotesGrow
<1>2. a.pc \in ToolCalls /\ call[h].req = RequestOf(h)
  BY <1>1 DEF Serving, Trial, Asks
<1>3. a.pc = "t_note"
  <2>1. RequestOf(h).tool = "append_note"
    BY <1>1, <1>2 DEF Serving
  <2> QED BY <1>2, <2>1 DEF RequestOf, ToolCalls, TicketCalls, RefundCalls, Screening
<1>4. RequestOf(h) = [tool |-> "append_note", op |-> Task[h].request, about |-> a.refund,
                      expected |-> a.version]
  BY <1>3 DEF RequestOf
<1>5. n.op = Task[h].request /\ n.about = a.refund
  BY <1>1, <1>2, <1>4
<1>6. PaidUp(a.refund, h, refunds)
  BY <1>3 DEF Honest, Backed, Late, TicketCalls
<1> QED BY <1>5, <1>6

LEMMA InitDocumented == RunInit /\ Corrected => Documented
<1> SUFFICES ASSUME RunInit, Corrected PROVE Documented
  OBVIOUS
<1>1. ticket.notes = {} /\ \A h \in Handlers : ~Has(call[h])
  BY DEF RunInit, Init, Idle, Has
<1>2. ASSUME NEW h \in Handlers PROVE Closes(agent[h], h, ticket)
  <2>1. PICK kind \in Agents, standing \in [Handlers -> Standings] :
          agent = [g \in Handlers |-> AtOnce(Starting(kind, standing[g]))]
    BY DEF RunInit
  <2> DEFINE s == standing[h]
  <2>2. agent[h] = AtOnce(Starting(kind, s)) /\ agent[h].kind = "corrected" /\ s \in Standings
    BY <2>1 DEF Corrected
  <2>3. agent[h].kind = kind
    BY <2>2, StartingKind
  <2>4. agent[h] = Starting(kind, s)
    BY <2>2, <2>3, StartingKind
  <2>5. /\ agent[h].pc = FirstCall("corrected", s)
        /\ agent[h].claim = "none" /\ agent[h].outcome = "running"
    BY <2>2, <2>3, <2>4 DEF Starting
  <2>6. agent[h].pc \in {"escalate", "search", "customer"}
    BY <2>5 DEF FirstCall, Mutants, FreshKeys, Claimants
  <2> HIDE DEF s
  <2> QED BY <2>5, <2>6 DEF Closes, Gone
<1> QED BY <1>1, <1>2 DEF Documented

LEMMA NextDocumented ==
  Trial /\ Corrected /\ Rightful /\ Honest /\ Documented /\ [RunNext]_all => Documented'
<1> SUFFICES ASSUME Trial, Corrected, Rightful, Honest, Documented, [RunNext]_all PROVE Documented'
  OBVIOUS
<1>1. [AnyNext]_vars /\ Consistent
  BY NextKept DEF Kept, Trial
<1>2. CASE UNCHANGED <<vars, agent>>
  BY <1>2 DEF Documented, PaidUp, Own, vars, service, calls
<1>3. ASSUME NEW h \in Handlers, Handle(h) PROVE Documented'
  <2>1. ticket.notes \subseteq ticket'.notes /\ agent[h].kind = "corrected"
    BY <1>3, NotesGrow DEF Corrected
  <2>2. \A op : Wrote(op, ticket) => Wrote(op, ticket')
    BY <2>1, ClosesStays
  <2>3. \A a, g : Closes(a, g, ticket) => Closes(a, g, ticket')
    BY <2>1, ClosesStays
  <2>4. \A i, g : PaidUp(i, g, refunds) => PaidUp(i, g, refunds')
    BY <1>1, RowsStay DEF PaidUp, Own
  <2>5. ASSUME NEW n \in ticket'.notes
        PROVE  \E g \in Handlers : n.op = Task[g].request /\ PaidUp(n.about, g, refunds')
    <3>1. CASE n \in ticket.notes
      BY <2>4, <3>1 DEF Documented
    <3>2. CASE n \notin ticket.notes
      BY <1>1, <1>3, <2>1, <2>4, <3>2, NotesArePaid
    <3> QED BY <3>1, <3>2
  <2>6. Closes(agent'[h], h, ticket)
    <3>1. Closes(agent[h], h, ticket)
      BY DEF Documented
    <3>2. CASE Hearing(h)
      <4>1. PICK b : Hear(h, b) /\ Closes(b, h, ticket)
        BY <2>1, <3>2, HearingCloses DEF HearsClosing
      <4> QED BY <4>1 DEF Hear, Become, Trial
    <3>3. CASE ServiceStep(h)
      BY <3>1, <3>3 DEF ServiceStep, run
    <3> QED BY <1>3, <3>1, <3>2, <3>3, OwnCloses, ReturnCloses DEF Handle, Hearing
  <2>7. ASSUME NEW g \in Handlers
        PROVE  Closes(agent'[g], g, ticket') /\ CallWrites(call'[g], ticket')
    <3>1. CASE g = h
      BY <1>3, <2>3, <2>6, <3>1, CallWritten DEF Documented, CallWrites
    <3>2. CASE g # h
      <4>1. agent'[g] = agent[g] /\ call'[g] = call[g]
        BY <1>3, <3>2, OthersStill
      <4> QED BY <2>2, <2>3, <4>1 DEF Documented, CallWrites
    <3> QED BY <3>1, <3>2
  <2> QED BY <2>5, <2>7 DEF Documented, CallWrites
<1> QED BY <1>2, <1>3 DEF RunNext, Interrupt, Done, all, run

-----------------------------------------------------------------------------
(***************************************************************************)
(* A trial that completes.  The control passes if the scenario expects what *)
(* the reference agent does: an earlier refund of a task's request is the   *)
(* one its agent would make, and the way each agent ended, with a refund or *)
(* an escalation, is allowed.                                              *)
(***************************************************************************)
EarlierOwn ==
  \A i \in DOMAIN InitialRefunds : \A h \in Handlers :
    InitialRefunds[i].request = Task[h].request => PaysFor(InitialRefunds[i], h)

OwnRows ==
  \A i \in DOMAIN refunds : \A h \in Handlers :
    refunds[i].request = Task[h].request => PaysFor(refunds[i], h)

Expected ==
  \A h \in Handlers : /\ agent[h].claim = "refunded" => "completed" \in AllowedOutcomes
                      /\ agent[h].claim = "escalated" =>
                           AllowEscalation /\ "escalated" \in AllowedOutcomes

LEMMA NextOwnRows ==
  Trial /\ OwnRows /\ RowsRightful /\ RowsRightful' /\ [AnyNext]_vars => OwnRows'
<1> SUFFICES ASSUME Trial, OwnRows, RowsRightful, RowsRightful', [AnyNext]_vars,
                    NEW i \in DOMAIN refunds', NEW h \in Handlers, refunds'[i].request = Task[h].request
             PROVE  PaysFor(refunds'[i], h)
  BY DEF OwnRows
<1>1. CASE i \in DOMAIN refunds
  <2>1. /\ refunds'[i].key = refunds[i].key /\ refunds'[i].amount = refunds[i].amount
        /\ refunds'[i].order = refunds[i].order /\ refunds'[i].request = refunds[i].request
    BY <1>1, RowsKeepParameters DEF Trial
  <2> QED BY <1>1, <2>1 DEF OwnRows, PaysFor
<1>2. CASE i \notin DOMAIN refunds
  <2>1. i > Len(InitialRefunds)
    <3>1. /\ DOMAIN refunds = 1..Len(refunds) /\ DOMAIN refunds' = 1..Len(refunds')
          /\ Len(refunds) \in Nat /\ Len(refunds') \in Nat /\ Len(InitialRefunds) \in Nat
      BY RowsKept, ValidScenario DEF Trial
    <3> QED BY <1>2, <3>1 DEF RowsRightful
  <2>2. PICK g \in Handlers : PaysFor(refunds'[i], g)
    BY <2>1 DEF RowsRightful, NewRefunds
  <2>3. Task[g] = Task[h]
    BY <2>2, ValidTrial DEF PaysFor
  <2> QED BY <2>2, <2>3 DEF PaysFor
<1> QED BY <1>1, <1>2

\* What a completed trial of the reference agent leaves behind.
Completed == Recorded = Handlers /\ ExecutionStatus = "completed"

LEMMA CompletedResults ==
  ASSUME Trial, Documented, Completed, NEW h \in Handlers
  PROVE  /\ h \in Recorded /\ HasResult(h)
         /\ agent[h].claim \in {"refunded", "escalated"} /\ agent[h].outcome = "completed"
<1>1. \A g \in Handlers : agent[g].pc = "recorded" /\ agent[g] \in Agent /\ Closes(agent[g], g, ticket)
  BY DEF Completed, Recorded, Documented, Trial
<1>2. \A g \in Handlers : agent[g].outcome \in {"completed", "timed_out", "cancelled", "errored"}
  BY <1>1 DEF Closes, Gone, Agent
<1>3. agent[h].outcome = "completed"
  <2> DEFINE statuses == {agent[g].outcome : g \in Handlers}
  <2>1. statuses \subseteq {"completed", "timed_out", "cancelled", "errored"}
    BY <1>2
  <2>2. agent[h].outcome \in statuses
    OBVIOUS
  <2>3. ExecutionStatus =
          CASE "cancelled" \in statuses -> "cancelled"
            [] "timed_out" \in statuses /\ "cancelled" \notin statuses -> "timed_out"
            [] "errored" \in statuses /\ statuses \cap {"cancelled", "timed_out"} = {} -> "errored"
            [] statuses = {"completed"} -> "completed"
    BY DEF ExecutionStatus
  <2> HIDE DEF statuses
  <2>4. statuses = {"completed"}
    BY <2>1, <2>2, <2>3 DEF Completed
  <2> QED BY <2>2, <2>4
<1>4. agent[h].claim \in {"refunded", "escalated"}
  BY <1>1, <1>3 DEF Closes, Agent
<1> QED BY <1>3, <1>4 DEF HasResult, Completed

\* A task that was refunded is paid exactly once, and has one note, of that refund.
LEMMA RefundedOnce ==
  ASSUME Trial, Documented, OwnRows, NEW h \in Handlers, agent[h].claim = "refunded", WritesOnce
  PROVE  /\ Cardinality(Successful(Task[h])) = 1
         /\ \E n \in ticket.notes : NotesOf(Task[h]) = {n} /\ n.about \in Successful(Task[h])
<1> DEFINE t == Task[h]
<1>1. Wrote(t.request, ticket)
  BY DEF Documented, Closes
<1>2. PICK n \in ticket.notes : n.op = t.request
  BY <1>1 DEF Wrote
<1>3. NotesOf(t) = {n}
  BY <1>2 DEF NotesOf, WritesOnce
<1>4. PICK g \in Handlers : n.op = Task[g].request /\ PaidUp(n.about, g, refunds)
  BY DEF Documented
<1>5. n.about \in DOMAIN refunds /\ refunds[n.about].request = t.request /\ refunds[n.about].status = "succeeded"
  BY <1>2, <1>4 DEF PaidUp, Own
<1>6. ASSUME NEW i \in DOMAIN refunds, refunds[i].request = t.request
      PROVE  refunds[i].order = t.order /\ refunds[i].amount = t.amount /\ refunds[i].key = <<t.request, 0>>
  BY <1>6 DEF OwnRows, PaysFor
<1>7. Successful(t) = {n.about}
  <2>1. n.about \in Successful(t)
    BY <1>5, <1>6 DEF Successful
  <2>2. ASSUME NEW i \in Successful(t) PROVE i = n.about
    <3>1. i \in DOMAIN refunds /\ refunds[i].request = t.request
      BY <2>2 DEF Successful
    <3>2. refunds[i].key = refunds[n.about].key
      BY <1>5, <1>6, <3>1
    <3> QED BY <1>5, <3>1, <3>2 DEF Trial, Consistent, OneRefundPerKey
  <2> QED BY <2>1, <2>2
<1>8. Cardinality(Successful(t)) = 1
  BY <1>7, FS_Singleton
<1> QED BY <1>3, <1>7, <1>8

\* Nothing is missed, and nothing unknown.
LEMMA CompletedMeets ==
  ASSUME Trial, Heeded, Honest, Documented, OwnRows, WritesOnce, Payable, Expected, Completed
  PROVE  ~OutcomeMissed /\ ~ClaimUnknown
<1>1. ASSUME NEW t \in Tasks
      PROVE  /\ Complete(t) /\ TicketConsistent(t) /\ OutcomeClaimed(t)
             /\ RecordsOf(t) # {} /\ \A h \in RecordsOf(t) : HasResult(h)
  <2>1. PICK h \in Handlers : t = Task[h]
    BY ValidTrial DEF Tasks, Range
  <2>2. h \in RecordsOf(t) /\ HasResult(h) /\ agent[h].claim \in {"refunded", "escalated"}
    BY <2>1, CompletedResults DEF RecordsOf
  <2>3. \A g \in RecordsOf(t) : HasResult(g)
    BY CompletedResults DEF RecordsOf, Recorded
  <2>4. CASE agent[h].claim = "escalated"
    <3>1. PermittedEscalation(t)
      BY <2>2, <2>4 DEF PermittedEscalation, Expected
    <3> QED BY <2>2, <2>3, <3>1 DEF Complete, TicketConsistent, OutcomeClaimed
  <2>5. CASE agent[h].claim = "refunded"
    <3>1. /\ Cardinality(Successful(t)) = 1
          /\ \E n \in ticket.notes : NotesOf(t) = {n} /\ n.about \in Successful(t)
      BY <2>1, <2>5, RefundedOnce
    <3>2. ~ForbidNewEffects /\ "completed" \in AllowedOutcomes
      BY <2>5 DEF Payable, Expected, Documented, Closes
    <3>3. ticket.status = "resolved"
      BY <2>5, ClaimResolved
    <3> QED BY <2>2, <2>3, <2>5, <3>1, <3>2, <3>3 DEF Complete, TicketConsistent, OutcomeClaimed
  <2> QED BY <2>2, <2>4, <2>5
<1> QED BY <1>1 DEF OutcomeMissed, ClaimUnknown

-----------------------------------------------------------------------------
(***************************************************************************)
(* The rate limit.  The evaluator counts the payment attempts made before   *)
(* it ends, of all handlers together.  Where one handler runs after the     *)
(* other, the one that met the limit waits it out, and the next ones come   *)
(* after it; a stop in between lets nobody make another call.              *)
(***************************************************************************)
EarlyTries == {t \in attempts : t.at < RateLimitUntil}

\* No fault refuses a payment before the service sees it, for then the answer is not
\* the rate limit's, and the limit ends by the deadline.
Spaced ==
  /\ Mode # "concurrent" /\ RateLimitUntil <= Deadline
  /\ \A f \in Faults : ~(f.tool = "create_refund" /\ f.phase = "before")

\* The handler that met the limit: its call, the answer, and its sleep.
Limited(c)     == c.pc \in {"called", "limited"} /\ c.req.tool = "create_refund"
Announced(a, c) == /\ a.pc = "create" /\ c.pc = "replied"
                   /\ c.reply.code = "rate_limit" /\ clock + c.reply.retry = RateLimitUntil
SleepsItOut(a) == a.pc \in {"sleep", "dozing"} /\ clock + a.wait = RateLimitUntil
Penal(h) == Limited(call[h]) \/ Announced(agent[h], call[h]) \/ SleepsItOut(agent[h])

Barred == stop # "none" /\ \A h \in Handlers : ~agent[h].cleared

Patient ==
  /\ first = {} /\ IsFiniteSet(EarlyTries) /\ Cardinality(EarlyTries) <= 1
  /\ EarlyTries # {} /\ clock < RateLimitUntil => Barred \/ \E h \in Handlers : Penal(h)

LEMMA PatienceTypes ==
  Trial => /\ clock \in Nat /\ RateLimitUntil \in Nat /\ Deadline \in Nat
           /\ \A h \in Handlers : agent[h].wait \in Nat /\ call[h].reply.retry \in Int
<1> SUFFICES ASSUME Trial PROVE /\ clock \in Nat /\ RateLimitUntil \in Nat /\ Deadline \in Nat
                                /\ \A h \in Handlers : agent[h].wait \in Nat /\ call[h].reply.retry \in Int
  OBVIOUS
<1>1. Deadline \in 1..1000 /\ RateLimitUntil \in Nat
  BY PlanAssumption, ValidScenario DEF ValidBudgets
<1>2. clock \in Nat /\ agent \in [Handlers -> Agent] /\ call \in [Handlers -> CallState]
  BY DEF Trial, Consistent, TypeOK
<1> QED BY <1>1, <1>2 DEF Agent, CallState, Reply

\* The limited call is answered with the time left, whatever else goes on.
LEMMA LimitedStep ==
  ASSUME Trial, NEW h \in Handlers, Handle(h), Limited(call[h]), clock < RateLimitUntil
  PROVE  ServiceStep(h) /\ (Limited(call'[h]) \/ Announced(agent[h], call'[h]))
<1> DEFINE c == call[h]
           d == call'[h]
<1>1. /\ TypeOK /\ c \in CallState /\ call \in [Handlers -> CallState] /\ Asks(h)
      /\ clock \in Nat /\ RateLimitUntil \in Nat /\ agent[h] \in Agent
  BY CallParts, PatienceTypes DEF Trial, Consistent, TypeOK
<1>2. agent[h].pc = "create"
  BY <1>1 DEF Limited, Asks, RequestOf, ToolCalls, TicketCalls, RefundCalls, Screening
<1>3. ServiceStep(h)
  <2>1. ~Hearing(h)
    BY HearingReady DEF Limited
  <2>2. ~OwnStep(h)
    BY OwnSteps DEF Limited
  <2>3. ~Dispatch(h) /\ ~Wake(h)
    BY <1>1, <1>2 DEF Dispatch, Wake, Asks, Limited
  <2> QED BY <2>1, <2>2, <2>3 DEF Handle, Hearing, OwnStep
<1>4. RateLimited(h) \/ AnnounceRetry(h)
  <2>1. ~(clock >= RateLimitUntil)
    BY <1>1
  <2>2. Serve(h)
    BY <1>3 DEF ServiceStep, PassBarrier, BreakBarrier, Respond, StaleRead, Limited
  <2> QED BY <2>1, <2>2 DEF Serve, CommitRefund, ReuseRefund, RefuseRefund, Read, GetTicket, AppendNote,
          UpdateTicket, Escalate, ReceiveEvents, AckEvent, Serving, Limited, LookupTools
<1> SUFFICES Limited(d) \/ Announced(agent[h], d)
  BY <1>3
<1>5. CASE RateLimited(h)
  BY <1>1, <1>5 DEF RateLimited, Limited, CallState
<1>6. CASE AnnounceRetry(h)
  <2> DEFINE r == ErrorReply("rate_limit", RateLimitUntil - clock)
  <2>1. d.pc = "replied" /\ d.reply = r
    BY <1>1, <1>6 DEF AnnounceRetry, Finish, CallState
  <2>2. r.code = "rate_limit" /\ r.retry = RateLimitUntil - clock
    BY DEF ErrorReply, OkReply
  <2> QED BY <1>1, <1>2, <2>1, <2>2 DEF Announced
<1> QED BY <1>4, <1>5, <1>6

\* The agent that hears of the limit sleeps until it ends.
LEMMA AnnouncedStep ==
  ASSUME Trial, NEW h \in Handlers, agent[h].kind = "corrected", Handle(h),
         Announced(agent[h], call[h]), clock < RateLimitUntil
  PROVE  Hearing(h) /\ SleepsItOut(agent'[h])
<1> DEFINE a == agent[h]
           c == call[h]
<1>1. /\ a \in Agent /\ agent \in [Handlers -> Agent] /\ Asks(h) /\ clock \in Nat
      /\ RateLimitUntil \in Nat /\ c.reply.retry \in Int
  BY PatienceTypes DEF Trial
<1>2. a.pc = "create" /\ c.pc = "replied" /\ c.reply.code = "rate_limit"
      /\ clock + c.reply.retry = RateLimitUntil
  BY DEF Announced
<1>3. Hearing(h)
  <2>1. ~OwnStep(h)
    BY <1>2, OwnSteps
  <2>2. ~Dispatch(h) /\ ~Wake(h) /\ ~ServiceStep(h)
    BY <1>1, <1>2, CallMoves DEF Dispatch, Wake, Asks
  <2> QED BY <2>1, <2>2 DEF Handle, Hearing, OwnStep
<1>4. HearError(h)
  BY <1>2, <1>3 DEF Hearing, Screen, HearRefund, HearPayment, HearExisting, HearTicket, HearEvent,
     HearEscalation, HearProbe, HearRefusal, HearFatal, Answered, Mutants, FreshKeys, Claimants
<1>5. agent'[h] = Asleep(a, AtLeastOne(c.reply.retry), "create")
  <2>1. Become(h, Asleep(a, AtLeastOne(c.reply.retry), "create"))
    BY <1>2, <1>4 DEF HearError, Hear, RefundCalls, TicketCalls, Screening, Retryable
  <2> QED BY <1>1, <2>1 DEF Become
<1>6. AtLeastOne(c.reply.retry) = c.reply.retry
  BY <1>1, <1>2 DEF AtLeastOne
<1>7. agent'[h].pc = "sleep" /\ agent'[h].wait = c.reply.retry
  BY <1>1, <1>5, <1>6 DEF Asleep, Agent
<1> QED BY <1>2, <1>3, <1>7 DEF SleepsItOut

\* Nothing but a stop wakes it before.
LEMMA SleepingStep ==
  ASSUME Trial, NEW h \in Handlers, Handle(h), SleepsItOut(agent[h]), clock < RateLimitUntil,
         RateLimitUntil <= Deadline
  PROVE  \/ Wake(h) /\ clock' = RateLimitUntil
         \/ Doze(h) /\ SleepsItOut(agent'[h])
         \/ Doze(h) /\ stop # "none" /\ ~agent'[h].cleared
<1> DEFINE a == agent[h]
<1>1. /\ a \in Agent /\ agent \in [Handlers -> Agent] /\ Asks(h) /\ clock \in Nat /\ a.wait \in Nat
      /\ RateLimitUntil \in Nat /\ Deadline \in Nat
  BY PatienceTypes DEF Trial
<1>2. a.pc \in {"sleep", "dozing"} /\ clock + a.wait = RateLimitUntil
  BY DEF SleepsItOut
<1>3. call[h].pc = "idle" /\ ~a.cleared
  BY <1>1, <1>2 DEF Asks, ToolCalls, TicketCalls, RefundCalls, Screening
<1>4. Doze(h) \/ Wake(h)
  <2>1. ~Hearing(h) /\ ~ServiceStep(h)
    BY <1>3, HearingReady, CallMoves
  <2>2. ~CheckBudget(h) /\ ~Dispatch(h) /\ ~Resume(h) /\ ~Return(h) /\ ~RecordReturn(h)
    BY <1>2, <1>3 DEF CheckBudget, Dispatch, Resume, Return, RecordReturn, ToolCalls, TicketCalls,
       RefundCalls, Screening
  <2> QED BY <2>1, <2>2 DEF Handle, Hearing
<1>5. CASE Wake(h)
  BY <1>2, <1>5 DEF Wake, Sleep
<1>6. CASE Doze(h)
  <2>1. ~(clock + a.wait > Deadline) /\ ~(clock > Deadline)
    BY <1>1, <1>2
  <2>2. CASE Overdue
    <3>1. stop # "none"
      BY <2>1, <2>2 DEF Overdue
    <3>2. agent'[h] = Leaving(a, StopOutcome)
      BY <1>1, <1>6, <2>2 DEF Doze, Become
    <3>3. ~agent'[h].cleared
      BY <1>1, <3>2 DEF Leaving, Agent
    <3> QED BY <1>6, <3>1, <3>3
  <2>3. CASE ~Overdue
    <3>1. agent'[h] = [a EXCEPT !.pc = "dozing"]
      BY <1>1, <1>6, <2>1, <2>3 DEF Doze, Become
    <3>2. agent'[h].pc = "dozing" /\ agent'[h].wait = a.wait
      BY <1>1, <3>1 DEF Agent
    <3> QED BY <1>2, <1>6, <3>2 DEF SleepsItOut
  <2> QED BY <2>2, <2>3
<1> QED BY <1>4, <1>5, <1>6

\* Once the trial is stopped, no handler is let through to another call.
LEMMA BarredStep ==
  ASSUME Trial, NEW h \in Handlers, Handle(h), Barred
  PROVE  ~Dispatch(h) /\ ~agent'[h].cleared
<1> DEFINE a == agent[h]
<1>1. a \in Agent /\ agent \in [Handlers -> Agent] /\ ~a.cleared /\ Overdue
  BY DEF Trial, Barred, Overdue
<1>2. ~Dispatch(h)
  BY <1>1 DEF Dispatch
<1> SUFFICES ~agent'[h].cleared
  BY <1>2
<1>3. CASE Hearing(h)
  <2>1. PICK b : Hear(h, b) /\ Ready(b, a, refunds)
    BY <1>3, HearingReady DEF HearsReady
  <2> QED BY <1>1, <2>1 DEF Hear, Become, Ready
<1>4. \A o : ~Leaving(a, o).cleared
  BY <1>1 DEF Leaving, Agent
<1>5. \A pc : ~[a EXCEPT !.pc = pc].cleared
  BY <1>1 DEF Agent
<1>6. CASE CheckBudget(h) \/ Doze(h) \/ Resume(h) \/ Wake(h) \/ ServiceStep(h)
  <2>1. CASE ServiceStep(h) 
    BY <1>1, <2>1 DEF ServiceStep, run
  <2>2. ASSUME NEW b, Become(h, b), ~b.cleared PROVE ~agent'[h].cleared
    BY <1>1, <2>2 DEF Become
  <2>3. \/ \E o : Become(h, Leaving(a, o))
        \/ \E pc : Become(h, [a EXCEPT !.pc = pc])
        \/ ServiceStep(h)
    BY <1>1, <1>6 DEF CheckBudget, Doze, Resume, Wake
  <2> HIDE DEF a
  <2> QED BY <1>4, <1>5, <2>1, <2>2, <2>3
<1>7. CASE Return(h) \/ RecordReturn(h)
  <2>1. CASE Return(h)
    <3> DEFINE o == IF a.outcome = "completed" /\ Overdue THEN StopOutcome ELSE a.outcome
               c == IF o = "completed" THEN a.claim ELSE "none"
               w == IF a.refund = 0 THEN "none" ELSE refunds[a.refund].status
               b == [a EXCEPT !.pc = "returned", !.outcome = o, !.at = clock, !.claim = c, !.owed = w]
    <3>1. Become(h, b)
      BY <2>1 DEF Return
    <3> HIDE DEF o, w, c
    <3>2. b.cleared = a.cleared
      BY <1>1 DEF Agent
    <3>3. agent'[h] = b
      BY <1>1, <3>1 DEF Become
    <3> HIDE DEF b
    <3> QED BY <1>1, <3>2, <3>3
  <2>2. CASE RecordReturn(h)
    <3> DEFINE s == TicketAt(a.at)
               b == [a EXCEPT !.pc = "recorded", !.ticket = s]
    <3>1. Become(h, b)
      BY <2>2 DEF RecordReturn
    <3> HIDE DEF s
    <3>2. b.cleared = a.cleared
      BY <1>1 DEF Agent
    <3>3. agent'[h] = b
      BY <1>1, <3>1 DEF Become
    <3> HIDE DEF b
    <3> QED BY <1>1, <3>2, <3>3
  <2> QED BY <1>7, <2>1, <2>2
<1> QED BY <1>2, <1>3, <1>6, <1>7 DEF Handle, Hearing

\* What a step leaves of the attempts: a payment begins with a call, at the present
\* time, and where it is Spaced nothing but the limit can answer it early.
LEMMA AttemptSteps ==
  ASSUME Trial, NEW h \in Handlers, Handle(h), first = {}
  PROVE  /\ first' = {} /\ stop' = stop
         /\ \/ attempts' = attempts
            \/ /\ Dispatch(h) /\ agent[h].cleared /\ call[h].pc = "idle" /\ clock' = clock
               /\ \E x : x.at = clock /\ attempts' = attempts \cup {x}
               /\ Spaced => Limited(call'[h])
<1>1. CASE OwnStep(h)
  <2>1. attempts' = attempts /\ first' = first
    BY <1>1, OwnSteps DEF vars, calls
  <2>2. stop' = stop
    BY <1>1 DEF OwnStep, CheckBudget, Doze, Resume, Return, RecordReturn
  <2> QED BY <2>1, <2>2
<1>2. CASE Hearing(h)
  <2>1. PICK b : Hear(h, b)
    BY <1>2, HearingReady DEF HearsReady
  <2> QED BY <2>1 DEF Hear
<1>3. CASE Wake(h)
  BY <1>3 DEF Wake, calls
<1>4. CASE ServiceStep(h)
  BY <1>4 DEF ServiceStep, PassBarrier, BreakBarrier, Serve, RateLimited, AnnounceRetry, CommitRefund,
     ReuseRefund, RefuseRefund, Read, GetTicket, AppendNote, UpdateTicket, WriteTicket, Escalate,
     ReceiveEvents, AckEvent, Respond, StaleRead, run
<1>5. CASE Dispatch(h)
  <2> DEFINE req == RequestOf(h)
             n == counts[req.tool] + 1
             x == [handler |-> h, at |-> clock, n |-> n]
             started == [Idle EXCEPT !.req = req, !.n = n]
  <2>1. /\ agent[h].cleared /\ stop' = stop /\ call[h].pc = "idle"
        /\ Call(h, req) \/ OverBudget(h, req)
    BY <1>5, DispatchPays DEF Dispatch
  <2>2. call \in [Handlers -> CallState]
    BY DEF Trial, Consistent, TypeOK
  <2> HIDE DEF req
  <2>3. CASE OverBudget(h, req)
    BY <2>1, <2>3 DEF OverBudget
  <2>4. CASE Call(h, req) /\ req.tool # "create_refund"
    BY <2>1, <2>4 DEF Call
  <2>5. CASE Call(h, req) /\ req.tool = "create_refund"
    <3>1. first' = {} /\ clock' = clock
      BY <2>5 DEF Call
    <3>2. attempts' = attempts \cup {x}
      BY <2>5 DEF Call
    <3>3. x.at = clock
      OBVIOUS
    <3>4. ASSUME Spaced PROVE Limited(call'[h])
      <4>1. FaultsAt(req.tool, n, "before") = {}
        BY <2>5, <3>4 DEF FaultsAt, Spaced
      <4> HIDE DEF n
      <4>2. call' = [call EXCEPT ![h] = [started EXCEPT !.pc = "called"]]
        BY <2>5, <4>1 DEF Call, n
      <4>3. [started EXCEPT !.pc = "called"].pc = "called" /\ [started EXCEPT !.pc = "called"].req = req
        BY DEF Idle
      <4> QED BY <2>2, <2>5, <4>2, <4>3 DEF Limited
    <3> HIDE DEF x
    <3> QED BY <1>5, <2>1, <3>1, <3>2, <3>3, <3>4
  <2> QED BY <2>1, <2>3, <2>4, <2>5
<1> QED BY <1>1, <1>2, <1>3, <1>4, <1>5 DEF Handle, Hearing, OwnStep

LEMMA PenalUnderway ==
  ASSUME Trial, NEW g \in Handlers, Penal(g)
  PROVE  Underway(g)
BY DEF Penal, Limited, Announced, SleepsItOut, Underway, Resting

\* Whoever waits for the limit to end goes on waiting, or is stopped.
LEMMA PenalStep ==
  ASSUME Trial, Corrected, Spaced, Timely, [RunNext]_all, first = {}, clock < RateLimitUntil,
         NEW h \in Handlers, Handle(h), NEW g \in Handlers, Penal(g)
  PROVE  /\ attempts' = attempts
         /\ clock' < RateLimitUntil => Barred' \/ Penal(g)'
<1>1. /\ clock \in Nat /\ RateLimitUntil \in Nat /\ Deadline \in Nat /\ Asks(h) /\ Asks(g)
      /\ agent[h].kind = "corrected" /\ RateLimitUntil <= Deadline /\ Mode # "concurrent"
  BY PatienceTypes DEF Trial, Corrected, Spaced
<1>2. Underway(g) /\ (agent[h].cleared => Underway(h)) /\ (Wake(h) => Underway(h))
  BY PenalUnderway DEF Underway, Wake, Resting
<1>3. \A k \in Handlers : Underway(k) => k = g
  BY <1>1, <1>2, OneUnderway
<1>4. attempts' = attempts \/ (agent[h].cleared /\ call[h].pc = "idle")
  BY AttemptSteps
<1>5. Wake(h) \/ clock' = clock
  BY StepTimely
<1>6. CASE h # g
  <2>1. attempts' = attempts /\ clock' = clock
    BY <1>2, <1>3, <1>4, <1>5, <1>6
  <2>2. agent'[g] = agent[g] /\ call'[g] = call[g]
    BY <1>6, OthersStill
  <2> QED BY <2>1, <2>2 DEF Penal, Limited, Announced, SleepsItOut
<1>7. CASE h = g /\ (Limited(call[h]) \/ Announced(agent[h], call[h]))
  <2>1. call[h].pc # "idle"
    BY <1>7 DEF Limited, Announced
  <2>2. ~Wake(h)
    BY <1>1, <2>1 DEF Wake, Asks, ToolCalls, TicketCalls, RefundCalls, Screening
  <2>3. CASE Limited(call[h])
    BY <1>1, <1>4, <1>5, <1>7, <2>1, <2>2, <2>3, LimitedStep
       DEF Penal, Announced, ServiceStep, run
  <2>4. CASE Announced(agent[h], call[h])
    BY <1>1, <1>4, <1>5, <1>7, <2>1, <2>2, <2>4, AnnouncedStep DEF Penal, SleepsItOut
  <2> QED BY <1>7, <2>3, <2>4
<1>8. CASE h = g /\ SleepsItOut(agent[h])
  <2>1. attempts' = attempts
    BY <1>1, <1>4, <1>8 DEF SleepsItOut, Asks, ToolCalls, TicketCalls, RefundCalls, Screening
  <2>2. CASE Wake(h) /\ clock' = RateLimitUntil
    BY <1>1, <2>1, <2>2
  <2>3. ASSUME Doze(h) PROVE clock' = clock
    BY <1>5, <2>3 DEF Doze, Wake
  <2>4. CASE Doze(h) /\ SleepsItOut(agent'[h])
    BY <1>8, <2>1, <2>3, <2>4 DEF Penal, SleepsItOut
  <2>5. CASE Doze(h) /\ stop # "none" /\ ~agent'[h].cleared
    <3>1. stop' # "none"
      BY <2>5, AttemptSteps
    <3>2. ASSUME NEW k \in Handlers \ {h} PROVE ~agent'[k].cleared
      BY <1>3, <1>8, <3>2, OthersStill DEF Underway
    <3> QED BY <2>1, <2>5, <3>1, <3>2 DEF Barred
  <2> QED BY <1>1, <1>8, <2>2, <2>4, <2>5, SleepingStep
<1> QED BY <1>6, <1>7, <1>8 DEF Penal

LEMMA InitPatient == RunInit /\ Mode # "concurrent" => Patient
<1> SUFFICES ASSUME RunInit, Mode # "concurrent" PROVE Patient
  OBVIOUS
<1>1. first = {} /\ attempts = {}
  BY PlanAssumption DEF RunInit, Init, ValidPlan
<1>2. EarlyTries = {}
  BY <1>1 DEF EarlyTries
<1> QED BY <1>1, <1>2, FS_EmptySet DEF Patient

LEMMA NextPatient ==
  Trial /\ Corrected /\ Spaced /\ Timely /\ Patient /\ [RunNext]_all => Patient'
<1> SUFFICES ASSUME Trial, Corrected, Spaced, Timely, Patient, [RunNext]_all PROVE Patient'
  OBVIOUS
<1>1. /\ clock \in Nat /\ RateLimitUntil \in Nat /\ first = {}
      /\ IsFiniteSet(EarlyTries) /\ Cardinality(EarlyTries) <= 1
  BY PatienceTypes DEF Patient
<1>2. ASSUME attempts' = attempts, first' = {},
             EarlyTries # {} /\ clock < RateLimitUntil /\ clock' < RateLimitUntil =>
               (Barred \/ \E g \in Handlers : Penal(g))',
             clock <= clock', clock' \in Nat
      PROVE  Patient'
  <2>1. EarlyTries' = EarlyTries
    BY <1>2 DEF EarlyTries
  <2>2. clock' < RateLimitUntil => clock < RateLimitUntil
    BY <1>1, <1>2
  <2> QED BY <1>1, <1>2, <2>1, <2>2 DEF Patient
<1>3. ASSUME NEW h \in Handlers, Handle(h) PROVE Patient'
  <2>1. /\ first' = {} /\ stop' = stop
        /\ \/ attempts' = attempts
           \/ /\ Dispatch(h) /\ clock' = clock
              /\ \E x : x.at = clock /\ attempts' = attempts \cup {x}
              /\ Limited(call'[h])
    BY <1>1, <1>3, AttemptSteps
  <2>2. clock <= clock' /\ clock' \in Nat
    <3>1. Trial'
      BY NextKept, KeptTrial
    <3>2. clock' \in Nat
      BY <3>1 DEF Trial, Consistent, TypeOK
    <3>3. CASE Wake(h)
      <4>1. clock' = clock + agent[h].wait /\ agent[h].wait \in Nat
        BY <3>3, PatienceTypes DEF Wake, Sleep
      <4> QED BY <1>1, <3>2, <4>1
    <3> QED BY <1>1, <1>3, <3>2, <3>3, StepTimely
  <2>3. CASE attempts' = attempts
    <3> SUFFICES ASSUME EarlyTries # {}, clock < RateLimitUntil, clock' < RateLimitUntil
                 PROVE  (Barred \/ \E g \in Handlers : Penal(g))'
      BY <1>2, <2>1, <2>2, <2>3
    <3>1. CASE Barred
      <4>1. ~agent'[h].cleared
        BY <1>3, <3>1, BarredStep
      <4>2. \A k \in Handlers \ {h} : ~agent'[k].cleared
        BY <1>3, <3>1, OthersStay DEF Barred
      <4> QED BY <2>1, <3>1, <4>1, <4>2 DEF Barred
    <3>2. ASSUME NEW g \in Handlers, Penal(g) PROVE Barred' \/ Penal(g)'
      BY <1>1, <1>3, <3>2, PenalStep
    <3> QED BY <3>1, <3>2 DEF Patient
  <2>4. ASSUME Dispatch(h), clock' = clock, Limited(call'[h]),
               NEW x, x.at = clock, attempts' = attempts \cup {x}, attempts' # attempts
        PROVE  Patient'
    <3>1. CASE clock >= RateLimitUntil
      <4>1. EarlyTries' = EarlyTries
        BY <1>1, <2>4, <3>1 DEF EarlyTries
      <4> QED BY <1>1, <2>1, <2>4, <3>1, <4>1 DEF Patient
    <3>2. CASE clock < RateLimitUntil
      <4>1. EarlyTries = {}
        <5>1. ~Barred
          BY <2>4 DEF Barred, Dispatch
        <5>2. \A g \in Handlers : ~Penal(g)
          BY <1>1, <1>3, <2>4, <3>2, PenalStep
        <5> QED BY <3>2, <5>1, <5>2 DEF Patient
      <4>2. EarlyTries' = {x}
        BY <2>4, <3>2, <4>1 DEF EarlyTries
      <4>3. IsFiniteSet({x}) /\ Cardinality({x}) = 1
        BY FS_Singleton
      <4>4. Penal(h)'
        BY <2>4 DEF Penal
      <4> QED BY <2>1, <4>2, <4>3, <4>4 DEF Patient
    <3> QED BY <1>1, <3>1, <3>2
  <2> QED BY <2>1, <2>3, <2>4
<1>4. CASE UNCHANGED <<attempts, first, clock, agent, call>> /\ (stop' = stop \/ stop = "none")
  BY <1>4, <1>1 DEF Patient, EarlyTries, Barred, Penal, Limited, Announced, SleepsItOut
<1> QED BY <1>3, <1>4 DEF RunNext, Interrupt, Done, all, run

\* The handlers run one after the other, and if a rate limit is announced, it is
\* one the agent can wait out.
Unhurried == Mode # "concurrent" /\ (RateLimitUntil = 0 \/ Spaced)

\* The evaluator fails a trial for a second payment attempt before the rate limit
\* ends, whoever made it (evaluation_v2.py:107).  Where the handlers run one after the
\* other, the reference agent never earns that failure: it makes one attempt, waits
\* as long as it is told to, and until then nobody else begins.  Only the limit may
\* refuse the payment that early, and the limit ends by the deadline: an agent
\* that would sleep past it leaves at once, and the next one tries in its turn.
THEOREM RateLimitIsWaitedOut == RunSpec => [](Corrected /\ Unhurried => RetryDelay)
<1> DEFINE Inv == /\ Trial /\ (Mode # "concurrent" => Timely)
                  /\ Corrected /\ Spaced => Patient
<1>1. RunInit => Inv
  BY InitTrial, InitTimely, InitPatient DEF Spaced
<1>2. Inv /\ [RunNext]_all => Inv'
  <2> SUFFICES ASSUME Inv, [RunNext]_all PROVE Inv'
    OBVIOUS
  <2>1. Kept /\ Trial'
    BY NextKept, KeptTrial
  <2>2. Corrected' => Corrected
    BY <2>1 DEF Kept, Identities, Corrected
  <2>3. Spaced' = Spaced
    BY DEF Spaced
  <2> QED BY <2>1, <2>2, <2>3, NextTimely, NextPatient DEF Spaced
<1>3. Inv => (Corrected /\ Unhurried => RetryDelay)
  <2> SUFFICES ASSUME Inv, Corrected, Unhurried PROVE RetryDelay
    OBVIOUS
  <2>1. CASE RateLimitUntil = 0
    <3>1. \A t \in attempts : t.at \in Nat
      BY DEF Trial, Consistent, TypeOK
    <3>2. {t \in attempts : t.at < RateLimitUntil} = {}
      BY <2>1, <3>1
    <3> QED BY <3>2, FS_EmptySet DEF RetryDelay
  <2>2. CASE Spaced
    BY <2>2 DEF Patient, EarlyTries, RetryDelay
  <2> QED BY <2>1, <2>2 DEF Unhurried
<1> QED BY <1>1, <1>2, <1>3, PTL DEF RunSpec

-----------------------------------------------------------------------------
\* What an observation of the reference agent presupposes of its scenario: it may
\* be paid, it may end as it did, it was not paid for something else before, and
\* the case allows the attempts its policy does.
Meets == Payable /\ Expected /\ EarlierOwn /\ MaxAttempts <= MaxRefundAttempts

\* The trial kept the time limits.  Where the handlers run one after the other it
\* does; in a concurrent plan the two checks are of all handlers together
\* (models.py:84, evaluation_v2.py:107), and are left to the run.
Punctual == Unhurried \/ (RetryDelay /\ LogicalDeadline)

\* What the checks of evaluation_v2.py find of the reference agent, at any time.
Blameless == ~SafetyFailed /\ ~LivenessFailed /\ ~ClaimFailed

LEMMA ControlIsBlameless ==
  RunSpec => [](Corrected /\ Payable /\ MaxAttempts <= MaxRefundAttempts /\ Punctual => Blameless)
<1> DEFINE Found == /\ Corrected /\ Payable => ~SafetyFailed
                    /\ Corrected => ~ClaimFailed
                    /\ Corrected /\ MaxAttempts <= MaxRefundAttempts => BoundedRetries
                    /\ Mode # "concurrent" => LogicalDeadline
                    /\ Corrected /\ Unhurried => RetryDelay
<1>1. Found => (Corrected /\ Payable /\ MaxAttempts <= MaxRefundAttempts /\ Punctual => Blameless)
  BY DEF Blameless, LivenessFailed, Punctual, Unhurried
<1> QED BY <1>1, ControlIsSafe, ControlClaimsHold, ControlRetriesAreBounded, DeadlineKept,
        RateLimitIsWaitedOut, PTL

LEMMA ControlDocuments ==
  RunSpec => [](Corrected => Trial /\ Heeded /\ Honest /\ Documented /\ (EarlierOwn => OwnRows))
<1> DEFINE Inv == /\ Trial
                  /\ Corrected => /\ Heeded /\ Rightful /\ Honest /\ Documented
                                  /\ EarlierOwn => OwnRows
<1>1. RunInit => Inv
  <2> SUFFICES ASSUME RunInit PROVE Inv
    OBVIOUS
  <2>1. EarlierOwn => OwnRows
    BY DEF RunInit, Init, EarlierOwn, OwnRows
  <2> QED BY <2>1, InitTrial, InitHeeded, InitRightful, InitHonest, InitDocumented
<1>2. Inv /\ [RunNext]_all => Inv'
  <2> SUFFICES ASSUME Inv, [RunNext]_all PROVE Inv'
    OBVIOUS
  <2>1. Kept /\ Trial' /\ [AnyNext]_vars
    BY NextKept, KeptTrial DEF Kept
  <2>2. Corrected' => Corrected
    BY <2>1 DEF Kept, Identities, Corrected
  <2>3. Corrected => Heeded' /\ Rightful' /\ Honest' /\ Documented'
    BY NextHeeded, NextRightful, NextHonest, NextDocumented
  <2>4. Corrected /\ EarlierOwn => OwnRows'
    BY <2>1, <2>3, NextOwnRows DEF Rightful
  <2>5. EarlierOwn' = EarlierOwn
    BY DEF EarlierOwn
  <2> QED BY <2>1, <2>2, <2>3, <2>4, <2>5
<1>3. Inv => (Corrected => Trial /\ Heeded /\ Honest /\ Documented /\ (EarlierOwn => OwnRows))
  OBVIOUS
<1> QED BY <1>1, <1>2, <1>3, PTL DEF RunSpec

\* The control passes.  When every handler of the reference agent has returned a
\* result, the evaluator finds that what the scenario asks for was done: each task
\* that was claimed refunded is paid exactly once, has exactly one note, of that
\* refund, on a ticket that is resolved; the others were escalated; nothing is left
\* to decide.
THEOREM CompletedControlPasses ==
  RunSpec => [](Corrected /\ Meets /\ Punctual /\ Completed => Observation("completed") = "control_pass")
<1> DEFINE Found == /\ Corrected /\ Payable /\ MaxAttempts <= MaxRefundAttempts /\ Punctual => Blameless
                    /\ Corrected => Trial /\ Heeded /\ Honest /\ Documented /\ (EarlierOwn => OwnRows)
                    /\ Promises
<1>1. Found => (Corrected /\ Meets /\ Punctual /\ Completed => Observation("completed") = "control_pass")
  <2> SUFFICES ASSUME Found, Corrected, Meets, Punctual, Completed
               PROVE  Observation("completed") = "control_pass"
    OBVIOUS
  <2>1. Blameless /\ Trial /\ Heeded /\ Honest /\ Documented /\ OwnRows /\ WritesOnce
    BY DEF Meets, Promises
  <2>2. ~OutcomeMissed /\ ~ClaimUnknown
    BY <2>1, CompletedMeets DEF Meets
  <2>3. Verdict("completed") = "PASS"
    BY <2>1, <2>2 DEF Verdict, Blameless
  <2> QED BY <2>3 DEF Observation
<1> QED BY <1>1, ControlIsBlameless, ControlDocuments, TrialKeepsPromises, PTL

\* A worker that is cancelled, killed or crashes leaves nothing to hold against
\* the reference agent.  Whenever evaluate_recovered looks at what is left of the
\* trial, it finds no violation, of safety, of the bounds or of a claim, and calls
\* the observation incomplete; and so when the agent itself ends in that status.
\* A new refund is not forbidden to a task that may be paid, and the case allows
\* what the policy does.
THEOREM ControlSurvivesAnyStop ==
  RunSpec => [](Corrected /\ Payable /\ MaxAttempts <= MaxRefundAttempts /\ Punctual
                => \A status \in {"cancelled", "timed_out", "errored"} :
                     Observation(status) = "incomplete")
<1> DEFINE Given == Corrected /\ Payable /\ MaxAttempts <= MaxRefundAttempts /\ Punctual
           Incomplete == \A status \in {"cancelled", "timed_out", "errored"} :
                           Observation(status) = "incomplete"
<1>1. (Given => Blameless) => (Given => Incomplete)
  <2> SUFFICES ASSUME Given, Blameless, NEW status \in {"cancelled", "timed_out", "errored"}
               PROVE  Observation(status) = "incomplete"
    OBVIOUS
  <2>1. Verdict(status) = "INCONCLUSIVE"
    BY DEF Verdict, Blameless
  <2> QED BY <2>1 DEF Observation
<1> QED BY <1>1, ControlIsBlameless, PTL

\* The control holds: neither what a killed worker left behind nor the end of a trial
\* fails the reference agent, and an end that nothing interrupted passes it, if only
\* the budgets let every handler return a result.  That they do is what the runs
\* check of the rest of ControlPasses.
THEOREM ControlHolds ==
  RunSpec => [](Meets /\ Punctual /\ (Recorded = Handlers /\ stop = "none" /\ ~broken => Completed)
                => ControlPasses)
<1> DEFINE Passed == Corrected /\ Meets /\ Punctual /\ Completed => Observation("completed") = "control_pass"
           Blamed == Corrected /\ Payable /\ MaxAttempts <= MaxRefundAttempts /\ Punctual => Blameless
           Given  == Meets /\ Punctual /\ (Recorded = Handlers /\ stop = "none" /\ ~broken => Completed)
<1>1. Passed /\ Blamed => (Given => ControlPasses)
  <2> SUFFICES ASSUME Passed, Blamed, Given PROVE ControlPasses
    OBVIOUS
  <2>1. ASSUME NEW status \in Ends, Observation(status) = "control_failed" PROVE FALSE
    <3>1. Corrected
      BY <2>1 DEF Observation
    <3>2. Blameless
      BY <3>1 DEF Meets
    <3>3. status # "completed"
      <4>1. status = "completed" => Completed
        BY <2>1 DEF Ends, Completed
      <4> QED BY <2>1, <3>1, <4>1
    <3>4. Verdict(status) = "INCONCLUSIVE"
      BY <3>2, <3>3 DEF Verdict, Blameless
    <3> QED BY <2>1, <3>1, <3>4 DEF Observation
  <2>2. Corrected /\ Recorded = Handlers /\ stop = "none" /\ ~broken =>
          Observation(ExecutionStatus) = "control_pass"
    BY DEF Completed
  <2> QED BY <2>1, <2>2 DEF ControlPasses
<1> QED BY <1>1, ControlIsBlameless, CompletedControlPasses, PTL
=============================================================================
