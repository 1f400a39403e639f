------------------------------ MODULE MCOracle ------------------------------
(* Trials of one order of 4 or 8 units, with one to three handlers.        *)
EXTENDS Oracle

CONSTANTS h1, h2, h3, o1, reqA, reqB

OnePlan == <<h1>>
TwoPlan == <<h1, h2>>
ThreePlan == <<h1, h2, h3>>
MCOrderAmount == [o \in {o1} |-> 4]
LargeOrder == [o \in {o1} |-> 8]
MCKeys == LogicalRequests \X (0..MaxAttempts)
NoInitialRefunds == << >>
BothPermissions == {"refund", "ticket_write"}
BothOutcomes == {"completed", "escalated"}

TaskFor(r) == [request |-> r, order |-> o1, amount |-> 2, standings |-> {"clear"}]
SameRequest == [h \in Handlers |-> TaskFor(reqA)]

Lose(tool, n)     == [tool |-> tool, invocation |-> n, phase |-> "after_commit",
                      action |-> "response_lost", retry |-> 0]
Before(tool, n, action, retry) == [tool |-> tool, invocation |-> n, phase |-> "before",
                      action |-> action, retry |-> retry]
Falsify(tool, n, action) == [tool |-> tool, invocation |-> n, phase |-> "read_response",
                      action |-> action, retry |-> 0]

\* The last task of three may be any that must be escalated, or none.
MixedTasks == [h \in Handlers |-> IF h = h3 THEN [TaskFor(reqB) EXCEPT !.standings = Standings]
                                            ELSE TaskFor(reqA)]

EveryAgent == {"corrected"} \cup Mutants
NoFaults == {}
\* The refund's answer is lost, its list says nothing, the note's answer is lost.
LossyFaults == {Lose("create_refund", 1), Falsify("create_refund", 2, "incomplete"),
                Falsify("list_refunds", 2, "stale"), Lose("append_note", 1),
                Before("ack_event", 1, "unavailable", 2)}
\* The answer that resolves the ticket, or of a note, is lost.
EditFaults == {Lose("update_ticket", 1), Lose("append_note", 2)}
\* A handler's payment and another's ticket answers are lost.
RacyFaults == {Lose("create_refund", 1), Lose("update_ticket", 1)}
=============================================================================
