----------------------------- MODULE MCAnyAgent -----------------------------
(* Two handlers, one order of 3 units already refunded by 1, two keys.       *)
EXTENDS AnyAgent, TLC

CONSTANTS h1, h2, o1, req1, req2, k0, k1, k2

MCOrderAmount == [o \in {o1} |-> 3]
MCInitialRefunds ==
  << [order |-> o1, amount |-> 1, request |-> req2, key |-> k0, status |-> "succeeded", due |-> Never] >>
NoInitialRefunds == << >>

Create(a, k, r) == [tool |-> "create_refund", order |-> o1, amount |-> a, key |-> k, request |-> r]

\* Refund calls: the same request under its own key and under a fresh one, the
\* key with other parameters, and another request that competes for the balance.
RefundCalls == {Create(1, k1, req1), Create(1, k2, req1), Create(2, k1, req1), Create(2, k2, req2)}

PaymentRequests ==
  RefundCalls \cup {[tool |-> "get_refund", refund |-> 2],
                    [tool |-> "list_refunds", order |-> o1, request |-> req1],
                    [tool |-> "get_ticket"], [tool |-> "escalate", op |-> req1]}

DeskRequests ==
  { Create(1, k1, req1), [tool |-> "get_ticket"],
    [tool |-> "append_note", op |-> req1, about |-> 1, expected |-> 1],
    [tool |-> "append_note", op |-> req1, about |-> 1, expected |-> 2],
    [tool |-> "append_note", op |-> req1, about |-> 2, expected |-> 0],
    [tool |-> "update_ticket", op |-> req1, status |-> "resolved", expected |-> 2],
    [tool |-> "update_ticket", op |-> req1, status |-> "escalated", expected |-> 0],
    [tool |-> "receive_events"],
    [tool |-> "ack_event", refund |-> 1, status |-> "succeeded"],
    [tool |-> "ack_event", refund |-> 1, status |-> "pending"] }

Lose(tool, n)     == [tool |-> tool, invocation |-> n, phase |-> "after_commit",
                      action |-> "response_lost", retry |-> 0]
Before(tool, n, action, retry) == [tool |-> tool, invocation |-> n, phase |-> "before",
                      action |-> action, retry |-> retry]
Falsify(tool, n, action) == [tool |-> tool, invocation |-> n, phase |-> "read_response",
                      action |-> action, retry |-> 0]

PaymentFaults == {Lose("create_refund", 1), Falsify("create_refund", 2, "incomplete"),
                  Falsify("list_refunds", 1, "stale")}
DeskFaults == {Lose("append_note", 1), Before("update_ticket", 1, "transient_error", 0)}

BothPermissions == {"refund", "ticket_write"}
AnyHandlerOrder == Permutations(Handlers)
=============================================================================
