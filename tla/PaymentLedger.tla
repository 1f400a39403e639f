--------------------------- MODULE PaymentLedger ---------------------------
(***************************************************************************)
(* What TestPay promises of an operation key, without its tables, calls,    *)
(* faults or clock: a key pays at most once, what it pays never changes,   *)
(* and a pending payment settles at most once, together with the others    *)
(* that are due, to the one outcome the scenario scripts.                  *)
(***************************************************************************)
CONSTANTS Keys, Orders, Amounts, Requests, Outcome

VARIABLE ledger   \* what each operation key has paid

NoEffect == [state |-> "none"]
Effect   == [order: Orders, amount: Amounts, request: Requests,
             state: {"pending", "succeeded", "failed"}]

\* A scenario may start with payments in any state.
Init == ledger \in [Keys -> Effect \cup {NoEffect}]

Accept(k) ==
  /\ ledger[k] = NoEffect
  /\ ledger'[k] \in Effect /\ ledger'[k].state # "failed"
  /\ ledger' = [ledger EXCEPT ![k] = ledger'[k]]

Settle(S) ==
  /\ \A k \in S : ledger[k].state = "pending"
  /\ ledger' = [k \in Keys |-> IF k \in S THEN [ledger[k] EXCEPT !.state = Outcome]
                                          ELSE ledger[k]]

Next == (\E k \in Keys : Accept(k)) \/ (\E S \in SUBSET Keys : Settle(S))

Spec == Init /\ [][Next]_ledger
=============================================================================
