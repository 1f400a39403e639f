----------------------------- MODULE MCBilling ------------------------------
(* Instances of Billing for model checking.                                *)
EXTENDS Billing, TLC

CONSTANTS r1, r2, w1, w2, k1, k2, c1, e1

OneRequest == {r1}
TwoRequests == {r1, r2}
OneWorker == {w1}
TwoWorkers == {w1, w2}
TwoCheckouts == {k1, k2}
NoCancel == {}
OneCancel == {c1}
NoEvents == {}
OneEvent == {e1}

(* Requests, workers, keys and events are interchangeable.                 *)
Alike ==
    Permutations(Requests) \cup Permutations(Workers)
        \cup Permutations(CheckoutKeys)

=============================================================================
