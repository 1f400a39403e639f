------------------------------ MODULE Provider ------------------------------
(***************************************************************************)
(* The payment provider as billing_provider.py and team_billing.py use it: *)
(* hosted checkout sessions, the one subscription a paid session starts,   *)
(* its monthly periods and invoices, and the idempotency keys of the       *)
(* creating calls.  It is outside the repository; what is kept is what the *)
(* service can observe of it and what can go wrong.                        *)
(*                                                                         *)
(* A session and the subscription it starts have the same number.  The     *)
(* unit of time is abstract: one tick is a billing period, a session's     *)
(* life and the retry horizon alike, since only their order matters.       *)
(***************************************************************************)
EXTENDS Naturals, Sequences

CONSTANTS
    MaxTime,      \* bound on the clock
    SessionLife,  \* ticks until a hosted session's announced expiry
    KeyLife,      \* ticks an idempotency key is remembered after its first use
    MayPause      \* whether the merchant ever pauses collection

ASSUME ProviderAssumption ==
    /\ MaxTime \in Nat
    /\ SessionLife \in Nat \ {0}
    /\ KeyLife \in Nat
    /\ MayPause \in BOOLEAN

VARIABLES
    now,          \* the time
    sessions      \* the checkout sessions ever created, with their subscriptions

-----------------------------------------------------------------------------
(* "past_due" stands for every status that is neither active nor terminal  *)
(* (trialing, past_due, unpaid, incomplete, paused): the service treats    *)
(* them alike.  "canceled" stands for both terminal statuses.              *)
SubscriptionStatuses == {"active", "past_due", "canceled"}

(* paid: the latest invoice is paid; paidUntil: the end of the last period *)
(* that was ever paid for (0: none); ending: cancel_at_period_end;         *)
(* paused: pause_collection is set.                                        *)
Subscription ==
    [status : SubscriptionStatuses, end : Nat, paid : BOOLEAN,
     paidUntil : Nat, ending : BOOLEAN, paused : BOOLEAN]

NoSubscription ==
    [status |-> "canceled", end |-> 0, paid |-> FALSE,
     paidUntil |-> 0, ending |-> FALSE, paused |-> FALSE]

Session ==
    [status : {"open", "complete", "expired"}, key : Nat, born : Nat,
     expires : Nat, sub : Subscription]

ProviderTypeOK == now \in 0..MaxTime /\ sessions \in Seq(Session)

ProviderInit == now = 0 /\ sessions = << >>

-----------------------------------------------------------------------------
(* What the service's calls do.                                            *)

NewSession(key) ==
    [status |-> "open", key |-> key, born |-> now,
     expires |-> now + SessionLife, sub |-> NoSubscription]

(* The sessions the provider still answers a repeated key with.            *)
Remembered(key) ==
    {s \in DOMAIN sessions :
        sessions[s].key = key /\ now - sessions[s].born <= KeyLife}

(* A create call under an idempotency key, and the session it answers.     *)
Create(key, s) ==
    \/ /\ s \in Remembered(key)
       /\ UNCHANGED sessions
    \/ /\ Remembered(key) = {}
       /\ s = Len(sessions) + 1
       /\ sessions' = Append(sessions, NewSession(key))

Live(s) == sessions[s].status = "complete" /\ sessions[s].sub.status # "canceled"

(* cancel_subscription: at the end of the period, or at once.              *)
Cancel(s, atEnd) ==
    /\ Live(s)
    /\ sessions' = IF atEnd
                   THEN [sessions EXCEPT ![s].sub.ending = TRUE]
                   ELSE [sessions EXCEPT ![s].sub.status = "canceled"]

-----------------------------------------------------------------------------
(* What happens at the provider by itself.                                 *)

(* The customer completes a hosted session.  The first invoice is paid, or *)
(* the payment is still outstanding.                                       *)
Pay(s) ==
    /\ sessions[s].status = "open"
    /\ \E paid \in BOOLEAN :
          sessions' = [sessions EXCEPT
              ![s].status = "complete",
              ![s].sub = [status |-> IF paid THEN "active" ELSE "past_due",
                          end |-> now + 1, paid |-> paid,
                          paidUntil |-> IF paid THEN now + 1 ELSE 0,
                          ending |-> FALSE, paused |-> FALSE]]
    /\ UNCHANGED now

(* A session expires at its time, or earlier when the merchant expires it. *)
Expire(s) ==
    /\ sessions[s].status = "open"
    /\ sessions' = [sessions EXCEPT ![s].status = "expired"]
    /\ UNCHANGED now

(* The next period starts with an open invoice.                            *)
Renew(s) ==
    /\ Live(s) /\ sessions[s].sub.status = "active"
    /\ ~sessions[s].sub.ending /\ sessions[s].sub.end <= now
    /\ sessions' = [sessions EXCEPT ![s].sub.end = now + 1, ![s].sub.paid = FALSE]
    /\ UNCHANGED now

(* An open invoice is paid ...                                             *)
Settle(s) ==
    /\ Live(s) /\ ~sessions[s].sub.paid
    /\ sessions' = [sessions EXCEPT
           ![s].sub.status = "active", ![s].sub.paid = TRUE,
           ![s].sub.paidUntil = sessions[s].sub.end]
    /\ UNCHANGED now

(* ... or its payment fails.                                               *)
Miss(s) ==
    /\ Live(s) /\ sessions[s].sub.status = "active" /\ ~sessions[s].sub.paid
    /\ sessions' = [sessions EXCEPT ![s].sub.status = "past_due"]
    /\ UNCHANGED now

(* A subscription ends with its last period or after failed payments.      *)
Lapse(s) ==
    /\ Live(s)
    /\ \/ sessions[s].sub.status = "past_due"
       \/ sessions[s].sub.ending /\ sessions[s].sub.end <= now
    /\ sessions' = [sessions EXCEPT ![s].sub.status = "canceled"]
    /\ UNCHANGED now

(* Collection is paused, or resumed.                                       *)
Pause(s) ==
    /\ MayPause /\ Live(s)
    /\ sessions' = [sessions EXCEPT ![s].sub.paused = ~@]
    /\ UNCHANGED now

=============================================================================
