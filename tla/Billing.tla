------------------------------ MODULE Billing -------------------------------
(***************************************************************************)
(* The billing of one project (api/team_billing.py, billing_db.py and the  *)
(* worker loop of team.py): owner requests that buy, cancel and reconcile, *)
(* webhooks accepted into a durable inbox, workers that claim and process  *)
(* them under a lease, and the project's deletion.                         *)
(*                                                                         *)
(* A request runs two transactions, a worker two: the first reserves, the  *)
(* second calls the provider and commits.  Every transaction holds the     *)
(* project's row lock from its first to its last step.  A transaction that *)
(* only reads provider facts that never change again (an expired session,  *)
(* the subscription of a paid one) is one step; where the provider can     *)
(* move between a read and the commit, they are two.                       *)
(***************************************************************************)
EXTENDS Provider, FiniteSets

CONSTANTS
    Requests,      \* request handlers of the API processes
    Workers,       \* reconciliation workers
    CheckoutKeys,  \* idempotency keys of checkout requests
    CancelKeys,    \* idempotency keys of cancellation requests
    EventIds,      \* webhook events the provider may ever send
    Horizon,       \* ticks an uncertain operation may be retried (23 hours)
    MaxAttempts,   \* claims of an event before it is given up (5)
    None

ASSUME BillingAssumption ==
    /\ Horizon \in Nat /\ Horizon < KeyLife
    /\ MaxAttempts \in Nat \ {0}
    /\ Requests \cap Workers = {}
    /\ None \notin Requests \cup Workers

VARIABLES
    account,       \* the project's row of team_billing_accounts
    ops,           \* team_billing_operations, in the order of created_at
    inbox,         \* team_billing_events
    deleted,       \* the project row is gone, and its billing rows with it
    lock,          \* who holds the project's row lock
    req,           \* the requests in progress
    wk             \* the workers

billing == <<account, ops, inbox, deleted>>
vars == <<now, sessions, account, ops, inbox, deleted, lock, req, wk>>

-----------------------------------------------------------------------------
Account ==
    [sub : Nat, status : SubscriptionStatuses \cup {"none", "pending"},
     sync : {"ready", "pending", "retrying", "unknown"}, paidThrough : Nat]

NewAccount == [sub |-> 0, status |-> "none", sync |-> "ready", paidThrough |-> 0]

(* target: the session of a checkout's result, or the subscription a       *)
(* cancellation was reserved for; 0 while there is no result.              *)
Operation ==
    [kind : {"checkout", "cancel"}, key : CheckoutKeys \cup CancelKeys,
     status : {"pending", "unknown", "completed"}, target : Nat,
     atEnd : BOOLEAN, at : Nat, confirmed : BOOLEAN]

Reserve(kind, key, target, atEnd) ==
    [kind |-> kind, key |-> key, status |-> "pending", target |-> target,
     atEnd |-> atEnd, at |-> now, confirmed |-> FALSE]

(* lease: the claim that holds the event; 0 when none does.  Claims are    *)
(* numbered by attempts, so the number is as unique as the random token.   *)
Event ==
    [status : {"absent", "pending", "processing", "retrying",
               "processed", "ignored", "failed"},
     kind : {"checkout", "subscription"}, target : Nat,
     attempts : 0..MaxAttempts, lease : 0..MaxAttempts]

NoEvent ==
    [status |-> "absent", kind |-> "checkout", target |-> 0,
     attempts |-> 0, lease |-> 0]

(* What the provider's last answer was.                                    *)
Reply ==
    [tag : {"none", "session", "snapshot", "expired", "unavailable", "invalid"},
     session : Nat, sub : Subscription]

Answer(tag, s, sub) == [tag |-> tag, session |-> s, sub |-> sub]
NoReply == Answer("none", 0, NoSubscription)
Unavailable == Answer("unavailable", 0, NoSubscription)
Invalid == Answer("invalid", 0, NoSubscription)

Handler ==
    [pc : {"idle", "ready", "read", "commit"},
     kind : {"checkout", "cancel", "reconcile"}, op : Nat,
     since : Nat, reply : Reply]

Idle == [pc |-> "idle", kind |-> "checkout", op |-> 0, since |-> 0, reply |-> NoReply]

Worker ==
    [pc : {"idle", "claimed", "commit"}, event : EventIds \cup {None},
     lease : 0..MaxAttempts, reply : Reply]

Resting == [pc |-> "idle", event |-> None, lease |-> 0, reply |-> NoReply]

TypeOK ==
    /\ ProviderTypeOK
    /\ account \in Account
    /\ ops \in Seq(Operation)
    /\ inbox \in [EventIds -> Event]
    /\ deleted \in BOOLEAN
    /\ lock \in Requests \cup Workers \cup {None}
    /\ req \in [Requests -> Handler]
    /\ wk \in [Workers -> Worker]

Init ==
    /\ ProviderInit
    /\ account = NewAccount
    /\ ops = << >>
    /\ inbox = [e \in EventIds |-> NoEvent]
    /\ deleted = FALSE
    /\ lock = None
    /\ req = [r \in Requests |-> Idle]
    /\ wk = [w \in Workers |-> Resting]

-----------------------------------------------------------------------------
(* Reading the tables.                                                     *)

Latest(S) == IF S = {} THEN 0 ELSE CHOOSE i \in S : \A j \in S : j <= i
Checkouts == {i \in DOMAIN ops : ops[i].kind = "checkout"}
LastCheckout == Latest(Checkouts)
LastCompleted == Latest({i \in Checkouts : ops[i].status = "completed"})
Placed(kind, key) == {i \in DOMAIN ops : ops[i].kind = kind /\ ops[i].key = key}

Subscribed == account.sub # 0 /\ account.status # "canceled"
Terminal == account.sub # 0 /\ account.status = "canceled"

(* The access a project's writes are checked against.                      *)
Access ==
    IF /\ account.status = "active"
       /\ account.sync \in {"ready", "retrying"}
       /\ account.paidThrough > now
    THEN "paid" ELSE "read_only"

(* Mutant of Retryable: the retry horizon is forgotten.                    *)
RetryableForever(i) == ops[i].status # "completed"

(* An operation that is not completed may be retried within the horizon.   *)
Retryable(i) == ops[i].status # "completed" /\ now - ops[i].at <= Horizon

(* The last checkout stands in no new one's way: its expiry has passed or  *)
(* was confirmed, or its subscription has ended, and the provider agrees.  *)
ProviderAgrees(i) ==
    \/ Terminal /\ ops[i].target = account.sub
    \/ sessions[ops[i].target].status = "expired"
Replaceable(i) ==
    /\ ops[i].status = "completed"
    /\ \/ sessions[ops[i].target].expires <= now
       \/ Terminal
       \/ ops[i].confirmed
    /\ ProviderAgrees(i)

LockFree == lock = None

-----------------------------------------------------------------------------
(* Applying a subscription's snapshot to the account.                      *)

(* Mutant of Belongs: an account without subscription takes any snapshot.  *)
BelongsToAccount(s) == account.sub # 0 => account.sub = s

(* The snapshot is the account's own, or of the session the latest         *)
(* completed checkout leads to.  (A subscription is known to the service   *)
(* only after a checkout completed, so there always is one.)               *)
Belongs(s) ==
    IF account.sub # 0 THEN account.sub = s
    ELSE LastCompleted # 0 /\ ops[LastCompleted].target = s

(* Mutant of PaidThrough: the current period counts whether paid or not.   *)
PeriodEnd(sub) ==
    IF sub.end > account.paidThrough THEN sub.end ELSE account.paidThrough

PaidThrough(sub) ==
    IF sub.paid /\ sub.end > account.paidThrough THEN sub.end
    ELSE account.paidThrough

Applied(reply) ==
    IF ~Belongs(reply.session) THEN account
    ELSE [sub |-> reply.session, status |-> reply.sub.status,
          sync |-> IF reply.sub.paused THEN "unknown" ELSE "ready",
          paidThrough |-> PaidThrough(reply.sub)]

(* What retrieving a subscription, or a checkout and then its              *)
(* subscription, may answer.  Requests treat an unsupported object as they *)
(* treat an outage; only workers tell it apart (Invalid).                  *)
ReadSubscription(s) == {Answer("snapshot", s, sessions[s].sub), Unavailable}
ReadCheckout(s) ==
    CASE sessions[s].status = "open"     -> {Unavailable}
      [] sessions[s].status = "expired"  ->
            {Answer("expired", s, NoSubscription), Unavailable}
      [] sessions[s].status = "complete" -> ReadSubscription(s)

-----------------------------------------------------------------------------
(* Requests.                                                               *)

(* The first step of a request: its guard, under the project's lock.       *)
Enter(r) == req[r].pc = "idle" /\ LockFree /\ ~deleted

Ready(r, kind, i) ==
    req' = [req EXCEPT ![r] = [Idle EXCEPT !.pc = "ready", !.kind = kind,
                                           !.op = i, !.since = now]]

(* checkout, first transaction: the reservation.                           *)
StartCheckout(r, key) ==
    /\ Enter(r)
    /\ ~Subscribed
    /\ \/ /\ \E i \in Placed("checkout", key) :
                Retryable(i) /\ Ready(r, "checkout", i)
          /\ UNCHANGED ops
       \/ /\ Placed("checkout", key) = {}
          /\ LastCheckout # 0 => Replaceable(LastCheckout)
          /\ ops' = Append(ops, Reserve("checkout", key, 0, FALSE))
          /\ Ready(r, "checkout", Len(ops) + 1)
    /\ UNCHANGED <<now, sessions, account, inbox, deleted, lock, wk>>

(* cancel, first transaction: the reservation, for the subscription the    *)
(* account has now.                                                        *)
StartCancel(r, key, atEnd) ==
    /\ Enter(r)
    /\ account.sub # 0
    /\ \/ /\ \E i \in Placed("cancel", key) :
                Retryable(i) /\ ops[i].atEnd = atEnd /\ Ready(r, "cancel", i)
          /\ UNCHANGED ops
       \/ /\ Placed("cancel", key) = {}
          /\ ops' = Append(ops, Reserve("cancel", key, account.sub, atEnd))
          /\ Ready(r, "cancel", Len(ops) + 1)
    /\ UNCHANGED <<now, sessions, account, inbox, deleted, lock, wk>>

(* Mutant of Overtaken: a completed operation is called and judged again.  *)
OvertakenByEvent(r) ==
    \/ req[r].kind = "checkout" /\ Subscribed
    \/ req[r].kind = "cancel" /\ account.sub # ops[req[r].op].target

(* The second transaction begins, unless another request for the same      *)
(* operation, or an event, has overtaken this one.                         *)
Overtaken(r) ==
    \/ ops[req[r].op].status = "completed"
    \/ req[r].kind = "checkout" /\ Subscribed
    \/ req[r].kind = "cancel" /\ account.sub # ops[req[r].op].target

Withdraw(r) ==
    /\ req[r].pc = "ready" /\ LockFree
    /\ ~deleted => Overtaken(r)
    /\ req' = [req EXCEPT ![r] = Idle]
    /\ UNCHANGED <<now, sessions, billing, lock, wk>>

(* The provider call's answer, kept by a handler that holds the lock.      *)
Answered(r, pc, reply) ==
    /\ lock' = r
    /\ req' = [req EXCEPT ![r].pc = pc, ![r].reply = reply]

Begin(r, kind) ==
    /\ req[r].pc = "ready" /\ req[r].kind = kind
    /\ LockFree /\ ~deleted /\ ~Overtaken(r)

(* create_checkout answers, or its answer is lost, or it does nothing.     *)
CallCheckout(r) ==
    /\ Begin(r, "checkout")
    /\ \/ \E s \in 1 .. Len(sessions) + 1 :
             /\ Create(req[r].op, s)
             /\ \/ Answered(r, "commit", Answer("session", s, NoSubscription))
                \/ Answered(r, "commit", Unavailable)
       \/ /\ UNCHANGED sessions
          /\ Answered(r, "commit", Unavailable)
    /\ UNCHANGED <<now, billing, wk>>

(* cancel_subscription: likewise; it refuses a subscription that ended.    *)
CallCancel(r) ==
    /\ Begin(r, "cancel")
    /\ \/ /\ Cancel(ops[req[r].op].target, ops[req[r].op].atEnd)
          /\ \/ Answered(r, "read", NoReply)
             \/ Answered(r, "commit", Unavailable)
       \/ /\ UNCHANGED sessions
          /\ Answered(r, "commit", Unavailable)
    /\ UNCHANGED <<now, billing, wk>>

(* retrieve_subscription, after the cancellation.                          *)
ReadCancel(r) ==
    /\ req[r].pc = "read"
    /\ \E reply \in ReadSubscription(ops[req[r].op].target) :
          Answered(r, "commit", reply)
    /\ UNCHANGED <<now, sessions, billing, wk>>

(* reconcile reads the account's subscription, or the latest completed     *)
(* checkout, and keeps the lock.                                           *)
ReadReconcile(r) ==
    /\ Enter(r)
    /\ account.sub # 0 \/ LastCompleted # 0
    /\ \E reply \in IF account.sub # 0 THEN ReadSubscription(account.sub)
                    ELSE ReadCheckout(ops[LastCompleted].target) :
          /\ lock' = r
          /\ req' = [req EXCEPT ![r] =
                [pc |-> "commit", kind |-> "reconcile", op |-> LastCompleted,
                 since |-> now, reply |-> reply]]
    /\ UNCHANGED <<now, sessions, billing, wk>>

(* The commit of a request's second transaction.                           *)
Uncertain(i) ==
    /\ ops' = [ops EXCEPT ![i].status = "unknown"]

Committing(r, kind) == req[r].pc = "commit" /\ req[r].kind = kind

Done(r) ==
    /\ lock' = None
    /\ req' = [req EXCEPT ![r] = Idle]
    /\ UNCHANGED <<now, sessions, inbox, deleted, wk>>

FinishCheckout(r) ==
    /\ Committing(r, "checkout")
    /\ LET i == req[r].op  reply == req[r].reply IN
       IF reply.tag = "session"
       THEN /\ ops' = [ops EXCEPT ![i].status = "completed", ![i].target = reply.session]
            /\ account' = [sub |-> 0, status |-> "pending", sync |-> "pending",
                           paidThrough |-> 0]
       ELSE /\ Uncertain(i)
            /\ account' = [account EXCEPT !.sync = "retrying"]
    /\ Done(r)

(* The snapshot shows what the cancellation asked for.                     *)
Confirms(sub, atEnd) == sub.status = "canceled" \/ (atEnd /\ sub.ending)

FinishCancel(r) ==
    /\ Committing(r, "cancel")
    /\ LET i == req[r].op  reply == req[r].reply IN
       CASE reply.tag = "snapshot" /\ Confirms(reply.sub, ops[i].atEnd) ->
              /\ ops' = [ops EXCEPT ![i].status = "completed"]
              /\ account' = Applied(reply)
         [] reply.tag = "snapshot" /\ ~Confirms(reply.sub, ops[i].atEnd) ->
              /\ Uncertain(i)
              /\ account' = [Applied(reply) EXCEPT !.sync = "retrying"]
         [] reply.tag # "snapshot" ->
              /\ Uncertain(i)
              /\ account' = [account EXCEPT !.sync = "retrying"]
    /\ Done(r)

FinishReconcile(r) ==
    /\ Committing(r, "reconcile")
    /\ LET reply == req[r].reply IN
       CASE reply.tag = "expired" ->
              /\ ops' = [ops EXCEPT ![req[r].op].confirmed = TRUE]
              /\ account' = [account EXCEPT !.status = "none", !.sync = "ready"]
         [] reply.tag = "snapshot" ->
              /\ account' = Applied(reply)
              /\ UNCHANGED ops
         [] reply.tag \notin {"expired", "snapshot"} ->
              /\ account' = [account EXCEPT !.sync = "retrying"]
              /\ UNCHANGED ops
    /\ Done(r)

(* The process dies, or its commit fails: the transaction rolls back.      *)
AbortRequest(r) ==
    /\ req[r].pc # "idle"
    /\ req' = [req EXCEPT ![r] = Idle]
    /\ lock' = IF lock = r THEN None ELSE lock
    /\ UNCHANGED <<now, sessions, billing, wk>>

-----------------------------------------------------------------------------
(* The inbox.                                                              *)

(* accept_event: a checkout must be one the operations know; the event's   *)
(* own content is not kept.  A repeated event id changes nothing.          *)
Deliver(e, kind, s) ==
    /\ LockFree /\ ~deleted
    /\ inbox[e].status = "absent"
    /\ sessions[s].status # "open"
    /\ kind = "checkout" => \E i \in Checkouts : ops[i].target = s
    /\ kind = "subscription" => sessions[s].status = "complete"
    /\ inbox' = [inbox EXCEPT ![e] = [NoEvent EXCEPT
                    !.status = "pending", !.kind = kind, !.target = s]]
    /\ UNCHANGED <<now, sessions, account, ops, deleted, lock, req, wk>>

(* The row is due: pending or waiting for its retry, or its lease ran out. *)
(* Retry times and leases (30 and 120 seconds) may pass at any moment, but *)
(* a row locked by the worker that reconciles it is skipped.               *)
Due(e) ==
    /\ inbox[e].status \in {"pending", "retrying", "processing"}
    /\ ~\E w \in Workers : lock = w /\ wk[w].event = e

(* process_one, first transaction: claim, or give up.  (ClaimUncounted is a *)
(* mutant of Claimed that does not count the attempt.)                     *)
ClaimUncounted(e) ==
    [inbox[e] EXCEPT !.status = "processing", !.lease = inbox[e].attempts + 1]

Claimed(e) ==
    [inbox[e] EXCEPT !.status = "processing", !.attempts = @ + 1,
                     !.lease = inbox[e].attempts + 1]

(* Mutant of Exhausted: off by one.                                        *)
ExhaustedLate(e) == inbox[e].attempts > MaxAttempts
Exhausted(e) == inbox[e].attempts >= MaxAttempts

Claim(w, e) ==
    /\ wk[w].pc = "idle" /\ Due(e)
    /\ IF Exhausted(e)
       THEN /\ inbox' = [inbox EXCEPT ![e].status = "failed"]
            /\ UNCHANGED wk
       ELSE /\ inbox' = [inbox EXCEPT ![e] = Claimed(e)]
            /\ wk' = [wk EXCEPT ![w] = [Resting EXCEPT
                          !.pc = "claimed", !.event = e,
                          !.lease = inbox[e].attempts + 1]]
    /\ UNCHANGED <<now, sessions, account, ops, deleted, lock, req>>

(* Mutant of HoldsLease: the worker trusts its claim.                      *)
HeldOnce(w) == TRUE

(* The worker still holds the lease it claimed.                            *)
HoldsLease(w) == inbox[wk[w].event].lease = wk[w].lease

(* Second transaction: the project is gone, the lease was taken over ...   *)
GiveUp(w) ==
    /\ wk[w].pc = "claimed" /\ LockFree
    /\ ~deleted => ~HoldsLease(w)
    /\ wk' = [wk EXCEPT ![w] = Resting]
    /\ UNCHANGED <<now, sessions, billing, lock, req>>

(* The project's row stays locked from the read to the commit.  (Reading   *)
(* without it is a mutant.)                                                *)
ReadUnlocked(w) == UNCHANGED lock
KeepLock(w) == lock' = w

(* ... or the current objects are retrieved with both rows locked ...      *)
ReadEvent(w) ==
    /\ wk[w].pc = "claimed" /\ LockFree
    /\ ~deleted /\ HoldsLease(w)
    /\ LET ev == inbox[wk[w].event] IN
       \E reply \in {Invalid} \cup IF ev.kind = "checkout" THEN ReadCheckout(ev.target)
                                  ELSE ReadSubscription(ev.target) :
          wk' = [wk EXCEPT ![w].pc = "commit", ![w].reply = reply]
    /\ KeepLock(w)
    /\ UNCHANGED <<now, sessions, billing, req>>

(* ... and the outcome is committed, and the lease with it.                *)
Outcome(reply, attempts) ==
    CASE reply.tag = "expired"     -> "processed"
      [] reply.tag = "snapshot"    ->
            IF Belongs(reply.session) THEN "processed" ELSE "ignored"
      [] reply.tag = "invalid"     -> "failed"
      [] reply.tag = "unavailable" ->
            IF attempts < MaxAttempts THEN "retrying" ELSE "failed"

AfterEvent(reply) ==
    CASE reply.tag = "expired"     ->
            IF account.sub = 0
            THEN [account EXCEPT !.status = "none", !.sync = "ready"]
            ELSE account
      [] reply.tag = "snapshot"    -> Applied(reply)
      [] reply.tag = "invalid"     -> [account EXCEPT !.sync = "unknown"]
      [] reply.tag = "unavailable" -> [account EXCEPT !.sync = "retrying"]

FinishEvent(w) ==
    /\ wk[w].pc = "commit"
    /\ LET e == wk[w].event IN
       /\ inbox' = [inbox EXCEPT ![e].lease = 0,
              ![e].status = Outcome(wk[w].reply, inbox[e].attempts)]
       /\ account' = AfterEvent(wk[w].reply)
    /\ lock' = None
    /\ wk' = [wk EXCEPT ![w] = Resting]
    /\ UNCHANGED <<now, sessions, ops, deleted, req>>

(* The worker dies, or its commit fails; its lease is left to run out.     *)
AbortWorker(w) ==
    /\ wk[w].pc # "idle"
    /\ wk' = [wk EXCEPT ![w] = Resting]
    /\ lock' = IF lock = w THEN None ELSE lock
    /\ UNCHANGED <<now, sessions, billing, req>>

-----------------------------------------------------------------------------
(* delete_project: check_deletion, then the row and all that hang on it.   *)
(* (SettledOnce is a mutant: a checkout counts as settled once answered.)  *)
SettledOnce(i) == ops[i].status = "completed"
Settled(i) ==
    /\ ops[i].status = "completed"
    /\ ops[i].confirmed \/ account.sub # 0
Deletable == ~Subscribed /\ \A i \in Checkouts : Settled(i)

DeleteProject ==
    /\ LockFree /\ ~deleted
    /\ Deletable
    /\ deleted' = TRUE
    /\ account' = NewAccount
    /\ ops' = << >>
    /\ inbox' = [e \in EventIds |-> NoEvent]
    /\ UNCHANGED <<now, sessions, lock, req, wk>>

(* Time passes, but a request does not outlive the tick after its first    *)
(* transaction: both are one HTTP call, and a tick is most of a day.       *)
Tick ==
    /\ now < MaxTime
    /\ \A r \in Requests : req[r].pc = "idle" \/ req[r].since = now
    /\ now' = now + 1
    /\ UNCHANGED <<sessions, billing, lock, req, wk>>

(* A customer can only complete a session whose URL was handed out.        *)
Offered(s) == \E i \in Checkouts : ops[i].target = s

ProviderMoves ==
    /\ \E s \in DOMAIN sessions :
          \/ Offered(s) /\ Pay(s)
          \/ Expire(s) \/ Renew(s) \/ Settle(s) \/ Miss(s) \/ Lapse(s) \/ Pause(s)
    /\ UNCHANGED <<billing, lock, req, wk>>

Request(r) ==
    \/ \E key \in CheckoutKeys : StartCheckout(r, key)
    \/ \E key \in CancelKeys, atEnd \in BOOLEAN : StartCancel(r, key, atEnd)
    \/ Withdraw(r)
    \/ CallCheckout(r) \/ FinishCheckout(r)
    \/ CallCancel(r) \/ ReadCancel(r) \/ FinishCancel(r)
    \/ ReadReconcile(r) \/ FinishReconcile(r)
    \/ AbortRequest(r)

Work(w) ==
    \/ \E e \in EventIds : Claim(w, e)
    \/ GiveUp(w) \/ ReadEvent(w) \/ FinishEvent(w)
    \/ AbortWorker(w)

Webhook ==
    \E e \in EventIds, kind \in {"checkout", "subscription"}, s \in DOMAIN sessions :
        Deliver(e, kind, s)

Next ==
    \/ \E r \in Requests : Request(r)
    \/ \E w \in Workers : Work(w)
    \/ Webhook
    \/ DeleteProject
    \/ ProviderMoves
    \/ Tick

(* A transaction in progress ends; workers poll the inbox and, since the   *)
(* database queues who waits for a row, get the lock they wait for.        *)
Fairness ==
    /\ \A r \in Requests :
          WF_vars(ReadCancel(r) \/ FinishCheckout(r) \/ FinishCancel(r) \/ FinishReconcile(r))
    /\ \A w \in Workers :
          /\ WF_vars(\E e \in EventIds : Claim(w, e))
          /\ WF_vars(GiveUp(w))
          /\ SF_vars(ReadEvent(w))
          /\ WF_vars(FinishEvent(w))

Spec == Init /\ [][Next]_vars
FairSpec == Spec /\ Fairness

-----------------------------------------------------------------------------
(* Properties.                                                             *)

(* The project never has two ways to be charged at the provider: at most   *)
(* one session is open or has a live subscription, whatever answers are    *)
(* lost, whoever retries, and however long a checkout is replaced after.   *)
Charging == {s \in DOMAIN sessions : sessions[s].status = "open" \/ Live(s)}
OneLivePurchase == \A s, t \in Charging : s = t

(* Deleting the project leaves nothing behind that could still charge.     *)
DeletionSafe == deleted => Charging = {}

(* Access is granted only for a period the provider has been paid for.     *)
AccessWasPaid ==
    Access = "paid" => sessions[account.sub].sub.paidUntil >= account.paidThrough

(* The account follows the purchase of its latest completed checkout: an   *)
(* event of a subscription it replaced never brings that one back.         *)
LinkedToLatest ==
    account.sub # 0 => LastCompleted # 0 /\ ops[LastCompleted].target = account.sub

(* Once a subscription's end is recorded it stays recorded, although       *)
(* requests and workers apply snapshots they read earlier.                 *)
EndIsFinal ==
    [][Terminal /\ account'.sub = account.sub => account'.status = "canceled"]_vars

(* A completed operation keeps its result: a slower duplicate of the same  *)
(* request, whose own call failed, does not make it uncertain again.       *)
ResultsAreKept ==
    [][\A i \in DOMAIN ops :
          ops[i].status = "completed" /\ ~deleted' =>
              ops'[i].status = "completed" /\ ops'[i].target = ops[i].target]_vars

(* An outcome is the end of an event: a worker whose lease ran out does    *)
(* not reopen what another has finished.  Only an event that was given up  *)
(* may still turn out processed, by the worker of its last claim (giving   *)
(* up leaves the token in place).                                          *)
Finished == {"processed", "ignored", "failed"}
OutcomesHold ==
    [][\A e \in EventIds :
          inbox[e].status \in Finished /\ ~deleted' =>
              /\ inbox'[e].status \in Finished
              /\ inbox[e].status # "failed" => inbox'[e] = inbox[e]]_vars

(* Every accepted event comes to an outcome, whatever fails and whichever  *)
(* workers die (or its project is deleted).                                *)
InboxDrains ==
    \A e \in EventIds :
        inbox[e].status \in {"pending", "retrying", "processing"}
            ~> deleted \/ inbox[e].status \in Finished

(* The service says of a provider it could not reach that "no new access   *)
(* was granted" (team_billing.py:384): access comes only with a snapshot   *)
(* that was read and applied.                                              *)
NoAccessUnverified ==
    [][Access # "paid" /\ Access' = "paid" => account'.sync = "ready"]_vars

(* A project whose last checkout the provider has confirmed as expired,    *)
(* with nothing else open or uncertain, can be deleted                     *)
(* (docs/billing.md:65).                                                   *)
ReconciledDeletable ==
    /\ account.sub = 0 /\ LastCheckout # 0
    /\ \A i \in Checkouts : ops[i].status = "completed"
    /\ ops[LastCheckout].confirmed
    => Deletable

=============================================================================
