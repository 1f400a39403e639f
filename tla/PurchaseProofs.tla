--------------------------- MODULE PurchaseProofs ---------------------------
(***************************************************************************)
(* Proofs about what a project's billing may cost: that access was paid    *)
(* for, and that the project never has two purchases that may charge, nor  *)
(* any once it is deleted.  They build on the invariant Sound of           *)
(* BillingProofs.                                                          *)
(***************************************************************************)
EXTENDS BillingProofs

-----------------------------------------------------------------------------
(* How a session moves on at the provider.                                 *)

Charges(v) == v.status = "open" \/ (v.status = "complete" /\ v.sub.status # "canceled")

\* The recorded payments of a session: nothing is paid for beyond the current
\* period, and that one is when its invoice is.
Accounted(v) ==
    /\ v.sub.paidUntil <= v.sub.end
    /\ v.sub.paid => v.sub.paidUntil = v.sub.end

Forward(u, v) ==
    /\ v.key = u.key /\ v.born = u.born
    /\ u.status = "expired" => v.status = "expired"
    /\ Charges(v) => Charges(u)
    /\ Accounted(u) =>
          /\ Accounted(v)
          /\ u.status = "complete" => u.sub.paidUntil <= v.sub.paidUntil

MovesOn ==
    /\ sessions' \in Seq(Session)
    /\ DOMAIN sessions' = DOMAIN sessions
    /\ \A s \in DOMAIN sessions : Forward(sessions[s], sessions'[s])

LEMMA SameForward ==
  ASSUME NEW u \in Session
  PROVE  Forward(u, u)
<1>1. u.sub.paidUntil \in Nat
  <2>1. u.sub \in Subscription
    BY DEF Session
  <2> QED BY <2>1 DEF Subscription
<1> QED BY <1>1 DEF Forward, Charges, Accounted

LEMMA OneMoves ==
  ASSUME sessions \in Seq(Session), NEW s \in DOMAIN sessions, NEW v \in Session,
         sessions' = [sessions EXCEPT ![s] = v], Forward(sessions[s], v)
  PROVE  MovesOn
<1>1. /\ sessions' \in Seq(Session) /\ DOMAIN sessions' = DOMAIN sessions
      /\ sessions'[s] = v /\ \A t \in DOMAIN sessions \ {s} : sessions'[t] = sessions[t]
  OBVIOUS
<1>2. \A t \in DOMAIN sessions : sessions[t] \in Session
  OBVIOUS
<1> QED BY <1>1, <1>2, SameForward DEF MovesOn

LEMMA NoneMoves == sessions \in Seq(Session) /\ UNCHANGED sessions => MovesOn
<1> SUFFICES ASSUME sessions \in Seq(Session), UNCHANGED sessions PROVE MovesOn
  OBVIOUS
<1>1. \A t \in DOMAIN sessions : sessions[t] \in Session
  OBVIOUS
<1> QED BY <1>1, SameForward DEF MovesOn

LEMMA CancelMoves ==
  ASSUME sessions \in Seq(Session), NEW s \in DOMAIN sessions, NEW atEnd \in BOOLEAN,
         Cancel(s, atEnd)
  PROVE  MovesOn
<1> DEFINE sub == IF atEnd THEN [sessions[s].sub EXCEPT !.ending = TRUE]
                  ELSE [sessions[s].sub EXCEPT !.status = "canceled"]
           v == [sessions[s] EXCEPT !.sub = sub]
<1>1. sessions[s] \in Session /\ sessions[s].sub \in Subscription
  BY SessionParts
<1>2. /\ sub \in Subscription
      /\ sub.paid = sessions[s].sub.paid /\ sub.end = sessions[s].sub.end
      /\ sub.paidUntil = sessions[s].sub.paidUntil
  BY <1>1 DEF Subscription, SubscriptionStatuses
<1>3. sessions' = [sessions EXCEPT ![s] = v] /\ Charges(sessions[s])
  BY DEF Cancel, Live, Charges
<1> HIDE DEF sub
<1>4. /\ v \in Session /\ v.key = sessions[s].key /\ v.born = sessions[s].born
      /\ v.status = sessions[s].status /\ v.sub = sub
  BY <1>1, <1>2 DEF Session
<1> HIDE DEF v
<1>5. Forward(sessions[s], v)
  <2>1. sessions[s].sub.paidUntil \in Nat
    BY <1>1 DEF Subscription
  <2> QED BY <1>2, <1>3, <1>4, <2>1 DEF Forward, Accounted
<1> QED BY <1>3, <1>4, <1>5, OneMoves

\* Changing the subscription of a live session, or of one that is just paid.
LEMMA SubscriptionMoves ==
  ASSUME sessions \in Seq(Session), NEW s \in DOMAIN sessions, NEW sub \in Subscription,
         NEW status \in {"open", "complete", "expired"},
         sessions' = [sessions EXCEPT ![s] = [@ EXCEPT !.status = status, !.sub = sub]],
         Charges(sessions[s]),
         Accounted(sessions[s]) =>
            /\ sub.paidUntil <= sub.end
            /\ sub.paid => sub.paidUntil = sub.end
            /\ sessions[s].status = "complete" => sessions[s].sub.paidUntil <= sub.paidUntil
  PROVE  MovesOn
<1> DEFINE v == [sessions[s] EXCEPT !.status = status, !.sub = sub]
<1>1. sessions[s] \in Session
  OBVIOUS
<1>2. /\ v \in Session /\ v.key = sessions[s].key /\ v.born = sessions[s].born /\ v.sub = sub
      /\ sessions' = [sessions EXCEPT ![s] = v]
  BY <1>1 DEF Session
<1> HIDE DEF v
<1>3. Forward(sessions[s], v)
  BY <1>2 DEF Forward, Charges, Accounted
<1> QED BY <1>2, <1>3, OneMoves

LEMMA LiveMoves ==
  ASSUME sessions \in Seq(Session), NEW s \in DOMAIN sessions, NEW sub \in Subscription,
         Live(s), sessions' = [sessions EXCEPT ![s] = [@ EXCEPT !.sub = sub]],
         Accounted(sessions[s]) =>
            /\ sub.paidUntil <= sub.end
            /\ sub.paid => sub.paidUntil = sub.end
            /\ sessions[s].sub.paidUntil <= sub.paidUntil
  PROVE  MovesOn
<1>1. sessions[s] \in Session
  OBVIOUS
<1>2. sessions' = [sessions EXCEPT ![s] =
                      [@ EXCEPT !.status = sessions[s].status, !.sub = sub]]
  <2>1. [sessions[s] EXCEPT !.sub = sub]
           = [sessions[s] EXCEPT !.status = sessions[s].status, !.sub = sub]
    BY <1>1 DEF Session
  <2> QED BY <2>1
<1>3. Charges(sessions[s]) /\ sessions[s].status \in {"open", "complete", "expired"}
  BY <1>1 DEF Live, Charges, Session
<1> QED BY <1>2, <1>3, SubscriptionMoves

LEMMA ProviderMovesOn ==
  ASSUME sessions \in Seq(Session), now \in Nat, ProviderMoves
  PROVE  MovesOn
<1>1. PICK s \in DOMAIN sessions :
         Pay(s) \/ Expire(s) \/ Renew(s) \/ Settle(s) \/ Miss(s) \/ Lapse(s) \/ Pause(s)
  BY DEF ProviderMoves
<1> DEFINE old == sessions[s].sub
<1>2. sessions[s] \in Session /\ old \in Subscription
  BY SessionParts
<1>3. /\ old.paidUntil \in Nat /\ old.end \in Nat /\ old.paid \in BOOLEAN
      /\ old.status \in SubscriptionStatuses
      /\ sessions[s].status \in {"open", "complete", "expired"}
  BY <1>2 DEF Session, Subscription
<1>4. CASE Pay(s)
  <2>1. PICK paid \in BOOLEAN :
          sessions' = [sessions EXCEPT
              ![s].status = "complete",
              ![s].sub = [status |-> IF paid THEN "active" ELSE "past_due",
                          end |-> now + 1, paid |-> paid,
                          paidUntil |-> IF paid THEN now + 1 ELSE 0,
                          ending |-> FALSE, paused |-> FALSE]]
    BY <1>4 DEF Pay
  <2> DEFINE sub == [status |-> IF paid THEN "active" ELSE "past_due",
                     end |-> now + 1, paid |-> paid,
                     paidUntil |-> IF paid THEN now + 1 ELSE 0,
                     ending |-> FALSE, paused |-> FALSE]
  <2>2. /\ sub \in Subscription
        /\ sub.paidUntil <= sub.end /\ (sub.paid => sub.paidUntil = sub.end)
    BY DEF Subscription, SubscriptionStatuses
  <2>3. sessions' = [sessions EXCEPT ![s] = [@ EXCEPT !.status = "complete", !.sub = sub]]
    BY <2>1
  <2>4. sessions[s].status = "open"
    BY <1>4 DEF Pay
  <2> HIDE DEF sub
  <2> QED BY <2>2, <2>3, <2>4, SubscriptionMoves DEF Charges
<1>5. CASE Expire(s)
  <2> DEFINE v == [sessions[s] EXCEPT !.status = "expired"]
  <2>1. /\ v \in Session /\ v.key = sessions[s].key /\ v.born = sessions[s].born
        /\ v.status = "expired" /\ v.sub = old /\ sessions' = [sessions EXCEPT ![s] = v]
    BY <1>2, <1>5 DEF Expire, Session
  <2> HIDE DEF v
  <2>2. Forward(sessions[s], v)
    BY <1>3, <2>1 DEF Forward, Charges, Accounted
  <2> QED BY <2>1, <2>2, OneMoves
<1>6. CASE Renew(s)
  <2> DEFINE sub == [old EXCEPT !.end = now + 1, !.paid = FALSE]
  <2>1. /\ Live(s) /\ old.end <= now
        /\ sessions' = [sessions EXCEPT ![s].sub.end = now + 1, ![s].sub.paid = FALSE]
    BY <1>6 DEF Renew
  <2>2. \A n \in Nat : [old EXCEPT !.end = n, !.paid = FALSE] \in Subscription
    BY <1>2 DEF Subscription
  <2>3. /\ sub \in Subscription
        /\ sub.end = now + 1 /\ sub.paid = FALSE /\ sub.paidUntil = old.paidUntil
    <3>1. now + 1 \in Nat
      OBVIOUS
    <3>2. sub.end = now + 1 /\ sub.paid = FALSE /\ sub.paidUntil = old.paidUntil
      BY <1>2 DEF Subscription
    <3> QED BY <2>2, <3>1, <3>2
  <2>4. sessions' = [sessions EXCEPT ![s] = [@ EXCEPT !.sub = sub]]
    BY <2>1
  <2> HIDE DEF sub
  <2>5. Accounted(sessions[s]) =>
           /\ sub.paidUntil <= sub.end
           /\ sub.paid => sub.paidUntil = sub.end
           /\ sessions[s].sub.paidUntil <= sub.paidUntil
    BY <1>3, <2>1, <2>3 DEF Accounted
  <2> QED BY <2>1, <2>3, <2>4, <2>5, LiveMoves
<1>7. CASE Settle(s)
  <2> DEFINE sub == [old EXCEPT !.status = "active", !.paid = TRUE, !.paidUntil = old.end]
  <2>1. Live(s) /\ sessions' = [sessions EXCEPT ![s] = [@ EXCEPT !.sub = sub]]
    BY <1>7 DEF Settle
  <2>2. sub \in Subscription /\ sub.end = old.end /\ sub.paidUntil = old.end
    BY <1>2 DEF Subscription, SubscriptionStatuses
  <2> HIDE DEF sub
  <2>3. Accounted(sessions[s]) =>
           /\ sub.paidUntil <= sub.end
           /\ sub.paid => sub.paidUntil = sub.end
           /\ sessions[s].sub.paidUntil <= sub.paidUntil
    BY <1>3, <2>2 DEF Accounted
  <2> QED BY <2>1, <2>2, <2>3, LiveMoves
<1>8. CASE Miss(s) \/ Lapse(s)
  <2>1. PICK status \in {"past_due", "canceled"} :
           Live(s) /\ sessions' = [sessions EXCEPT ![s].sub.status = status]
    BY <1>8 DEF Miss, Lapse
  <2> DEFINE sub == [old EXCEPT !.status = status]
  <2>2. /\ sub \in Subscription /\ sub.end = old.end /\ sub.paid = old.paid
        /\ sub.paidUntil = old.paidUntil /\ sessions' = [sessions EXCEPT ![s] = [@ EXCEPT !.sub = sub]]
    BY <1>2, <2>1 DEF Subscription, SubscriptionStatuses
  <2>3. Accounted(sessions[s]) =>
           /\ sub.paidUntil <= sub.end
           /\ sub.paid => sub.paidUntil = sub.end
           /\ sessions[s].sub.paidUntil <= sub.paidUntil
    BY <1>3, <2>2 DEF Accounted
  <2> HIDE DEF sub
  <2> QED BY <2>1, <2>2, <2>3, LiveMoves
<1>9. CASE Pause(s)
  <2> DEFINE sub == [old EXCEPT !.paused = ~@]
  <2>1. Live(s)
    BY <1>9 DEF Pause
  <2>2. /\ sub \in Subscription /\ sub.end = old.end /\ sub.paid = old.paid
        /\ sub.paidUntil = old.paidUntil /\ sessions' = [sessions EXCEPT ![s] = [@ EXCEPT !.sub = sub]]
    BY <1>2, <1>9 DEF Pause, Subscription
  <2>3. Accounted(sessions[s]) =>
           /\ sub.paidUntil <= sub.end
           /\ sub.paid => sub.paidUntil = sub.end
           /\ sessions[s].sub.paidUntil <= sub.paidUntil
    BY <1>3, <2>2 DEF Accounted
  <2> HIDE DEF sub
  <2> QED BY <2>1, <2>2, <2>3, LiveMoves
<1> QED BY <1>1, <1>4, <1>5, <1>6, <1>7, <1>8, <1>9

LEMMA CreateForward ==
  ASSUME sessions \in Seq(Session), now \in Nat, NEW key \in Nat, NEW s \in Nat,
         Create(key, s)
  PROVE  /\ sessions' \in Seq(Session) /\ s \in DOMAIN sessions'
         /\ DOMAIN sessions \subseteq DOMAIN sessions'
         /\ \A t \in DOMAIN sessions : Forward(sessions[t], sessions'[t])
         /\ \A t \in DOMAIN sessions' \ DOMAIN sessions :
               t = s /\ Remembered(key) = {} /\ sessions'[t] = NewSession(key)
         /\ s \in DOMAIN sessions => s \in Remembered(key)
<1>1. CASE s \in Remembered(key) /\ UNCHANGED sessions
  BY <1>1, NoneMoves DEF Remembered, MovesOn
<1>2. CASE /\ Remembered(key) = {} /\ s = Len(sessions) + 1
           /\ sessions' = Append(sessions, NewSession(key))
  <2>1. NewSession(key) \in Session
    BY ProviderAssumption
       DEF NewSession, Session, NoSubscription, Subscription, SubscriptionStatuses
  <2>2. /\ sessions' \in Seq(Session) /\ DOMAIN sessions' = DOMAIN sessions \cup {s}
        /\ s \notin DOMAIN sessions /\ sessions'[s] = NewSession(key)
        /\ \A t \in DOMAIN sessions : sessions'[t] = sessions[t] /\ sessions[t] \in Session
    BY <1>2, <2>1
  <2> QED BY <1>2, <2>2, SameForward
<1> QED BY <1>1, <1>2 DEF Create

-----------------------------------------------------------------------------
(* Access was paid for.  An account's paid-through date never runs ahead   *)
(* of what the provider recorded as paid of the account's subscription,    *)
(* and no snapshot on its way into the account does.  Without a            *)
(* subscription the date is zero: the next one starts from nothing.        *)

InvoicesKept == \A s \in DOMAIN sessions : Accounted(sessions[s])

AccountPaid ==
    IF account.sub = 0 THEN account.paidThrough = 0
    ELSE account.paidThrough <= sessions[account.sub].sub.paidUntil

Truthful(reply) ==
    reply.tag = "snapshot" /\ reply.sub.paid =>
        reply.sub.end <= sessions[reply.session].sub.paidUntil

Paid ==
    /\ InvoicesKept /\ AccountPaid
    /\ \A r \in Requests : req[r].pc = "commit" => Truthful(req[r].reply)
    /\ \A w \in Workers : wk[w].pc = "commit" => Truthful(wk[w].reply)

\* What was paid for stays paid for.
PaymentsKept ==
    /\ InvoicesKept'
    /\ \A s : Bought(s) =>
          /\ s \in DOMAIN sessions'
          /\ sessions[s].sub.paidUntil \in Nat /\ sessions'[s].sub.paidUntil \in Nat
          /\ sessions[s].sub.paidUntil <= sessions'[s].sub.paidUntil

LEMMA Natural ==
  ASSUME NEW S \in Seq(Session), NEW s \in DOMAIN S
  PROVE  S[s].sub.paidUntil \in Nat
<1>1. S[s] \in Session
  OBVIOUS
<1>2. S[s].sub \in Subscription
  BY <1>1 DEF Session
<1> QED BY <1>2 DEF Subscription

LEMMA MovesKeep ==
  ASSUME sessions \in Seq(Session), InvoicesKept, MovesOn
  PROVE  PaymentsKept
<1>1. InvoicesKept'
  BY DEF MovesOn, InvoicesKept, Forward
<1>2. ASSUME NEW s, Bought(s)
      PROVE  /\ s \in DOMAIN sessions'
             /\ sessions[s].sub.paidUntil \in Nat /\ sessions'[s].sub.paidUntil \in Nat
             /\ sessions[s].sub.paidUntil <= sessions'[s].sub.paidUntil
  <2>1. s \in DOMAIN sessions /\ s \in DOMAIN sessions' /\ sessions' \in Seq(Session)
    BY <1>2 DEF Bought, MovesOn
  <2>2. sessions[s].sub.paidUntil \in Nat /\ sessions'[s].sub.paidUntil \in Nat
    BY <2>1, Natural
  <2> QED BY <1>2, <2>1, <2>2 DEF MovesOn, InvoicesKept, Forward, Bought
<1> QED BY <1>1, <1>2 DEF PaymentsKept

LEMMA CreateKeepsPayments ==
  ASSUME sessions \in Seq(Session), now \in Nat, NEW key \in Nat, NEW s \in Nat,
         InvoicesKept, Create(key, s)
  PROVE  PaymentsKept
<1>1. /\ sessions' \in Seq(Session) /\ DOMAIN sessions \subseteq DOMAIN sessions'
      /\ \A t \in DOMAIN sessions : Forward(sessions[t], sessions'[t])
      /\ \A t \in DOMAIN sessions' \ DOMAIN sessions : sessions'[t] = NewSession(key)
  BY CreateForward
<1>2. Accounted(NewSession(key))
  BY DEF Accounted, NewSession, NoSubscription
<1>3. InvoicesKept'
  BY <1>1, <1>2 DEF InvoicesKept, Forward
<1>4. ASSUME NEW t, Bought(t)
      PROVE  /\ t \in DOMAIN sessions'
             /\ sessions[t].sub.paidUntil \in Nat /\ sessions'[t].sub.paidUntil \in Nat
             /\ sessions[t].sub.paidUntil <= sessions'[t].sub.paidUntil
  <2>1. t \in DOMAIN sessions /\ t \in DOMAIN sessions'
    BY <1>1, <1>4 DEF Bought
  <2>2. sessions[t].sub.paidUntil \in Nat /\ sessions'[t].sub.paidUntil \in Nat
    BY <1>1, <2>1, Natural
  <2> QED BY <1>1, <1>4, <2>1, <2>2 DEF InvoicesKept, Forward, Bought
<1> QED BY <1>3, <1>4 DEF PaymentsKept

\* An account that keeps its subscription and date.
LEMMA AccountKeepsPaid ==
  ASSUME Sound, AccountPaid, PaymentsKept,
         account'.sub = account.sub, account'.paidThrough = account.paidThrough
  PROVE  AccountPaid'
<1>1. CASE account.sub = 0
  BY <1>1 DEF AccountPaid
<1>2. CASE account.sub # 0
  <2>1. Bought(account.sub) /\ account.paidThrough \in Nat
    BY <1>2 DEF Sound, Linked, AccountLinked, TypeOK, Account
  <2>2. /\ sessions[account.sub].sub.paidUntil \in Nat
        /\ sessions'[account.sub].sub.paidUntil \in Nat
        /\ sessions[account.sub].sub.paidUntil <= sessions'[account.sub].sub.paidUntil
    BY <2>1 DEF PaymentsKept
  <2>3. account.paidThrough <= sessions[account.sub].sub.paidUntil
    BY <1>2 DEF AccountPaid
  <2>4. account.paidThrough <= sessions'[account.sub].sub.paidUntil
    BY <2>1, <2>2, <2>3
  <2> QED BY <1>2, <2>4 DEF AccountPaid
<1> QED BY <1>1, <1>2

\* A snapshot that was true stays so.
LEMMA TruthKept ==
  ASSUME PaymentsKept, NEW reply \in Reply, Truthful(reply), Current(reply)
  PROVE  Truthful(reply)'
<1> SUFFICES ASSUME reply.tag = "snapshot", reply.sub.paid
             PROVE  reply.sub.end <= sessions'[reply.session].sub.paidUntil
  BY DEF Truthful
<1>1. Bought(reply.session) /\ reply.sub \in Subscription
  BY DEF Current, Reply
<1>2. /\ sessions[reply.session].sub.paidUntil \in Nat
      /\ sessions'[reply.session].sub.paidUntil \in Nat
      /\ sessions[reply.session].sub.paidUntil <= sessions'[reply.session].sub.paidUntil
  BY <1>1 DEF PaymentsKept
<1>3. reply.sub.end <= sessions[reply.session].sub.paidUntil /\ reply.sub.end \in Nat
  BY <1>1 DEF Truthful, Subscription
<1> QED BY <1>2, <1>3

\* A step: what it does to the payments, the account and the handlers.
LEMMA PaidStep ==
  ASSUME Sound, Paid, PaymentsKept, AccountPaid',
         \A r \in Requests :
            req'[r] = req[r] \/ req'[r].pc # "commit" \/ Truthful(req[r].reply)',
         \A w \in Workers :
            wk'[w] = wk[w] \/ wk'[w].pc # "commit" \/ Truthful(wk[w].reply)'
  PROVE  Paid'
<1>1. ASSUME NEW r \in Requests, req'[r].pc = "commit" PROVE Truthful(req[r].reply)'
  <2>1. CASE req'[r] = req[r]
    <3>1. /\ req[r].reply \in Reply /\ Truthful(req[r].reply) /\ Current(req[r].reply)
          /\ req'[r].reply = req[r].reply
      BY <1>1, <2>1, RequestParts DEF Sound, InProgress, InRequest, Paid
    <3> QED BY <3>1, TruthKept DEF Truthful
  <2> QED BY <1>1, <2>1
<1>2. ASSUME NEW w \in Workers, wk'[w].pc = "commit" PROVE Truthful(wk[w].reply)'
  <2>1. CASE wk'[w] = wk[w]
    <3>1. /\ wk[w].reply \in Reply /\ Truthful(wk[w].reply) /\ Current(wk[w].reply)
          /\ wk'[w].reply = wk[w].reply
      BY <1>2, <2>1, WorkerParts DEF Sound, InProgress, InWorker, Paid
    <3> QED BY <3>1, TruthKept DEF Truthful
  <2> QED BY <1>2, <2>1
<1>3. InvoicesKept'
  BY DEF PaymentsKept
<1> QED BY <1>1, <1>2, <1>3 DEF Paid

LEMMA NothingMoves ==
  ASSUME Sound, Paid, UNCHANGED sessions
  PROVE  PaymentsKept
BY NoneMoves, MovesKeep DEF Sound, TypeOK, ProviderTypeOK, Paid

\* What is read of the provider is true.
LEMMA ReadIsTrue ==
  ASSUME Sound, Paid, UNCHANGED sessions, NEW s, Bought(s), NEW reply \in ReadSubscription(s)
  PROVE  Truthful(reply)'
<1>1. Accounted(sessions[s]) /\ sessions[s].sub.paidUntil \in Nat
  BY Natural DEF Bought, Paid, InvoicesKept, Sound, TypeOK, ProviderTypeOK
<1>2. reply = Answer("snapshot", s, sessions[s].sub) \/ reply.tag # "snapshot"
  BY DEF ReadSubscription, Unavailable, Answer
<1> QED BY <1>1, <1>2 DEF Truthful, Answer, Accounted

LEMMA CheckoutIsTrue ==
  ASSUME Sound, Paid, UNCHANGED sessions, NEW s \in DOMAIN sessions,
         NEW reply \in ReadCheckout(s)
  PROVE  Truthful(reply)'
<1>1. sessions[s].status \in {"open", "complete", "expired"}
  BY SessionParts DEF Sound, TypeOK, ProviderTypeOK, Session
<1>2. CASE sessions[s].status = "complete"
  BY <1>2, ReadIsTrue DEF ReadCheckout, Bought
<1>3. CASE sessions[s].status # "complete"
  <2>1. reply.tag # "snapshot"
    BY <1>1, <1>3 DEF ReadCheckout, Answer, Unavailable
  <2> QED BY <2>1 DEF Truthful
<1> QED BY <1>2, <1>3

\* Applying a true snapshot keeps the account paid.
LEMMA AppliedPaid ==
  ASSUME Sound, Paid, UNCHANGED sessions, NEW reply \in Reply,
         reply.tag = "snapshot", Truthful(reply), Current(reply),
         account'.sub = Applied(reply).sub, account'.paidThrough = Applied(reply).paidThrough
  PROVE  AccountPaid'
<1>1. CASE ~Belongs(reply.session)
  BY <1>1, NothingMoves, AccountKeepsPaid DEF Applied, Paid
<1>2. CASE Belongs(reply.session)
  <2>1. account'.sub = reply.session /\ account'.paidThrough = PaidThrough(reply.sub)
    BY <1>2 DEF Applied
  <2>2. /\ Bought(reply.session) /\ reply.sub.end \in Nat /\ account.paidThrough \in Nat
        /\ reply.session \in Nat
    BY DEF Current, Reply, Subscription, Sound, TypeOK, Account
  <2>3. sessions[reply.session].sub.paidUntil \in Nat
    BY <2>2, Natural DEF Bought, Sound, TypeOK, ProviderTypeOK
  <2>4. reply.session # 0
    BY <2>2 DEF Bought, Sound, TypeOK, ProviderTypeOK
  <2>5. account.paidThrough <= sessions[reply.session].sub.paidUntil
    BY <1>2, <2>3 DEF Belongs, Paid, AccountPaid
  <2>6. PaidThrough(reply.sub) <= sessions[reply.session].sub.paidUntil
    BY <2>2, <2>3, <2>5 DEF PaidThrough, Truthful
  <2> QED BY <2>1, <2>4, <2>6 DEF AccountPaid
<1> QED BY <1>1, <1>2

\* The steps of a request that only begin, wait or end it.
LEMMA BeginPaid ==
  ASSUME Sound, Paid, NEW r \in Requests,
         \/ \E key \in CheckoutKeys : StartCheckout(r, key)
         \/ \E key \in CancelKeys, atEnd \in BOOLEAN : StartCancel(r, key, atEnd)
         \/ Withdraw(r) \/ AbortRequest(r)
  PROVE  Paid'
<1>1. UNCHANGED <<sessions, account, wk>>
  BY DEF StartCheckout, StartCancel, Withdraw, AbortRequest, billing
<1>2. PICK hd : req' = [req EXCEPT ![r] = hd] /\ hd.pc # "commit"
  <2>1. ASSUME NEW kind, NEW i, Ready(r, kind, i)
        PROVE  \E hd : req' = [req EXCEPT ![r] = hd] /\ hd.pc # "commit"
    <3> DEFINE hd == [Idle EXCEPT !.pc = "ready", !.kind = kind, !.op = i, !.since = now]
    <3>1. req' = [req EXCEPT ![r] = hd]
      BY <2>1 DEF Ready
    <3>2. hd.pc # "commit"
      BY DEF Idle
    <3> HIDE DEF hd
    <3> QED BY <3>1, <3>2
  <2>2. Idle.pc # "commit"
    BY DEF Idle
  <2> QED BY <2>1, <2>2 DEF StartCheckout, StartCancel, Withdraw, AbortRequest
<1>3. \A q \in Requests : req'[q] = req[q] \/ req'[q].pc # "commit"
  BY <1>2 DEF Sound, TypeOK
<1>4. PaymentsKept /\ AccountPaid'
  BY <1>1, NothingMoves, AccountKeepsPaid DEF Paid
<1> QED BY <1>1, <1>3, <1>4, PaidStep

\* A call to the provider, and what its answer leaves in the request.
LEMMA AnsweredPaid ==
  ASSUME Sound, Paid, PaymentsKept, UNCHANGED <<account, wk>>, NEW r \in Requests,
         NEW pc, NEW reply, Answered(r, pc, reply), pc = "commit" => Truthful(reply)'
  PROVE  Paid'
<1>1. req[r] \in Handler
  BY DEF Sound, TypeOK
<1>2. /\ req'[r].pc = pc /\ req'[r].reply = reply
      /\ \A q \in Requests \ {r} : req'[q] = req[q]
  BY <1>1 DEF Answered, Sound, TypeOK, Handler
<1>3. req'[r].pc # "commit" \/ Truthful(req[r].reply)'
  BY <1>2 DEF Truthful
<1>4. AccountPaid'
  BY AccountKeepsPaid DEF Paid
<1> QED BY <1>2, <1>3, <1>4, PaidStep

LEMMA CallPaid ==
  ASSUME Sound, Paid, NEW r \in Requests, CallCheckout(r) \/ CallCancel(r) \/ ReadCancel(r)
  PROVE  Paid'
<1>1. sessions \in Seq(Session) /\ now \in Nat /\ req[r].op \in Nat /\ UNCHANGED <<account, wk>>
  BY RequestParts, ProviderAssumption
     DEF Sound, TypeOK, ProviderTypeOK, CallCheckout, CallCancel, ReadCancel, billing
<1>2. \A s : Truthful(Answer("session", s, NoSubscription))'
  BY DEF Truthful, Answer
<1>3. Truthful(Unavailable)'
  BY DEF Truthful, Answer, Unavailable
<1>4. CASE CallCheckout(r)
  <2>1. CASE UNCHANGED sessions /\ Answered(r, "commit", Unavailable)
    BY <1>1, <1>3, <2>1, NothingMoves, AnsweredPaid
  <2>2. CASE \E s \in 1 .. Len(sessions) + 1 :
               /\ Create(req[r].op, s)
               /\ \/ Answered(r, "commit", Answer("session", s, NoSubscription))
                  \/ Answered(r, "commit", Unavailable)
    <3>1. PICK s \in 1 .. Len(sessions) + 1 :
               /\ Create(req[r].op, s)
               /\ \/ Answered(r, "commit", Answer("session", s, NoSubscription))
                  \/ Answered(r, "commit", Unavailable)
      BY <2>2
    <3>2. s \in Nat
      BY <1>1
    <3>3. PaymentsKept
      BY <1>1, <3>1, <3>2, CreateKeepsPayments DEF Paid
    <3>4. CASE Answered(r, "commit", Answer("session", s, NoSubscription))
      BY <1>1, <1>2, <3>3, <3>4, AnsweredPaid
    <3>5. CASE Answered(r, "commit", Unavailable)
      BY <1>1, <1>3, <3>3, <3>5, AnsweredPaid
    <3> QED BY <3>1, <3>4, <3>5
  <2> QED BY <1>4, <2>1, <2>2 DEF CallCheckout
<1>5. CASE CallCancel(r)
  <2>1. PaymentsKept
    <3>1. req[r].op \in DOMAIN ops /\ ops[req[r].op].kind = "cancel"
      BY <1>5 DEF CallCancel, Begin, Sound, InProgress, InRequest, OnOperation
    <3>2. ops[req[r].op] \in Operation
      BY <3>1 DEF Sound, TypeOK
    <3>3. ops[req[r].op].target \in DOMAIN sessions /\ ops[req[r].op].atEnd \in BOOLEAN
      BY <3>1, <3>2 DEF Sound, Linked, OperationsLinked, Bought, Operation
    <3>4. MovesOn
      BY <1>1, <1>5, <3>3, CancelMoves, NoneMoves DEF CallCancel
    <3> QED BY <1>1, <3>4, MovesKeep DEF Paid
  <2>2. Answered(r, "read", NoReply) \/ Answered(r, "commit", Unavailable)
    BY <1>5 DEF CallCancel
  <2> QED BY <1>1, <1>3, <2>1, <2>2, AnsweredPaid
<1>6. CASE ReadCancel(r)
  <2>1. /\ UNCHANGED sessions
        /\ \E reply \in ReadSubscription(ops[req[r].op].target) : Answered(r, "commit", reply)
    BY <1>6 DEF ReadCancel
  <2>2. Bought(ops[req[r].op].target)
    <3>1. req[r].pc = "read" /\ lock = r /\ ~deleted
      BY <1>6, BillingAssumption DEF ReadCancel, Sound, Locking
    <3>2. req[r].op \in DOMAIN ops /\ ops[req[r].op].kind = "cancel"
      BY <3>1 DEF Sound, InProgress, InRequest, OnOperation
    <3> QED BY <3>2 DEF Sound, Linked, OperationsLinked
  <2> QED BY <1>1, <2>1, <2>2, NothingMoves, ReadIsTrue, AnsweredPaid
<1> QED BY <1>4, <1>5, <1>6

LEMMA ReconcilePaid ==
  ASSUME Sound, Paid, NEW r \in Requests, ReadReconcile(r)
  PROVE  Paid'
<1>1. UNCHANGED <<sessions, account, wk>>
  BY DEF ReadReconcile, billing
<1>2. PICK reply \in IF account.sub # 0 THEN ReadSubscription(account.sub)
                     ELSE ReadCheckout(ops[LastCompleted].target) :
        req' = [req EXCEPT ![r] =
            [pc |-> "commit", kind |-> "reconcile", op |-> LastCompleted,
             since |-> now, reply |-> reply]]
  BY DEF ReadReconcile
<1>3. Truthful(reply)'
  <2>1. CASE account.sub # 0
    BY <1>1, <1>2, <2>1, ReadIsTrue DEF Sound, Linked, AccountLinked
  <2>2. CASE account.sub = 0
    <3>1. ops[LastCompleted].target \in DOMAIN sessions
      <4>1. LastCompleted # 0
        BY <2>2 DEF ReadReconcile
      <4> QED BY <4>1, LastCompletedIs DEF Sound, TypeOK, Linked, OperationsLinked
    <3> QED BY <1>1, <1>2, <2>2, <3>1, CheckoutIsTrue
  <2> QED BY <2>1, <2>2
<1>4. req'[r].reply = reply /\ \A q \in Requests \ {r} : req'[q] = req[q]
  BY <1>2 DEF Sound, TypeOK
<1>5. Truthful(req[r].reply)'
  BY <1>3, <1>4 DEF Truthful
<1>6. PaymentsKept /\ AccountPaid'
  BY <1>1, NothingMoves, AccountKeepsPaid DEF Paid
<1> QED BY <1>1, <1>4, <1>5, <1>6, PaidStep

LEMMA FinishPaid ==
  ASSUME Sound, Paid, NEW r \in Requests,
         FinishCheckout(r) \/ FinishCancel(r) \/ FinishReconcile(r)
  PROVE  Paid'
<1> DEFINE reply == req[r].reply
<1>1. req[r].pc = "commit" /\ req' = [req EXCEPT ![r] = Idle] /\ UNCHANGED <<sessions, wk>>
  BY DEF FinishCheckout, FinishCancel, FinishReconcile, Committing, Done
<1>2. reply \in Reply /\ Truthful(reply) /\ Current(reply)
  BY <1>1, RequestParts DEF Sound, InProgress, InRequest, Paid
<1>3. \A q \in Requests : req'[q] = req[q] \/ req'[q].pc # "commit"
  BY <1>1 DEF Sound, TypeOK, Idle
<1>4. \/ account'.sub = 0 /\ account'.paidThrough = 0
      \/ account'.sub = account.sub /\ account'.paidThrough = account.paidThrough
      \/ /\ reply.tag = "snapshot"
         /\ account'.sub = Applied(reply).sub
         /\ account'.paidThrough = Applied(reply).paidThrough
  <2>1. account \in Account
    BY DEF Sound, TypeOK
  <2>2. CASE FinishCheckout(r)
    BY <2>1, <2>2 DEF FinishCheckout, Account
  <2>3. CASE FinishCancel(r)
    <3>1. CASE reply.tag = "snapshot" /\ Confirms(reply.sub, ops[req[r].op].atEnd)
      BY <2>3, <3>1 DEF FinishCancel
    <3>2. CASE reply.tag = "snapshot" /\ ~Confirms(reply.sub, ops[req[r].op].atEnd)
      <4>1. account' = [Applied(reply) EXCEPT !.sync = "retrying"]
        BY <2>3, <3>2 DEF FinishCancel
      <4>2. CASE Belongs(reply.session)
        BY <3>2, <4>1, <4>2 DEF Applied
      <4>3. CASE ~Belongs(reply.session)
        BY <2>1, <3>2, <4>1, <4>3 DEF Applied, Account
      <4> QED BY <4>2, <4>3
    <3>3. CASE reply.tag # "snapshot"
      BY <2>1, <2>3, <3>3 DEF FinishCancel, Account
    <3> QED BY <3>1, <3>2, <3>3
  <2>4. CASE FinishReconcile(r)
    BY <2>1, <2>4 DEF FinishReconcile, Account
  <2> QED BY <2>2, <2>3, <2>4
<1> HIDE DEF reply
<1>5. PaymentsKept /\ AccountPaid'
  <2>1. PaymentsKept
    BY <1>1, NothingMoves
  <2>2. CASE account'.sub = 0 /\ account'.paidThrough = 0
    BY <2>1, <2>2 DEF AccountPaid
  <2>3. CASE account'.sub = account.sub /\ account'.paidThrough = account.paidThrough
    BY <2>1, <2>3, AccountKeepsPaid DEF Paid
  <2>4. CASE /\ reply.tag = "snapshot"
             /\ account'.sub = Applied(reply).sub
             /\ account'.paidThrough = Applied(reply).paidThrough
    BY <1>1, <1>2, <2>1, <2>4, AppliedPaid
  <2> QED BY <1>4, <2>2, <2>3, <2>4, <2>1
<1> QED BY <1>1, <1>3, <1>5, PaidStep

LEMMA RequestPaid ==
  ASSUME Sound, Paid, NEW r \in Requests, Request(r)
  PROVE  Paid'
BY BeginPaid, CallPaid, ReconcilePaid, FinishPaid DEF Request

LEMMA WorkPaid ==
  ASSUME Sound, Paid, NEW w \in Workers, Work(w)
  PROVE  Paid'
<1>1. CASE (\E e \in EventIds : Claim(w, e)) \/ GiveUp(w) \/ AbortWorker(w)
  <2>1. UNCHANGED <<sessions, account, req>>
    BY <1>1 DEF Claim, GiveUp, AbortWorker, billing
  <2>2. PICK v : /\ wk' = wk \/ wk' = [wk EXCEPT ![w] = v]
                 /\ v.pc # "commit"
    <3>1. Resting.pc # "commit"
      BY DEF Resting
    <3>2. ASSUME NEW e \in EventIds, Claim(w, e)
          PROVE  \E v : (wk' = wk \/ wk' = [wk EXCEPT ![w] = v]) /\ v.pc # "commit"
      <4> DEFINE v == [Resting EXCEPT !.pc = "claimed", !.event = e,
                                      !.lease = inbox[e].attempts + 1]
      <4>1. wk' = wk \/ wk' = [wk EXCEPT ![w] = v]
        BY <3>2 DEF Claim
      <4>2. v.pc # "commit"
        BY DEF Resting
      <4> HIDE DEF v
      <4> QED BY <4>1, <4>2
    <3> QED BY <1>1, <3>1, <3>2 DEF GiveUp, AbortWorker
  <2>3. \A u \in Workers : wk'[u] = wk[u] \/ wk'[u].pc # "commit"
    BY <2>2 DEF Sound, TypeOK
  <2>4. PaymentsKept /\ AccountPaid'
    BY <2>1, NothingMoves, AccountKeepsPaid DEF Paid
  <2> QED BY <2>1, <2>3, <2>4, PaidStep
<1>2. CASE ReadEvent(w)
  <2> DEFINE ev == inbox[wk[w].event]
  <2>1. UNCHANGED <<sessions, account, req>>
    BY <1>2 DEF ReadEvent, billing
  <2>2. PICK reply \in {Invalid} \cup IF ev.kind = "checkout" THEN ReadCheckout(ev.target)
                                      ELSE ReadSubscription(ev.target) :
          wk' = [wk EXCEPT ![w].pc = "commit", ![w].reply = reply]
    BY <1>2 DEF ReadEvent
  <2>3. /\ ev.target \in DOMAIN sessions
        /\ ev.kind # "checkout" => Bought(ev.target)
    <3>1. wk[w].event \in EventIds /\ ev.lease # 0 /\ ev.kind \in {"checkout", "subscription"}
      <4>1. wk[w].event \in EventIds /\ wk[w].lease # 0
        BY <1>2 DEF ReadEvent, Sound, InProgress, InWorker
      <4>2. ev \in Event
        BY <4>1, EventParts DEF Sound
      <4> QED BY <1>2, <4>1, <4>2 DEF ReadEvent, HoldsLease, Event
    <3>2. ev.status # "absent"
      BY <3>1 DEF Sound, Leases
    <3> QED BY <3>1, <3>2 DEF Sound, Linked, InboxLinked
  <2>4. Truthful(reply)'
    <3>1. Truthful(Invalid)'
      BY DEF Truthful, Invalid, Answer
    <3> HIDE DEF ev
    <3> QED BY <2>1, <2>2, <2>3, <3>1, CheckoutIsTrue, ReadIsTrue
  <2>5. wk'[w].reply = reply /\ \A u \in Workers \ {w} : wk'[u] = wk[u]
    <3>1. wk[w] \in Worker
      BY WorkerParts DEF Sound
    <3> HIDE DEF ev
    <3> QED BY <2>2, <3>1 DEF Sound, TypeOK, Worker
  <2>6. Truthful(wk[w].reply)'
    BY <2>4, <2>5 DEF Truthful
  <2>7. PaymentsKept /\ AccountPaid'
    BY <2>1, NothingMoves, AccountKeepsPaid DEF Paid
  <2> QED BY <2>1, <2>5, <2>6, <2>7, PaidStep
<1>3. CASE FinishEvent(w)
  <2> DEFINE reply == wk[w].reply
  <2>1. /\ wk[w].pc = "commit" /\ account' = AfterEvent(reply)
        /\ wk' = [wk EXCEPT ![w] = Resting] /\ UNCHANGED <<sessions, req>>
    BY <1>3 DEF FinishEvent
  <2>2. /\ reply \in Reply /\ Truthful(reply) /\ Current(reply)
        /\ reply.tag \in {"expired", "snapshot", "unavailable", "invalid"}
    BY <2>1, WorkerParts DEF Sound, InProgress, InWorker, Paid
  <2>3. \A u \in Workers : wk'[u] = wk[u] \/ wk'[u].pc # "commit"
    BY <2>1 DEF Sound, TypeOK, Resting
  <2>4. PaymentsKept
    BY <2>1, NothingMoves
  <2> HIDE DEF reply
  <2>5. CASE reply.tag = "snapshot"
    <3>1. account' = Applied(reply)
      BY <2>1, <2>5 DEF AfterEvent
    <3>2. AccountPaid'
      BY <2>1, <2>2, <2>5, <3>1, AppliedPaid
    <3> QED BY <2>1, <2>3, <2>4, <3>2, PaidStep
  <2>6. CASE reply.tag # "snapshot"
    <3>1. account'.sub = account.sub /\ account'.paidThrough = account.paidThrough
      BY <2>1, <2>2, <2>6 DEF AfterEvent, Sound, TypeOK, Account
    <3>2. AccountPaid'
      BY <2>4, <3>1, AccountKeepsPaid DEF Paid
    <3> QED BY <2>1, <2>3, <2>4, <3>2, PaidStep
  <2> QED BY <2>5, <2>6
<1> QED BY <1>1, <1>2, <1>3 DEF Work

LEMMA StepPaid == Sound /\ Paid /\ [Next]_vars => Paid'
<1> SUFFICES ASSUME Sound, Paid, [Next]_vars PROVE Paid'
  OBVIOUS
<1>1. ASSUME PaymentsKept, AccountPaid', UNCHANGED <<req, wk>> PROVE Paid'
  BY <1>1, PaidStep
<1>2. CASE UNCHANGED vars \/ Webhook \/ Tick
  <2>1. UNCHANGED <<sessions, account, req, wk>>
    BY <1>2 DEF vars, billing, Webhook, Deliver, Tick
  <2> QED BY <1>1, <2>1, NothingMoves, AccountKeepsPaid DEF Paid
<1>3. CASE DeleteProject
  <2>1. UNCHANGED <<sessions, req, wk>> /\ AccountPaid'
    BY <1>3 DEF DeleteProject, NewAccount, AccountPaid
  <2> QED BY <1>1, <2>1, NothingMoves
<1>4. CASE ProviderMoves
  <2>1. UNCHANGED <<account, req, wk>>
    BY <1>4 DEF ProviderMoves, billing
  <2>2. PaymentsKept
    BY <1>4, ProviderMovesOn, MovesKeep, ProviderAssumption DEF Sound, TypeOK, ProviderTypeOK, Paid
  <2> QED BY <1>1, <2>1, <2>2, AccountKeepsPaid DEF Paid
<1> QED BY <1>2, <1>3, <1>4, RequestPaid, WorkPaid DEF Next

LEMMA InitPaid == Init => Paid
BY DEF Init, ProviderInit, Paid, InvoicesKept, AccountPaid, NewAccount, Idle, Resting

\* Access is granted only for a period the provider was paid for: a snapshot
\* moves the paid-through date only when its invoice is paid, and a new purchase
\* starts without one (_apply_snapshot, checkout).
THEOREM AccessPaid == Spec => []AccessWasPaid
<1>1. Sound /\ Paid => AccessWasPaid
  <2> SUFFICES ASSUME Sound, Paid, Access = "paid"
               PROVE  sessions[account.sub].sub.paidUntil >= account.paidThrough
    BY DEF AccessWasPaid
  <2>1. account.paidThrough > now /\ now \in Nat /\ account.paidThrough \in Nat
    BY ProviderAssumption DEF Access, Sound, TypeOK, ProviderTypeOK, Account
  <2>2. account.sub # 0
    BY <2>1 DEF Paid, AccountPaid
  <2>3. Bought(account.sub)
    BY <2>2 DEF Sound, Linked, AccountLinked
  <2>4. sessions[account.sub].sub.paidUntil \in Nat
    BY <2>3, Natural DEF Bought, Sound, TypeOK, ProviderTypeOK
  <2> QED BY <2>1, <2>2, <2>4 DEF Paid, AccountPaid
<1>2. Spec => [](Sound /\ Paid)
  <2>1. Init => Sound /\ Paid
    BY InitSound, InitPaid
  <2>2. Sound /\ Paid /\ [Next]_vars => Sound' /\ Paid'
    BY StepSound, StepPaid
  <2> QED BY <2>1, <2>2, PTL DEF Spec
<1> QED BY <1>1, <1>2, PTL

-----------------------------------------------------------------------------
(* One purchase at a time.  The checkouts follow each other: only the last *)
(* may be incomplete, so only it is ever called at the provider; the       *)
(* provider still knows its key then, so it never gets a second session;   *)
(* and when the next one is reserved its session no longer charges.        *)

(* There is a last checkout as soon as there is any; all before it are     *)
(* completed, and none lies in the future.                                 *)
InTurn ==
    /\ Checkouts # {} => \E i \in Checkouts : \A j \in Checkouts : j <= i
    /\ \A i, j \in Checkouts : i < j => ops[i].status = "completed"
    /\ \A i \in Checkouts : ops[i].at <= now

(* A session was created for one checkout, after its reservation, and a    *)
(* checkout has at most one, which is the one it completed with.           *)
OneEach ==
    /\ \A s \in DOMAIN sessions :
          sessions[s].key \in Checkouts /\ ops[sessions[s].key].at <= sessions[s].born
    /\ \A s, t \in DOMAIN sessions : sessions[s].key = sessions[t].key => s = t
    /\ \A i \in Checkouts : ops[i].status = "completed" =>
          ops[i].target \in DOMAIN sessions /\ sessions[ops[i].target].key = i

(* Only the last checkout's session may charge ...                         *)
LastCharges == \A s \in Charging, i \in Checkouts : i <= sessions[s].key

(* ... and the session of a confirmed checkout has expired.                *)
Expired(i) == ops[i].status = "completed" /\ sessions[ops[i].target].status = "expired"
Confirmed == \A i \in Checkouts : ops[i].confirmed => Expired(i)

Shop == InTurn /\ OneEach /\ LastCharges /\ Confirmed

(* A checkout request is of this tick or the one before, and its operation *)
(* was within the retry horizon then; what it is answered is its own       *)
(* operation's session.  A reconciliation that confirms saw the expiry.    *)
Timely(r) ==
    /\ req[r].since <= now /\ now <= req[r].since + 1
    /\ req[r].since <= ops[req[r].op].at + Horizon
OwnSession(r) ==
    req[r].reply.tag = "session" => sessions[req[r].reply.session].key = req[r].op
SawExpiry(r) ==
    req[r].reply.tag = "expired" => req[r].op \in Checkouts /\ Expired(req[r].op)

Prompt(r) ==
    /\ req[r].kind = "checkout" /\ req[r].pc # "idle" => Timely(r)
    /\ req[r].kind = "checkout" /\ req[r].pc = "commit" => OwnSession(r)
    /\ req[r].kind = "reconcile" /\ req[r].pc = "commit" => SawExpiry(r)

InOrder == Shop /\ \A r \in Requests : Prompt(r)

Purchases == IF deleted THEN Charging = {} ELSE InOrder

-----------------------------------------------------------------------------
(* What disturbs the order of the checkouts, and what does not.            *)

LEMMA ChargingKept == MovesOn => Charging' \subseteq Charging
BY DEF Charging, Live, Charges, MovesOn, Forward

LEMMA CheckoutParts ==
  ASSUME TypeOK, NEW i \in Checkouts
  PROVE  /\ i \in Nat /\ i \in DOMAIN ops /\ ops[i].kind = "checkout"
         /\ ops[i] \in Operation /\ ops[i].at \in Nat /\ ops[i].target \in Nat
<1>1. i \in DOMAIN ops /\ ops[i].kind = "checkout" /\ ops \in Seq(Operation)
  BY DEF Checkouts, TypeOK
<1>2. ops[i] \in Operation /\ i \in Nat
  BY <1>1
<1> QED BY <1>1, <1>2 DEF Operation

LEMMA TimeIsNatural == TypeOK => now \in Nat /\ Horizon \in Nat /\ KeyLife \in Nat
BY ProviderAssumption, BillingAssumption DEF TypeOK, ProviderTypeOK

\* The provider moves on, time passes, and the checkouts stay as they are.
LEMMA ShopStays ==
  ASSUME Sound, Shop, MovesOn, now' \in Nat, now <= now',
         Checkouts' = Checkouts, \A i \in Checkouts : ops'[i] = ops[i]
  PROVE  Shop'
<1>1. TypeOK
  BY DEF Sound
<1>2. InTurn'
  <2>1. /\ Checkouts' # {} => \E i \in Checkouts' : \A j \in Checkouts' : j <= i
        /\ \A i, j \in Checkouts' : i < j => ops'[i].status = "completed"
    BY DEF Shop, InTurn
  <2>2. ASSUME NEW i \in Checkouts PROVE ops'[i].at <= now'
    <3>1. ops[i].at <= now /\ ops[i].at \in Nat /\ now \in Nat
      BY <1>1, CheckoutParts, TimeIsNatural DEF Shop, InTurn
    <3> QED BY <3>1
  <2> QED BY <2>1, <2>2 DEF InTurn
<1>3. OneEach'
  BY DEF Shop, OneEach, MovesOn, Forward
<1>4. LastCharges'
  <2>1. \A s \in Charging' : s \in Charging /\ sessions'[s].key = sessions[s].key
    BY ChargingKept DEF MovesOn, Forward, Charging
  <2> QED BY <2>1 DEF Shop, LastCharges
<1>5. Confirmed'
  BY DEF Shop, OneEach, Confirmed, Expired, MovesOn, Forward
<1> QED BY <1>2, <1>3, <1>4, <1>5 DEF Shop

\* What a step of another leaves of the facts a request relies on.
Undisturbed ==
    /\ now' = now
    /\ DOMAIN sessions \subseteq DOMAIN sessions'
    /\ \A s \in DOMAIN sessions : Forward(sessions[s], sessions'[s])
    /\ \A i \in Checkouts :
          /\ i \in Checkouts' /\ ops'[i].at = ops[i].at
          /\ ops[i].status = "completed" =>
                ops'[i].status = "completed" /\ ops'[i].target = ops[i].target

LEMMA SameUndisturbed ==
  ASSUME Sound, UNCHANGED now, MovesOn,
         Checkouts' = Checkouts, \A i \in Checkouts : ops'[i] = ops[i]
  PROVE  Undisturbed
BY DEF Undisturbed, MovesOn

LEMMA PromptStays ==
  ASSUME Sound, ~deleted, OneEach, Undisturbed, NEW r \in Requests, Prompt(r), req'[r] = req[r]
  PROVE  Prompt(r)'
<1>1. ASSUME req[r].kind = "checkout", req[r].pc # "idle" PROVE Timely(r)'
  <2>1. req[r].op \in Checkouts
    BY <1>1 DEF Sound, InProgress, InRequest, OnOperation, Checkouts
  <2> QED BY <1>1, <2>1 DEF Prompt, Timely, Undisturbed
<1>2. ASSUME req[r].kind = "checkout", req[r].pc = "commit" PROVE OwnSession(r)'
  <2>1. req[r].reply.tag = "session" => req[r].reply.session \in DOMAIN sessions
    BY <1>2 DEF Sound, InProgress, InRequest, Current
  <2> QED BY <1>2, <2>1 DEF Prompt, OwnSession, Undisturbed, Forward
<1>3. ASSUME req[r].kind = "reconcile", req[r].pc = "commit" PROVE SawExpiry(r)'
  <2>1. req[r].reply.tag = "expired" => req[r].op \in Checkouts /\ Expired(req[r].op)
    BY <1>3 DEF Prompt, SawExpiry
  <2>2. \A i \in Checkouts : Expired(i) => Expired(i)'
    BY DEF Expired, OneEach, Undisturbed, Forward
  <2> QED BY <2>1, <2>2 DEF SawExpiry, Expired, Undisturbed
<1> QED BY <1>1, <1>2, <1>3 DEF Prompt

LEMMA OrderStep ==
  ASSUME Sound, ~deleted, InOrder, Undisturbed, Shop',
         \A r \in Requests : req'[r] = req[r] \/ req'[r].pc = "idle" \/ Prompt(r)'
  PROVE  InOrder'
<1>1. ASSUME NEW r \in Requests PROVE Prompt(r)'
  <2>1. CASE req'[r] = req[r]
    BY <2>1, PromptStays DEF InOrder, Shop
  <2>2. CASE req'[r].pc = "idle"
    BY <2>2 DEF Prompt
  <2> QED BY <2>1, <2>2
<1> QED BY <1>1 DEF InOrder

\* Most steps leave the checkouts alone.
LEMMA OrderKept ==
  ASSUME Sound, ~deleted, InOrder, UNCHANGED now, MovesOn,
         Checkouts' = Checkouts, \A i \in Checkouts : ops'[i] = ops[i],
         \A r \in Requests : req'[r] = req[r] \/ req'[r].pc = "idle" \/ Prompt(r)'
  PROVE  InOrder'
<1>1. now' \in Nat /\ now <= now'
  BY TimeIsNatural DEF Sound
<1>2. Shop'
  BY <1>1, ShopStays DEF InOrder
<1> QED BY <1>2, SameUndisturbed, OrderStep

LEMMA SameCheckouts ==
  UNCHANGED ops => Checkouts' = Checkouts /\ \A i \in Checkouts : ops'[i] = ops[i]
BY DEF Checkouts

\* Starting a request, of either kind, and beginning its second transaction.
LEMMA ReadyIs ==
  ASSUME Sound, NEW r \in Requests, NEW kind, NEW i, Ready(r, kind, i)
  PROVE  /\ req'[r].pc = "ready" /\ req'[r].kind = kind /\ req'[r].op = i
         /\ req'[r].since = now
         /\ \A q \in Requests \ {r} : req'[q] = req[q]
<1> DEFINE hd == [Idle EXCEPT !.pc = "ready", !.kind = kind, !.op = i, !.since = now]
<1>1. req' = [req EXCEPT ![r] = hd]
  BY DEF Ready
<1>2. hd.pc = "ready" /\ hd.kind = kind /\ hd.op = i /\ hd.since = now
  BY DEF Idle
<1> HIDE DEF hd
<1> QED BY <1>1, <1>2 DEF Sound, TypeOK

LEMMA AnsweredIs ==
  ASSUME Sound, NEW r \in Requests, NEW pc, NEW reply, Answered(r, pc, reply)
  PROVE  /\ req'[r].pc = pc /\ req'[r].reply = reply /\ req'[r].kind = req[r].kind
         /\ req'[r].op = req[r].op /\ req'[r].since = req[r].since
         /\ \A q \in Requests \ {r} : req'[q] = req[q]
<1>1. req[r] \in Handler
  BY DEF Sound, TypeOK
<1> QED BY <1>1 DEF Answered, Sound, TypeOK, Handler

\* A reservation appended to the operations.
LEMMA Appended ==
  ASSUME Sound, NEW kind, NEW key, NEW target, NEW atEnd,
         ops' = Append(ops, Reserve(kind, key, target, atEnd))
  PROVE  LET n == Len(ops) + 1 IN
         /\ n \in Nat /\ DOMAIN ops' = DOMAIN ops \cup {n} /\ n \notin DOMAIN ops
         /\ \A i \in DOMAIN ops : i < n /\ ops'[i] = ops[i]
         /\ ops'[n] = Reserve(kind, key, target, atEnd)
         /\ Checkouts' = IF kind = "checkout" THEN Checkouts \cup {n} ELSE Checkouts
<1> DEFINE n == Len(ops) + 1
<1>1. /\ n \in Nat /\ DOMAIN ops' = DOMAIN ops \cup {n} /\ n \notin DOMAIN ops
      /\ \A i \in DOMAIN ops : i < n /\ ops'[i] = ops[i]
      /\ ops'[n] = Reserve(kind, key, target, atEnd)
  BY DEF Sound, TypeOK
<1>2. Reserve(kind, key, target, atEnd).kind = kind
  BY DEF Reserve
<1> HIDE DEF n
<1>3. Checkouts' = IF kind = "checkout" THEN Checkouts \cup {n} ELSE Checkouts
  BY <1>1, <1>2 DEF Checkouts
<1> QED BY <1>1, <1>3 DEF n

\* The last checkout is the greatest, as soon as there is one.
LEMMA LastIs ==
  ASSUME TypeOK, InTurn, Checkouts # {}
  PROVE  /\ LastCheckout \in Checkouts /\ LastCheckout # 0
         /\ \A j \in Checkouts : j <= LastCheckout
<1>1. LastCheckout = CHOOSE i \in Checkouts : \A j \in Checkouts : j <= i
  BY DEF LastCheckout, Latest
<1>2. /\ LastCheckout \in Checkouts
      /\ \A j \in Checkouts : j <= LastCheckout
  BY <1>1 DEF InTurn
<1>3. 0 \notin Checkouts
  BY DEF Checkouts, TypeOK
<1> QED BY <1>2, <1>3

-----------------------------------------------------------------------------
(* The steps of requests.                                                  *)

\* A checkout that may be replaced charges no more: its subscription ended or
\* its session expired, and it has no other.
LEMMA ReplacedNoMore ==
  ASSUME Sound, Shop, NEW i \in Checkouts, Replaceable(i), \A j \in Checkouts : j <= i
  PROVE  Charging = {}
<1> SUFFICES ASSUME NEW s \in Charging PROVE FALSE
  OBVIOUS
<1>1. s \in DOMAIN sessions /\ Charges(sessions[s])
  BY DEF Charging, Live, Charges
<1>2. sessions[s].key = i
  <2>1. sessions[s].key \in Checkouts /\ i <= sessions[s].key /\ sessions[s].key <= i
    BY <1>1 DEF Shop, OneEach, LastCharges
  <2>2. sessions[s].key \in Nat /\ i \in Nat
    BY <2>1, CheckoutParts DEF Sound
  <2> QED BY <2>1, <2>2
<1>3. ops[i].target = s
  BY <1>1, <1>2 DEF Replaceable, Shop, OneEach
<1>4. CASE Terminal /\ ops[i].target = account.sub
  <2>1. Ended(s)
    BY <1>3, <1>4 DEF Sound, Linked, AccountLinked
  <2> QED BY <1>1, <2>1 DEF Ended, Bought, Charges
<1>5. CASE sessions[ops[i].target].status = "expired"
  BY <1>1, <1>3, <1>5 DEF Charges
<1> QED BY <1>4, <1>5 DEF Replaceable, ProviderAgrees

LEMMA SessionsSame ==
  ASSUME Sound, UNCHANGED sessions
  PROVE  MovesOn
BY NoneMoves DEF Sound, TypeOK, ProviderTypeOK

LEMMA StartCheckoutOrder ==
  ASSUME Sound, InOrder, ~deleted, NEW r \in Requests, NEW key \in CheckoutKeys,
         StartCheckout(r, key)
  PROVE  InOrder'
<1>1. TypeOK /\ now \in Nat /\ Horizon \in Nat /\ MovesOn /\ UNCHANGED <<now, sessions>>
  BY SessionsSame, TimeIsNatural DEF StartCheckout, Sound
<1>2. CASE /\ \E i \in Placed("checkout", key) : Retryable(i) /\ Ready(r, "checkout", i)
           /\ UNCHANGED ops
  <2>1. PICK i \in Placed("checkout", key) : Retryable(i) /\ Ready(r, "checkout", i)
    BY <1>2
  <2>2. i \in Checkouts /\ ops[i].at \in Nat
    <3>1. i \in Checkouts
      BY DEF Placed, Checkouts
    <3> QED BY <1>1, <3>1, CheckoutParts
  <2>3. /\ req'[r].pc = "ready" /\ req'[r].kind = "checkout" /\ req'[r].op = i
        /\ req'[r].since = now /\ \A q \in Requests \ {r} : req'[q] = req[q]
    BY <2>1, ReadyIs
  <2>4. now <= ops[i].at + Horizon /\ now <= now + 1
    BY <1>1, <2>1, <2>2 DEF Retryable
  <2>5. Prompt(r)'
    BY <1>1, <1>2, <2>3, <2>4 DEF Prompt, Timely
  <2> QED BY <1>1, <1>2, <2>3, <2>5, SameCheckouts, OrderKept
<1>3. CASE /\ LastCheckout # 0 => Replaceable(LastCheckout)
           /\ ops' = Append(ops, Reserve("checkout", key, 0, FALSE))
           /\ Ready(r, "checkout", Len(ops) + 1)
  <2> DEFINE n == Len(ops) + 1
  <2>1. /\ n \in Nat /\ n \notin DOMAIN ops
        /\ \A i \in DOMAIN ops : i < n /\ ops'[i] = ops[i]
        /\ ops'[n] = Reserve("checkout", key, 0, FALSE)
        /\ Checkouts' = Checkouts \cup {n}
    BY <1>3, Appended
  <2>2. /\ req'[r].pc = "ready" /\ req'[r].kind = "checkout" /\ req'[r].op = n
        /\ req'[r].since = now /\ \A q \in Requests \ {r} : req'[q] = req[q]
    BY <1>3, ReadyIs
  <2> HIDE DEF n
  <2>3. /\ ops'[n].status = "pending" /\ ops'[n].at = now /\ ops'[n].confirmed = FALSE
    BY <2>1 DEF Reserve
  <2>4. \A i \in Checkouts : /\ i \in Nat /\ i # n /\ i < n /\ ops'[i] = ops[i]
                           /\ ops[i].kind = "checkout"
    BY <1>1, <2>1, CheckoutParts
  <2>5. Charging = {} /\ \A i \in Checkouts : ops[i].status = "completed"
    <3>1. CASE Checkouts = {}
      BY <3>1 DEF InOrder, Shop, OneEach, Charging
    <3>2. CASE Checkouts # {}
      <4>1. /\ LastCheckout \in Checkouts /\ LastCheckout # 0
            /\ \A j \in Checkouts : j <= LastCheckout
        BY <1>1, <3>2, LastIs DEF InOrder, Shop
      <4>2. Replaceable(LastCheckout)
        BY <1>3, <4>1
      <4>3. Charging = {}
        BY <4>1, <4>2, ReplacedNoMore DEF InOrder
      <4>4. ASSUME NEW i \in Checkouts PROVE ops[i].status = "completed"
        <5>1. i = LastCheckout \/ i < LastCheckout
          BY <2>4, <4>1
        <5> QED BY <4>1, <4>2, <5>1 DEF Replaceable, InOrder, Shop, InTurn
      <4> QED BY <4>3, <4>4
    <3> QED BY <3>1, <3>2
  <2>6. Shop'
    <3>1. InTurn'
      <4>1. \A j \in Checkouts' : j <= n
        BY <2>1, <2>4
      <4>2. \A i, j \in Checkouts' : i < j => ops'[i].status = "completed"
        BY <2>1, <2>4, <2>5
      <4>3. \A i \in Checkouts' : ops'[i].at <= now'
        <5>1. \A i \in Checkouts : ops'[i].at <= now'
          BY <1>1, <2>4 DEF InOrder, Shop, InTurn
        <5>2. ops'[n].at <= now'
          BY <1>1, <2>3
        <5> QED BY <2>1, <5>1, <5>2
      <4> QED BY <2>1, <4>1, <4>2, <4>3 DEF InTurn
    <3>2. OneEach'
      BY <1>1, <2>1, <2>3, <2>4 DEF InOrder, Shop, OneEach
    <3>3. LastCharges'
      <4>1. Charging' = {}
        BY <1>1, <2>5, ChargingKept
      <4> QED BY <4>1 DEF LastCharges
    <3>4. Confirmed'
      BY <1>1, <2>1, <2>3, <2>4 DEF InOrder, Shop, Confirmed, Expired
    <3> QED BY <3>1, <3>2, <3>3, <3>4 DEF Shop
  <2>7. Undisturbed
    BY <1>1, <2>1, <2>4 DEF Undisturbed, MovesOn
  <2>8. Prompt(r)'
    <3>1. now <= now + 1 /\ now <= now + Horizon
      BY <1>1
    <3> QED BY <1>1, <2>2, <2>3, <3>1 DEF Prompt, Timely
  <2> QED BY <2>2, <2>6, <2>7, <2>8, OrderStep
<1> QED BY <1>2, <1>3 DEF StartCheckout

LEMMA StartCancelOrder ==
  ASSUME Sound, InOrder, ~deleted, NEW r \in Requests, NEW key \in CancelKeys,
         NEW atEnd \in BOOLEAN, StartCancel(r, key, atEnd)
  PROVE  InOrder'
<1>1. MovesOn /\ UNCHANGED <<now, sessions>>
  BY SessionsSame DEF StartCancel
<1>2. PICK i : Ready(r, "cancel", i)
  BY DEF StartCancel
<1>3. /\ req'[r].pc = "ready" /\ req'[r].kind = "cancel"
      /\ \A q \in Requests \ {r} : req'[q] = req[q]
  BY <1>2, ReadyIs
<1>4. Prompt(r)'
  BY <1>3 DEF Prompt
<1>5. Checkouts' = Checkouts /\ \A i1 \in Checkouts : ops'[i1] = ops[i1]
  <2>1. CASE UNCHANGED ops
    BY <2>1, SameCheckouts
  <2>2. CASE ops' = Append(ops, Reserve("cancel", key, account.sub, atEnd))
    BY <2>2, Appended DEF Checkouts
  <2> QED BY <2>1, <2>2 DEF StartCancel
<1> QED BY <1>1, <1>3, <1>4, <1>5, OrderKept

LEMMA EndOrder ==
  ASSUME Sound, InOrder, ~deleted, NEW r \in Requests, Withdraw(r) \/ AbortRequest(r)
  PROVE  InOrder'
<1>1. MovesOn /\ UNCHANGED <<now, sessions, ops>> /\ req' = [req EXCEPT ![r] = Idle]
  BY SessionsSame DEF Withdraw, AbortRequest, billing
<1>2. \A q \in Requests : req'[q] = req[q] \/ req'[q].pc = "idle"
  BY <1>1 DEF Sound, TypeOK, Idle
<1> QED BY <1>1, <1>2, SameCheckouts, OrderKept

\* The call creates no second session: the provider still knows the key.
LEMMA StillKnown ==
  ASSUME Sound, InOrder, ~deleted, NEW r \in Requests,
         req[r].pc = "ready", req[r].kind = "checkout",
         NEW s \in DOMAIN sessions, sessions[s].key = req[r].op
  PROVE  s \in Remembered(req[r].op)
<1> DEFINE i == req[r].op
<1>1. i \in Checkouts
  BY DEF Sound, InProgress, InRequest, OnOperation, Checkouts
<1>2. /\ ops[i].at \in Nat /\ now \in Nat /\ req[r].since \in Nat
      /\ sessions[s].born \in Nat
  <2>1. sessions[s] \in Session
    BY SessionParts DEF Sound, TypeOK, ProviderTypeOK
  <2> QED BY <1>1, <2>1, CheckoutParts, RequestParts, TimeIsNatural DEF Sound, Session
<1>3. /\ now <= req[r].since + 1 /\ req[r].since <= ops[i].at + Horizon
      /\ ops[i].at <= sessions[s].born
  BY DEF InOrder, Prompt, Timely, Shop, OneEach
<1> HIDE DEF i
<1>4. now - sessions[s].born <= KeyLife
  BY <1>2, <1>3, ProviderAssumption, BillingAssumption
<1> QED BY <1>4 DEF Remembered, i

LEMMA CallCheckoutOrder ==
  ASSUME Sound, InOrder, ~deleted, NEW r \in Requests, CallCheckout(r)
  PROVE  InOrder'
<1> DEFINE i == req[r].op
<1>1. /\ TypeOK /\ sessions \in Seq(Session) /\ now \in Nat /\ i \in Nat
      /\ req[r].pc = "ready" /\ req[r].kind = "checkout" /\ ops[i].status # "completed"
      /\ UNCHANGED <<now, ops>>
  BY RequestParts, TimeIsNatural
     DEF Sound, TypeOK, ProviderTypeOK, CallCheckout, Begin, Overtaken, billing
<1>2. i \in Checkouts /\ Checkouts' = Checkouts
  BY <1>1 DEF Sound, InProgress, InRequest, OnOperation, Checkouts
<1>3. Timely(r)
  BY <1>1 DEF InOrder, Prompt
<1> HIDE DEF i
<1>4. ASSUME NEW reply, Answered(r, "commit", reply),
             reply.tag = "session" => sessions'[reply.session].key = i,
             Shop', Undisturbed
      PROVE  InOrder'
  <2>1. /\ req'[r].pc = "commit" /\ req'[r].reply = reply /\ req'[r].kind = "checkout"
        /\ req'[r].op = i /\ req'[r].since = req[r].since
        /\ \A q \in Requests \ {r} : req'[q] = req[q]
    BY <1>1, <1>4, AnsweredIs DEF i
  <2>2. Prompt(r)'
    BY <1>1, <1>3, <1>4, <2>1 DEF Prompt, Timely, OwnSession, i
  <2> QED BY <1>4, <2>1, <2>2, OrderStep
<1>5. Unavailable.tag = "unavailable"
  BY DEF Unavailable, Answer
<1>6. CASE UNCHANGED sessions /\ Answered(r, "commit", Unavailable)
  <2>1. MovesOn /\ now <= now'
    BY <1>1, <1>6, SessionsSame
  <2>2. Shop' /\ Undisturbed
    BY <1>1, <2>1, ShopStays, SameUndisturbed, SameCheckouts DEF InOrder
  <2> QED BY <1>4, <1>5, <1>6, <2>2
<1>7. CASE \E s \in 1 .. Len(sessions) + 1 :
             /\ Create(i, s)
             /\ \/ Answered(r, "commit", Answer("session", s, NoSubscription))
                \/ Answered(r, "commit", Unavailable)
  <2>1. PICK s \in 1 .. Len(sessions) + 1 :
             /\ Create(i, s)
             /\ \/ Answered(r, "commit", Answer("session", s, NoSubscription))
                \/ Answered(r, "commit", Unavailable)
    BY <1>7
  <2>2. s \in Nat
    BY <1>1
  <2>3. /\ sessions' \in Seq(Session) /\ s \in DOMAIN sessions'
        /\ DOMAIN sessions \subseteq DOMAIN sessions'
        /\ \A t \in DOMAIN sessions : Forward(sessions[t], sessions'[t])
        /\ \A t \in DOMAIN sessions' \ DOMAIN sessions :
              t = s /\ Remembered(i) = {} /\ sessions'[t] = NewSession(i)
        /\ s \in DOMAIN sessions => s \in Remembered(i)
    BY <1>1, <2>1, <2>2, CreateForward
  <2>4. Undisturbed
    BY <1>1, <1>2, <2>3 DEF Undisturbed
  <2>5. NewSession(i).key = i /\ NewSession(i).born = now
    BY DEF NewSession
  <2>6. sessions'[s].key = i
    BY <2>3, <2>5 DEF Remembered, Forward
  <2>7. \A t \in DOMAIN sessions' \ DOMAIN sessions :
           \A u \in DOMAIN sessions : sessions[u].key # i
    BY <1>1, <2>3, StillKnown DEF i
  <2>8. Shop'
    <3>1. InTurn'
      BY <1>1, <1>2 DEF InOrder, Shop, InTurn
    <3>2. OneEach'
      <4>1. ASSUME NEW t \in DOMAIN sessions'
            PROVE  sessions'[t].key \in Checkouts' /\ ops'[sessions'[t].key].at <= sessions'[t].born
        <5>1. CASE t \in DOMAIN sessions
          BY <1>1, <1>2, <2>3, <5>1 DEF InOrder, Shop, OneEach, Forward
        <5>2. CASE t \notin DOMAIN sessions
          BY <1>1, <1>2, <2>3, <2>5, <5>2 DEF InOrder, Shop, InTurn
        <5> QED BY <5>1, <5>2
      <4>2. ASSUME NEW t \in DOMAIN sessions', NEW u \in DOMAIN sessions',
                   sessions'[t].key = sessions'[u].key
            PROVE  t = u
        <5>1. CASE t \in DOMAIN sessions /\ u \in DOMAIN sessions
          BY <2>3, <4>2, <5>1 DEF InOrder, Shop, OneEach, Forward
        <5>2. CASE t \notin DOMAIN sessions \/ u \notin DOMAIN sessions
          <6>1. sessions'[t].key = i /\ sessions'[u].key = i
            BY <2>3, <2>5, <4>2, <5>2
          <6>2. t \notin DOMAIN sessions /\ u \notin DOMAIN sessions
            BY <2>3, <2>7, <5>2, <6>1 DEF Forward
          <6> QED BY <2>3, <6>2
        <5> QED BY <5>1, <5>2
      <4>3. \A j \in Checkouts' : ops'[j].status = "completed" =>
              ops'[j].target \in DOMAIN sessions' /\ sessions'[ops'[j].target].key = j
        BY <1>1, <1>2, <2>3 DEF InOrder, Shop, OneEach, Forward
      <4> QED BY <4>1, <4>2, <4>3 DEF OneEach
    <3>3. LastCharges'
      <4>1. \A j \in Checkouts : j <= i
        <5>1. i \in Nat /\ \A j \in Checkouts : j \in Nat /\ ~(i < j)
          BY <1>1, <1>2, CheckoutParts DEF InOrder, Shop, InTurn
        <5> QED BY <5>1
      <4>2. ASSUME NEW t \in Charging' PROVE \A j \in Checkouts : j <= sessions'[t].key
        <5>1. CASE t \in DOMAIN sessions
          <6>1. t \in Charging /\ sessions'[t].key = sessions[t].key
            BY <2>3, <5>1 DEF Charging, Live, Forward, Charges
          <6> QED BY <6>1 DEF InOrder, Shop, LastCharges
        <5>2. CASE t \notin DOMAIN sessions
          <6>1. sessions'[t].key = i
            BY <2>3, <2>5, <5>2 DEF Charging
          <6> QED BY <4>1, <6>1
        <5> QED BY <5>1, <5>2
      <4> QED BY <1>2, <4>2 DEF LastCharges
    <3>4. Confirmed'
      BY <1>1, <1>2, <2>3 DEF InOrder, Shop, OneEach, Confirmed, Expired, Forward
    <3> QED BY <3>1, <3>2, <3>3, <3>4 DEF Shop
  <2>9. CASE Answered(r, "commit", Answer("session", s, NoSubscription))
    BY <1>4, <2>4, <2>6, <2>8, <2>9 DEF Answer
  <2>10. CASE Answered(r, "commit", Unavailable)
    BY <1>4, <1>5, <2>4, <2>8, <2>10
  <2> QED BY <2>1, <2>9, <2>10
<1> QED BY <1>6, <1>7 DEF CallCheckout, i

LEMMA CancelOrder ==
  ASSUME Sound, InOrder, ~deleted, NEW r \in Requests, CallCancel(r) \/ ReadCancel(r)
  PROVE  InOrder'
<1>1. sessions \in Seq(Session) /\ UNCHANGED <<now, ops>>
  BY DEF Sound, TypeOK, ProviderTypeOK, CallCancel, ReadCancel, billing
<1>2. req[r].kind = "cancel" /\ req[r].pc # "idle"
  BY DEF CallCancel, Begin, ReadCancel, Sound, InProgress, InRequest
<1>3. MovesOn
  <2>1. req[r].op \in DOMAIN ops /\ ops[req[r].op].kind = "cancel"
    BY <1>2 DEF Sound, InProgress, InRequest, OnOperation
  <2>2. ops[req[r].op] \in Operation
    BY <2>1 DEF Sound, TypeOK
  <2>3. ops[req[r].op].target \in DOMAIN sessions /\ ops[req[r].op].atEnd \in BOOLEAN
    BY <2>1, <2>2 DEF Sound, Linked, OperationsLinked, Bought, Operation
  <2> QED BY <1>1, <2>3, CancelMoves, NoneMoves DEF CallCancel, ReadCancel
<1>4. PICK pc, reply : Answered(r, pc, reply)
  BY DEF CallCancel, ReadCancel
<1>5. req'[r].kind = "cancel" /\ \A q \in Requests \ {r} : req'[q] = req[q]
  BY <1>2, <1>4, AnsweredIs
<1>6. Prompt(r)'
  BY <1>5 DEF Prompt
<1> QED BY <1>1, <1>3, <1>5, <1>6, SameCheckouts, OrderKept

LEMMA ReconcileOrder ==
  ASSUME Sound, InOrder, ~deleted, NEW r \in Requests, ReadReconcile(r)
  PROVE  InOrder'
<1>1. MovesOn /\ UNCHANGED <<now, sessions, ops>>
  BY SessionsSame DEF ReadReconcile, billing
<1>2. PICK reply \in IF account.sub # 0 THEN ReadSubscription(account.sub)
                     ELSE ReadCheckout(ops[LastCompleted].target) :
        req' = [req EXCEPT ![r] =
            [pc |-> "commit", kind |-> "reconcile", op |-> LastCompleted,
             since |-> now, reply |-> reply]]
  BY DEF ReadReconcile
<1>3. /\ req'[r].kind = "reconcile" /\ req'[r].reply = reply /\ req'[r].op = LastCompleted
      /\ \A q \in Requests \ {r} : req'[q] = req[q]
  BY <1>2 DEF Sound, TypeOK
<1>4. reply.tag = "expired" => LastCompleted \in Checkouts /\ Expired(LastCompleted)
  <2>1. SUFFICES ASSUME reply.tag = "expired"
                 PROVE  LastCompleted \in Checkouts /\ Expired(LastCompleted)
    OBVIOUS
  <2>2. account.sub = 0
    BY <1>2, <2>1 DEF ReadSubscription, Answer, Unavailable
  <2>3. LastCompleted # 0
    BY <2>2 DEF ReadReconcile
  <2>4. LastCompleted \in Checkouts /\ ops[LastCompleted].status = "completed"
    BY <2>3, LastCompletedIs DEF Sound, TypeOK, Checkouts
  <2>5. ops[LastCompleted].target \in DOMAIN sessions
    BY <2>4 DEF InOrder, Shop, OneEach
  <2> DEFINE s == ops[LastCompleted].target
  <2>6. sessions[s].status \in {"open", "complete", "expired"}
    BY <2>5, SessionParts DEF Sound, TypeOK, ProviderTypeOK, Session
  <2>7. reply \in ReadCheckout(s)
    BY <1>2, <2>2
  <2> HIDE DEF s
  <2>8. sessions[s].status = "expired"
    BY <2>1, <2>6, <2>7 DEF ReadCheckout, ReadSubscription, Answer, Unavailable
  <2> QED BY <2>4, <2>8 DEF Expired, s
<1>5. Prompt(r)'
  BY <1>1, <1>3, <1>4 DEF Prompt, SawExpiry, Expired, Checkouts
<1> QED BY <1>1, <1>3, <1>5, SameCheckouts, OrderKept

\* A commit that leaves the checkouts alone.
LEMMA CommitOrder ==
  ASSUME Sound, InOrder, ~deleted, NEW r \in Requests, Done(r), Shop', Undisturbed
  PROVE  InOrder'
<1>1. \A q \in Requests : req'[q] = req[q] \/ req'[q].pc = "idle"
  BY DEF Done, Sound, TypeOK, Idle
<1> QED BY <1>1, OrderStep

\* One operation is rewritten.
LEMMA Rewritten ==
  ASSUME Sound, NEW i \in DOMAIN ops, NEW o, ops' = [ops EXCEPT ![i] = o],
         o.kind = ops[i].kind
  PROVE  /\ ops'[i] = o /\ DOMAIN ops' = DOMAIN ops /\ Checkouts' = Checkouts
         /\ \A j \in DOMAIN ops \ {i} : ops'[j] = ops[j]
<1>1. /\ ops'[i] = o /\ DOMAIN ops' = DOMAIN ops
      /\ \A j \in DOMAIN ops \ {i} : ops'[j] = ops[j]
  BY DEF Sound, TypeOK
<1> QED BY <1>1 DEF Checkouts

LEMMA FinishCheckoutOrder ==
  ASSUME Sound, InOrder, ~deleted, NEW r \in Requests, FinishCheckout(r)
  PROVE  InOrder'
<1> DEFINE i == req[r].op
           reply == req[r].reply
<1>1. /\ req[r].pc = "commit" /\ req[r].kind = "checkout" /\ Done(r)
      /\ UNCHANGED <<now, sessions>>
  BY DEF FinishCheckout, Committing, Done
<1>2. /\ i \in DOMAIN ops /\ ops[i] \in Operation /\ ops[i].kind = "checkout"
      /\ ops[i].status # "completed" /\ reply \in Reply /\ Current(reply)
  BY <1>1, Commit
<1>3. reply.tag = "session" =>
         reply.session \in DOMAIN sessions /\ sessions[reply.session].key = i
  BY <1>1, <1>2 DEF Current, InOrder, Prompt, OwnSession
<1>4. i \in Checkouts /\ ops[i].confirmed = FALSE
  <2>1. i \in Checkouts /\ ops[i].confirmed \in BOOLEAN
    BY <1>2 DEF Checkouts, Operation
  <2> QED BY <1>2, <2>1 DEF InOrder, Shop, Confirmed, Expired
<1>5. PICK o :
         /\ ops' = [ops EXCEPT ![i] = o] /\ o.kind = "checkout" /\ o.at = ops[i].at
         /\ o.confirmed = FALSE
         /\ o.status = "completed" => reply.tag = "session" /\ o.target = reply.session
  <2>1. CASE reply.tag = "session"
    <3> DEFINE o == [ops[i] EXCEPT !.status = "completed", !.target = reply.session]
    <3>1. ops' = [ops EXCEPT ![i] = o]
      BY <2>1 DEF FinishCheckout
    <3>2. /\ o.kind = "checkout" /\ o.at = ops[i].at /\ o.confirmed = FALSE
          /\ o.target = reply.session
      BY <1>2, <1>4 DEF Operation
    <3> HIDE DEF o
    <3> QED BY <2>1, <3>1, <3>2
  <2>2. CASE reply.tag # "session"
    <3> DEFINE o == [ops[i] EXCEPT !.status = "unknown"]
    <3>1. ops' = [ops EXCEPT ![i] = o]
      BY <2>2 DEF FinishCheckout, Uncertain
    <3>2. /\ o.kind = "checkout" /\ o.at = ops[i].at /\ o.confirmed = FALSE
          /\ o.status = "unknown"
      BY <1>2, <1>4 DEF Operation
    <3> HIDE DEF o
    <3> QED BY <3>1, <3>2
  <2> QED BY <2>1, <2>2
<1> HIDE DEF i, reply
<1>6. /\ ops'[i] = o /\ Checkouts' = Checkouts
      /\ \A j \in Checkouts \ {i} : ops'[j] = ops[j]
  BY <1>2, <1>5, Rewritten DEF Checkouts
<1>7. MovesOn /\ TypeOK
  BY <1>1, SessionsSame DEF Sound
<1>8. Undisturbed
  BY <1>1, <1>2, <1>5, <1>6, <1>7 DEF Undisturbed, MovesOn
<1>9. Shop'
  <2>1. InTurn'
    <3>1. \A j \in Checkouts : ~(i < j)
      BY <1>2, <1>4 DEF InOrder, Shop, InTurn
    <3>2. \A j, k \in Checkouts' : j < k => ops'[j].status = "completed"
      BY <1>6, <3>1 DEF InOrder, Shop, InTurn
    <3>3. \A j \in Checkouts' : ops'[j].at <= now'
      BY <1>1, <1>4, <1>5, <1>6 DEF InOrder, Shop, InTurn
    <3> QED BY <1>6, <3>2, <3>3 DEF InOrder, Shop, InTurn
  <2>2. OneEach'
    <3>1. \A s \in DOMAIN sessions' :
             sessions'[s].key \in Checkouts' /\ ops'[sessions'[s].key].at <= sessions'[s].born
      BY <1>1, <1>5, <1>6 DEF InOrder, Shop, OneEach
    <3>2. \A j \in Checkouts' : ops'[j].status = "completed" =>
             ops'[j].target \in DOMAIN sessions' /\ sessions'[ops'[j].target].key = j
      BY <1>1, <1>3, <1>5, <1>6 DEF InOrder, Shop, OneEach
    <3> QED BY <1>1, <3>1, <3>2 DEF InOrder, Shop, OneEach
  <2>3. LastCharges'
    <3>1. Charging' = Charging
      BY <1>1 DEF Charging, Live
    <3> QED BY <1>1, <1>6, <3>1 DEF InOrder, Shop, LastCharges
  <2>4. Confirmed'
    BY <1>1, <1>5, <1>6 DEF InOrder, Shop, Confirmed, Expired
  <2> QED BY <2>1, <2>2, <2>3, <2>4 DEF Shop
<1> QED BY <1>1, <1>8, <1>9, CommitOrder

LEMMA FinishCancelOrder ==
  ASSUME Sound, InOrder, ~deleted, NEW r \in Requests, FinishCancel(r)
  PROVE  InOrder'
<1> DEFINE i == req[r].op
<1>1. /\ req[r].pc = "commit" /\ req[r].kind = "cancel" /\ Done(r)
      /\ UNCHANGED <<now, sessions>>
  BY DEF FinishCancel, Committing, Done
<1>2. i \in DOMAIN ops /\ ops[i] \in Operation /\ ops[i].kind = "cancel"
  BY <1>1, Commit
<1>3. PICK status \in {"completed", "unknown"} : ops' = [ops EXCEPT ![i].status = status]
  BY DEF FinishCancel, Uncertain
<1> DEFINE o == [ops[i] EXCEPT !.status = status]
<1>4. ops' = [ops EXCEPT ![i] = o] /\ o.kind = ops[i].kind
  BY <1>2, <1>3 DEF Operation
<1> HIDE DEF i, o
<1>5. Checkouts' = Checkouts /\ \A j \in Checkouts : ops'[j] = ops[j]
  BY <1>2, <1>4, Rewritten DEF Checkouts
<1>6. MovesOn
  BY <1>1, SessionsSame
<1>7. now' \in Nat /\ now <= now'
  BY <1>1, TimeIsNatural DEF Sound
<1>8. Shop' /\ Undisturbed
  BY <1>1, <1>5, <1>6, <1>7, ShopStays, SameUndisturbed DEF InOrder
<1> QED BY <1>1, <1>8, CommitOrder

LEMMA FinishReconcileOrder ==
  ASSUME Sound, InOrder, ~deleted, NEW r \in Requests, FinishReconcile(r)
  PROVE  InOrder'
<1> DEFINE i == req[r].op
<1>1. /\ req[r].pc = "commit" /\ req[r].kind = "reconcile" /\ Done(r)
      /\ UNCHANGED <<now, sessions>>
  BY DEF FinishReconcile, Committing, Done
<1>2. MovesOn /\ TypeOK /\ now' \in Nat /\ now <= now'
  BY <1>1, SessionsSame, TimeIsNatural DEF Sound
<1>3. CASE UNCHANGED ops
  BY <1>1, <1>2, <1>3, SameCheckouts, ShopStays, SameUndisturbed, CommitOrder DEF InOrder
<1>4. CASE req[r].reply.tag = "expired" /\ ops' = [ops EXCEPT ![i].confirmed = TRUE]
  <2>1. i \in Checkouts /\ Expired(i)
    BY <1>1, <1>4 DEF InOrder, Prompt, SawExpiry
  <2> DEFINE o == [ops[i] EXCEPT !.confirmed = TRUE]
  <2>2. /\ ops' = [ops EXCEPT ![i] = o] /\ o.kind = ops[i].kind /\ o.at = ops[i].at
        /\ o.status = ops[i].status /\ o.target = ops[i].target
    BY <1>2, <1>4, <2>1, CheckoutParts DEF Operation
  <2> HIDE DEF i, o
  <2>3. Checkouts' = Checkouts
    BY <2>1, <2>2, Rewritten DEF Checkouts
  <2>4. \A j \in Checkouts :
           /\ ops'[j].at = ops[j].at /\ ops'[j].status = ops[j].status
           /\ ops'[j].target = ops[j].target
           /\ ops'[j].confirmed = ops[j].confirmed \/ j = i
    <3>1. ops'[i] = o /\ \A j \in Checkouts \ {i} : ops'[j] = ops[j]
      BY <2>1, <2>2, Rewritten DEF Checkouts
    <3> QED BY <2>2, <3>1
  <2>5. Undisturbed
    BY <1>1, <1>2, <2>3, <2>4 DEF Undisturbed, MovesOn
  <2>6. Shop'
    <3>1. InTurn'
      <4>1. \A j, k \in Checkouts : j < k => ops'[j].status = "completed"
        BY <2>4 DEF InOrder, Shop, InTurn
      <4>2. \A j \in Checkouts : ops'[j].at <= now'
        BY <1>1, <2>4 DEF InOrder, Shop, InTurn
      <4> QED BY <2>3, <4>1, <4>2 DEF InOrder, Shop, InTurn
    <3>2. OneEach'
      <4>1. \A s \in DOMAIN sessions' :
               sessions'[s].key \in Checkouts' /\ ops'[sessions'[s].key].at <= sessions'[s].born
        BY <1>1, <2>3, <2>4 DEF InOrder, Shop, OneEach
      <4>2. \A j \in Checkouts' : ops'[j].status = "completed" =>
               ops'[j].target \in DOMAIN sessions' /\ sessions'[ops'[j].target].key = j
        BY <1>1, <2>3, <2>4 DEF InOrder, Shop, OneEach
      <4> QED BY <1>1, <4>1, <4>2 DEF InOrder, Shop, OneEach
    <3>3. LastCharges'
      BY <1>1, <2>3 DEF InOrder, Shop, LastCharges, Charging, Live
    <3>4. Confirmed'
      <4>1. \A j \in Checkouts : Expired(j) => Expired(j)'
        BY <1>1, <2>4 DEF Expired
      <4>2. \A j \in Checkouts : ops'[j].confirmed => Expired(j)
        BY <2>1, <2>4 DEF InOrder, Shop, Confirmed
      <4> QED BY <2>3, <4>1, <4>2 DEF Confirmed
    <3> QED BY <3>1, <3>2, <3>3, <3>4 DEF Shop
  <2> QED BY <1>1, <2>5, <2>6, CommitOrder
<1> QED BY <1>3, <1>4 DEF FinishReconcile

LEMMA RequestOrder ==
  ASSUME Sound, InOrder, ~deleted, NEW r \in Requests, Request(r)
  PROVE  InOrder'
BY StartCheckoutOrder, StartCancelOrder, EndOrder, CallCheckoutOrder, CancelOrder,
   ReconcileOrder, FinishCheckoutOrder, FinishCancelOrder, FinishReconcileOrder
   DEF Request

-----------------------------------------------------------------------------
(* Every step.                                                             *)

LEMMA TickOrder ==
  ASSUME Sound, InOrder, ~deleted, Tick
  PROVE  InOrder'
<1>1. TypeOK /\ now \in Nat /\ now' = now + 1 /\ UNCHANGED <<sessions, ops, req>>
  BY TimeIsNatural DEF Sound, Tick, billing
<1>2. Shop'
  BY <1>1, SessionsSame, SameCheckouts, ShopStays DEF InOrder
<1>3. ASSUME NEW r \in Requests PROVE Prompt(r)'
  <2>1. req[r].pc # "idle" => req[r].since = now
    BY DEF Tick
  <2> QED BY <1>1, <2>1 DEF InOrder, Prompt, Timely, OwnSession, SawExpiry, Expired, Checkouts
<1> QED BY <1>2, <1>3 DEF InOrder

\* When the project can be deleted, nothing charges any more.
LEMMA DeletableSafe ==
  ASSUME Sound, InOrder, Deletable
  PROVE  Charging = {}
<1> SUFFICES ASSUME NEW s \in Charging PROVE FALSE
  OBVIOUS
<1> DEFINE i == sessions[s].key
<1>1. s \in DOMAIN sessions /\ Charges(sessions[s])
  BY DEF Charging, Live, Charges
<1>2. i \in Checkouts /\ \A j \in Checkouts : j <= i
  BY <1>1 DEF InOrder, Shop, OneEach, LastCharges
<1>3. ops[i].status = "completed" /\ ops[i].target = s
  <2>1. ops[i].status = "completed"
    BY <1>2 DEF Deletable, Settled
  <2> QED BY <1>1, <1>2, <2>1 DEF InOrder, Shop, OneEach
<1> HIDE DEF i
<1>4. CASE ops[i].confirmed
  BY <1>1, <1>2, <1>3, <1>4 DEF InOrder, Shop, Confirmed, Expired, Charges
<1>5. CASE account.sub # 0
  <2>1. Ended(account.sub)
    BY <1>5 DEF Deletable, Subscribed, Terminal, Sound, Linked, AccountLinked
  <2>2. LastCompleted # 0 /\ ops[LastCompleted].target = account.sub
    BY <1>5 DEF Sound, LinkedToLatest
  <2>3. LastCompleted = i
    <3>1. i \in Completed /\ \A j \in Completed : j <= i /\ j \in Nat
      BY <1>2, <1>3, CheckoutParts DEF Completed, Sound
    <3>2. LastCompleted \in Completed /\ \A j \in Completed : j <= LastCompleted
      BY <3>1 DEF LastCompleted, Latest, Completed, Sound, Newest
    <3> QED BY <3>1, <3>2
  <2> QED BY <1>1, <1>3, <2>1, <2>2, <2>3 DEF Ended, Bought, Charges
<1> QED BY <1>2, <1>4, <1>5 DEF Deletable, Settled

\* Once the project is gone only the provider moves.
LEMMA DeletedStays ==
  ASSUME Sound, deleted, [Next]_vars
  PROVE  deleted' /\ (UNCHANGED sessions \/ ProviderMoves)
<1>1. ASSUME NEW r \in Requests, Request(r) PROVE UNCHANGED <<sessions, deleted>>
  <2>1. ~(CallCheckout(r) \/ CallCancel(r))
    BY DEF CallCheckout, CallCancel, Begin
  <2> QED BY <1>1, <2>1
       DEF Request, StartCheckout, StartCancel, Withdraw, FinishCheckout, ReadCancel,
           FinishCancel, ReadReconcile, FinishReconcile, AbortRequest, Done, billing
<1>2. ASSUME NEW w \in Workers, Work(w) PROVE UNCHANGED <<sessions, deleted>>
  BY <1>2 DEF Work, Claim, GiveUp, ReadEvent, FinishEvent, AbortWorker, billing
<1>3. CASE Webhook \/ Tick \/ UNCHANGED vars
  BY <1>3 DEF Webhook, Deliver, Tick, vars, billing
<1>4. CASE ProviderMoves
  BY <1>4 DEF ProviderMoves, billing
<1>5. ~DeleteProject
  BY DEF DeleteProject
<1> QED BY <1>1, <1>2, <1>3, <1>4, <1>5 DEF Next

LEMMA StepPurchases == Sound /\ Purchases /\ [Next]_vars => Purchases'
<1> SUFFICES ASSUME Sound, Purchases, [Next]_vars PROVE Purchases'
  OBVIOUS
<1>1. sessions \in Seq(Session) /\ now \in Nat
  BY TimeIsNatural DEF Sound, TypeOK, ProviderTypeOK
<1>2. CASE deleted
  <2>1. deleted' /\ MovesOn
    BY <1>1, <1>2, DeletedStays, ProviderMovesOn, NoneMoves
  <2> QED BY <1>2, <2>1, ChargingKept DEF Purchases
<1>3. CASE ~deleted
  <2>0. InOrder
    BY <1>3 DEF Purchases
  <2>1. CASE DeleteProject
    <3>1. Charging = {} /\ deleted' /\ UNCHANGED sessions
      BY <2>0, <2>1, DeletableSafe DEF DeleteProject
    <3>2. Charging' = {}
      BY <1>1, <3>1, ChargingKept, NoneMoves
    <3> QED BY <3>1, <3>2 DEF Purchases
  <2>2. ASSUME UNCHANGED <<now, ops, req>>, MovesOn PROVE InOrder'
    BY <1>3, <2>0, <2>2, SameCheckouts, OrderKept
  <2>3. CASE Webhook \/ UNCHANGED vars
    <3>1. UNCHANGED <<now, sessions, ops, req, deleted>>
      BY <2>3 DEF Webhook, Deliver, vars, billing
    <3> QED BY <1>3, <2>2, <3>1, SessionsSame DEF Purchases
  <2>4. CASE \E w \in Workers : Work(w)
    <3>1. UNCHANGED <<now, sessions, ops, req, deleted>>
      BY <2>4 DEF Work, Claim, GiveUp, ReadEvent, FinishEvent, AbortWorker, billing
    <3> QED BY <1>3, <2>2, <3>1, SessionsSame DEF Purchases
  <2>5. CASE ProviderMoves
    <3>1. UNCHANGED <<now, ops, req, deleted>> /\ MovesOn
      <4>1. UNCHANGED <<ops, req, deleted>>
        BY <2>5 DEF ProviderMoves, billing
      <4>2. UNCHANGED now
        BY <1>1, <2>5, ProviderKeeps
      <4> QED BY <1>1, <2>5, <4>1, <4>2, ProviderMovesOn
    <3> QED BY <1>3, <2>2, <3>1 DEF Purchases
  <2>6. CASE Tick
    <3>1. UNCHANGED deleted
      BY <2>6 DEF Tick, billing
    <3> QED BY <1>3, <2>0, <2>6, <3>1, TickOrder DEF Purchases
  <2>7. CASE \E r \in Requests : Request(r)
    <3>1. UNCHANGED deleted
      BY <2>7 DEF Request, StartCheckout, StartCancel, Withdraw, CallCheckout, FinishCheckout,
                  CallCancel, ReadCancel, FinishCancel, ReadReconcile, FinishReconcile,
                  AbortRequest, Done, billing
    <3> QED BY <1>3, <2>0, <2>7, <3>1, RequestOrder DEF Purchases
  <2> QED BY <2>1, <2>3, <2>4, <2>5, <2>6, <2>7 DEF Next
<1> QED BY <1>2, <1>3

LEMMA InitPurchases == Init => Purchases
BY DEF Init, ProviderInit, Purchases, InOrder, Shop, InTurn, OneEach, LastCharges, Confirmed,
       Checkouts, Charging, Prompt, Idle

\* The order of the checkouts holds throughout.
THEOREM PurchasesInOrder == Spec => [](Sound /\ Purchases)
<1>1. Init => Sound /\ Purchases
  BY InitSound, InitPurchases
<1>2. Sound /\ Purchases /\ [Next]_vars => Sound' /\ Purchases'
  BY StepSound, StepPurchases
<1> QED BY <1>1, <1>2, PTL DEF Spec

\* The project never has two ways to be charged: the retry horizon is shorter
\* than the provider's memory of a key, and a new checkout is reserved only when
\* the provider agrees that the last one is over (checkout, _replaceable_checkout).
THEOREM OnePurchase == Spec => []OneLivePurchase
<1>1. Sound /\ Purchases => OneLivePurchase
  <2> SUFFICES ASSUME Sound, InOrder, NEW s \in Charging, NEW t \in Charging PROVE s = t
    BY DEF Purchases, OneLivePurchase
  <2>1. s \in DOMAIN sessions /\ t \in DOMAIN sessions
    BY DEF Charging
  <2>2. sessions[s].key \in Nat /\ sessions[t].key \in Nat
    BY <2>1, CheckoutParts DEF Sound, InOrder, Shop, OneEach
  <2>3. sessions[s].key <= sessions[t].key /\ sessions[t].key <= sessions[s].key
    BY <2>1 DEF InOrder, Shop, OneEach, LastCharges
  <2>4. sessions[s].key = sessions[t].key
    BY <2>2, <2>3
  <2> QED BY <2>1, <2>4 DEF InOrder, Shop, OneEach
<1> QED BY <1>1, PurchasesInOrder, PTL

\* Deleting the project leaves nothing behind that could still charge
\* (check_deletion): every checkout was settled, and only the last could charge.
THEOREM DeletionCharges == Spec => []DeletionSafe
<1>1. Sound /\ Purchases => DeletionSafe
  BY DEF Purchases, DeletionSafe
<1> QED BY <1>1, PurchasesInOrder, PTL

=============================================================================
