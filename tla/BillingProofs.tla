---------------------------- MODULE BillingProofs ----------------------------
(***************************************************************************)
(* Proofs about the billing of a project, for every number of requests,    *)
(* workers, keys, events and purchases.                                    *)
(***************************************************************************)
EXTENDS Billing, TLAPS

-----------------------------------------------------------------------------
(* The inductive invariant.                                                *)

(* A paid session, and one whose subscription has ended: neither ever      *)
(* changes back at the provider.                                           *)
Bought(s) == s \in DOMAIN sessions /\ sessions[s].status = "complete"
Ended(s) == Bought(s) /\ sessions[s].sub.status = "canceled"

(* The lock is held exactly inside a transaction that spans several steps. *)
Locking ==
    /\ \A r \in Requests : req[r].pc \in {"read", "commit"} <=> lock = r
    /\ \A w \in Workers : wk[w].pc = "commit" <=> lock = w
    /\ lock # None => ~deleted

(* References lead to objects of the provider, and an end that is recorded *)
(* is an end there.                                                        *)
AccountLinked ==
    /\ account.sub # 0 => Bought(account.sub)
    /\ Terminal => Ended(account.sub)
OperationsLinked ==
    \A i \in DOMAIN ops :
        /\ ops[i].kind = "cancel" => Bought(ops[i].target)
        /\ ops[i].status = "completed" => ops[i].target \in DOMAIN sessions
InboxLinked ==
    \A e \in EventIds : inbox[e].status # "absent" =>
        /\ inbox[e].target \in DOMAIN sessions
        /\ inbox[e].kind = "subscription" => Bought(inbox[e].target)
Linked == AccountLinked /\ OperationsLinked /\ InboxLinked

(* A request works on an operation of its kind, which nobody completes     *)
(* while it holds the lock.                                                *)
OnOperation(r) ==
    req[r].kind # "reconcile" =>
        /\ req[r].op \in DOMAIN ops /\ ops[req[r].op].kind = req[r].kind
        /\ lock = r => ops[req[r].op].status # "completed"

(* What was read under the lock is no older than what is recorded.         *)
Current(reply) ==
    /\ reply.tag = "session" => reply.session \in DOMAIN sessions
    /\ reply.tag = "snapshot" =>
          /\ Bought(reply.session)
          /\ reply.sub.status = "canceled" => Ended(reply.session)
          /\ Terminal /\ account.sub = reply.session => reply.sub.status = "canceled"

InRequest(r) ==
    /\ req[r].pc # "idle" /\ ~deleted => OnOperation(r)
    /\ req[r].pc = "read" => req[r].kind = "cancel"
    /\ req[r].pc = "commit" =>
          /\ Current(req[r].reply)
          /\ req[r].kind = "reconcile" =>
                /\ req[r].reply.tag \in {"expired", "snapshot", "unavailable"}
                /\ req[r].reply.tag = "expired" => account.sub = 0 /\ req[r].op \in DOMAIN ops

InWorker(w) ==
    /\ wk[w].pc # "idle" => wk[w].event \in EventIds /\ wk[w].lease # 0
    /\ wk[w].pc = "commit" =>
          /\ Current(wk[w].reply)
          /\ wk[w].reply.tag \in {"expired", "snapshot", "unavailable", "invalid"}
          /\ HoldsLease(w)

InProgress == (\A r \in Requests : InRequest(r)) /\ (\A w \in Workers : InWorker(w))

(* Only a claimed event has a lease, or one given up after its last claim. *)
Leases ==
    \A e \in EventIds :
        /\ inbox[e].status \in {"absent", "pending", "processed", "ignored"} => inbox[e].lease = 0
        /\ inbox[e].status = "failed" /\ inbox[e].lease # 0 => inbox[e].attempts >= MaxAttempts

(* There is a latest completed checkout as soon as there is any.           *)
Completed == {i \in Checkouts : ops[i].status = "completed"}
Newest == Completed # {} => \E i \in Completed : \A j \in Completed : j <= i

Sound ==
    /\ TypeOK /\ Locking /\ Linked /\ InProgress /\ Leases
    /\ Newest /\ LinkedToLatest

-----------------------------------------------------------------------------
(* The provider: what it has recorded once it keeps.                       *)

USE DEF billing, vars

Keeps ==
    /\ sessions' \in Seq(Session)
    /\ DOMAIN sessions \subseteq DOMAIN sessions'
    /\ \A s \in DOMAIN sessions :
          /\ sessions[s].status = "complete" => sessions'[s].status = "complete"
          /\ sessions[s].status = "complete" /\ sessions[s].sub.status = "canceled"
                => sessions'[s].sub.status = "canceled"

\* What is bought stays bought, and what has ended stays ended.
LEMMA KeptObjects ==
  ASSUME Keeps
  PROVE  /\ \A s : Bought(s) => s \in DOMAIN sessions' /\ sessions'[s].status = "complete"
         /\ \A s : Ended(s) => /\ s \in DOMAIN sessions' /\ sessions'[s].status = "complete"
                               /\ sessions'[s].sub.status = "canceled"
BY DEF Keeps, Bought, Ended

\* Changing one session, forwards only.
LEMMA OneSession ==
  ASSUME sessions \in Seq(Session), NEW s \in DOMAIN sessions, NEW v \in Session,
         sessions' = [sessions EXCEPT ![s] = v],
         sessions[s].status = "complete" =>
            /\ v.status = "complete"
            /\ sessions[s].sub.status = "canceled" => v.sub.status = "canceled"
  PROVE  Keeps
BY DEF Keeps

LEMMA SessionParts ==
  ASSUME sessions \in Seq(Session), NEW s \in DOMAIN sessions
  PROVE  sessions[s] \in Session /\ sessions[s].sub \in Subscription
<1>1. sessions[s] \in Session
  OBVIOUS
<1> QED BY <1>1 DEF Session

LEMMA KeepsSame == sessions \in Seq(Session) /\ UNCHANGED sessions => Keeps
BY DEF Keeps

LEMMA CreateKeeps ==
  ASSUME sessions \in Seq(Session), now \in Nat, NEW key \in Nat, NEW s \in Nat,
         Create(key, s)
  PROVE  Keeps /\ s \in DOMAIN sessions'
<1>1. CASE s \in Remembered(key) /\ UNCHANGED sessions
  BY <1>1, KeepsSame DEF Remembered
<1>2. CASE s = Len(sessions) + 1 /\ sessions' = Append(sessions, NewSession(key))
  <2>1. NewSession(key) \in Session
    BY ProviderAssumption
       DEF NewSession, Session, NoSubscription, Subscription, SubscriptionStatuses
  <2> QED BY <1>2, <2>1 DEF Keeps
<1> QED BY <1>1, <1>2 DEF Create

LEMMA CancelKeeps ==
  ASSUME sessions \in Seq(Session), NEW s \in DOMAIN sessions, NEW atEnd \in BOOLEAN,
         Cancel(s, atEnd)
  PROVE  Keeps
<1> DEFINE v == IF atEnd THEN [sessions[s] EXCEPT !.sub.ending = TRUE]
                ELSE [sessions[s] EXCEPT !.sub.status = "canceled"]
<1>1. sessions[s] \in Session /\ sessions[s].sub \in Subscription
  BY SessionParts
<1>2. v \in Session
  BY <1>1 DEF Session, Subscription, SubscriptionStatuses
<1>3. sessions' = [sessions EXCEPT ![s] = v]
  BY DEF Cancel
<1>4. sessions[s].status = "complete" =>
         /\ v.status = "complete"
         /\ sessions[s].sub.status = "canceled" => v.sub.status = "canceled"
  BY <1>1 DEF Cancel, Live, Session, Subscription
<1> QED BY <1>2, <1>3, <1>4, OneSession

LEMMA ProviderKeeps ==
  ASSUME sessions \in Seq(Session), now \in Nat, ProviderMoves
  PROVE  Keeps /\ UNCHANGED now
<1>1. PICK s \in DOMAIN sessions :
         Pay(s) \/ Expire(s) \/ Renew(s) \/ Settle(s) \/ Miss(s) \/ Lapse(s) \/ Pause(s)
  BY DEF ProviderMoves
<1>2. sessions[s] \in Session /\ sessions[s].sub \in Subscription
  BY SessionParts
<1>0. UNCHANGED now
  BY <1>1 DEF Pay, Expire, Renew, Settle, Miss, Lapse, Pause
<1>3. CASE Pay(s)
  <2>1. PICK paid \in BOOLEAN :
          sessions' = [sessions EXCEPT
              ![s].status = "complete",
              ![s].sub = [status |-> IF paid THEN "active" ELSE "past_due",
                          end |-> now + 1, paid |-> paid,
                          paidUntil |-> IF paid THEN now + 1 ELSE 0,
                          ending |-> FALSE, paused |-> FALSE]]
    BY <1>3 DEF Pay
  <2> DEFINE sub == [status |-> IF paid THEN "active" ELSE "past_due",
                     end |-> now + 1, paid |-> paid,
                     paidUntil |-> IF paid THEN now + 1 ELSE 0,
                     ending |-> FALSE, paused |-> FALSE]
             v == [sessions[s] EXCEPT !.status = "complete", !.sub = sub]
  <2>2. sub \in Subscription
    BY DEF Subscription, SubscriptionStatuses
  <2> HIDE DEF sub
  <2>3. v \in Session
    BY <1>2, <2>2 DEF Session
  <2>4. sessions' = [sessions EXCEPT ![s] = v]
    BY <2>1 DEF sub
  <2>5. sessions[s].status # "complete"
    BY <1>3 DEF Pay
  <2> QED BY <1>3, <2>3, <2>4, <2>5, OneSession DEF Pay
<1>4. CASE Expire(s)
  <2> DEFINE v == [sessions[s] EXCEPT !.status = "expired"]
  <2>1. v \in Session /\ sessions' = [sessions EXCEPT ![s] = v]
    BY <1>2, <1>4 DEF Expire, Session
  <2> QED BY <1>4, <2>1, OneSession DEF Expire
<1>5. CASE Renew(s)
  <2> DEFINE sub == [sessions[s].sub EXCEPT !.end = now + 1, !.paid = FALSE]
             v == [sessions[s] EXCEPT !.sub = sub]
  <2>1. sub \in Subscription
    <3>1. \A n \in Nat : [sessions[s].sub EXCEPT !.end = n, !.paid = FALSE] \in Subscription
      BY <1>2 DEF Subscription
    <3>2. now + 1 \in Nat
      OBVIOUS
    <3> QED BY <3>1, <3>2
  <2>2. v \in Session /\ v.status = sessions[s].status
    BY <1>2, <2>1 DEF Session
  <2>3. sessions' = [sessions EXCEPT ![s] = v]
    BY <1>5 DEF Renew
  <2>4. sessions[s].sub.status # "canceled"
    BY <1>5 DEF Renew, Live
  <2> HIDE DEF v
  <2> QED BY <1>0, <2>2, <2>3, <2>4, OneSession
<1>6. CASE Settle(s)
  <2> DEFINE sub == [sessions[s].sub EXCEPT !.status = "active", !.paid = TRUE,
                                            !.paidUntil = sessions[s].sub.end]
             v == [sessions[s] EXCEPT !.sub = sub]
  <2>1. sub \in Subscription
    BY <1>2 DEF Subscription, SubscriptionStatuses
  <2>2. v \in Session /\ v.status = sessions[s].status
    BY <1>2, <2>1 DEF Session
  <2>3. sessions' = [sessions EXCEPT ![s] = v]
    BY <1>6 DEF Settle
  <2>4. sessions[s].sub.status # "canceled"
    BY <1>6 DEF Settle, Live
  <2> HIDE DEF v
  <2> QED BY <1>0, <2>2, <2>3, <2>4, OneSession
<1>7. CASE Miss(s)
  <2> DEFINE v == [sessions[s] EXCEPT !.sub.status = "past_due"]
  <2>1. v \in Session /\ v.status = sessions[s].status
    BY <1>2 DEF Session, Subscription, SubscriptionStatuses
  <2>2. sessions' = [sessions EXCEPT ![s] = v]
    BY <1>7 DEF Miss
  <2> QED BY <1>7, <2>1, <2>2, OneSession DEF Miss, Live
<1>8. CASE Lapse(s)
  <2> DEFINE v == [sessions[s] EXCEPT !.sub.status = "canceled"]
  <2>1. v \in Session /\ v.status = sessions[s].status
    BY <1>2 DEF Session, Subscription, SubscriptionStatuses
  <2>2. sessions' = [sessions EXCEPT ![s] = v]
    BY <1>8 DEF Lapse
  <2> QED BY <1>8, <2>1, <2>2, OneSession DEF Lapse, Live
<1>9. CASE Pause(s)
  <2> DEFINE v == [sessions[s] EXCEPT !.sub.paused = ~@]
  <2>1. v \in Session /\ v.status = sessions[s].status
    BY <1>2 DEF Session, Subscription
  <2>2. sessions' = [sessions EXCEPT ![s] = v]
    BY <1>9 DEF Pause
  <2> QED BY <1>9, <2>1, <2>2, OneSession DEF Pause, Live
<1> QED BY <1>1, <1>3, <1>4, <1>5, <1>6, <1>7, <1>8, <1>9

-----------------------------------------------------------------------------
(* Types of what the steps write, and the initial state.                   *)

LEMMA NoSubscriptionType == NoSubscription \in Subscription
BY DEF NoSubscription, Subscription, SubscriptionStatuses

LEMMA ReplyTypes ==
  /\ NoReply \in Reply /\ Unavailable \in Reply /\ Invalid \in Reply
  /\ \A s \in Nat, sub \in Subscription, tag \in {"snapshot", "session", "expired"} :
        Answer(tag, s, sub) \in Reply
BY NoSubscriptionType DEF NoReply, Unavailable, Invalid, Answer, Reply

LEMMA RestTypes == Idle \in Handler /\ Resting \in Worker
BY ReplyTypes, BillingAssumption DEF Idle, Handler, Resting, Worker

LEMMA AccountType == NewAccount \in Account
BY DEF NewAccount, Account, SubscriptionStatuses

LEMMA NoEventType == NoEvent \in Event
BY BillingAssumption DEF NoEvent, Event

\* The latest completed checkout is one, as soon as there is any.
LEMMA LastCompletedIs ==
  ASSUME ops \in Seq(Operation), Newest
  PROVE  /\ LastCompleted \in Nat
         /\ LastCompleted # 0 =>
               /\ LastCompleted \in DOMAIN ops /\ ops[LastCompleted].status = "completed"
               /\ ops[LastCompleted].kind = "checkout"
<1>1. LastCompleted = Latest(Completed)
  BY DEF LastCompleted, Completed
<1>2. CASE Completed = {}
  BY <1>1, <1>2 DEF Latest
<1>3. CASE Completed # {}
  <2>1. Latest(Completed) \in Completed
    BY <1>3 DEF Latest, Newest
  <2> QED BY <1>1, <2>1 DEF Completed, Checkouts
<1> QED BY <1>2, <1>3

LEMMA InitSound == Init => Sound
<1> SUFFICES ASSUME Init PROVE Sound
  OBVIOUS
<1> USE DEF Init, ProviderInit
<1>1. TypeOK
  <2>1. ProviderTypeOK
    BY ProviderAssumption DEF ProviderTypeOK
  <2>2. account \in Account /\ inbox \in [EventIds -> Event]
    BY AccountType, NoEventType
  <2>3. req \in [Requests -> Handler] /\ wk \in [Workers -> Worker]
    BY RestTypes
  <2>4. ops \in Seq(Operation)
    OBVIOUS
  <2>5. deleted \in BOOLEAN /\ lock \in Requests \cup Workers \cup {None}
    OBVIOUS
  <2> QED BY <2>1, <2>2, <2>3, <2>4, <2>5 DEF TypeOK
<1>2. Locking
  BY BillingAssumption DEF Locking, Idle, Resting
<1>3. Linked
  BY DEF Linked, AccountLinked, OperationsLinked, InboxLinked, Terminal, NewAccount, NoEvent
<1>4. InProgress
  BY DEF InProgress, InRequest, InWorker, Idle, Resting
<1>5. Leases
  BY DEF Leases, NoEvent
<1>6. Newest /\ LinkedToLatest
  BY DEF Newest, Completed, Checkouts, LinkedToLatest, NewAccount
<1> QED BY <1>1, <1>2, <1>3, <1>4, <1>5, <1>6 DEF Sound

-----------------------------------------------------------------------------
(* Steps that leave the billing tables alone.                              *)

LEMMA LinkedStays ==
  ASSUME Linked, Keeps, UNCHANGED <<account, ops, inbox>>
  PROVE  Linked'
<1>1. AccountLinked'
  BY KeptObjects DEF Linked, AccountLinked, Bought, Ended, Terminal
<1>2. OperationsLinked'
  BY KeptObjects DEF Keeps, Linked, OperationsLinked, Bought
<1>3. InboxLinked'
  BY KeptObjects DEF Keeps, Linked, InboxLinked, Bought
<1> QED BY <1>1, <1>2, <1>3 DEF Linked

LEMMA CurrentStays ==
  ASSUME Keeps, UNCHANGED account, NEW reply, Current(reply)
  PROVE  Current(reply)'
BY KeptObjects DEF Keeps, Current, Bought, Ended, Terminal

LEMMA TablesStay ==
  ASSUME Newest, LinkedToLatest, UNCHANGED <<account, ops>>
  PROVE  Newest' /\ LinkedToLatest'
BY DEF Newest, LinkedToLatest, Completed, Checkouts, LastCompleted

\* A request whose part of the state, and all it depends on, stays.
LEMMA RequestStays ==
  ASSUME NEW r \in Requests, InRequest(r), Keeps, req'[r] = req[r],
         UNCHANGED <<account, ops, deleted>>, lock' = r => lock = r
  PROVE  InRequest(r)'
<1>1. req[r].pc = "commit" => Current(req[r].reply)'
  BY CurrentStays DEF InRequest
<1> QED BY <1>1 DEF InRequest, OnOperation, Current, Terminal, Bought, Ended

LEMMA WorkerStays ==
  ASSUME NEW w \in Workers, InWorker(w), Keeps, wk'[w] = wk[w],
         UNCHANGED <<account, inbox>>
  PROVE  InWorker(w)'
<1>1. wk[w].pc = "commit" => Current(wk[w].reply)'
  BY CurrentStays DEF InWorker
<1> QED BY <1>1 DEF InWorker, HoldsLease, Current, Terminal, Bought, Ended

\* The provider's own moves, and time.
LEMMA WorldMoves ==
  ASSUME Sound, Keeps, now' \in 0..MaxTime, UNCHANGED <<billing, lock, req, wk>>
  PROVE  Sound'
<1>1. TypeOK'
  BY DEF Sound, TypeOK, ProviderTypeOK, Keeps
<1>2. Locking'
  BY DEF Sound, Locking
<1>3. Linked'
  BY LinkedStays DEF Sound
<1>4. InProgress'
  BY RequestStays, WorkerStays DEF Sound, InProgress
<1>5. Leases'
  BY DEF Sound, Leases
<1> QED BY <1>1, <1>2, <1>3, <1>4, <1>5, TablesStay DEF Sound

-----------------------------------------------------------------------------
(* Requests: the steps between their transactions' ends.                   *)

LEMMA RequestParts ==
  ASSUME TypeOK, NEW r \in Requests
  PROVE  /\ req[r] \in Handler /\ req[r].op \in Nat /\ req[r].since \in Nat
         /\ req[r].reply \in Reply
<1>1. req[r] \in Handler
  BY DEF TypeOK
<1> QED BY <1>1 DEF Handler

\* A request moves on (or dies), with the lock if it is inside a transaction;
\* the tables stay.
LEMMA RequestMoves ==
  ASSUME Sound, Keeps, UNCHANGED <<now, billing, wk>>,
         NEW r \in Requests, NEW hd \in Handler, req' = [req EXCEPT ![r] = hd],
         lock' = (IF hd.pc \in {"read", "commit"} THEN r
                  ELSE IF lock = r THEN None ELSE lock),
         hd.pc \in {"read", "commit"} => ~deleted /\ lock \in {None, r},
         InRequest(r)'
  PROVE  Sound'
<1>0. /\ r # None /\ r \notin Workers /\ None \notin Workers /\ None \notin Requests
      /\ Requests \cap Workers = {}
  BY BillingAssumption
<1>1. TypeOK'
  <2>1. req' \in [Requests -> Handler]
    BY DEF Sound, TypeOK
  <2>2. lock' \in Requests \cup Workers \cup {None}
    BY DEF Sound, TypeOK
  <2> QED BY <2>1, <2>2 DEF Sound, TypeOK, ProviderTypeOK, Keeps
<1>2. Locking'
  <2>1. req'[r] = hd /\ \A q \in Requests \ {r} : req'[q] = req[q]
    BY DEF Sound, TypeOK
  <2>2. \A q \in Requests : req'[q].pc \in {"read", "commit"} <=> lock' = q
    BY <1>0, <2>1 DEF Sound, Locking
  <2>3. \A w \in Workers : wk'[w].pc = "commit" <=> lock' = w
    BY <1>0 DEF Sound, Locking
  <2> QED BY <1>0, <2>2, <2>3 DEF Sound, Locking
<1>3. Linked'
  BY LinkedStays DEF Sound
<1>4. InProgress'
  <2>1. \A q \in Requests \ {r} : InRequest(q)'
    <3> SUFFICES ASSUME NEW q \in Requests \ {r} PROVE InRequest(q)'
      OBVIOUS
    <3>1. req'[q] = req[q] /\ (lock' = q => lock = q)
      BY <1>0 DEF Sound, TypeOK
    <3> QED BY <3>1, RequestStays DEF Sound, InProgress
  <2>2. \A w \in Workers : InWorker(w)'
    BY WorkerStays DEF Sound, InProgress
  <2> QED BY <2>1, <2>2 DEF InProgress
<1>5. Leases'
  BY DEF Sound, Leases
<1> QED BY <1>1, <1>2, <1>3, <1>4, <1>5, TablesStay DEF Sound

LEMMA WithdrawSound ==
  ASSUME Sound, NEW r \in Requests, Withdraw(r) \/ AbortRequest(r)
  PROVE  Sound'
<1>1. /\ Idle \in Handler /\ req' = [req EXCEPT ![r] = Idle]
      /\ UNCHANGED <<now, sessions, billing, wk>>
  BY RestTypes DEF Withdraw, AbortRequest
<1>2. lock' = IF lock = r THEN None ELSE lock
  BY BillingAssumption DEF Withdraw, AbortRequest, LockFree
<1>3. Idle.pc = "idle" /\ req'[r] = Idle
  BY <1>1 DEF Idle, Sound, TypeOK
<1>4. InRequest(r)'
  BY <1>3 DEF InRequest
<1> QED BY <1>1, <1>2, <1>3, <1>4, RequestMoves, KeepsSame DEF Sound, TypeOK, ProviderTypeOK

\* A request that begins its second transaction, or goes on in it.
LEMMA AnsweredSound ==
  ASSUME Sound, Keeps, UNCHANGED <<now, billing, wk>>,
         NEW r \in Requests, NEW reply \in Reply, NEW pc \in {"read", "commit"},
         Answered(r, pc, reply), ~deleted, lock \in {None, r},
         req[r].kind # "reconcile", req[r].pc # "idle",
         ops[req[r].op].status # "completed",
         pc = "read" => req[r].kind = "cancel",
         pc = "commit" => Current(reply)'
  PROVE  Sound'
<1> DEFINE hd == [req[r] EXCEPT !.pc = pc, !.reply = reply]
<1>1. hd \in Handler /\ hd.pc = pc /\ hd.reply = reply /\ hd.kind = req[r].kind /\ hd.op = req[r].op
  BY RequestParts DEF Sound, Handler
<1>2. req' = [req EXCEPT ![r] = hd] /\ lock' = r /\ req'[r] = hd
  BY DEF Answered, Sound, TypeOK
<1> HIDE DEF hd
<1>3. InRequest(r)
  BY DEF Sound, InProgress
<1>4. InRequest(r)'
  <2>1. OnOperation(r)'
    BY <1>1, <1>2, <1>3 DEF InRequest, OnOperation
  <2>2. pc = "commit" => Current(req[r].reply)'
    BY <1>1, <1>2 DEF Current, Bought, Ended, Terminal
  <2> QED BY <1>1, <1>2, <2>1, <2>2 DEF InRequest
<1> QED BY <1>1, <1>2, <1>4, RequestMoves

LEMMA CallCheckoutSound ==
  ASSUME Sound, NEW r \in Requests, CallCheckout(r)
  PROVE  Sound'
<1>1. /\ sessions \in Seq(Session) /\ now \in Nat /\ req[r].op \in Nat
      /\ NoSubscription \in Subscription /\ Unavailable \in Reply
  BY RequestParts, NoSubscriptionType, ReplyTypes, ProviderAssumption
     DEF Sound, TypeOK, ProviderTypeOK
<1>2. /\ ~deleted /\ lock = None /\ req[r].pc = "ready" /\ req[r].kind = "checkout"
      /\ ops[req[r].op].status # "completed" /\ UNCHANGED <<now, billing, wk>>
  BY DEF CallCheckout, Begin, LockFree, Overtaken
<1>3. CASE \E s \in 1 .. Len(sessions) + 1 :
             /\ Create(req[r].op, s)
             /\ \/ Answered(r, "commit", Answer("session", s, NoSubscription))
                \/ Answered(r, "commit", Unavailable)
  <2>1. PICK s \in 1 .. Len(sessions) + 1 :
             /\ Create(req[r].op, s)
             /\ \/ Answered(r, "commit", Answer("session", s, NoSubscription))
                \/ Answered(r, "commit", Unavailable)
    BY <1>3
  <2>2. s \in Nat /\ Len(sessions) \in Nat
    BY <1>1
  <2>3. Keeps /\ s \in DOMAIN sessions'
    BY <1>1, <2>1, <2>2, CreateKeeps
  <2>4. PICK reply \in {Answer("session", s, NoSubscription), Unavailable} :
          Answered(r, "commit", reply)
    BY <2>1
  <2>5. reply \in Reply
    BY <1>1, <2>2, <2>4, ReplyTypes
  <2>6. /\ reply.tag \in {"session", "unavailable"}
        /\ reply.tag = "session" => reply.session = s
    BY <2>4 DEF Answer, Unavailable
  <2>7. Current(reply)'
    BY <2>3, <2>6 DEF Current
  <2> QED BY <1>2, <2>3, <2>4, <2>5, <2>7, AnsweredSound
<1>4. CASE UNCHANGED sessions /\ Answered(r, "commit", Unavailable)
  <2>1. Keeps /\ Current(Unavailable)'
    BY <1>1, <1>4, KeepsSame DEF Answer, Unavailable, Current
  <2> QED BY <1>1, <1>2, <1>4, <2>1, AnsweredSound
<1> QED BY <1>3, <1>4 DEF CallCheckout

LEMMA CallCancelSound ==
  ASSUME Sound, NEW r \in Requests, CallCancel(r)
  PROVE  Sound'
<1>1. /\ sessions \in Seq(Session) /\ ops \in Seq(Operation)
      /\ NoReply \in Reply /\ Unavailable \in Reply
  BY ReplyTypes DEF Sound, TypeOK, ProviderTypeOK
<1>2. /\ ~deleted /\ lock = None /\ req[r].pc = "ready" /\ req[r].kind = "cancel"
      /\ ops[req[r].op].status # "completed" /\ UNCHANGED <<now, billing, wk>>
  BY DEF CallCancel, Begin, LockFree, Overtaken
<1>3. req[r].op \in DOMAIN ops /\ ops[req[r].op].kind = "cancel"
  BY <1>2 DEF Sound, InProgress, InRequest, OnOperation
<1>4. ops[req[r].op].target \in DOMAIN sessions /\ ops[req[r].op].atEnd \in BOOLEAN
  <2>1. ops[req[r].op] \in Operation
    BY <1>1, <1>3
  <2> QED BY <1>3, <2>1 DEF Sound, Linked, OperationsLinked, Bought, Operation
<1>5. PICK reply \in {NoReply, Unavailable}, pc \in {"read", "commit"} :
        Answered(r, pc, reply)
  BY DEF CallCancel
<1>6. Keeps
  BY <1>1, <1>4, CancelKeeps, KeepsSame DEF CallCancel
<1>7. reply \in Reply /\ Current(reply)'
  BY <1>1, <1>5 DEF Answer, NoReply, Unavailable, Current
<1> QED BY <1>2, <1>5, <1>6, <1>7, AnsweredSound

\* What retrieving an object answers is up to date.
LEMMA ReadIsCurrent ==
  ASSUME Sound, UNCHANGED <<sessions, account>>, NEW s \in Nat,
         NEW reply \in ReadSubscription(s), Bought(s)
  PROVE  /\ reply \in Reply /\ Current(reply)'
         /\ reply.tag \in {"snapshot", "unavailable"}
<1>1. sessions[s].sub \in Subscription
  BY SessionParts DEF Sound, TypeOK, ProviderTypeOK, Bought
<1>2. reply \in Reply /\ reply.tag \in {"snapshot", "unavailable"}
  <2>1. reply \in Reply
    BY <1>1, ReplyTypes DEF ReadSubscription
  <2> QED BY <2>1 DEF ReadSubscription, Answer, Unavailable
<1>3. CASE reply = Unavailable
  BY <1>2, <1>3 DEF Current, Unavailable, Answer
<1>4. CASE reply = Answer("snapshot", s, sessions[s].sub)
  <2>1. reply.tag = "snapshot" /\ reply.session = s /\ reply.sub = sessions[s].sub
    BY <1>4 DEF Answer
  <2>2. Terminal /\ account.sub = s => sessions[s].sub.status = "canceled"
    BY DEF Sound, Linked, AccountLinked, Ended
  <2>3. Current(reply)'
    BY <2>1, <2>2 DEF Current, Bought, Ended, Terminal
  <2> QED BY <1>2, <2>3
<1>5. reply = Unavailable \/ reply = Answer("snapshot", s, sessions[s].sub)
  BY DEF ReadSubscription
<1> QED BY <1>3, <1>4, <1>5

LEMMA CheckoutIsCurrent ==
  ASSUME Sound, UNCHANGED <<sessions, account>>, NEW s \in DOMAIN sessions,
         NEW reply \in ReadCheckout(s)
  PROVE  /\ reply \in Reply /\ Current(reply)'
         /\ reply.tag \in {"snapshot", "unavailable", "expired"}
<1>1. sessions[s].status \in {"open", "expired", "complete"} /\ s \in Nat
  BY SessionParts DEF Sound, TypeOK, ProviderTypeOK, Session
<1>2. CASE sessions[s].status = "complete"
  <2>1. reply \in ReadSubscription(s)
    BY <1>2 DEF ReadCheckout
  <2> QED BY <1>1, <1>2, <2>1, ReadIsCurrent DEF Bought
<1>3. CASE sessions[s].status # "complete"
  <2>1. reply \in {Answer("expired", s, NoSubscription), Unavailable}
    BY <1>1, <1>3 DEF ReadCheckout
  <2>2. reply \in Reply
    BY <1>1, <2>1, ReplyTypes, NoSubscriptionType
  <2>3. reply.tag \in {"expired", "unavailable"}
    BY <2>1 DEF Answer, Unavailable
  <2>4. Current(reply)'
    BY <2>3 DEF Current
  <2> QED BY <2>2, <2>3, <2>4
<1> QED BY <1>2, <1>3

LEMMA ReadCancelSound ==
  ASSUME Sound, NEW r \in Requests, ReadCancel(r)
  PROVE  Sound'
<1>1. /\ req[r].pc = "read" /\ UNCHANGED <<now, sessions, billing, wk>>
      /\ req[r].kind = "cancel" /\ lock = r /\ ~deleted
  BY BillingAssumption DEF ReadCancel, Sound, Locking, InProgress, InRequest
<1>2. /\ req[r].op \in DOMAIN ops /\ ops[req[r].op].kind = "cancel"
      /\ ops[req[r].op].status # "completed"
  BY <1>1 DEF Sound, InProgress, InRequest, OnOperation
<1>3. Bought(ops[req[r].op].target) /\ ops[req[r].op].target \in Nat
  <2>1. ops[req[r].op] \in Operation
    BY <1>2 DEF Sound, TypeOK
  <2> QED BY <1>2, <2>1 DEF Sound, Linked, OperationsLinked, Operation
<1>4. PICK reply \in ReadSubscription(ops[req[r].op].target) : Answered(r, "commit", reply)
  BY DEF ReadCancel
<1>5. reply \in Reply /\ Current(reply)'
  BY <1>1, <1>3, <1>4, ReadIsCurrent
<1>6. Keeps
  BY <1>1, KeepsSame DEF Sound, TypeOK, ProviderTypeOK
<1> QED BY <1>1, <1>2, <1>4, <1>5, <1>6, AnsweredSound

LEMMA ReadReconcileSound ==
  ASSUME Sound, NEW r \in Requests, ReadReconcile(r)
  PROVE  Sound'
<1>1. /\ req[r].pc = "idle" /\ lock = None /\ ~deleted
      /\ UNCHANGED <<now, sessions, billing, wk>>
      /\ account.sub # 0 \/ LastCompleted # 0
  BY DEF ReadReconcile, Enter, LockFree
<1>2. PICK reply \in IF account.sub # 0 THEN ReadSubscription(account.sub)
                     ELSE ReadCheckout(ops[LastCompleted].target) :
        /\ lock' = r
        /\ req' = [req EXCEPT ![r] =
              [pc |-> "commit", kind |-> "reconcile", op |-> LastCompleted,
               since |-> now, reply |-> reply]]
  BY DEF ReadReconcile
<1> DEFINE hd == [pc |-> "commit", kind |-> "reconcile", op |-> LastCompleted,
                  since |-> now, reply |-> reply]
<1>3. /\ LastCompleted \in Nat
      /\ LastCompleted # 0 => /\ LastCompleted \in DOMAIN ops
                              /\ ops[LastCompleted].target \in DOMAIN sessions
  BY LastCompletedIs DEF Sound, TypeOK, Linked, OperationsLinked
<1>4. /\ reply \in Reply /\ Current(reply)'
      /\ reply.tag \in {"snapshot", "unavailable", "expired"}
      /\ reply.tag = "expired" => account.sub = 0
  <2>1. CASE account.sub # 0
    <3>1. Bought(account.sub) /\ account.sub \in Nat
      BY <2>1 DEF Sound, TypeOK, Account, Linked, AccountLinked
    <3> QED BY <1>1, <1>2, <2>1, <3>1, ReadIsCurrent
  <2>2. CASE account.sub = 0
    BY <1>1, <1>2, <1>3, <2>2, CheckoutIsCurrent
  <2> QED BY <2>1, <2>2
<1>5. hd \in Handler
  <2>1. now \in Nat
    BY ProviderAssumption DEF Sound, TypeOK, ProviderTypeOK
  <2> QED BY <1>3, <1>4, <2>1 DEF Handler
<1>6. req'[r] = hd
  BY <1>2 DEF Sound, TypeOK
<1>7. InRequest(r)'
  <2>1. Current(req[r].reply)'
    BY <1>4, <1>6 DEF Current, Bought, Ended, Terminal
  <2>2. account'.sub = 0 => req'[r].op \in DOMAIN ops'
    BY <1>1, <1>3, <1>6
  <2> QED BY <1>1, <1>4, <1>6, <2>1, <2>2 DEF InRequest, OnOperation
<1>8. Keeps
  BY <1>1, KeepsSame DEF Sound, TypeOK, ProviderTypeOK
<1> QED BY <1>1, <1>2, <1>5, <1>7, <1>8, RequestMoves

-----------------------------------------------------------------------------
(* Requests: the reservation.                                              *)

LEMMA ReadyType ==
  ASSUME now \in Nat, NEW i \in Nat, NEW kind \in {"checkout", "cancel"}
  PROVE  [Idle EXCEPT !.pc = "ready", !.kind = kind, !.op = i, !.since = now] \in Handler
BY ReplyTypes DEF Idle, Handler

\* An operation that exists is taken up again ...
LEMMA RetrySound ==
  ASSUME Sound, NEW r \in Requests, NEW kind \in {"checkout", "cancel"},
         NEW i \in DOMAIN ops, ops[i].kind = kind, Ready(r, kind, i), lock = None,
         UNCHANGED <<now, sessions, billing, lock, wk>>
  PROVE  Sound'
<1> DEFINE hd == [Idle EXCEPT !.pc = "ready", !.kind = kind, !.op = i, !.since = now]
<1>1. i \in DOMAIN ops /\ ops[i].kind = kind /\ i \in Nat
  BY DEF Sound, TypeOK
<1>2. hd \in Handler
  <2>1. now \in Nat
    BY ProviderAssumption DEF Sound, TypeOK, ProviderTypeOK
  <2> QED BY <1>1, <2>1, ReadyType
<1>3. req' = [req EXCEPT ![r] = hd] /\ req'[r] = hd
  BY DEF Ready, Sound, TypeOK
<1>4. hd.pc = "ready" /\ hd.kind = kind /\ hd.op = i
  BY DEF Idle
<1> HIDE DEF hd
<1>5. InRequest(r)'
  BY <1>1, <1>3, <1>4, BillingAssumption DEF InRequest, OnOperation
<1>6. Keeps
  BY KeepsSame DEF Sound, TypeOK, ProviderTypeOK
<1> QED BY <1>2, <1>3, <1>4, <1>5, <1>6, RequestMoves, BillingAssumption

\* ... or a new one is appended.
LEMMA ReserveSound ==
  ASSUME Sound, NEW r \in Requests, NEW kind \in {"checkout", "cancel"},
         NEW o \in Operation, o.kind = kind, o.status = "pending",
         kind = "cancel" => Bought(o.target),
         ops' = Append(ops, o), Ready(r, kind, Len(ops) + 1), lock = None,
         UNCHANGED <<now, sessions, account, inbox, deleted, lock, wk>>
  PROVE  Sound'
<1> DEFINE hd == [Idle EXCEPT !.pc = "ready", !.kind = kind, !.op = Len(ops) + 1, !.since = now]
<1>0. /\ ops \in Seq(Operation) /\ Len(ops) \in Nat /\ now \in Nat
      /\ sessions \in Seq(Session)
  BY ProviderAssumption DEF Sound, TypeOK, ProviderTypeOK
<1>1. /\ ops' \in Seq(Operation) /\ DOMAIN ops' = 1 .. Len(ops) + 1
      /\ DOMAIN ops = 1 .. Len(ops)
      /\ \A i \in DOMAIN ops : ops'[i] = ops[i]
      /\ ops'[Len(ops) + 1] = o
  BY <1>0
<1>2. hd \in Handler
  <2>1. Len(ops) + 1 \in Nat
    BY <1>0
  <2> QED BY <1>0, <2>1, ReadyType
<1>3. /\ req' \in [Requests -> Handler] /\ req'[r] = hd
      /\ \A q \in Requests \ {r} : req'[q] = req[q]
  BY <1>2 DEF Ready, Sound, TypeOK
<1>4. hd.pc = "ready" /\ hd.kind = kind /\ hd.op = Len(ops) + 1
  BY DEF Idle
<1> HIDE DEF hd
<1>5. TypeOK'
  BY <1>1, <1>3 DEF Sound, TypeOK, ProviderTypeOK
<1>6. Locking'
  BY <1>3, <1>4, BillingAssumption DEF Sound, Locking
<1>7. Linked'
  <2>1. AccountLinked' /\ InboxLinked'
    BY DEF Sound, Linked, AccountLinked, InboxLinked, Bought, Ended, Terminal
  <2>2. OperationsLinked'
    <3> SUFFICES ASSUME NEW i \in DOMAIN ops'
                 PROVE  /\ ops'[i].kind = "cancel" => Bought(ops'[i].target)
                        /\ ops'[i].status = "completed" => ops'[i].target \in DOMAIN sessions
      BY DEF OperationsLinked, Bought
    <3>1. CASE i \in DOMAIN ops
      BY <1>1, <3>1 DEF Sound, Linked, OperationsLinked
    <3>2. CASE i = Len(ops) + 1
      BY <1>1, <3>2
    <3> QED BY <1>0, <1>1, <3>1, <3>2
  <2> QED BY <2>1, <2>2 DEF Linked
<1>8. InProgress'
  <2>1. InRequest(r)'
    <3>1. Len(ops) + 1 \in DOMAIN ops'
      BY <1>0, <1>1
    <3> QED BY <1>1, <1>3, <1>4, <3>1, BillingAssumption DEF InRequest, OnOperation
  <2>2. ASSUME NEW q \in Requests \ {r} PROVE InRequest(q)'
    <3>1. /\ InRequest(q) /\ req'[q] = req[q] /\ lock' # q
          /\ req[q].pc \notin {"read", "commit"}
      BY <1>3, BillingAssumption DEF Sound, InProgress, Locking
    <3>2. req[q].pc # "idle" /\ ~deleted => OnOperation(q)'
      BY <1>1, <1>0, <3>1 DEF InRequest, OnOperation
    <3> QED BY <3>1, <3>2 DEF InRequest
  <2>3. \A w \in Workers : InWorker(w)'
    BY <1>0, KeepsSame, WorkerStays DEF Sound, InProgress
  <2> QED BY <2>1, <2>2, <2>3 DEF InProgress
<1>9. Leases'
  BY DEF Sound, Leases
<1>10. Newest' /\ LinkedToLatest'
  <2>1. Completed' = Completed
    BY <1>0, <1>1 DEF Completed, Checkouts
  <2>2. LastCompleted' = LastCompleted
    BY <2>1 DEF LastCompleted, Completed
  <2>3. LastCompleted # 0 => LastCompleted \in DOMAIN ops
    BY <1>0, LastCompletedIs DEF Sound
  <2> QED BY <1>1, <2>1, <2>2, <2>3 DEF Sound, Newest, LinkedToLatest
<1> QED BY <1>5, <1>6, <1>7, <1>8, <1>9, <1>10 DEF Sound

LEMMA StartCheckoutSound ==
  ASSUME Sound, NEW r \in Requests, NEW key \in CheckoutKeys, StartCheckout(r, key)
  PROVE  Sound'
<1>1. lock = None /\ UNCHANGED <<now, sessions, account, inbox, deleted, lock, wk>>
  BY DEF StartCheckout, Enter, LockFree
<1>2. ASSUME NEW i \in Placed("checkout", key), Ready(r, "checkout", i), UNCHANGED ops
      PROVE  Sound'
  <2>1. i \in DOMAIN ops /\ ops[i].kind = "checkout"
    BY DEF Placed
  <2> QED BY <1>1, <1>2, <2>1, RetrySound
<1>3. ASSUME ops' = Append(ops, Reserve("checkout", key, 0, FALSE)),
             Ready(r, "checkout", Len(ops) + 1)
      PROVE  Sound'
  <2> DEFINE o == Reserve("checkout", key, 0, FALSE)
  <2>1. o \in Operation /\ o.kind = "checkout" /\ o.status = "pending"
    BY ProviderAssumption DEF Reserve, Operation, Sound, TypeOK, ProviderTypeOK
  <2> HIDE DEF o
  <2> QED BY <1>1, <1>3, <2>1, ReserveSound DEF o
<1> QED BY <1>2, <1>3 DEF StartCheckout

LEMMA StartCancelSound ==
  ASSUME Sound, NEW r \in Requests, NEW key \in CancelKeys, NEW atEnd \in BOOLEAN,
         StartCancel(r, key, atEnd)
  PROVE  Sound'
<1>1. /\ lock = None /\ UNCHANGED <<now, sessions, account, inbox, deleted, lock, wk>>
      /\ account.sub # 0
  BY DEF StartCancel, Enter, LockFree
<1>2. ASSUME NEW i \in Placed("cancel", key), Ready(r, "cancel", i), UNCHANGED ops
      PROVE  Sound'
  <2>1. i \in DOMAIN ops /\ ops[i].kind = "cancel"
    BY DEF Placed
  <2> QED BY <1>1, <1>2, <2>1, RetrySound
<1>3. ASSUME ops' = Append(ops, Reserve("cancel", key, account.sub, atEnd)),
             Ready(r, "cancel", Len(ops) + 1)
      PROVE  Sound'
  <2> DEFINE o == Reserve("cancel", key, account.sub, atEnd)
  <2>1. /\ o \in Operation /\ o.kind = "cancel" /\ o.status = "pending"
        /\ o.target = account.sub
    BY ProviderAssumption DEF Reserve, Operation, Sound, TypeOK, ProviderTypeOK, Account
  <2>2. Bought(o.target)
    BY <1>1, <2>1 DEF Sound, Linked, AccountLinked
  <2> HIDE DEF o
  <2> QED BY <1>1, <1>3, <2>1, <2>2, ReserveSound DEF o
<1> QED BY <1>2, <1>3 DEF StartCancel

-----------------------------------------------------------------------------
(* Commits: what they write to the tables.                                 *)

\* The account's link agrees with the latest completed checkout.
Follows == account'.sub # 0 => LastCompleted # 0 /\ ops[LastCompleted].target = account'.sub

\* A recorded end stays, for the same subscription.
KeepsEnd == Terminal /\ account'.sub = account.sub => account'.status = "canceled"

LEMMA AccountKept ==
  ASSUME Sound, UNCHANGED sessions, account'.sub = account.sub,
         account'.status = account.status
  PROVE  AccountLinked' /\ Follows /\ KeepsEnd
BY DEF Sound, Linked, AccountLinked, Bought, Ended, Terminal, LinkedToLatest, Follows, KeepsEnd

\* Applying a snapshot that is up to date.
LEMMA AppliedSound ==
  ASSUME Sound, UNCHANGED sessions, NEW reply \in Reply, Current(reply),
         reply.tag = "snapshot",
         NEW sync \in {"ready", "pending", "retrying", "unknown"},
         account' = Applied(reply) \/ account' = [Applied(reply) EXCEPT !.sync = sync]
  PROVE  account' \in Account /\ AccountLinked' /\ Follows /\ KeepsEnd
<1>0. account \in Account /\ account.paidThrough \in Nat
  BY DEF Sound, TypeOK, Account
<1>1. CASE ~Belongs(reply.session)
  <2>1. Applied(reply) = account
    BY <1>1 DEF Applied
  <2>2. /\ account' \in Account /\ account'.sub = account.sub
        /\ account'.status = account.status
    BY <1>0, <2>1 DEF Account
  <2> QED BY <2>2, AccountKept
<1>2. CASE Belongs(reply.session)
  <2>1. /\ reply.sub \in Subscription /\ reply.session \in Nat
        /\ PaidThrough(reply.sub) \in Nat
    BY <1>0 DEF Reply, Subscription, PaidThrough
  <2>2. /\ Applied(reply) \in Account /\ Applied(reply).sub = reply.session
        /\ Applied(reply).status = reply.sub.status
    BY <1>2, <2>1 DEF Applied, Account, Subscription
  <2>3. /\ account' \in Account /\ account'.sub = reply.session
        /\ account'.status = reply.sub.status
    BY <2>2 DEF Account
  <2>4. AccountLinked'
    BY <2>3 DEF Current, AccountLinked, Terminal, Bought, Ended
  <2>5. Follows
    BY <1>2, <2>3 DEF Belongs, Follows, Sound, LinkedToLatest
  <2>6. KeepsEnd
    BY <2>3 DEF KeepsEnd, Current
  <2> QED BY <2>3, <2>4, <2>5, <2>6
<1> QED BY <1>1, <1>2

\* An operation changes, but the completed checkouts do not.
LEMMA OperationChanges ==
  ASSUME Sound, UNCHANGED sessions, NEW i \in DOMAIN ops, NEW o \in Operation,
         ops' = [ops EXCEPT ![i] = o], o.kind = ops[i].kind, o.target = ops[i].target,
         o.status = "completed" => ops[i].status = "completed" \/ o.kind = "cancel",
         ops[i].status = "completed" => o.status = "completed"
  PROVE  /\ ops' \in Seq(Operation) /\ DOMAIN ops' = DOMAIN ops
         /\ \A j \in DOMAIN ops :
               /\ ops'[j].kind = ops[j].kind /\ ops'[j].target = ops[j].target
               /\ ops[j].status = "completed" => ops'[j].status = "completed"
         /\ OperationsLinked' /\ Newest' /\ LastCompleted' = LastCompleted
         /\ LastCompleted # 0 => ops'[LastCompleted].target = ops[LastCompleted].target
<1>1. ops \in Seq(Operation)
  BY DEF Sound, TypeOK
<1>2. /\ ops' \in Seq(Operation) /\ DOMAIN ops' = DOMAIN ops
      /\ ops'[i] = o /\ \A j \in DOMAIN ops \ {i} : ops'[j] = ops[j]
  BY <1>1
<1>3. Completed' = Completed
  BY <1>2 DEF Completed, Checkouts
<1>4. LastCompleted' = LastCompleted /\ Newest'
  BY <1>3 DEF LastCompleted, Completed, Newest, Sound
<1>5. OperationsLinked'
  BY <1>2 DEF Sound, Linked, OperationsLinked, Bought
<1>6. \A j \in DOMAIN ops :
        /\ ops'[j].kind = ops[j].kind /\ ops'[j].target = ops[j].target
        /\ ops[j].status = "completed" => ops'[j].status = "completed"
  BY <1>2
<1>7. LastCompleted # 0 => LastCompleted \in DOMAIN ops
  BY <1>1, LastCompletedIs DEF Sound
<1> QED BY <1>2, <1>4, <1>5, <1>6, <1>7

\* A request commits and releases the lock.
LEMMA RequestCommits ==
  ASSUME Sound, NEW r \in Requests, lock = r, Done(r),
         account' \in Account, AccountLinked',
         ops' \in Seq(Operation), DOMAIN ops' = DOMAIN ops,
         \A i \in DOMAIN ops : ops'[i].kind = ops[i].kind,
         OperationsLinked', Newest', LinkedToLatest'
  PROVE  Sound'
<1>0. /\ lock' = None /\ UNCHANGED <<now, sessions, inbox, deleted, wk>>
      /\ req' = [req EXCEPT ![r] = Idle]
      /\ None \notin Requests /\ None \notin Workers /\ r \notin Workers
  BY BillingAssumption DEF Done
<1>1. /\ req' \in [Requests -> Handler] /\ req'[r].pc = "idle"
      /\ \A q \in Requests \ {r} : req'[q] = req[q] /\ req[q].pc \notin {"read", "commit"}
  BY <1>0, RestTypes DEF Sound, TypeOK, Idle, Locking
<1>2. TypeOK'
  BY <1>0, <1>1 DEF Sound, TypeOK, ProviderTypeOK
<1>3. Locking'
  BY <1>0, <1>1 DEF Sound, Locking
<1>4. Linked'
  BY <1>0 DEF Sound, Linked, InboxLinked, Bought
<1>5. InProgress'
  <2>1. InRequest(r)'
    BY <1>1 DEF InRequest
  <2>2. \A q \in Requests \ {r} : InRequest(q)'
    BY <1>0, <1>1 DEF Sound, InProgress, InRequest, OnOperation
  <2>3. ASSUME NEW w \in Workers PROVE InWorker(w)'
    <3>1. InWorker(w) /\ wk[w].pc # "commit"
      BY <1>0 DEF Sound, InProgress, Locking
    <3> QED BY <1>0, <3>1 DEF InWorker
  <2> QED BY <2>1, <2>2, <2>3 DEF InProgress
<1>6. Leases'
  BY <1>0 DEF Sound, Leases
<1> QED BY <1>2, <1>3, <1>4, <1>5, <1>6 DEF Sound

-----------------------------------------------------------------------------
(* Commits of requests.                                                    *)

KeepsResults ==
    \A i \in DOMAIN ops :
        ops[i].status = "completed" /\ ~deleted' =>
            ops'[i].status = "completed" /\ ops'[i].target = ops[i].target

\* Where a request stands when it commits.
LEMMA Commit ==
  ASSUME Sound, NEW r \in Requests, req[r].pc = "commit"
  PROVE  /\ lock = r /\ ~deleted /\ req[r].reply \in Reply /\ Current(req[r].reply)
         /\ account \in Account /\ ops \in Seq(Operation)
         /\ req[r].kind # "reconcile" =>
               /\ req[r].op \in DOMAIN ops /\ ops[req[r].op] \in Operation
               /\ ops[req[r].op].kind = req[r].kind
               /\ ops[req[r].op].status # "completed"
<1>1. lock = r /\ ~deleted
  BY BillingAssumption DEF Sound, Locking
<1>2. req[r].reply \in Reply /\ Current(req[r].reply)
  BY RequestParts DEF Sound, InProgress, InRequest
<1>3. account \in Account /\ ops \in Seq(Operation)
  BY DEF Sound, TypeOK
<1>4. req[r].kind # "reconcile" =>
         /\ req[r].op \in DOMAIN ops /\ ops[req[r].op].kind = req[r].kind
         /\ ops[req[r].op].status # "completed"
  BY <1>1 DEF Sound, InProgress, InRequest, OnOperation
<1>5. req[r].op \in DOMAIN ops => ops[req[r].op] \in Operation
  BY <1>3
<1> QED BY <1>1, <1>2, <1>3, <1>4, <1>5

\* The call's outcome is uncertain.
LEMMA UncertainSound ==
  ASSUME Sound, NEW r \in Requests, req[r].pc = "commit", req[r].kind # "reconcile",
         Done(r), Uncertain(req[r].op), account' \in Account, AccountLinked', Follows
  PROVE  Sound' /\ KeepsResults
<1> DEFINE i == req[r].op
           o == [ops[i] EXCEPT !.status = "unknown"]
<1>1. /\ i \in DOMAIN ops /\ ops[i] \in Operation /\ ops[i].status # "completed"
      /\ lock = r /\ UNCHANGED sessions
  BY Commit DEF Done
<1>2. /\ o \in Operation /\ o.kind = ops[i].kind /\ o.target = ops[i].target
      /\ o.status = "unknown"
  BY <1>1 DEF Operation
<1>3. ops' = [ops EXCEPT ![i] = o]
  BY DEF Uncertain
<1> HIDE DEF i, o
<1>4. /\ ops' \in Seq(Operation) /\ DOMAIN ops' = DOMAIN ops
      /\ \A j \in DOMAIN ops :
            /\ ops'[j].kind = ops[j].kind /\ ops'[j].target = ops[j].target
            /\ ops[j].status = "completed" => ops'[j].status = "completed"
      /\ OperationsLinked' /\ Newest' /\ LastCompleted' = LastCompleted
      /\ LastCompleted # 0 => ops'[LastCompleted].target = ops[LastCompleted].target
  BY <1>1, <1>2, <1>3, OperationChanges
<1>5. LinkedToLatest'
  BY <1>4 DEF LinkedToLatest, Follows
<1>6. Sound'
  BY <1>1, <1>4, <1>5, RequestCommits
<1> QED BY <1>4, <1>6 DEF KeepsResults

LEMMA SyncSound ==
  ASSUME Sound, UNCHANGED sessions, NEW sync \in {"ready", "pending", "retrying", "unknown"},
         account' = [account EXCEPT !.sync = sync]
  PROVE  account' \in Account /\ AccountLinked' /\ Follows /\ KeepsEnd
<1>1. /\ account' \in Account /\ account'.sub = account.sub
      /\ account'.status = account.status
  BY DEF Sound, TypeOK, Account
<1> QED BY <1>1, AccountKept

LEMMA FinishCheckoutSound ==
  ASSUME Sound, NEW r \in Requests, FinishCheckout(r)
  PROVE  Sound' /\ KeepsEnd /\ KeepsResults
<1> DEFINE i == req[r].op
           reply == req[r].reply
<1>1. req[r].pc = "commit" /\ req[r].kind = "checkout" /\ Done(r) /\ UNCHANGED sessions
  BY DEF FinishCheckout, Committing, Done
<1>2. CASE reply.tag # "session"
  <2>1. Uncertain(i) /\ account' = [account EXCEPT !.sync = "retrying"]
    BY <1>2 DEF FinishCheckout
  <2> QED BY <1>1, <2>1, SyncSound, UncertainSound
<1>3. CASE reply.tag = "session"
  <2>1. /\ ops' = [ops EXCEPT ![i].status = "completed", ![i].target = reply.session]
        /\ account' = [sub |-> 0, status |-> "pending", sync |-> "pending", paidThrough |-> 0]
    BY <1>3 DEF FinishCheckout
  <2>2. /\ lock = r /\ i \in DOMAIN ops /\ ops[i] \in Operation /\ ops[i].kind = "checkout"
        /\ ops[i].status # "completed" /\ ops \in Seq(Operation)
        /\ reply \in Reply /\ reply.session \in DOMAIN sessions
    BY <1>1, <1>3, Commit DEF Current
  <2> DEFINE o == [ops[i] EXCEPT !.status = "completed", !.target = reply.session]
  <2>3. /\ o \in Operation /\ o.kind = "checkout" /\ o.status = "completed"
        /\ o.target = reply.session
    BY <2>2 DEF Operation, Reply
  <2>4. ops' = [ops EXCEPT ![i] = o]
    BY <2>1, <2>2 DEF Operation
  <2> HIDE DEF o
  <2>5. /\ ops' \in Seq(Operation) /\ DOMAIN ops' = DOMAIN ops /\ ops'[i] = o
        /\ \A j \in DOMAIN ops \ {i} : ops'[j] = ops[j]
    BY <2>2, <2>3, <2>4
  <2>6. account' \in Account /\ account'.sub = 0 /\ account'.status = "pending"
    BY <2>1 DEF Account
  <2>7. AccountLinked' /\ LinkedToLatest' /\ KeepsEnd
    BY <2>6 DEF AccountLinked, Terminal, LinkedToLatest, KeepsEnd
  <2>8. OperationsLinked'
    BY <1>1, <2>2, <2>3, <2>5 DEF Sound, Linked, OperationsLinked, Bought
  <2>9. Newest'
    <3>1. Completed' = Completed \cup {i}
      BY <2>2, <2>3, <2>5 DEF Completed, Checkouts
    <3>2. i \in Nat /\ Completed \subseteq Nat
      BY <2>2 DEF Completed, Checkouts
    <3> HIDE DEF i
    <3>3. \E m \in Completed \cup {i} : \A j \in Completed \cup {i} : j <= m
      <4>1. CASE Completed = {}
        BY <3>2, <4>1
      <4>2. CASE Completed # {}
        <5>1. PICK m \in Completed : \A j \in Completed : j <= m
          BY <4>2 DEF Sound, Newest
        <5>2. CASE i <= m
          BY <5>1, <5>2
        <5>3. CASE ~(i <= m)
          BY <3>2, <5>1, <5>3
        <5> QED BY <5>2, <5>3
      <4> QED BY <4>1, <4>2
    <3> QED BY <3>1, <3>3 DEF Newest
  <2>10. \A j \in DOMAIN ops : ops'[j].kind = ops[j].kind
    BY <2>2, <2>3, <2>5
  <2>11. Sound'
    BY <1>1, <2>2, <2>5, <2>6, <2>7, <2>8, <2>9, <2>10, RequestCommits
  <2> QED BY <2>2, <2>5, <2>7, <2>11 DEF KeepsResults
<1> QED BY <1>2, <1>3

LEMMA FinishCancelSound ==
  ASSUME Sound, NEW r \in Requests, FinishCancel(r)
  PROVE  Sound' /\ KeepsEnd /\ KeepsResults
<1> DEFINE i == req[r].op
           reply == req[r].reply
<1>1. req[r].pc = "commit" /\ req[r].kind = "cancel" /\ Done(r) /\ UNCHANGED sessions
  BY DEF FinishCancel, Committing, Done
<1>2. /\ lock = r /\ i \in DOMAIN ops /\ ops[i] \in Operation /\ ops[i].kind = "cancel"
      /\ ops[i].status # "completed" /\ reply \in Reply /\ Current(reply)
  BY <1>1, Commit
<1>3. CASE reply.tag = "snapshot" /\ Confirms(reply.sub, ops[i].atEnd)
  <2>1. /\ ops' = [ops EXCEPT ![i].status = "completed"]
        /\ account' = Applied(reply)
    BY <1>3 DEF FinishCancel
  <2> DEFINE o == [ops[i] EXCEPT !.status = "completed"]
  <2>2. /\ o \in Operation /\ o.kind = "cancel" /\ o.target = ops[i].target
        /\ o.status = "completed"
    BY <1>2 DEF Operation
  <2>3. ops' = [ops EXCEPT ![i] = o]
    BY <2>1
  <2>4. account' \in Account /\ AccountLinked' /\ Follows /\ KeepsEnd
    BY <1>1, <1>2, <1>3, <2>1, AppliedSound
  <2> HIDE DEF i, o, reply
  <2>5. /\ ops' \in Seq(Operation) /\ DOMAIN ops' = DOMAIN ops
        /\ \A j \in DOMAIN ops :
              /\ ops'[j].kind = ops[j].kind /\ ops'[j].target = ops[j].target
              /\ ops[j].status = "completed" => ops'[j].status = "completed"
        /\ OperationsLinked' /\ Newest' /\ LastCompleted' = LastCompleted
        /\ LastCompleted # 0 => ops'[LastCompleted].target = ops[LastCompleted].target
    BY <1>1, <1>2, <2>2, <2>3, OperationChanges
  <2>6. LinkedToLatest'
    BY <2>4, <2>5 DEF LinkedToLatest, Follows
  <2>7. Sound'
    BY <1>1, <1>2, <2>4, <2>5, <2>6, RequestCommits
  <2> QED BY <2>4, <2>5, <2>7 DEF KeepsResults
<1>4. CASE reply.tag = "snapshot" /\ ~Confirms(reply.sub, ops[i].atEnd)
  <2>1. Uncertain(i) /\ account' = [Applied(reply) EXCEPT !.sync = "retrying"]
    BY <1>4 DEF FinishCancel
  <2> HIDE DEF reply
  <2>2. account' \in Account /\ AccountLinked' /\ Follows /\ KeepsEnd
    BY <1>1, <1>2, <1>4, <2>1, AppliedSound
  <2> QED BY <1>1, <2>1, <2>2, UncertainSound
<1>5. CASE reply.tag # "snapshot"
  <2>1. Uncertain(i) /\ account' = [account EXCEPT !.sync = "retrying"]
    BY <1>5 DEF FinishCancel
  <2> QED BY <1>1, <2>1, SyncSound, UncertainSound
<1> QED BY <1>3, <1>4, <1>5

LEMMA FinishReconcileSound ==
  ASSUME Sound, NEW r \in Requests, FinishReconcile(r)
  PROVE  Sound' /\ KeepsEnd /\ KeepsResults
<1> DEFINE i == req[r].op
           reply == req[r].reply
<1>1. req[r].pc = "commit" /\ req[r].kind = "reconcile" /\ Done(r) /\ UNCHANGED sessions
  BY DEF FinishReconcile, Committing, Done
<1>2. /\ lock = r /\ reply \in Reply /\ Current(reply) /\ ops \in Seq(Operation)
      /\ reply.tag \in {"expired", "snapshot", "unavailable"}
      /\ reply.tag = "expired" => account.sub = 0 /\ i \in DOMAIN ops
  BY <1>1, Commit DEF Sound, InProgress, InRequest
<1>3. ASSUME UNCHANGED ops, account' \in Account, AccountLinked', Follows
      PROVE  Sound' /\ KeepsResults
  <2>1. Newest' /\ OperationsLinked' /\ LastCompleted' = LastCompleted
    BY <1>1, <1>3 DEF Sound, Newest, Completed, Checkouts, LastCompleted, Linked,
                      OperationsLinked, Bought
  <2>2. LinkedToLatest'
    BY <1>3, <2>1 DEF LinkedToLatest, Follows
  <2>3. Sound'
    BY <1>1, <1>2, <1>3, <2>1, <2>2, RequestCommits
  <2> QED BY <1>3, <2>3 DEF KeepsResults
<1>4. CASE reply.tag = "expired"
  <2>1. /\ ops' = [ops EXCEPT ![i].confirmed = TRUE]
        /\ account' = [account EXCEPT !.status = "none", !.sync = "ready"]
    BY <1>4 DEF FinishReconcile
  <2>2. ops[i] \in Operation
    BY <1>2, <1>4
  <2> DEFINE o == [ops[i] EXCEPT !.confirmed = TRUE]
  <2>3. /\ o \in Operation /\ o.kind = ops[i].kind /\ o.target = ops[i].target
        /\ o.status = ops[i].status
    BY <2>2 DEF Operation
  <2>4. ops' = [ops EXCEPT ![i] = o]
    BY <2>1
  <2>5. account' \in Account /\ account'.sub = 0 /\ account'.status = "none"
    BY <1>2, <1>4, <2>1 DEF Sound, TypeOK, Account
  <2>6. AccountLinked' /\ LinkedToLatest' /\ KeepsEnd
    BY <1>2, <1>4, <2>5 DEF AccountLinked, Terminal, LinkedToLatest, KeepsEnd
  <2> HIDE DEF i, o
  <2>7. /\ ops' \in Seq(Operation) /\ DOMAIN ops' = DOMAIN ops
        /\ \A j \in DOMAIN ops :
              /\ ops'[j].kind = ops[j].kind /\ ops'[j].target = ops[j].target
              /\ ops[j].status = "completed" => ops'[j].status = "completed"
        /\ OperationsLinked' /\ Newest'
    BY <1>1, <1>2, <1>4, <2>3, <2>4, OperationChanges
  <2>8. Sound'
    BY <1>1, <1>2, <2>5, <2>6, <2>7, RequestCommits
  <2> QED BY <2>6, <2>7, <2>8 DEF KeepsResults
<1>5. CASE reply.tag = "snapshot"
  <2>1. account' = Applied(reply) /\ UNCHANGED ops
    BY <1>5 DEF FinishReconcile
  <2> HIDE DEF reply
  <2>2. account' \in Account /\ AccountLinked' /\ Follows /\ KeepsEnd
    BY <1>1, <1>2, <1>5, <2>1, AppliedSound
  <2> QED BY <1>3, <2>1, <2>2
<1>6. CASE reply.tag = "unavailable"
  <2>1. account' = [account EXCEPT !.sync = "retrying"] /\ UNCHANGED ops
    BY <1>6 DEF FinishReconcile
  <2> QED BY <1>1, <1>3, <2>1, SyncSound
<1> QED BY <1>2, <1>4, <1>5, <1>6

-----------------------------------------------------------------------------
(* Workers and the inbox.                                                  *)

KeepsOutcomes ==
    \A e \in EventIds :
        inbox[e].status \in Finished /\ ~deleted' =>
            /\ inbox'[e].status \in Finished
            /\ inbox[e].status # "failed" => inbox'[e] = inbox[e]

LEMMA WorkerParts ==
  ASSUME TypeOK, NEW w \in Workers
  PROVE  /\ wk[w] \in Worker /\ wk[w].event \in EventIds \cup {None}
         /\ wk[w].lease \in 0..MaxAttempts /\ wk[w].reply \in Reply
<1>1. wk[w] \in Worker
  BY DEF TypeOK
<1> QED BY <1>1 DEF Worker

LEMMA EventParts ==
  ASSUME TypeOK, NEW e \in EventIds
  PROVE  /\ inbox[e] \in Event /\ inbox[e].attempts \in 0..MaxAttempts
         /\ inbox[e].target \in Nat
<1>1. inbox[e] \in Event
  BY DEF TypeOK
<1> QED BY <1>1 DEF Event

\* Requests go on undisturbed by steps that leave their tables and lock alone.
LEMMA RequestsStay ==
  ASSUME Sound, UNCHANGED <<sessions, account, ops, deleted, req>>,
         \A r \in Requests : lock' = r => lock = r
  PROVE  \A r \in Requests : InRequest(r)'
<1>1. Keeps
  BY KeepsSame DEF Sound, TypeOK, ProviderTypeOK
<1> QED BY <1>1, RequestStays DEF Sound, InProgress

\* A worker moves on (or dies), with the lock if it is inside a transaction.
LEMMA WorkerMoves ==
  ASSUME Sound, UNCHANGED <<now, sessions, billing, req>>,
         NEW w \in Workers, NEW v \in Worker, wk' = [wk EXCEPT ![w] = v],
         lock' = (IF v.pc = "commit" THEN w ELSE IF lock = w THEN None ELSE lock),
         v.pc = "commit" => ~deleted /\ lock \in {None, w},
         InWorker(w)'
  PROVE  Sound'
<1>0. /\ w # None /\ w \notin Requests /\ None \notin Workers /\ None \notin Requests
      /\ Requests \cap Workers = {} /\ Keeps
  BY BillingAssumption, KeepsSame DEF Sound, TypeOK, ProviderTypeOK
<1>1. TypeOK'
  <2>1. wk' \in [Workers -> Worker] /\ lock' \in Requests \cup Workers \cup {None}
    BY DEF Sound, TypeOK
  <2> QED BY <2>1 DEF Sound, TypeOK, ProviderTypeOK
<1>2. wk'[w] = v /\ \A u \in Workers \ {w} : wk'[u] = wk[u]
  BY DEF Sound, TypeOK
<1>3. Locking'
  <2>1. \A u \in Workers : wk'[u].pc = "commit" <=> lock' = u
    BY <1>0, <1>2 DEF Sound, Locking
  <2>2. \A r \in Requests : req'[r].pc \in {"read", "commit"} <=> lock' = r
    BY <1>0 DEF Sound, Locking
  <2> QED BY <1>0, <2>1, <2>2 DEF Sound, Locking
<1>4. Linked'
  BY <1>0, LinkedStays DEF Sound
<1>5. InProgress'
  <2>1. \A r \in Requests : InRequest(r)'
    BY <1>0, RequestsStay
  <2>2. \A u \in Workers \ {w} : InWorker(u)'
    BY <1>0, <1>2, WorkerStays DEF Sound, InProgress
  <2> QED BY <2>1, <2>2 DEF InProgress
<1>6. Leases'
  BY DEF Sound, Leases
<1> QED BY <1>1, <1>3, <1>4, <1>5, <1>6, TablesStay DEF Sound

LEMMA RestSound ==
  ASSUME Sound, NEW w \in Workers, GiveUp(w) \/ AbortWorker(w)
  PROVE  Sound'
<1>1. /\ Resting \in Worker /\ wk' = [wk EXCEPT ![w] = Resting]
      /\ UNCHANGED <<now, sessions, billing, req>>
  BY RestTypes DEF GiveUp, AbortWorker
<1>2. lock' = IF lock = w THEN None ELSE lock
  BY BillingAssumption DEF GiveUp, AbortWorker, LockFree
<1>3. Resting.pc = "idle" /\ wk'[w] = Resting
  BY <1>1 DEF Resting, Sound, TypeOK
<1>4. InWorker(w)'
  BY <1>3 DEF InWorker
<1> QED BY <1>1, <1>2, <1>3, <1>4, WorkerMoves

LEMMA ReadEventSound ==
  ASSUME Sound, NEW w \in Workers, ReadEvent(w)
  PROVE  Sound'
<1> DEFINE ev == inbox[wk[w].event]
<1>1. /\ wk[w].pc = "claimed" /\ lock = None /\ ~deleted /\ HoldsLease(w)
      /\ UNCHANGED <<now, sessions, billing, req>> /\ lock' = w
  BY DEF ReadEvent, LockFree, KeepLock
<1>2. wk[w].event \in EventIds /\ wk[w].lease # 0
  BY <1>1 DEF Sound, InProgress, InWorker
<1>3. /\ ev.status # "absent" /\ ev.target \in Nat /\ ev.target \in DOMAIN sessions
      /\ ev.kind = "subscription" => Bought(ev.target)
      /\ ev.kind \in {"checkout", "subscription"}
  <2>1. ev.status # "absent"
    BY <1>1, <1>2 DEF HoldsLease, Sound, Leases
  <2>2. ev \in Event
    BY <1>2, EventParts DEF Sound
  <2> QED BY <1>2, <2>1, <2>2 DEF Sound, Linked, InboxLinked, Event
<1>4. PICK reply \in {Invalid} \cup IF ev.kind = "checkout" THEN ReadCheckout(ev.target)
                                    ELSE ReadSubscription(ev.target) :
        wk' = [wk EXCEPT ![w].pc = "commit", ![w].reply = reply]
  BY DEF ReadEvent
<1> HIDE DEF ev
<1>5. /\ reply \in Reply /\ Current(reply)'
      /\ reply.tag \in {"expired", "snapshot", "unavailable", "invalid"}
  <2>1. CASE reply = Invalid
    <3>1. reply \in Reply
      BY <2>1, ReplyTypes
    <3>2. reply.tag = "invalid"
      BY <2>1 DEF Invalid, Answer
    <3> QED BY <3>1, <3>2 DEF Current
  <2>2. CASE reply \in ReadCheckout(ev.target)
    BY <1>1, <1>3, <2>2, CheckoutIsCurrent
  <2>3. CASE ev.kind = "subscription" /\ reply \in ReadSubscription(ev.target)
    BY <1>1, <1>3, <2>3, ReadIsCurrent
  <2> QED BY <1>3, <1>4, <2>1, <2>2, <2>3
<1> DEFINE v == [wk[w] EXCEPT !.pc = "commit", !.reply = reply]
<1>6. /\ v \in Worker /\ v.pc = "commit" /\ v.reply = reply
      /\ v.event = wk[w].event /\ v.lease = wk[w].lease
  <2>1. wk[w] \in Worker
    BY WorkerParts DEF Sound
  <2> QED BY <1>5, <2>1 DEF Worker
<1>7. wk' = [wk EXCEPT ![w] = v] /\ wk'[w] = v
  BY <1>4 DEF Sound, TypeOK
<1> HIDE DEF v
<1>8. InWorker(w)'
  <2>1. Current(wk[w].reply)'
    BY <1>5, <1>6, <1>7 DEF Current, Bought, Ended, Terminal
  <2>2. HoldsLease(w)'
    BY <1>1, <1>6, <1>7 DEF HoldsLease
  <2> QED BY <1>2, <1>5, <1>6, <1>7, <2>1, <2>2 DEF InWorker
<1> QED BY <1>1, <1>6, <1>7, <1>8, WorkerMoves

LEMMA DeliverSound ==
  ASSUME Sound, NEW e \in EventIds, NEW kind \in {"checkout", "subscription"},
         NEW s \in DOMAIN sessions, Deliver(e, kind, s)
  PROVE  Sound' /\ KeepsOutcomes
<1> DEFINE ev == [NoEvent EXCEPT !.status = "pending", !.kind = kind, !.target = s]
<1>1. /\ UNCHANGED <<now, sessions, account, ops, deleted, lock, req, wk>>
      /\ inbox[e].status = "absent" /\ lock = None /\ inbox' = [inbox EXCEPT ![e] = ev]
      /\ kind = "subscription" => sessions[s].status = "complete"
  BY DEF Deliver, LockFree
<1>2. s \in Nat /\ Keeps
  BY <1>1, KeepsSame DEF Sound, TypeOK, ProviderTypeOK
<1>3. ev \in Event /\ ev.status = "pending" /\ ev.kind = kind /\ ev.target = s /\ ev.lease = 0
  <2>1. ev \in Event /\ ev.status = "pending" /\ ev.kind = kind /\ ev.target = s
    BY <1>2, NoEventType DEF Event
  <2>2. ev.lease = 0
    BY DEF NoEvent
  <2> QED BY <2>1, <2>2
<1> HIDE DEF ev
<1>4. /\ inbox' \in [EventIds -> Event] /\ inbox'[e] = ev
      /\ \A f \in EventIds \ {e} : inbox'[f] = inbox[f]
  BY <1>1, <1>3 DEF Sound, TypeOK
<1>5. TypeOK'
  BY <1>1, <1>4 DEF Sound, TypeOK, ProviderTypeOK
<1>6. Locking'
  BY <1>1 DEF Sound, Locking
<1>7. Linked'
  <2>1. AccountLinked' /\ OperationsLinked'
    BY <1>1 DEF Sound, Linked, AccountLinked, OperationsLinked, Bought, Ended, Terminal
  <2>2. InboxLinked'
    BY <1>1, <1>3, <1>4 DEF Sound, Linked, InboxLinked, Bought
  <2> QED BY <2>1, <2>2 DEF Linked
<1>8. InProgress'
  <2>1. \A r \in Requests : InRequest(r)'
    BY <1>1, RequestsStay
  <2>2. ASSUME NEW w \in Workers PROVE InWorker(w)'
    <3>1. InWorker(w) /\ wk[w].pc # "commit"
      BY <1>1, BillingAssumption DEF Sound, InProgress, Locking
    <3> QED BY <1>1, <3>1 DEF InWorker
  <2> QED BY <2>1, <2>2 DEF InProgress
<1>9. Leases'
  BY <1>3, <1>4 DEF Sound, Leases
<1>10. KeepsOutcomes
  BY <1>1, <1>4 DEF KeepsOutcomes, Finished
<1> QED BY <1>1, <1>5, <1>6, <1>7, <1>8, <1>9, <1>10, TablesStay DEF Sound

\* Claiming an event, or giving it up: its row is not one a worker is inside of.
LEMMA ClaimSound ==
  ASSUME Sound, NEW w \in Workers, NEW e \in EventIds, Claim(w, e)
  PROVE  Sound' /\ KeepsOutcomes
<1> DEFINE ev == IF Exhausted(e) THEN [inbox[e] EXCEPT !.status = "failed"] ELSE Claimed(e)
           v == IF Exhausted(e) THEN wk[w]
                ELSE [Resting EXCEPT !.pc = "claimed", !.event = e,
                                     !.lease = inbox[e].attempts + 1]
<1>1. /\ UNCHANGED <<now, sessions, account, ops, deleted, lock, req>>
      /\ wk[w].pc = "idle" /\ Due(e) /\ inbox' = [inbox EXCEPT ![e] = ev]
      /\ inbox[e].status \in {"pending", "retrying", "processing"}
  BY DEF Claim, Due
<1>2. wk' = [wk EXCEPT ![w] = v]
  BY DEF Claim, Sound, TypeOK
<1>3. inbox[e] \in Event /\ inbox[e].attempts \in 0..MaxAttempts /\ MaxAttempts \in Nat
  BY EventParts, BillingAssumption DEF Sound
<1>4. ~Exhausted(e) => inbox[e].attempts + 1 \in 0..MaxAttempts /\ inbox[e].attempts + 1 # 0
  BY <1>3 DEF Exhausted
<1>5. /\ ev \in Event /\ ev.kind = inbox[e].kind /\ ev.target = inbox[e].target
      /\ ev.status \in {"failed", "processing"}
      /\ ev.status = "failed" => ev.attempts >= MaxAttempts
  <2>1. CASE Exhausted(e)
    BY <1>3, <2>1 DEF Event, Exhausted
  <2>2. CASE ~Exhausted(e)
    <3>1. ev = [inbox[e] EXCEPT !.status = "processing", !.attempts = inbox[e].attempts + 1,
                                !.lease = inbox[e].attempts + 1]
      BY <2>2 DEF Claimed
    <3>2. \A n \in 0..MaxAttempts :
            [inbox[e] EXCEPT !.status = "processing", !.attempts = n, !.lease = n] \in Event
      BY <1>3 DEF Event
    <3>3. ev \in Event
      BY <1>4, <2>2, <3>1, <3>2
    <3> QED BY <1>3, <3>1, <3>3 DEF Event
  <2> QED BY <2>1, <2>2
<1>6. v \in Worker /\ v.pc \in {"idle", "claimed"} /\ (v.pc = "claimed" => v.event = e /\ v.lease # 0)
  <2>1. CASE Exhausted(e)
    BY <1>1, <2>1, WorkerParts DEF Sound
  <2>2. CASE ~Exhausted(e)
    BY <1>4, <2>2, ReplyTypes DEF Resting, Worker
  <2> QED BY <2>1, <2>2
<1> HIDE DEF ev, v
<1>7. /\ inbox' \in [EventIds -> Event] /\ inbox'[e] = ev
      /\ \A f \in EventIds \ {e} : inbox'[f] = inbox[f]
      /\ wk' \in [Workers -> Worker] /\ wk'[w] = v
      /\ \A u \in Workers \ {w} : wk'[u] = wk[u]
  BY <1>1, <1>2, <1>5, <1>6 DEF Sound, TypeOK
<1>8. TypeOK'
  BY <1>1, <1>7 DEF Sound, TypeOK, ProviderTypeOK
<1>9. Locking'
  BY <1>1, <1>6, <1>7, BillingAssumption DEF Sound, Locking
<1>10. Linked'
  <2>1. AccountLinked' /\ OperationsLinked'
    BY <1>1 DEF Sound, Linked, AccountLinked, OperationsLinked, Bought, Ended, Terminal
  <2>2. InboxLinked'
    BY <1>1, <1>5, <1>7 DEF Sound, Linked, InboxLinked, Bought
  <2> QED BY <2>1, <2>2 DEF Linked
<1>11. InProgress'
  <2>1. \A r \in Requests : InRequest(r)'
    BY <1>1, RequestsStay
  <2>2. InWorker(w)'
    BY <1>6, <1>7 DEF InWorker
  <2>3. ASSUME NEW u \in Workers \ {w} PROVE InWorker(u)'
    <3>1. InWorker(u) /\ (wk[u].pc = "commit" => lock = u)
      BY DEF Sound, InProgress, Locking
    <3>2. wk[u].pc = "commit" => wk[u].event # e
      BY <1>1, <3>1 DEF Due
    <3>3. wk[u].pc = "commit" => Current(wk[u].reply)'
      BY <1>1, <1>7, <3>1 DEF InWorker, Current, Bought, Ended, Terminal
    <3>4. wk[u].pc = "commit" => HoldsLease(u)'
      BY <1>7, <3>1, <3>2 DEF InWorker, HoldsLease
    <3> QED BY <1>7, <3>1, <3>3, <3>4 DEF InWorker
  <2> QED BY <2>1, <2>2, <2>3 DEF InProgress
<1>12. Leases'
  BY <1>5, <1>7 DEF Sound, Leases
<1>13. KeepsOutcomes
  BY <1>1, <1>7 DEF KeepsOutcomes, Finished
<1> QED BY <1>1, <1>8, <1>9, <1>10, <1>11, <1>12, <1>13, TablesStay DEF Sound

LEMMA FinishEventSound ==
  ASSUME Sound, NEW w \in Workers, FinishEvent(w)
  PROVE  Sound' /\ KeepsEnd /\ KeepsOutcomes
<1> DEFINE e == wk[w].event
           reply == wk[w].reply
           ev == [inbox[e] EXCEPT !.lease = 0, !.status = Outcome(reply, inbox[e].attempts)]
<1>1. /\ wk[w].pc = "commit" /\ account' = AfterEvent(reply) /\ lock' = None
      /\ wk' = [wk EXCEPT ![w] = Resting] /\ UNCHANGED <<now, sessions, ops, deleted, req>>
  BY DEF FinishEvent
<1>2. /\ lock = w /\ e \in EventIds /\ reply \in Reply /\ Current(reply)
      /\ reply.tag \in {"expired", "snapshot", "unavailable", "invalid"}
      /\ inbox[e].lease # 0 /\ inbox[e] \in Event
  <2>1. lock = w /\ InWorker(w)
    BY <1>1 DEF Sound, Locking, InProgress
  <2>2. inbox[e].lease = wk[w].lease /\ wk[w].lease # 0 /\ e \in EventIds
    BY <1>1, <2>1 DEF InWorker, HoldsLease
  <2> QED BY <1>1, <2>1, <2>2, WorkerParts, EventParts DEF Sound, InWorker
<1>3. account' \in Account /\ AccountLinked' /\ Follows /\ KeepsEnd
  <2>1. CASE reply.tag = "expired"
    <3>1. account' = IF account.sub = 0
                     THEN [account EXCEPT !.status = "none", !.sync = "ready"]
                     ELSE account
      BY <1>1, <2>1 DEF AfterEvent
    <3>2. CASE account.sub = 0
      <4>1. account' \in Account /\ account'.sub = 0
        BY <3>1, <3>2 DEF Sound, TypeOK, Account
      <4> QED BY <3>2, <4>1 DEF AccountLinked, Follows, KeepsEnd, Terminal
    <3>3. CASE account.sub # 0
      <4>1. account' = account
        BY <3>1, <3>3
      <4> QED BY <1>1, <4>1, AccountKept DEF Sound, TypeOK
    <3> QED BY <3>2, <3>3
  <2>2. CASE reply.tag = "snapshot"
    <3>1. account' = Applied(reply)
      BY <1>1, <2>2 DEF AfterEvent
    <3> HIDE DEF reply
    <3> QED BY <1>1, <1>2, <2>2, <3>1, AppliedSound
  <2>3. CASE reply.tag \in {"unavailable", "invalid"}
    <3>1. PICK sync \in {"retrying", "unknown"} : account' = [account EXCEPT !.sync = sync]
      BY <1>1, <2>3 DEF AfterEvent
    <3> QED BY <1>1, <3>1, SyncSound
  <2> QED BY <1>2, <2>1, <2>2, <2>3
<1>4. inbox' = [inbox EXCEPT ![e] = ev]
  BY DEF FinishEvent
<1>5. /\ ev \in Event /\ ev.kind = inbox[e].kind /\ ev.target = inbox[e].target
      /\ ev.lease = 0 /\ ev.status \in {"processed", "ignored", "failed", "retrying"}
      /\ ev.status = "retrying" => inbox[e].attempts < MaxAttempts
  <2>1. /\ Outcome(reply, inbox[e].attempts) \in {"processed", "ignored", "failed", "retrying"}
        /\ Outcome(reply, inbox[e].attempts) = "retrying" => inbox[e].attempts < MaxAttempts
    BY <1>2 DEF Outcome
  <2> DEFINE st == Outcome(reply, inbox[e].attempts)
  <2> HIDE DEF e, reply, st
  <2>2. 0 \in 0..MaxAttempts
    BY BillingAssumption
  <2>3. /\ ev \in Event /\ ev.kind = inbox[e].kind /\ ev.target = inbox[e].target
        /\ ev.lease = 0 /\ ev.status = st
    BY <1>2, <2>1, <2>2 DEF Event, st
  <2> QED BY <2>1, <2>3 DEF st
<1>6. inbox[e].status \in Finished => inbox[e].status = "failed" /\ ev.status # "retrying"
  <2>1. /\ inbox[e].status \notin {"processed", "ignored"}
        /\ inbox[e].status = "failed" => inbox[e].attempts >= MaxAttempts
    BY <1>2 DEF Sound, Leases
  <2>2. inbox[e].attempts \in Nat /\ MaxAttempts \in Nat
    BY <1>2, BillingAssumption DEF Event
  <2> HIDE DEF e, ev
  <2> QED BY <1>5, <2>1, <2>2 DEF Finished
<1> HIDE DEF e, ev, reply
<1>7. /\ inbox' \in [EventIds -> Event] /\ inbox'[e] = ev
      /\ \A f \in EventIds \ {e} : inbox'[f] = inbox[f]
      /\ wk' \in [Workers -> Worker] /\ wk'[w].pc = "idle"
      /\ \A u \in Workers \ {w} : wk'[u] = wk[u]
  BY <1>1, <1>2, <1>4, <1>5, RestTypes DEF Sound, TypeOK, Resting
<1>8. TypeOK'
  BY <1>1, <1>3, <1>7 DEF Sound, TypeOK, ProviderTypeOK
<1>9. Locking'
  BY <1>1, <1>2, <1>7, BillingAssumption DEF Sound, Locking
<1>10. Linked'
  <2>1. OperationsLinked'
    BY <1>1 DEF Sound, Linked, OperationsLinked, Bought
  <2>2. InboxLinked'
    <3>1. inbox[e].status # "absent"
      BY <1>2 DEF Sound, Leases
    <3> QED BY <1>1, <1>2, <1>5, <1>7, <3>1 DEF Sound, Linked, InboxLinked, Bought
  <2> QED BY <1>3, <2>1, <2>2 DEF Linked
<1>11. InProgress'
  <2>1. ASSUME NEW r \in Requests PROVE InRequest(r)'
    <3>1. InRequest(r) /\ req[r].pc \notin {"read", "commit"}
      BY <1>2, BillingAssumption DEF Sound, InProgress, Locking
    <3> QED BY <1>1, <3>1, BillingAssumption DEF InRequest, OnOperation
  <2>2. ASSUME NEW u \in Workers PROVE InWorker(u)'
    <3>1. wk'[u].pc = "idle" \/ (wk'[u] = wk[u] /\ InWorker(u) /\ wk[u].pc # "commit")
      BY <1>2, <1>7 DEF Sound, InProgress, Locking
    <3> QED BY <3>1 DEF InWorker
  <2> QED BY <2>1, <2>2 DEF InProgress
<1>12. Leases'
  BY <1>5, <1>7 DEF Sound, Leases
<1>13. Newest' /\ LinkedToLatest'
  <2>1. Newest' /\ LastCompleted' = LastCompleted
    BY <1>1 DEF Sound, Newest, Completed, Checkouts, LastCompleted
  <2> QED BY <1>1, <1>3, <2>1 DEF Follows, LinkedToLatest
<1>14. KeepsOutcomes
  BY <1>2, <1>5, <1>6, <1>7 DEF KeepsOutcomes, Finished
<1> QED BY <1>3, <1>8, <1>9, <1>10, <1>11, <1>12, <1>13, <1>14 DEF Sound

-----------------------------------------------------------------------------
(* Every step.                                                             *)

LEMMA DeleteSound == Sound /\ DeleteProject => Sound'
<1> SUFFICES ASSUME Sound, DeleteProject PROVE Sound'
  OBVIOUS
<1>1. /\ lock = None /\ deleted' = TRUE /\ account' = NewAccount /\ ops' = << >>
      /\ inbox' = [e \in EventIds |-> NoEvent]
      /\ UNCHANGED <<now, sessions, lock, req, wk>>
  BY DEF DeleteProject, LockFree
<1>2. TypeOK'
  <2>1. /\ account' \in Account /\ inbox' \in [EventIds -> Event]
        /\ ops' \in Seq(Operation) /\ deleted' \in BOOLEAN
    BY <1>1, AccountType, NoEventType
  <2> QED BY <1>1, <2>1 DEF Sound, TypeOK, ProviderTypeOK
<1>3. Locking'
  BY <1>1 DEF Sound, Locking
<1>4. Linked'
  BY <1>1 DEF Linked, AccountLinked, OperationsLinked, InboxLinked, Terminal, NewAccount, NoEvent
<1>5. InProgress'
  <2>1. \A r \in Requests : req[r].pc \notin {"read", "commit"}
    BY <1>1, BillingAssumption DEF Sound, Locking
  <2>2. \A w \in Workers : InWorker(w) /\ wk[w].pc # "commit"
    BY <1>1, BillingAssumption DEF Sound, Locking, InProgress
  <2> QED BY <1>1, <2>1, <2>2 DEF InProgress, InRequest, InWorker
<1>6. Leases'
  BY <1>1 DEF Leases, NoEvent
<1>7. Newest' /\ LinkedToLatest'
  BY <1>1 DEF Newest, Completed, Checkouts, LinkedToLatest, NewAccount
<1> QED BY <1>2, <1>3, <1>4, <1>5, <1>6, <1>7 DEF Sound

LEMMA WorldSound == Sound /\ (ProviderMoves \/ Tick) => Sound'
<1> SUFFICES ASSUME Sound, ProviderMoves \/ Tick PROVE Sound'
  OBVIOUS
<1>1. sessions \in Seq(Session) /\ now \in 0..MaxTime /\ now \in Nat
  BY ProviderAssumption DEF Sound, TypeOK, ProviderTypeOK
<1>2. CASE ProviderMoves
  BY <1>1, <1>2, ProviderKeeps, WorldMoves DEF ProviderMoves
<1>3. CASE Tick
  <2>1. Keeps /\ now' \in 0..MaxTime
    BY <1>1, <1>3, KeepsSame, ProviderAssumption DEF Tick
  <2> QED BY <1>3, <2>1, WorldMoves DEF Tick
<1> QED BY <1>2, <1>3

\* What a step may not do to the tables.
Orderly == KeepsEnd /\ KeepsResults /\ KeepsOutcomes

LEMMA TablesSame ==
  /\ UNCHANGED account => KeepsEnd
  /\ UNCHANGED ops => KeepsResults
  /\ UNCHANGED inbox => KeepsOutcomes
BY DEF KeepsEnd, KeepsResults, KeepsOutcomes, Terminal, Finished

LEMMA AppendKeeps ==
  ASSUME ops \in Seq(Operation), NEW o, ops' = Append(ops, o)
  PROVE  KeepsResults
<1>1. \A i \in DOMAIN ops : ops'[i] = ops[i]
  OBVIOUS
<1> QED BY <1>1 DEF KeepsResults

LEMMA RequestSound ==
  ASSUME Sound, NEW r \in Requests, Request(r)
  PROVE  Sound' /\ Orderly
<1>1. ASSUME NEW key \in CheckoutKeys, StartCheckout(r, key) PROVE Sound' /\ Orderly
  <2>1. ops \in Seq(Operation)
    BY DEF Sound, TypeOK
  <2>2. KeepsResults
    BY <1>1, <2>1, AppendKeeps, TablesSame DEF StartCheckout
  <2> QED BY <1>1, <2>2, StartCheckoutSound, TablesSame DEF StartCheckout, Orderly
<1>2. ASSUME NEW key \in CancelKeys, NEW atEnd \in BOOLEAN, StartCancel(r, key, atEnd)
      PROVE  Sound' /\ Orderly
  <2>1. ops \in Seq(Operation)
    BY DEF Sound, TypeOK
  <2>2. KeepsResults
    BY <1>2, <2>1, AppendKeeps, TablesSame DEF StartCancel
  <2> QED BY <1>2, <2>2, StartCancelSound, TablesSame DEF StartCancel, Orderly
<1>3. CASE Withdraw(r) \/ AbortRequest(r)
  BY <1>3, WithdrawSound, TablesSame DEF Withdraw, AbortRequest, Orderly
<1>4. CASE CallCheckout(r)
  BY <1>4, CallCheckoutSound, TablesSame DEF CallCheckout, Orderly
<1>5. CASE CallCancel(r)
  BY <1>5, CallCancelSound, TablesSame DEF CallCancel, Orderly
<1>6. CASE ReadCancel(r)
  BY <1>6, ReadCancelSound, TablesSame DEF ReadCancel, Orderly
<1>7. CASE ReadReconcile(r)
  BY <1>7, ReadReconcileSound, TablesSame DEF ReadReconcile, Orderly
<1>8. CASE FinishCheckout(r)
  BY <1>8, FinishCheckoutSound, TablesSame DEF FinishCheckout, Done, Orderly
<1>9. CASE FinishCancel(r)
  BY <1>9, FinishCancelSound, TablesSame DEF FinishCancel, Done, Orderly
<1>10. CASE FinishReconcile(r)
  BY <1>10, FinishReconcileSound, TablesSame DEF FinishReconcile, Done, Orderly
<1> QED BY <1>1, <1>2, <1>3, <1>4, <1>5, <1>6, <1>7, <1>8, <1>9, <1>10 DEF Request

LEMMA WorkSound ==
  ASSUME Sound, NEW w \in Workers, Work(w)
  PROVE  Sound' /\ Orderly
<1>1. ASSUME NEW e \in EventIds, Claim(w, e) PROVE Sound' /\ Orderly
  BY <1>1, ClaimSound, TablesSame DEF Claim, Orderly
<1>2. CASE GiveUp(w) \/ AbortWorker(w)
  BY <1>2, RestSound, TablesSame DEF GiveUp, AbortWorker, Orderly
<1>3. CASE ReadEvent(w)
  BY <1>3, ReadEventSound, TablesSame DEF ReadEvent, Orderly
<1>4. CASE FinishEvent(w)
  BY <1>4, FinishEventSound, TablesSame DEF FinishEvent, Orderly
<1> QED BY <1>1, <1>2, <1>3, <1>4 DEF Work

LEMMA StepSound == Sound /\ [Next]_vars => Sound' /\ [Orderly]_vars
<1> SUFFICES ASSUME Sound, [Next]_vars PROVE Sound' /\ [Orderly]_vars
  OBVIOUS
<1>1. CASE UNCHANGED vars
  <2>1. Keeps /\ now' \in 0..MaxTime
    BY <1>1, KeepsSame DEF Sound, TypeOK, ProviderTypeOK
  <2> QED BY <1>1, <2>1, WorldMoves
<1>2. CASE Next
  <2>1. CASE \E r \in Requests : Request(r)
    BY <2>1, RequestSound
  <2>2. CASE \E w \in Workers : Work(w)
    BY <2>2, WorkSound
  <2>3. CASE Webhook
    BY <2>3, DeliverSound, TablesSame DEF Webhook, Deliver, Orderly
  <2>4. CASE DeleteProject
    <3>1. Orderly
      BY <2>4 DEF DeleteProject, Orderly, KeepsEnd, KeepsResults, KeepsOutcomes, Terminal, NewAccount
    <3> QED BY <2>4, <3>1, DeleteSound
  <2>5. CASE ProviderMoves \/ Tick
    BY <2>5, WorldSound, TablesSame DEF ProviderMoves, Tick, Orderly
  <2> QED BY <1>2, <2>1, <2>2, <2>3, <2>4, <2>5 DEF Next
<1> QED BY <1>1, <1>2

\* The inductive invariant holds throughout.
THEOREM SoundAlways == Spec => []Sound
<1>1. Sound /\ [Next]_vars => Sound'
  BY StepSound
<1> QED BY <1>1, InitSound, PTL DEF Spec

-----------------------------------------------------------------------------
(* The properties.                                                         *)

\* The billing tables and what requests and workers hold in memory keep their
\* types: in particular no reference to the provider dangles.
THEOREM BillingTypes == Spec => []TypeOK
<1>1. Sound => TypeOK
  BY DEF Sound
<1> QED BY <1>1, SoundAlways, PTL

\* Whatever snapshots requests and workers apply, in whatever order, the account
\* is linked to the purchase of the latest completed checkout only
\* (_apply_snapshot).
THEOREM LinkHolds == Spec => []LinkedToLatest
<1>1. Sound => LinkedToLatest
  BY DEF Sound
<1> QED BY <1>1, SoundAlways, PTL

\* No snapshot, however late it is applied, brings an ended subscription back:
\* the project's lock spans the read at the provider and the commit.
THEOREM EndHolds == Spec => EndIsFinal
<1>1. Sound /\ [Next]_vars =>
        [Terminal /\ account'.sub = account.sub => account'.status = "canceled"]_vars
  BY StepSound DEF Orderly, KeepsEnd
<1> QED BY <1>1, SoundAlways, PTL DEF Spec, EndIsFinal

\* A completed operation keeps its result: the second transaction looks again
\* at the operation before it calls the provider.
THEOREM ResultsHold == Spec => ResultsAreKept
<1>1. Sound /\ [Next]_vars =>
        [\A i \in DOMAIN ops :
            ops[i].status = "completed" /\ ~deleted' =>
                ops'[i].status = "completed" /\ ops'[i].target = ops[i].target]_vars
  BY StepSound DEF Orderly, KeepsResults
<1> QED BY <1>1, SoundAlways, PTL DEF Spec, ResultsAreKept

\* The outcome of an event is final although workers die, lose their leases and
\* come back: the lease is compared, and the row locked, before the work.
THEOREM OutcomesFinal == Spec => OutcomesHold
<1>1. Sound /\ [Next]_vars =>
        [\A e \in EventIds :
            inbox[e].status \in Finished /\ ~deleted' =>
                /\ inbox'[e].status \in Finished
                /\ inbox[e].status # "failed" => inbox'[e] = inbox[e]]_vars
  BY StepSound DEF Orderly, KeepsOutcomes
<1> QED BY <1>1, SoundAlways, PTL DEF Spec, OutcomesHold

=============================================================================
