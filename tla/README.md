# Breakroom in TLA+

A verification development kept beside the Breakroom repository. Breakroom runs support
agents through "fire drills": an agent calls a simulated refund and ticket service that loses,
hides, delays and falsifies answers, and an independent evaluator judges what is left in the
service's database. Around this core there is a team service (projects, members, reports,
billing, sandboxed runs), a public demo service and a web app.

Paths below: `core/` is `packages/breakroom-core/src/breakroom/`, `api/` is
`apps/api/breakroom_api/`.

## 1. The system's parts

| Part | Source | State it keeps | Operations | What is hard |
| --- | --- | --- | --- | --- |
| Test services | `core/simulator.py` | one SQLite file: refunds, idempotency keys, ticket, notes, event deliveries, invocation counts, virtual clock, log | twelve tools, `sleep` | a tool call is several transactions; handlers interleave between them; an answer may be lost after the commit; delayed transitions fire on any clock advance |
| Plan runner | `core/execution.py`, `models.py`, `runner.py`, `worker.py` | one thread and one context per task, a barrier, budgets, a cancel signal | single, sequential and concurrent plans | a barrier some handler may never reach; budgets read in one transaction and spent in another; a worker killed anywhere |
| Reference agents | `core/agents.py` | local variables of nested retry, poll, ticket and event loops | `corrected`, and the mutants the evaluator must detect | each loop may sleep, give up or restart the outer one |
| Evaluator | `core/evaluation_v2.py`, `evaluator.py` | none (reads the database and log) | checks, claims, verdict | claims are judged by the state at the handler's return, later ones by the end |
| Billing | `api/team_billing.py`, `billing_db.py`, `billing_provider.py` | account projection, operations, event inbox | checkout, cancel, reconcile, webhook, worker, deletion check | provider calls inside database transactions; lost answers; leases; late and reordered events |
| Sandbox jobs | `api/sandbox/{api,worker,db,runtime,providers}.py` | jobs, trials, workers, credentials, deployments | deploy, create, cancel and delete run; claim, heartbeat, model call, execute | a slow worker and the sweep that fails its job; a call budget spent across a provider call |
| Team service | `api/team.py`, `team_db.py`, `team_config.py` | users, sessions, projects, memberships, keys, reports, suites | project, member, key and report operations; retention sweep | some operations take the project lock, some do not; a role is read before the lock and again under it |
| Invitations | `api/team_workspace.py` | invitations | create, revoke, accept | an invitation is read before the lock is taken and reserves no seat |
| Password accounts | `api/password_auth.py`, `password_db.py` | credentials, single-use tokens, attempt counters | register, login, verify, reset, change | a session or link of an old password; a password checked before the credential is locked; a mailed link used twice |
| OIDC sign-in | `api/team_auth.py` | login attempts | redirect, callback | a repeated callback; another identity with the same email |
| Demo service | `api/main.py` | bounded report store, sliding windows | run, read, rate check | bounds at their limit |
| Scenario validation, coverage tool | `core/scenarios.py`, `coverage.py` | none | accept a scenario; classify an observed run | what every other part may assume of a scenario; a control or mutant counted wrongly |
| Variations, reports, uploads, CLI | other `core/*.py` | none | pure functions, rendering, I/O | - |
| Web app, infrastructure, scripts, scenario data | `apps/web`, `infra`, `scripts` | none the services rely on | - | - |

How they interact. The runner starts one thread per handler; the handlers share only the
simulator's database (through `SupportTools`), the barrier and the cancel signal. The evaluator
reads the database after the worker ended or was killed. In the team service all requests and
background workers share PostgreSQL; every operation of a project that matters takes the row
lock of the project first. Billing talks to the payment provider by synchronous calls (made
inside a transaction, with the lock held) and hears from it by webhooks, which are only written
to an inbox that a background worker empties.

What makes each part correct is stated in section 3, property by property, for the parts that
are modelled, and in the plan (section 7) for the others.

## 2. Modules

```
Simulator <- AnyAgent <- MCAnyAgent          Provider <- Billing <- MCBilling
    ^           |   ^                                      ^
    |           |   AnyAgentProofs <- LedgerProofs         BillingProofs <- PurchaseProofs
    |           +-> PaymentLedger         ^
    |               (implemented          |               SandboxJobs <- MCSandbox
    |                by AnyAgent)    TrialProofs               ^
    |                                     |                   SandboxProofs
    +------ SupportRun <- Oracle <--------+
                            ^                             Accounts <- MCAccounts
                            MCOracle                           ^
                                                               AccountsProofs
Membership <- MCMembership
    ^
    MembershipProofs
```

**Simulator** - the test services. `clock`, `allowed`, `refunds`, `registry`, `ticket`, `edited`,
`revoked`, `deliveries`, `counts` and `attempts` are the tables (a refund id is its position; its
one scheduled transition is kept with it as `due`; the log is kept as what the evaluator counts
in it). `call[h]` is the tool call handler `h` is executing, with the transactions of
`Simulator.dispatch` as steps: `Call` (count it, "before" faults), `PassBarrier`/`BreakBarrier`
(the first refund of concurrent handlers), `Serve` (rate limit, then the tool's own transaction:
`CommitRefund`, `ReuseRefund`, `RefuseRefund`, `GetTicket`, `WriteTicket`, `Escalate`,
`ReceiveEvents`, `AckEvent`, `Read`) and `Respond` (lose, hide, falsify or deliver). Where the code
reads the clock again in a transaction of its own (`AnnounceRetry`, `StaleRead`) that is a step.
`Sleep` advances the clock and settles every transition that became due, with its notifications.

**AnyAgent** - the services under the most general agent: any handler may make any call at any
time. It carries the properties of the services and the refinement of **PaymentLedger**, which
says what an operation key is promised without tables, calls, faults or time.

**SupportRun** - the plan runner and the agents in front of the same services: `corrected` and
eight of its mutants (`Mutants`), each one departure from the same loops. `agent[h].pc` is the
agent's place in `agents.py`; every tool call goes through `CheckBudget`, `Dispatch` and the
simulator's steps, and is heard by `HearRefund`, `HearTicket`, `HearEvent`, `HearError` and so on.
`stop` is the cancel signal and the wall-clock budget, `past` the ticket's history the return
boundary needs. Which agent a trial runs is chosen at the start. `ValidPlan` and `ValidBudgets`,
with `ValidFixture`, `ValidFaults` and `ValidBehavior` of Simulator, are what scenario validation
establishes; they are assumptions, which TLC evaluates on every instance.

**Oracle** - the evaluator's schema-2 checks, as operators on a state. `Ends` are the statuses with
which `run_case` may end a trial in this state: killed, cancelled or crashed, or, once all handlers
are recorded, the status of the execution. `Verdict(status)` is what the evaluator then reports, and
`Observation(status)` what the coverage tool counts it as.

**Provider**, **Billing** - the payment provider as the service can observe it (external), and the
billing of one project. `account`, `ops` and `inbox` are the three tables, `lock` the project's row
lock, `req[r]` a request between and inside its transactions, `wk[w]` a worker. A request reserves
(`StartCheckout`, `StartCancel`), calls the provider with the lock held (`CallCheckout`, `CallCancel`,
`ReadCancel`, `ReadReconcile`) and commits (`Finish...`); `AbortRequest` and `AbortWorker` are the
death of the process or a failed commit at any point. `Claim`, `ReadEvent`, `FinishEvent` and
`GiveUp` are the two transactions of `process_one`. A read and its commit are separate steps
wherever the provider can move in between; a transaction that only depends on facts that never
change again at the provider (expired, or paid by which subscription) is one step.

**SandboxJobs** - the sandboxed runs of one project. `jobs[j]` is a row of `sandbox_jobs`, `trials[j]`
its saved evidence, `deployments`, `saved` (a provider key) and `healthy` the other tables, `access`
what `Worker.allowed` finds of the submitter's account and role. `desk` is the request holding the
project lock: `cancel_run`, `delete_run` and `delete_deployment` read a job and write later
(`CancelRead`/`CancelWrite` and so on), since workers never take that lock; `CreateRun`'s guards only
become easier while it runs, so it is one step. `worker[w]` is a worker process in `serve` and
`execute` (`Open`, `NextTrial`, `EndTrial`, `Record`, `Close`), with `Monitor` as its monitor thread
and `Heartbeat` as the beat and sweep both threads perform; `call[w][h]` is a handler thread inside
`model_call`, between its two transactions (`Reserve`, `Respond`, `Settle`, `NoteFailure`). `Stop`
is the death or shutdown of the process at any point, `Lapse` and `Expire` the timeouts of a row.

**Accounts** - password accounts, provider sign-in and the sessions both create. `account[e]` is the
user of an address and its credential, `sessions` and `links` every row ever created (`live` while a
request would still find it), `attempt` the sign-in attempts at the provider. `req[r]` is a handler
between its transactions: a login that has not locked the credential (`TryLogin`, then `Login`), a
request whose session was read in a transaction of its own (`CurrentUser`, then `ChangePassword` or
`RequestVerification`), a link looked up before the lock (`FindLink`, then `VerifyEmail` or
`ResetPassword`), a mail to send after the commit (`SendLink`), the callback's exchange with the
provider (`Callback`, `Profile`, `ForgetPrevious`, `StartSession`). A handler may be `Dropped` at any
of these points.

**Membership** - one project: `role`, `keys`, `invitations`, `reports` and the `project` row with its
retention period. `Enter` is the first reading of who asks, under which role; an operation that takes
the project lock reads the role again (`Locked`), one that does not goes on with the role it saw
(`Unlocked`). `access` is what module Billing grants, changed at any moment by `Bill`.

Every mapped definition, with the lines it stands for, is in `PROJECT.json`. Operators introduced
as "mutant of ..." are the plausible bugs used to show that a property can fail; no specification
uses them.

## 3. Runs and what they show

| Run | Instance | Properties |
| --- | --- | --- |
| `any_agent_payments` (846,821 states, handlers symmetric) | 2 concurrent handlers, 1 order of 3 units with 1 already refunded, 3 keys, 4 different refund calls (same key, fresh key, changed parameters, another request), lost/incomplete/stale answers, rate limit, delayed failure, revocation, 3 calls in all, clock to 3 | `TypeOK`, `OneRefundPerKey`, `BalanceRespected`, `AnswersOwnRefund`, `RefundsDurable`, `NoRefundAfterRevocation`, `ImplementsLedger` |
| `any_agent_desk` (514,444) | 1 handler, note and status writes at current, older and no version, event receipt and acknowledgement, system edit, reordered events, 6 calls | `WritesOnce`, `NoticesTruthful` |
| `trial_shared` (263,348) | 2 handlers of `corrected` on one request through the barrier, lost payment and ticket answers, delayed settlement, interruption anywhere | `ControlPasses`, `Terminates` |
| `trial_edited` (13,368) | 3 deliveries in sequence (one repeated, one of any standing), rate limit, concurrent edit, lost ticket answers, for `corrected` and for each of the eight mutants | `RunTypeOK`, `EditWins`, `FaultyIsCaught`, `ControlPasses` |
| `trial_lossy` (514) | 1 delivery on a ticket already resolved, five faults, hidden and stale reads, reordered events | `ControlPasses` |
| `billing_requests` (1,062,923, symmetric) | 2 request handlers, 2 checkout keys, 1 cancel key, time to 2 | `OneLivePurchase`, `DeletionSafe`, `AccessWasPaid`, `ResultsAreKept` |
| `billing_inbox` (193,240) | 1 request handler, 2 workers, 1 event, 2 checkout keys, 2 attempts, pauses | `TypeOK`, `LinkedToLatest`, `EndIsFinal`, `OutcomesHold`, `InboxDrains` |
| `billing_unverified` (violation) | 1 handler, 1 worker, 1 event, pauses | `NoAccessUnverified` |
| `sandbox_runs` (437,096) | 1 job of one trial, 1 worker that may stall, stop and restart, 2 handler threads, a budget of 2 model calls, 1 deployment; every request, timeout and revocation at any moment | `TypeOK`, `UsageHonest`, `PassIsEarned`, `FailSurvives`, `FinishedIsFinal`, `NeverReplayed`, `EveryRunEnds` |
| `accounts` (503,490, symmetric) | 2 addresses, 1 identity, 1 provider attempt, 2 handlers, 3 sessions, 2 links, 2 changes of a password | `NothingOutlivesChange`, `NewestLinkOnly`, `SessionsAreEarned`, `ChangedByRightful` |
| `membership` (301,888, symmetric) | 3 verified users, 2 requests, 1 key, 1 report, 2 seats, 2 invitations, 2 retention periods, billing on and off | `AlwaysOwned`, `SeatsWithinPlan`, `RetentionHolds`, `ChangesAuthorised` |
| `membership_keys` (violation) | the same | `RemovedKeysRevoked` |

What the properties of the trials say: `ControlPasses` is the evaluator's side of the reference
agent's correctness. It fails if `corrected` pays twice, claims what is not so, leaves a payment
unclaimed, retries too early or sleeps past its deadline, in any interleaving and after any kill; and
it fails if the evaluator calls any of its runs wrong. `FaultyIsCaught` is the other half: a mutant
whose handlers all return is detected, and none is ever passed.

Why the bounds suffice. The interesting cases of the services need two handlers at one barrier,
two keys competing for one balance, one retry after a lost answer and one clock advance past each
deadline; all fit in three calls, counted together (`TotalCalls`). The trials are not bounded by the model: the agents' own
loops are finite. In billing a replaced purchase needs two checkouts, a superseded lease two claims,
a forgotten idempotency key two ticks; more of each only repeats them. `MaxAttempts` is 2 instead
of 5. In the accounts the races need a session and a link of before a change, a second handler in the
middle of its reads, and a second address for the identity to claim. In a project the last owner is
at stake with two owners, a seat with two people and two open invitations, and a retention period
with one report imported on either side of its change. The clock bound is `ClockBound` in AnyAgent
and `MaxTime` in Provider; `MaxSessions`, `MaxLinks` and `MaxChanges` bound Accounts. Deadlock is
checked everywhere (a finished trial stutters by `Done`) but in the billing and sandbox runs, where
the clock, the keys and the job identifiers run out. In the sandbox two jobs share nothing but the
counts `create_run` takes, and one worker is enough to be slow and to be swept: the sweep that fails
its job may come from any `Heartbeat`, its own monitor's included, while it goes on executing, and a
restart gives the job a second possible claimant.

Findings (the violation runs):

- `billing_unverified`: a pause makes access read-only by `sync_state = unknown`; a later outage
  overwrites that with `retrying`, which counts as paid (`team_billing.py:90, 381`). "No new access
  was granted" is not true then.
- `membership_keys`: `create_key` authorises its caller without the project lock (`team.py:452`), so a
  key made while its owner is being removed is not among those the removal revokes
  (`team.py:427`). It is refused while the owner is no member and works again once they are added back.

Three more statements are false of the code for reasons of design rather than by mistake; they are
defined, but no run checks them, and each hazard says so:

- `RetryDelayIsDeserved` (Oracle): `retry_delay` counts early payment attempts of all handlers
  together (`evaluation_v2.py:106`), so two concurrent first attempts fail the trial of an agent that
  never retried early. TLC shows it as an invariant of `TrialShared.cfg` with `RateLimitUntil = 2`.
- `SleepWithinDeadline` (Oracle): `AgentContext.sleep` checks the deadline in one transaction and
  advances the shared clock in another (`models.py:84-86`); two handlers that each respect it overrun
  it together (`TrialShared.cfg` with `Deadline = 1`).
- `ReconciledDeletable` (Billing): deletion asks every old checkout to be confirmed expired, but only
  the latest can be (`team_billing.py:374, 445`); one abandoned checkout after an ended purchase
  blocks deletion for good, reconciled or not (`BillingRequests.cfg` with one handler).

## 4. Fairness

`Terminates` assumes weak fairness of each handler's next step: handlers are operating-system
threads that call, hear and sleep without waiting on anything but the barrier, which has a timeout
of its own (`BreakBarrier`). Nothing forces an interruption.

`InboxDrains` assumes that a transaction in progress ends (provider calls have timeouts, and an
abort is always possible but never forced), that workers go on polling (`reconcile_billing` loops
while the service is up), and strong fairness of getting the project's row lock, since PostgreSQL
queues the waiters of a row. It does not assume that the provider ever answers, nor that a worker
survives: each claim counts as an attempt.

`EveryRunEnds` assumes that a stopped worker is started again (the service template's supervisor),
that a live one keeps beating and finishes the step it is in (a trial has a wall deadline, a provider
call and a container command a timeout), and that a row's timeout runs out when nobody refreshes it.
It does not assume that a queued job is ever claimed, nor that a worker survives a job: a crash may
recur for ever, as each start sweeps before it claims.

## 5. Proofs

`AnyAgentProofs` and `LedgerProofs` prove about `AnyAgent!Spec`, for every number of handlers, orders,
keys, requests and calls, every fault schedule and every scenario constant that satisfies
`ServiceAssumption` and `AgentAssumption` (what scenario validation checks). Their lemmas speak of
`AnyStep`, the services under any request and any nap whatever, so that the trials can use them too.

- `TypeCorrect`, `RegistryAgrees`, `KeyPaysOnce`: the inductive invariant is `Consistent`, the
  conjunction of `TypeOK`, `RegistryConsistent` and `OneRefundPerKey`. One payment per key is not
  inductive alone: that a new key is absent from the refunds table follows only because the
  registry, which `_refund` consults, agrees with that table row by row. The argument is one lemma
  per action for types, then `CommitRefund` (the only step that adds a row), `Sleep` (the only one
  that changes rows), and `OtherSteps` for all the rest.
- `NothingOverdue`: after a clock advance of any length no refund's transition is left behind.
- `DurableRefunds` and `RevocationHolds`: action properties, from the same invariant.
- `TicketWritesOnce` (`WritesOnce`): a write of an operation already recorded changes nothing, any other
  adds one record and one version, and the edit one version (`WritesRecorded`).
- `NotificationsTruthful` (`NoticesTruthful`): a notice is made when its refund settles, a settled
  refund never changes, and an acknowledged notice is one that was delivered.
- `NoOverRefund` (`BalanceRespected`): what an order has refunded is a sum over a set, the
  library's fold. Induction over data is out of the prover's reach, so the three facts needed (a row
  can be taken out of the sum, sums are natural, fewer rows never sum to more) are derived from the
  definition by looking at a smallest finite set that would break them.
- `OwnRefundAnswered` (`AnswersOwnRefund`): a reply to `create_refund` names a row made under the
  call's own key, and a key is registered with its order and amount; a lost or retried call too.
- `ServiceIsLedger`: `AnyAgent` implements `PaymentLedger`. The ledger is a function of the refunds
  table; `CommitRefund` is its Accept, `Sleep` its Settle, every other step a stutter.

`TrialProofs` proves about `SupportRun!RunSpec`, for every plan, fixture, policy and fault schedule,
every agent, any number of handlers in any interleaving, and interruption at any point:

- `TrialAlways`: the inductive invariant `Trial` is `Consistent`, that each agent's variables fit its
  place (`Fit`), that a call in progress is the one its agent asks for there (`Asks`), and that replies
  name existing rows (`Answers`). `RunTypes` (`RunTypeOK`) follows. That the variables are typed is
  not immediate: the poll loop must not be entered at its bound, nor an event be taken from an empty
  queue, nor a refund be named that no reply reported.
- `TrialKeepsPromises`, `TrialIsLedger`: every step of a trial is a step of `AnyStep` or a stutter
  (`Kept`), so a trial inherits what is proved of the services, and implements `PaymentLedger`.
- `CustomerEditWins` (`EditWins`): the strengthening is `Heeded`. The reference agent writes only at a
  version that is `Current`: read once no edit can come any more, or once it came and conflicts.
  `AgentHeeds` says so of the version an agent holds, `CallHeeds` of one in a reply under way,
  `Rereads` that the agent reads the ticket a second time before it writes, `TicketHeeds` that an
  edited ticket carries no write of an agent.
- `ControlIsSafe`: the evaluator's safety checks (`SafetyFailed`) never fail the reference agent, if
  the scenario does not forbid the effects its own tasks call for (`Payable`): each request is paid at
  most once, to its own order and amount, and only for a task that screening cleared; one note per
  task; the edit is kept. The strengthening `Rightful` says that each new row is some cleared task's
  payment under the request's own key, so that one payment per key becomes one per request, although
  several handlers retry it at once.
- `ControlClaimsHold`: the evaluator never refutes a claim of the reference agent (`ClaimFailed`),
  although claims are judged by the state at the return, which others go on changing, and by what the
  agent cites. `Honest` has three parts: `Told`, what a reply or a notice says of a refund was so and a
  settled refund stays so; `Backed`, what an agent past its payment knows is its own refund, paid
  once it closes the ticket or claims; `Reported`, once it returned, the ticket's history (`past`)
  says resolved from that second on. `Heeded` is needed too: a customer's edit would refute the claim
  of a ticket resolved, and `ClaimResolved` is where the edit and the claim exclude each other.
- `ControlRetriesAreBounded`: the payment attempts of a handler stay within `policy.max_attempts`, so
  `bounded_retries` never fails the reference agent where the case allows as many
  (`liveness.max_refund_attempts`; scenario validation does not relate the two, so the theorem does).
  `Paced` compares the attempts logged with the rounds begun: one attempt less while the agent still
  screens or is at the call without having made it. One lemma per answer heard shows that nothing
  but the next round of the loop (`RetryKeeps`) leads back to the call.
- `DeadlineKept`: where handlers run one after the other, no sleep of any agent passes the deadline,
  although it is checked before the transaction that advances the clock. `Timely` says that an agent
  in the middle of a call or a sleep is the one whose turn it is (`OneUnderway`), so the clock it was
  checked against is the clock it advances. For concurrent plans this is false, see
  `SleepWithinDeadline`.
- `RateLimitIsWaitedOut` (`RetryDelay`): the evaluator counts the payment attempts made before the rate
  limit ends, of all handlers together. Where they run one after the other, an early attempt is the
  only one: `Patient` says that the handler that made it is `Penal` (its call is limited, or was
  answered with the time left, or it sleeps exactly that long) until the clock is there, and that if a
  stop wakes it, nobody makes another call (`Barred`). The hypothesis `Unhurried` is needed: the limit
  must end by the deadline, or the sleeper leaves at once and the next handler tries early too (TLC
  finds that trial), and no injected fault may refuse the payment before the limit does.
- `CompletedControlPasses`: if every handler of the reference agent returned a result, the verdict is
  PASS. The invariant is `Documented`, with `OwnRows`: each note is of a paid refund of its own request
  (`NotesArePaid`), a call answered has written its note, and an agent that claims a refund was cleared
  and has such a note (`Closes`). With one note per request and one payment per key, a claimed task has
  exactly one successful refund and exactly one note, of that refund (`RefundedOnce`), which is what the
  outcome checks ask for; nothing is left unknown. `Meets` is what the scenario must allow: that its
  tasks are paid, that they end as they did, as many attempts as the policy, and no earlier refund of
  a request under another key or amount. `Punctual` says that the time limits were kept, which
  is proved of `Unhurried` plans.
- `ControlSurvivesAnyStop`: whenever the worker of a control is cancelled, killed or crashes,
  `evaluate_recovered` finds nothing to hold against the agent (`ControlIsBlameless` combines the
  theorems before), and the observation is `incomplete`. `ControlHolds` puts both together: it is
  `ControlPasses`, if the budgets let every handler that nothing interrupts return a result.
- `LiarsAreCaught` (`FaultyIsCaught`, of the mutants that claim what they did not see): whatever they
  are answered, in every plan, fixture and interleaving, they leave with a claim without evidence
  (`Lies`), so each completed trial of them is detected.

`BillingProofs` proves about `Billing!Spec`, from `ProviderAssumption` and `BillingAssumption`, for
any number of requests, workers, keys and events and an unbounded number of purchases:

- `BillingTypes`, `LinkHolds`, `EndHolds`, `ResultsHold`, `OutcomesFinal` (that is, `TypeOK`,
  `LinkedToLatest`, `EndIsFinal`, `ResultsAreKept`, `OutcomesHold`). The inductive invariant is
  `Sound`, which TLC confirms on the instances of both billing runs. Its parts are needed together:
  `Locking` says who is inside a transaction; `Linked`, that references lead to objects of the
  provider and that a recorded end is an end there (the provider never takes one back, `Keeps`);
  `InProgress`, what a request or worker knows in the middle of a transaction: the snapshot it read
  is no older than what the account records (`Current`), its operation is still not completed, its
  lease is still its own. Each of these holds at the read, and stays because only the holder of the
  lock changes the tables. `Leases` says which events can still have a lease; `Newest` replaces
  induction over the operations (that there is a latest completed checkout is preserved when one
  more completes).
- The proof has one frame lemma for each kind of step (`WorldMoves`, `RequestMoves`, `ReserveSound`,
  `RequestCommits`, `WorkerMoves`), one lemma per action that uses it, and `StepSound` to combine them.

`PurchaseProofs` goes on from there, under the same assumptions, with what a project may have bought:

- `AccessPaid` (`AccessWasPaid`): `Paid` says that neither the account (`AccountPaid`) nor a snapshot on
  its way into it (`Truthful`) is ahead of what the provider recorded as paid of that subscription.
- `OnePurchase` (`OneLivePurchase`) and `DeletionCharges` (`DeletionSafe`): the invariant `Purchases`
  holds together with `Sound` (`PurchasesInOrder`). A deleted project charges nobody. In any other the
  checkouts follow each other (`InTurn`: all but the last are completed), a checkout has at most one
  session and a session one checkout (`OneEach`), only the last one's may charge (`LastCharges`), and one
  confirmed as expired is (`Confirmed`). A request between its reservation and its commit has a part of
  its own (`Prompt`: its operation is recent enough for the provider to remember its key), since time
  and the provider move while it holds the lock.

`SandboxProofs` proves about `SandboxJobs!Spec`, from `SandboxAssumption`, for any number of jobs,
requests, deployments, workers and handler threads, any plan length and any budgets and limits:

- `RowsTyped`, `CallsCounted`, `PassMeansPassed`, `FailIsKept` (the invariants `TypeOK`,
  `UsageHonest`, `PassIsEarned`, `FailSurvives`) and `FinishedStays`, `ClaimedOnce`, `ActiveStays`
  (the action properties `FinishedIsFinal`, `NeverReplayed`, `ActiveKept`): every safety property of
  the run. The run has one worker; that two of them never share a job is the proof's to show.
- The inductive invariant `Sound` has a part for each place where something is remembered. `RowOK`
  relates a row to its trials; `SpentOK` counts the calls in flight, a cardinality that a reservation
  raises and a settlement lowers together with `unknown`; `HandOK` says that a worker executes only a
  job whose row, if there is one, names that worker and does not say PASS, and calls the model only
  during a trial; `EvidenceOK`, that what a worker knows of the trials is what is saved, but for the
  one it is about to save or has failed to save; `DeskOK`, that what a request read before its write
  is still true enough. `PassIsEarned` needs them all: a late failure is noted in a row without a
  look at its status (`NoteFailure`), and only `HandOK` says that this row cannot say PASS.
- The proof describes what any step may do to one row by eight relations (`Kept`, `Counted`,
  `Deleted`, `Ended`, `Submitted`, `Claimed`, `Recorded`, `Closed`). `RowPreserved`,
  `HandPreserved`, `DeskPreserved` and `SpentPreserved` show that they keep each part;
  `ControlStep`, `TimeStep` and `ServeStep`, one step per action, that every action is one of them
  on every row. The action properties follow from the same relations.

`AccountsProofs` proves about `Accounts!Spec`, from `AccountsAssumption` (which only says that the
names of "nobody" and "by password" are nobody's identity), for any number of addresses, identities,
attempts and handlers, sessions, links and changes:

- `AccountTypes`, `ChangeEndsAll`, `LinksSuperseded`, `SessionsEarned`, `RightfulChanges`: `TypeOK` and
  all four properties of the run. The inductive invariant `Sound` adds to them what a handler still
  holds (`Ready`): the account it read signs in the way it saw, and the provider attempt it carries is
  spent and has opened no session; that no two handlers carry one attempt (`OneEach`); and that a link
  belongs to a password account (`LinksOK`). That a stale login opens no session needs none of it: it
  is `Proves`, read again under the lock, and the theorem shows that one check to be enough.
- `WorldMoves` says what a step may do to sessions, links and handlers for `Sound` to stay; there is
  one lemma per handler that it does no more, and `NextSound` combines them.

`MembershipProofs` proves about `Membership!Spec`, from `MembershipAssumption`, for any finite number
of users and any number of keys, reports, requests, roles and limits:

- `MembershipTypes`, `OwnerStays`, `SeatsHold`, `RetentionKept`, `AuthorityHolds`: `TypeOK` and all
  four properties of the run. `Sound` adds that a handler acts for somebody (`Entered`) and that a
  project which does not exist, yet or any more, has neither members nor reports (`Vacant`), without
  which a new project could start with its seats taken. `SeatTaken` and `SeatsFreed` are the two facts
  about cardinalities the seats need.

Only model-checked: liveness (`Terminates`, `InboxDrains`, `EveryRunEnds`), which is out of the
prover's reach, and of the two verdicts what depends on the scenario's numbers:

- of `ControlPasses`, that the budgets suffice: that a trial nothing interrupts completes. Too few
  tool calls or too early a deadline end a correct agent, so this is no theorem for every instance;
  nor is it that a concurrent plan keeps its time limits (`SleepWithinDeadline`,
  `RetryDelayIsDeserved`), which `CompletedControlPasses` therefore assumes there;
- of `FaultyIsCaught`, the five mutants that do wrong only where the scenario tempts them: one that
  pays under a fresh key is as good as the reference agent until an answer is lost.

Conversely `RegistryConsistent`, `NoOverdueTransition` and `ActiveKept` are proved and in no run.

## 6. Abstractions and what is left out

- Test services: ids are positions; one ticket stands for the table, with any version and status the
  scenario gives it (`InitialTicketVersion`, `InitialTicketStatus`); customer, tenant and currency
  rows never change and leave the constant `Eligible`. `schedule_refund_transition` is a test hook
  and is left out. Wording and the log's layout are left out, except for what the evaluator counts.
- Trials: no fault falsifies an identity lookup or refuses an escalation (`PlanAssumption`). Of the
  mutants in `agents.py` eight are modelled; the others vary the task they serve (its currency, order
  or customer) or a single claim. Process start-up, output limits and the network policy are not.
- Validation: what an accepted scenario satisfies is assumed, as far as a model reads it; parsing,
  schema 1 and messages are left out.
- Evaluator: with one ticket there is no wrong one to write to, so `ticket_target`
  (`evaluation_v2.py:60-62`) is left out of `SafetyFailed`. Coverage and capability checks, which only turn PASS into INCONCLUSIVE or UNSUPPORTED,
  and the schema-1 evaluator are left out. PASS here means "PASS if coverage is met", and
  `Observation` assumes it; adding observations up to a matrix is arithmetic and left out.
- Billing: the customer id, redirect URLs, price validation and signature checks are one
  nondeterministic "unsupported" answer. A session and the subscription it starts share a number.
  All statuses that are neither active nor terminal are one. A tick is at once a period, a session's
  life and most of a day, since only the order of these times matters; a request does not span two
  ticks (guard of `Tick`). Leases and retry delays may pass at any moment. A customer completes only
  sessions whose URL was handed out. Quotas (`enforce`), the cap of 10,000 events and `health` are
  not modelled.
- Sandbox: timeouts are flags that may be raised at any moment instead of clock readings. The image,
  runtime and model allowlists, source digests and the vault are constant and leave nondeterministic
  failures (`Break`, a refused call). `claim` may take any waiting job, as `SKIP LOCKED` allows. An
  answer's tokens count 1. Dispatch's look at a
  trial's deadline and cancellation (`check_budget`) is one step with the reservation after it
  (`Reserve`). The note of a failed call may itself fail (`NoteFailure`). A repeated submission
  returns the job it finds and is a stutter. Deleting
  the whole project or the submitter's account is left out; `RetentionSweep` removes a job, active
  ones included, in the same way. A cancellation that has read `queued` before a worker claimed, or
  even finished, the job writes `cancelled` over that status: the model has this, and
  `FinishedIsFinal` therefore promises the verdict and evidence of a finished job, not which of the
  finished statuses it shows.
- Accounts: a password is the number of changes before it, so a new one is never an old one. Whether
  there is a mail server is a setting (`MailAvailable`): without one no link is ever made. The run has
  one, the theorems hold either way. Rate
  limits and hashing slots refuse a request before it writes (`Dropped`); links and attempts expire at
  any moment (`Lapse`). Sessions are kept after they ended, to speak about them. Deleting a user
  belongs to the team service and is left out.
- Membership: one project. Reading, comparing and exporting reports change nothing. `edit_project`
  also shortens the sandbox's retention, which `SandboxJobs!Expire` allows at any moment; suites and
  the stored configuration are left out (the race in counting suites is listed as a hazard). An
  invitation is read and accepted in one step, since `accept_invitation` reads it again under the lock.
  `SeatLimit` and `ReportLimit` are one deployment's numbers: the configured ones, or 25 and 1000 where
  billing is disabled.
- Not modelled: variations, reports, uploads and the CLI are pure functions of one document; sandbox
  sources, the GitHub fetch and the vault validate, fetch and encrypt without state of their own; the
  demo service is one in-memory store under one lock, each operation a single critical section; the
  web app, infrastructure, scripts and data keep nothing the services rely on.

## 7. Plan

1. Simulator, AnyAgent, PaymentLedger. Done; all of its properties proved, the refinement included.
2. SupportRun, Oracle: the trials. Done; proved but for liveness, the sufficiency of budgets and five
   mutants' verdicts.
3. Provider, Billing. Done; all of its safety properties proved.
4. SandboxJobs. Done; all of its safety properties proved.
5. Accounts: password and provider sign-in. Done; all of its properties proved.
6. Membership: members, keys, invitations, imports. Done; all of its properties proved but the false one.
7. The other reference mutants; suites; the demo store, if it grows operations of several steps.
8. That the budgets suffice, as a theorem: from a bound on the calls a round of the agent's loop
   makes and on the seconds it sleeps, that a trial within them completes. It needs a measure of
   the calls left, and is what `ControlHolds` still assumes.

## 8. Running it

```sh
tlc -config AnyAgentPayments.cfg MCAnyAgent      # every .cfg with the MC module of its family
tlc -config TrialShared.cfg MCOracle
tlc -config BillingInbox.cfg MCBilling
tlc -config SandboxRuns.cfg MCSandbox
tlc -config AccountsRaces.cfg MCAccounts
tlc -config MembershipRaces.cfg MCMembership
tlapm AnyAgentProofs.tla
tlapm LedgerProofs.tla                           # extends AnyAgentProofs
tlapm TrialProofs.tla                            # extends LedgerProofs and Oracle
tlapm BillingProofs.tla
tlapm PurchaseProofs.tla                         # extends BillingProofs
tlapm SandboxProofs.tla
tlapm AccountsProofs.tla
tlapm MembershipProofs.tla
```
