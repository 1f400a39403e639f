---------------------------- MODULE SandboxJobs ----------------------------
(* The sandboxed runs of one project: the control plane of                  *)
(* sandbox/api.py, which queues, cancels and deletes jobs, and the workers  *)
(* of sandbox/worker.py, which claim a job, run the trials of its plan in   *)
(* containers, broker the model calls of its agent and save its evidence.   *)
(* They share nothing but the database.  Every action is one transaction or *)
(* one step between two transactions; a handler that reads a row without    *)
(* locking it and writes it later is two actions.                           *)
EXTENDS Integers, Sequences, FiniteSets

CONSTANTS Jobs,            \* identifiers a run can get; none is ever reused
          Requests,        \* idempotency keys of clients
          Deployments,     \* versions of the agent
          Workers,         \* worker processes
          Handlers,        \* handler threads of a trial, each may call the model
          PlanLength,      \* trials of a job's plan
          Budgets,         \* max_calls of a job; 0 when no provider is chosen
          ActiveLimit,     \* queued and running jobs of a project
          RetainedLimit,   \* retained jobs of a project
          DeploymentLimit, \* deployments of a project
          NoWorker, NoRequest, NoDeployment, NoJob

ASSUME SandboxAssumption ==
    /\ IsFiniteSet(Workers) /\ IsFiniteSet(Handlers)
    /\ PlanLength \in Nat \ {0}
    /\ Budgets \subseteq Nat
    /\ {ActiveLimit, RetainedLimit, DeploymentLimit} \subseteq Nat
    /\ NoWorker \notin Workers /\ NoRequest \notin Requests
    /\ NoDeployment \notin Deployments /\ NoJob \notin Jobs

Verdicts == {"PASS", "FAIL", "INCONCLUSIVE"}
Active == {"queued", "running"}
Finished == {"completed", "error", "cancelled"}
Executing == {"open", "next", "trial", "ending", "record", "close"}

\* A row of sandbox_jobs.  late: the row's own timeout has run out, 90 seconds
\* since the last heartbeat of a running job, 15 minutes in the queue of a queued
\* one.  expired: expires_at has passed.  keyed: credential_id still points to the
\* provider key the job was submitted with.  error: the error column is set.
Row == [status : {"unborn", "gone"} \union Active \union Finished,
        verdict : Verdicts, cancelRequested : BOOLEAN, error : BOOLEAN,
        worker : Workers \union {NoWorker}, late : BOOLEAN, expired : BOOLEAN,
        request : Requests \union {NoRequest},
        deployment : Deployments \union {NoDeployment},
        budget : Budgets \union {0}, keyed : BOOLEAN,
        used : Nat, unknown : Nat, known : Nat]

Blank(status) ==
    [status |-> status, verdict |-> "INCONCLUSIVE", cancelRequested |-> FALSE,
     error |-> FALSE, worker |-> NoWorker, late |-> FALSE, expired |-> FALSE,
     request |-> NoRequest, deployment |-> NoDeployment, budget |-> 0,
     keyed |-> FALSE, used |-> 0, unknown |-> 0, known |-> 0]

VARIABLES
    jobs,        \* the rows of sandbox_jobs
    trials,      \* verdicts of each job's saved trials, by position
    deployments, \* saved deployments
    saved,       \* a provider key is saved
    access,      \* the submitter may still run jobs: account usable, role kept
    desk,        \* the request that holds the project lock and what it has read
    healthy,     \* some worker's row has a fresh heartbeat
    worker,      \* local state of every worker process
    call         \* model call of every handler thread

control == <<deployments, saved, access, desk>>
vars == <<jobs, trials, deployments, saved, access, desk, healthy, worker, call>>

NoRequestHeld == [op |-> "none", job |-> NoJob, deployment |-> NoDeployment, seen |-> "gone"]
Resting(pc) == [pc |-> pc, job |-> NoJob, brokered |-> FALSE, reports |-> <<>>,
                cancelled |-> FALSE, failed |-> FALSE]
Quiet == [h \in Handlers |-> "idle"]

Exists(j) == jobs[j].status \in Active \union Finished
Visible(j) == Exists(j) /\ ~jobs[j].expired
ActiveJobs == {j \in Jobs : jobs[j].status \in Active}

Init ==
    /\ jobs = [j \in Jobs |-> Blank("unborn")]
    /\ trials = [j \in Jobs |-> <<>>]
    /\ deployments = {}
    /\ saved = FALSE
    /\ access = TRUE
    /\ desk = NoRequestHeld
    /\ healthy = FALSE
    /\ worker = [w \in Workers |-> Resting("down")]
    /\ call = [w \in Workers |-> Quiet]

-----------------------------------------------------------------------------
(* The control plane.  Every request that writes holds the project lock     *)
(* (authorize with lock=True), so requests do not interleave with each      *)
(* other; they do interleave with the workers, who never take it.           *)

LockFree == desk = NoRequestHeld

\* The rows of gone are deleted; trials go with them by cascade.
Without(gone) ==
    /\ jobs' = [j \in Jobs |-> IF j \in gone /\ Exists(j) THEN Blank("gone") ELSE jobs[j]]
    /\ trials' = [j \in Jobs |-> IF j \in gone THEN <<>> ELSE trials[j]]

Deploy(d) ==
    /\ LockFree
    /\ d \notin deployments
    /\ Cardinality(deployments) < DeploymentLimit
    /\ deployments' = deployments \union {d}
    /\ UNCHANGED <<jobs, trials, saved, access, desk, healthy, worker, call>>

\* save_key replaces the record of the provider and revoke_key deletes it; either
\* way the jobs that referred to the old record lose it (ondelete SET NULL).
ReplaceKey(present) ==
    /\ LockFree
    /\ saved' = present
    /\ jobs' = [j \in Jobs |-> [jobs[j] EXCEPT !.keyed = FALSE]]
    /\ UNCHANGED <<trials, deployments, access, desk, healthy, worker, call>>

\* A request whose key is known returns its job, or 409 or 404, and writes nothing.
CreateRun(j, r, d, b) ==
    /\ LockFree
    /\ access
    /\ jobs[j].status = "unborn"
    /\ \A k \in Jobs : jobs[k].request # r
    /\ healthy
    /\ d \in deployments
    /\ Cardinality(ActiveJobs) < ActiveLimit
    /\ Cardinality({k \in Jobs : Visible(k)}) < RetainedLimit
    /\ b > 0 => saved
    /\ jobs' = [jobs EXCEPT ![j] = [Blank("queued") EXCEPT !.request = r,
                                    !.deployment = d, !.budget = b, !.keyed = b > 0]]
    /\ UNCHANGED <<trials, control, healthy, worker, call>>

Hold(op, j, d, seen) ==
    /\ LockFree
    /\ desk' = [op |-> op, job |-> j, deployment |-> d, seen |-> seen]
    /\ UNCHANGED <<jobs, trials, deployments, saved, access, healthy, worker, call>>

\* cancel_run reads the job without locking its row ...
CancelRead(j) ==
    /\ Visible(j) /\ jobs[j].status \in Active
    /\ Hold("cancel", j, NoDeployment, jobs[j].status)

\* ... and writes what it decided from the status it read.
Cancelled(row, seen) ==
    [row EXCEPT !.cancelRequested = TRUE,
                !.status = IF seen = "queued" THEN "cancelled" ELSE @]

CancelWrite ==
    /\ desk.op = "cancel"
    /\ desk' = NoRequestHeld
    /\ jobs' = IF Visible(desk.job)
               THEN [jobs EXCEPT ![desk.job] = Cancelled(@, desk.seen)] ELSE jobs
    /\ UNCHANGED <<trials, deployments, saved, access, healthy, worker, call>>

DeleteRead(j) ==
    /\ Visible(j) /\ jobs[j].status \notin Active
    /\ Hold("delete", j, NoDeployment, jobs[j].status)

DeleteWrite ==
    /\ desk.op = "delete"
    /\ desk' = NoRequestHeld
    /\ Without({desk.job})
    /\ UNCHANGED <<deployments, saved, access, healthy, worker, call>>

UndeployRead(d) ==
    /\ d \in deployments
    /\ \A j \in ActiveJobs : jobs[j].deployment # d
    /\ Hold("undeploy", NoJob, d, "gone")

\* Deleting a deployment deletes its jobs by cascade.
UndeployWrite ==
    /\ desk.op = "undeploy"
    /\ desk' = NoRequestHeld
    /\ deployments' = deployments \ {desk.deployment}
    /\ Without({j \in Jobs : jobs[j].deployment = desk.deployment})
    /\ UNCHANGED <<saved, access, healthy, worker, call>>

\* The request dies between its read and its write and its transaction rolls back.
Abandon ==
    /\ desk # NoRequestHeld
    /\ desk' = NoRequestHeld
    /\ UNCHANGED <<jobs, trials, deployments, saved, access, healthy, worker, call>>

\* Another component changes the submitter's role or the use of its account.
ChangeAccess ==
    /\ access' = ~access
    /\ UNCHANGED <<jobs, trials, deployments, saved, desk, healthy, worker, call>>

-----------------------------------------------------------------------------
(* Time: each timeout may run out at any moment.                            *)

Lapse(j) ==
    /\ jobs[j].status \in Active /\ ~jobs[j].late
    /\ jobs' = [jobs EXCEPT ![j].late = TRUE]
    /\ UNCHANGED <<trials, control, healthy, worker, call>>

Expire(j) ==
    /\ Visible(j)
    /\ jobs' = [jobs EXCEPT ![j].expired = TRUE]
    /\ UNCHANGED <<trials, control, healthy, worker, call>>

\* No worker has been heard of for 90 seconds.
GoSilent ==
    /\ healthy
    /\ healthy' = FALSE
    /\ UNCHANGED <<jobs, trials, control, worker, call>>

\* cleanup_expired deletes a job past its retention, whatever its status.
RetentionSweep(j) ==
    /\ Exists(j) /\ jobs[j].expired
    /\ Without({j})
    /\ UNCHANGED <<control, healthy, worker, call>>

-----------------------------------------------------------------------------
(* A worker.  Its main thread serves; a monitor thread watches the job it   *)
(* executes; the handler threads of a trial call the model.                 *)

Failed(reports) == \E i \in DOMAIN reports : reports[i] = "FAIL"
AllPassed(reports, expected) ==
    Len(reports) = expected /\ \A i \in DOMAIN reports : reports[i] = "PASS"

\* Mutant of gate: a job that did not complete may pass.
gateUnfinished(reports, expected, complete) ==
    IF Failed(reports) THEN "FAIL"
    ELSE IF AllPassed(reports, expected) THEN "PASS" ELSE "INCONCLUSIVE"

gate(reports, expected, complete) ==
    IF Failed(reports) THEN "FAIL"
    ELSE IF complete /\ AllPassed(reports, expected) THEN "PASS" ELSE "INCONCLUSIVE"

\* Mutants of Swept: a known FAIL is forgotten; a running job is queued again; the
\* queue has no time limit.
SweptBlank(row) ==
    IF ~row.late \/ row.status \notin Active THEN row
    ELSE [row EXCEPT !.status = "error", !.error = TRUE, !.late = FALSE, !.verdict = "INCONCLUSIVE"]
SweptBack(row) ==
    IF ~row.late \/ row.status \notin Active THEN row
    ELSE [row EXCEPT !.status = "queued", !.late = FALSE]
SweptRunning(row) ==
    IF ~row.late \/ row.status # "running" THEN row
    ELSE [row EXCEPT !.status = "error", !.error = TRUE, !.late = FALSE,
                     !.verdict = IF @ = "FAIL" THEN @ ELSE "INCONCLUSIVE"]

\* The row after a sweep for jobs whose timeout has run out.
Swept(row) ==
    IF ~row.late \/ row.status \notin Active THEN row
    ELSE [row EXCEPT !.status = "error", !.error = TRUE, !.late = FALSE,
                     !.verdict = IF @ = "FAIL" THEN @ ELSE "INCONCLUSIVE"]

\* heartbeat registers the worker and fails what nobody works on any more.
Beat ==
    /\ healthy' = TRUE
    /\ jobs' = [j \in Jobs |-> Swept(jobs[j])]

\* serve beats once before it looks for work.  A restarted process has an
\* identifier of its own; as no job is claimed twice, w stands for all of them.
Start(w) ==
    /\ worker[w].pc = "down"
    /\ worker' = [worker EXCEPT ![w] = Resting("idle")]
    /\ Beat
    /\ UNCHANGED <<trials, control, call>>

\* Called by serve between jobs and by the monitor during one.
Heartbeat(w) ==
    /\ worker[w].pc # "down"
    /\ Beat
    /\ UNCHANGED <<trials, control, worker, call>>

\* The oldest waiting job, or a younger one while the older row is locked.
claim(w, j) ==
    /\ worker[w].pc = "idle"
    /\ jobs[j].status = "queued" /\ ~jobs[j].cancelRequested /\ ~jobs[j].expired
    /\ jobs' = [jobs EXCEPT ![j] = [@ EXCEPT !.status = "running", !.worker = w, !.late = FALSE]]
    /\ worker' = [worker EXCEPT ![w] = [Resting("open") EXCEPT !.job = j,
                            !.brokered = jobs[j].budget > 0]]
    /\ UNCHANGED <<trials, control, healthy, call>>

\* (OwnedOnce is a mutant: the status of the claimed job is not looked at again.)
OwnedOnce(w, j) == jobs[j].worker = w
Owned(w, j) == jobs[j].status = "running" /\ jobs[j].worker = w

allowed(w, j) == Owned(w, j) /\ ~jobs[j].cancelRequested /\ ~jobs[j].expired /\ access

Step(w, pc) == worker' = [worker EXCEPT ![w].pc = pc]
Leave(w) == worker' = [worker EXCEPT ![w] = Resting("idle")]

\* The monitor cancels on loss of access, cancellation, shutdown or the job's wall
\* time, and refreshes the heartbeat otherwise.  It may outlive the trials by the
\* bounded join at the end of execute.
Monitor(w) ==
    /\ worker[w].pc \in Executing
    /\ \/ /\ worker' = [worker EXCEPT ![w].cancelled = TRUE]
          /\ UNCHANGED jobs
       \/ /\ allowed(w, worker[w].job)
          /\ jobs' = [jobs EXCEPT ![worker[w].job].late = FALSE]
          /\ UNCHANGED worker
    /\ UNCHANGED <<trials, control, healthy, call>>

\* execute reads the job and its deployment; without the deployment it fails.
Open(w) ==
    LET j == worker[w].job
        ready == Exists(j) /\ jobs[j].deployment \in deployments
        stopped == worker[w].cancelled \/ ~allowed(w, j)
    IN  /\ worker[w].pc = "open"
        /\ worker' = [worker EXCEPT ![w] = [@ EXCEPT !.pc = IF ready THEN "next" ELSE "close",
                            !.failed = ~ready, !.cancelled = stopped]]
        /\ UNCHANGED <<jobs, trials, control, healthy, call>>

NextTrial(w) ==
    /\ worker[w].pc = "next"
    /\ Step(w, IF worker[w].cancelled \/ Len(worker[w].reports) = PlanLength THEN "close" ELSE "trial")
    /\ UNCHANGED <<jobs, trials, control, healthy, call>>

\* An update of job j finds its row or touches nothing.  (WrittenAnyway is a mutant.)
WrittenAnyway(j, row) == [jobs EXCEPT ![j] = row]
Written(j, row) == IF Exists(j) THEN [jobs EXCEPT ![j] = row] ELSE jobs

\* One more call, its usage unknown.  (SpentSilently is a mutant: a call is unknown
\* only once it has failed.)
SpentSilently(row) == [row EXCEPT !.used = @ + 1]
Spent(row) == [row EXCEPT !.used = @ + 1, !.unknown = @ + 1]

SetCall(w, h, state) == call' = [call EXCEPT ![w][h] = state]

\* Once the trial's 60 seconds have passed its handlers are refused new calls.
Deadline(w) ==
    /\ worker[w].pc = "trial"
    /\ Step(w, "ending")
    /\ UNCHANGED <<jobs, trials, control, healthy, call>>

\* First transaction of model_call, which dispatch enters after it has looked at the
\* trial's deadline and the job's cancellation: one more call used, its usage unknown, before
\* anything is sent.  The look is one step with the transaction: a deadline or cancellation
\* that comes in between is as if it came after, and the transaction reads the job anew.
Reserve(w, h) ==
    LET j == worker[w].job
        granted == /\ allowed(w, j) /\ jobs[j].keyed
                   /\ jobs[j].used < jobs[j].budget
    IN  /\ worker[w].pc = "trial" /\ worker[w].brokered /\ ~worker[w].cancelled
        /\ call[w][h] = "idle"
        /\ SetCall(w, h, IF granted THEN "sent" ELSE "failed")
        /\ jobs' = IF granted THEN [jobs EXCEPT ![j] = Spent(@)] ELSE jobs
        /\ UNCHANGED <<trials, control, healthy, worker>>

\* The provider answers with its usage, answers without it (the second transaction
\* then changes nothing), or fails, or the answer cannot be recorded.
Respond(w, h) ==
    /\ call[w][h] = "sent"
    /\ \E state \in {"known", "idle", "failed"} : SetCall(w, h, state)
    /\ UNCHANGED <<jobs, trials, control, healthy, worker>>

\* Second transaction of model_call; it looks at no status: usage is added to a
\* job that has finished meanwhile.  One answer's tokens count 1.
Settle(w, h) ==
    LET j == worker[w].job
    IN  /\ call[w][h] = "known"
        /\ SetCall(w, h, "idle")
        /\ jobs' = Written(j, [jobs[j] EXCEPT !.unknown = @ - 1, !.known = @ + 1])
        /\ UNCHANGED <<trials, control, healthy, worker>>

\* The exception path of model_call; it looks at no status either.  Its own update may
\* fail too (the database is down): the call fails all the same, and nothing notes it.
NoteFailure(w, h) ==
    LET j == worker[w].job
    IN  /\ call[w][h] = "failed"
        /\ SetCall(w, h, "idle")
        /\ jobs' \in {Written(j, [jobs[j] EXCEPT !.error = TRUE]), jobs}
        /\ UNCHANGED <<trials, control, healthy, worker>>

\* The trial returns once its handler threads have ended, with any verdict: what a
\* trial's verdict says is the subject of Oracle.  UNSUPPORTED counts here as
\* INCONCLUSIVE, which gate does not tell apart.
EndTrial(w) ==
    /\ worker[w].pc \in {"trial", "ending"} /\ call[w] = Quiet
    /\ \E v \in Verdicts :
           LET reports == Append(worker[w].reports, v)
           IN  worker' = [worker EXCEPT ![w] = [@ EXCEPT !.pc = "record", !.reports = reports]]
    /\ UNCHANGED <<jobs, trials, control, healthy, call>>

\* A trial is saved, with the verdict so far, only while the job is this worker's;
\* otherwise execute returns.
Record(w) ==
    LET j == worker[w].job
        reports == worker[w].reports
    IN  /\ worker[w].pc = "record"
        /\ IF Owned(w, j)
           THEN /\ trials' = [trials EXCEPT ![j] = Append(@, reports[Len(reports)])]
                /\ jobs' = [jobs EXCEPT ![j].verdict = gate(reports, PlanLength, FALSE)]
                /\ Step(w, "next")
           ELSE /\ Leave(w)
                /\ UNCHANGED <<jobs, trials>>
        /\ UNCHANGED <<control, healthy, call>>

\* A container, the archive, the report's size or the database makes execute fail.
Break(w) ==
    /\ worker[w].pc \in Executing \ {"close"} /\ call[w] = Quiet
    /\ worker' = [worker EXCEPT ![w] = [@ EXCEPT !.pc = "close", !.failed = TRUE]]
    /\ UNCHANGED <<jobs, trials, control, healthy, call>>

\* The last transaction of execute, for a job that is still this worker's.
Close(w) ==
    LET j == worker[w].job
        error == worker[w].failed \/ jobs[j].error
        status == IF worker[w].cancelled \/ jobs[j].cancelRequested THEN "cancelled"
                  ELSE IF error THEN "error" ELSE "completed"
    IN  /\ worker[w].pc = "close"
        /\ jobs' = IF ~Owned(w, j) THEN jobs
                   ELSE [jobs EXCEPT ![j] = [@ EXCEPT !.status = status, !.late = FALSE,
                            !.error = error \/ status = "cancelled",
                            !.verdict = gate(worker[w].reports, PlanLength, status = "completed")]]
        /\ Leave(w)
        /\ UNCHANGED <<trials, control, healthy, call>>

\* The process is killed, or an exception or a shutdown leaves serve, whose finally
\* deletes the worker's row, perhaps the only fresh one.
Stop(w) ==
    /\ worker[w].pc # "down"
    /\ worker' = [worker EXCEPT ![w] = Resting("down")]
    /\ call' = [call EXCEPT ![w] = Quiet]
    /\ healthy' \in {healthy, FALSE}
    /\ UNCHANGED <<jobs, trials, control>>

-----------------------------------------------------------------------------
Control ==
    \/ \E d \in Deployments : Deploy(d) \/ UndeployRead(d)
    \/ \E present \in BOOLEAN : ReplaceKey(present)
    \/ \E j \in Jobs, r \in Requests, d \in Deployments, b \in Budgets : CreateRun(j, r, d, b)
    \/ \E j \in Jobs : CancelRead(j) \/ DeleteRead(j)
    \/ CancelWrite \/ DeleteWrite \/ UndeployWrite \/ Abandon
    \/ ChangeAccess

Time ==
    \/ \E j \in Jobs : Lapse(j) \/ Expire(j) \/ RetentionSweep(j)
    \/ GoSilent

Call(w) == \E h \in Handlers : Reserve(w, h) \/ Respond(w, h) \/ Settle(w, h) \/ NoteFailure(w, h)

Execute(w) == Open(w) \/ NextTrial(w) \/ Deadline(w) \/ EndTrial(w) \/ Record(w) \/ Break(w) \/ Close(w)

Serve(w) ==
    \/ Start(w) \/ Heartbeat(w) \/ Stop(w)
    \/ \E j \in Jobs : claim(w, j)
    \/ Monitor(w) \/ Call(w) \/ Execute(w)

Next == Control \/ Time \/ \E w \in Workers : Serve(w)

\* A stopped worker is started again by its supervisor, a live one keeps beating and
\* executing, and time passes.
Fairness ==
    /\ \A w \in Workers :
           /\ WF_vars(Start(w)) /\ WF_vars(Heartbeat(w))
           /\ WF_vars(Open(w) \/ NextTrial(w) \/ Deadline(w) \/ EndTrial(w) \/ Record(w) \/ Close(w))
           /\ WF_vars(\E h \in Handlers : Respond(w, h) \/ Settle(w, h) \/ NoteFailure(w, h))
    /\ \A j \in Jobs : WF_vars(Lapse(j))

Spec == Init /\ [][Next]_vars
FairSpec == Spec /\ Fairness

-----------------------------------------------------------------------------
\* Every variable holds the values its column or local variable can hold.
TypeOK ==
    /\ jobs \in [Jobs -> Row]
    /\ trials \in [Jobs -> Seq(Verdicts)]
    /\ deployments \subseteq Deployments /\ saved \in BOOLEAN /\ access \in BOOLEAN
    /\ desk \in [op : {"none", "cancel", "delete", "undeploy"}, job : Jobs \union {NoJob},
                 deployment : Deployments \union {NoDeployment},
                 seen : {"gone"} \union Active \union Finished]
    /\ healthy \in BOOLEAN
    /\ worker \in [Workers -> [pc : {"down", "idle"} \union Executing,
                   job : Jobs \union {NoJob}, brokered : BOOLEAN, reports : Seq(Verdicts),
                   cancelled : BOOLEAN, failed : BOOLEAN]]
    /\ call \in [Workers -> [Handlers -> {"idle", "sent", "known", "failed"}]]

InFlight(j) ==
    {c \in Workers \X Handlers : worker[c[1]].job = j /\ call[c[1]][c[2]] \in {"sent", "known"}}

\* However the handler threads, the sweep and a crash interleave, the calls of a job
\* stay within its budget and each is counted once, as unknown until its usage has
\* been added: a call that failed, is still out or was cut off is never free
\* (model_call, worker.py:95-123; docs/sandbox.md, Model providers and costs).
UsageHonest ==
    \A j \in Jobs : Exists(j) =>
        /\ jobs[j].used <= jobs[j].budget
        /\ jobs[j].used = jobs[j].unknown + jobs[j].known
        /\ Cardinality(InFlight(j)) <= jobs[j].unknown

\* PASS is earned: every trial of the plan is saved, every one of them passed, and
\* nothing went wrong on the way that the database could record, a refused or failed
\* model call included (gate, worker.py:30-35, and the last transaction of execute).
PassIsEarned ==
    \A j \in Jobs : jobs[j].verdict = "PASS" =>
        AllPassed(trials[j], PlanLength) /\ ~jobs[j].error

\* A known FAIL survives: whatever ends the job, sweep, cancellation, crash or error,
\* a saved failing trial is in its verdict (docs/sandbox.md, "A known FAIL survives
\* interruption").
FailSurvives ==
    \A j \in Jobs : Failed(trials[j]) => jobs[j].verdict = "FAIL"

\* A finished job stays finished and its verdict and evidence never change, although
\* the worker that was executing it may still be at work after the sweep or a late
\* cancellation ended it.
FinishedIsFinal ==
    [][\A j \in Jobs : jobs[j].status \in Finished =>
          \/ jobs'[j].status = "gone"
          \/ /\ jobs'[j].status \in Finished
             /\ jobs'[j].verdict = jobs[j].verdict
             /\ trials'[j] = trials[j]]_vars

Grows(old, new) == Len(old) <= Len(new) /\ \A i \in 1 .. Len(old) : new[i] = old[i]

\* An interrupted job is not replayed, by the same worker or another: once claimed it
\* keeps its worker, never waits again, and its evidence only grows, so no provider
\* request is repeated on its behalf (docs/sandbox.md, Isolation, jobs and limits).
NeverReplayed ==
    [][\A j \in Jobs : jobs[j].worker # NoWorker /\ jobs'[j].status # "gone" =>
          /\ jobs'[j].worker = jobs[j].worker
          /\ jobs'[j].status # "queued"
          /\ Grows(trials[j], trials'[j])]_vars

\* No request takes a queued or running job away: it disappears only after its
\* retention, although deletions read its status and write later.
ActiveKept ==
    [][\A j \in Jobs : jobs[j].status \in Active /\ jobs'[j].status = "gone" => jobs[j].expired]_vars

\* Every submitted job ends, whether its worker lives, stalls, is restarted or never
\* comes: the sweep of any worker ends what no worker does.
EveryRunEnds ==
    \A j \in Jobs : jobs[j].status \in Active ~> jobs[j].status \notin Active
=============================================================================
