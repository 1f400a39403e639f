--------------------------- MODULE SandboxProofs ---------------------------
(***************************************************************************)
(* Proofs about the sandboxed runs of a project, for every number of jobs, *)
(* workers, handler threads, trials and calls.                             *)
(***************************************************************************)
EXTENDS SandboxJobs, FiniteSetTheorems, TLAPS

-----------------------------------------------------------------------------
(* The inductive invariant.                                                *)

(* What a row and its trials say together.                                 *)
RowOK(j) ==
    /\ jobs[j].status \in {"unborn", "queued", "gone"} =>
           /\ trials[j] = <<>>
           /\ jobs[j].verdict = "INCONCLUSIVE"
           /\ jobs[j].worker = NoWorker
    /\ jobs[j].status = "running" => jobs[j].verdict # "PASS"
    /\ Failed(trials[j]) => jobs[j].verdict = "FAIL"
    /\ jobs[j].verdict = "PASS" => AllPassed(trials[j], PlanLength) /\ ~jobs[j].error
    /\ jobs[j].used <= jobs[j].budget
    /\ jobs[j].used = jobs[j].unknown + jobs[j].known

(* Every call that is out, or whose usage is not added yet, counts as one  *)
(* of unknown usage.                                                       *)
SpentOK(j) == Exists(j) => Cardinality(InFlight(j)) <= jobs[j].unknown

(* A worker calls the model only during a trial, and no other worker has   *)
(* the job it executes.                                                    *)
HandOK(w) ==
    LET j == worker[w].job
    IN  /\ worker[w].pc \notin {"trial", "ending"} => call[w] = Quiet
        /\ worker[w].pc \in Executing =>
               /\ j \in Jobs
               /\ jobs[j].status \notin {"unborn", "queued"}
               /\ jobs[j].verdict # "PASS"
               /\ Exists(j) => jobs[j].worker = w
        /\ worker[w].pc \notin Executing => j = NoJob

(* What a worker knows of its job's trials is what is saved, but for the   *)
(* one it is about to save or has failed to save.                          *)
EvidenceOK(w) ==
    LET j == worker[w].job
        reports == worker[w].reports
    IN  worker[w].pc \in Executing /\ Owned(w, j) =>
            \/ reports = trials[j] /\ worker[w].pc # "record"
            \/ /\ worker[w].pc = "record" \/ (worker[w].pc = "close" /\ worker[w].failed)
               /\ \E v \in Verdicts : reports = Append(trials[j], v)

(* What a request read is still true enough for what it is about to write. *)
DeskOK ==
    /\ desk.op \in {"cancel", "delete"} => desk.job \in Jobs
    /\ desk.op = "delete" => jobs[desk.job].status \in Finished \union {"gone"}
    /\ desk.op = "undeploy" => \A j \in ActiveJobs : jobs[j].deployment # desk.deployment

Sound ==
    /\ TypeOK /\ DeskOK
    /\ \A j \in Jobs : RowOK(j) /\ SpentOK(j)
    /\ \A w \in Workers : HandOK(w) /\ EvidenceOK(w)

-----------------------------------------------------------------------------
USE DEF control, vars

\* Calls are finitely many.
LEMMA FiniteCalls ==
  ASSUME NEW S \in SUBSET (Workers \X Handlers)
  PROVE  IsFiniteSet(S) /\ Cardinality(S) \in Nat
<1>1. IsFiniteSet(Workers \X Handlers)
  BY SandboxAssumption, FS_Product DEF SandboxAssumption
<1>2. IsFiniteSet(S)
  BY <1>1, FS_Subset
<1> QED BY <1>2, FS_CardinalityType

\* A call in flight is one of unknown usage.
LEMMA UnknownCounted ==
  ASSUME Sound, NEW w \in Workers, NEW h \in Handlers,
         call[w][h] \in {"sent", "known"}, Exists(worker[w].job)
  PROVE  worker[w].job \in Jobs /\ jobs[worker[w].job].unknown >= 1
<1> DEFINE j == worker[w].job
<1>1. worker[w].pc \in {"trial", "ending"}
  BY DEF Sound, HandOK, Quiet
<1>2. j \in Jobs
  BY <1>1 DEF Sound, HandOK, Executing
<1>3. <<w, h>> \in InFlight(j)
  BY DEF InFlight
<1>4. InFlight(j) \in SUBSET (Workers \X Handlers)
  BY DEF InFlight
<1>5. IsFiniteSet(InFlight(j)) /\ Cardinality(InFlight(j)) \in Nat
  BY <1>4, FiniteCalls
<1>6. Cardinality(InFlight(j)) # 0
  BY <1>3, <1>5, FS_EmptySet
<1>7. Cardinality(InFlight(j)) <= jobs[j].unknown
  BY <1>2 DEF Sound, SpentOK
<1>8. jobs[j].unknown \in Nat
  BY <1>2 DEF Sound, TypeOK, Row
<1> QED BY <1>2, <1>5, <1>6, <1>7, <1>8

-----------------------------------------------------------------------------
(* The values rows and workers take.                                       *)

LEMMA BlankRow ==
  ASSUME NEW status \in {"unborn", "gone"} \union Active \union Finished
  PROVE  Blank(status) \in Row
BY DEF Blank, Row, Verdicts

LEMMA QueuedRow ==
  ASSUME NEW r \in Requests, NEW d \in Deployments, NEW b \in Budgets, NEW keyed \in BOOLEAN
  PROVE  [Blank("queued") EXCEPT !.request = r, !.deployment = d, !.budget = b, !.keyed = keyed]
             \in Row
BY DEF Blank, Row, Verdicts, Active

LEMMA RowMarks ==
  ASSUME NEW row \in Row
  PROVE  /\ \A late \in BOOLEAN : [row EXCEPT !.late = late] \in Row
         /\ [row EXCEPT !.expired = TRUE] \in Row
         /\ [row EXCEPT !.keyed = FALSE] \in Row
         /\ [row EXCEPT !.error = TRUE] \in Row
BY DEF Row

LEMMA RowStatus ==
  ASSUME NEW row \in Row
  PROVE  /\ \A seen : Cancelled(row, seen) \in Row
         /\ Swept(row) \in Row
         /\ \A w \in Workers :
                [row EXCEPT !.status = "running", !.worker = w, !.late = FALSE] \in Row
         /\ \A v \in Verdicts : [row EXCEPT !.verdict = v] \in Row
         /\ \A status \in Finished, error \in BOOLEAN, v \in Verdicts :
                [row EXCEPT !.status = status, !.late = FALSE, !.error = error, !.verdict = v]
                    \in Row
<1>1. \A seen : Cancelled(row, seen) \in Row
  BY DEF Row, Cancelled, Finished
<1>2. Swept(row) \in Row
  <2> DEFINE v == IF row.verdict = "FAIL" THEN row.verdict ELSE "INCONCLUSIVE"
  <2>1. v \in Verdicts
    BY DEF Verdicts
  <2>2. \A x \in Verdicts :
            [row EXCEPT !.status = "error", !.error = TRUE, !.late = FALSE, !.verdict = x] \in Row
    BY DEF Row, Finished
  <2>3. \/ Swept(row) = row
        \/ Swept(row) = [row EXCEPT !.status = "error", !.error = TRUE, !.late = FALSE,
                                   !.verdict = v]
    BY DEF Swept
  <2> QED BY <2>1, <2>2, <2>3
<1>3. \A w \in Workers :
          [row EXCEPT !.status = "running", !.worker = w, !.late = FALSE] \in Row
  BY DEF Row, Active
<1>4. \A v \in Verdicts : [row EXCEPT !.verdict = v] \in Row
  BY DEF Row
<1>5. \A status \in Finished, error \in BOOLEAN, v \in Verdicts :
          [row EXCEPT !.status = status, !.late = FALSE, !.error = error, !.verdict = v] \in Row
  BY DEF Row
<1> QED BY <1>1, <1>2, <1>3, <1>4, <1>5

LEMMA RowUsage ==
  ASSUME NEW row \in Row
  PROVE  /\ Spent(row) \in Row
         /\ row.unknown >= 1 =>
                [row EXCEPT !.unknown = @ - 1, !.known = @ + 1] \in Row
<1>1. row.used + 1 \in Nat /\ row.unknown + 1 \in Nat /\ row.known + 1 \in Nat
      /\ (row.unknown >= 1 => row.unknown - 1 \in Nat)
  BY DEF Row
<1>2. \A m, n \in Nat : /\ [row EXCEPT !.used = m, !.unknown = n] \in Row
                        /\ [row EXCEPT !.unknown = m, !.known = n] \in Row
  BY DEF Row
<1>3. Spent(row) = [row EXCEPT !.used = row.used + 1, !.unknown = row.unknown + 1]
  BY DEF Spent
<1> QED BY <1>1, <1>2, <1>3

Local == [pc : {"down", "idle"} \union Executing,
          job : Jobs \union {NoJob}, brokered : BOOLEAN, reports : Seq(Verdicts),
          cancelled : BOOLEAN, failed : BOOLEAN]

LEMMA LocalMoves ==
  ASSUME NEW local \in Local
  PROVE  /\ \A pc \in Executing : [local EXCEPT !.pc = pc] \in Local
         /\ [local EXCEPT !.cancelled = TRUE] \in Local
         /\ \A pc \in Executing, failed \in BOOLEAN, cancelled \in BOOLEAN :
                [local EXCEPT !.pc = pc, !.failed = failed, !.cancelled = cancelled] \in Local
         /\ \A reports \in Seq(Verdicts) :
                [local EXCEPT !.pc = "record", !.reports = reports] \in Local
         /\ [local EXCEPT !.pc = "close", !.failed = TRUE] \in Local
BY DEF Local, Executing

LEMMA LocalRest ==
  /\ Resting("idle") \in Local /\ Resting("down") \in Local
  /\ \A j \in Jobs, brokered \in BOOLEAN :
         [Resting("open") EXCEPT !.job = j, !.brokered = brokered] \in Local
<1>1. /\ Resting("idle") \in Local /\ Resting("down") \in Local /\ Resting("open") \in Local
  BY DEF Local, Resting, Executing
<1>2. \A local \in Local, j \in Jobs, brokered \in BOOLEAN :
          [local EXCEPT !.job = j, !.brokered = brokered] \in Local
  BY DEF Local
<1> QED BY <1>1, <1>2

-----------------------------------------------------------------------------
(* Type correctness.                                                       *)

LEMMA TypeInit == Init => TypeOK
<1> SUFFICES ASSUME Init PROVE TypeOK
  OBVIOUS
<1>1. jobs \in [Jobs -> Row]
  BY BlankRow DEF Init
<1>2. trials \in [Jobs -> Seq(Verdicts)] /\ deployments \subseteq Deployments
  BY DEF Init
<1>3. worker \in [Workers -> Local]
  BY LocalRest DEF Init
<1>4. call \in [Workers -> [Handlers -> {"idle", "sent", "known", "failed"}]]
  BY DEF Init, Quiet
<1>5. saved \in BOOLEAN /\ access \in BOOLEAN /\ healthy \in BOOLEAN
  BY DEF Init
<1>6. desk \in [op : {"none", "cancel", "delete", "undeploy"}, job : Jobs \union {NoJob},
                deployment : Deployments \union {NoDeployment},
                seen : {"gone"} \union Active \union Finished]
  BY DEF Init, NoRequestHeld
<1> QED BY <1>1, <1>2, <1>3, <1>4, <1>5, <1>6 DEF TypeOK, Local

LEMMA TypeControl == TypeOK /\ Control => TypeOK'
<1> SUFFICES ASSUME TypeOK, Control PROVE TypeOK'
  OBVIOUS
<1>1. ASSUME NEW d \in Deployments, Deploy(d) PROVE TypeOK'
  BY <1>1 DEF TypeOK, Deploy
<1>2. ASSUME NEW d \in Deployments, UndeployRead(d) PROVE TypeOK'
  BY <1>2 DEF TypeOK, UndeployRead, Hold
<1>3. ASSUME NEW present \in BOOLEAN, ReplaceKey(present) PROVE TypeOK'
  BY <1>3, RowMarks DEF TypeOK, ReplaceKey
<1>4. ASSUME NEW j \in Jobs, NEW r \in Requests, NEW d \in Deployments, NEW b \in Budgets,
             CreateRun(j, r, d, b)
      PROVE  TypeOK'
  <2> DEFINE keyed == b > 0
             row == [Blank("queued") EXCEPT !.request = r, !.deployment = d, !.budget = b,
                                            !.keyed = keyed]
  <2>1. keyed \in BOOLEAN
    OBVIOUS
  <2>2. jobs' = [jobs EXCEPT ![j] = row]
    BY <1>4 DEF CreateRun
  <2> HIDE DEF keyed
  <2>3. row \in Row
    BY <2>1, QueuedRow
  <2> HIDE DEF row
  <2>4. jobs' \in [Jobs -> Row]
    BY <2>2, <2>3 DEF TypeOK
  <2> QED BY <1>4, <2>4 DEF TypeOK, CreateRun
<1>5. ASSUME NEW j \in Jobs, CancelRead(j) PROVE TypeOK'
  BY <1>5 DEF TypeOK, CancelRead, Hold
<1>6. ASSUME NEW j \in Jobs, DeleteRead(j) PROVE TypeOK'
  BY <1>6 DEF TypeOK, DeleteRead, Hold, Visible, Exists
<1>7. CASE CancelWrite
  BY <1>7, RowStatus DEF TypeOK, CancelWrite, NoRequestHeld
<1>8. CASE DeleteWrite
  BY <1>8, BlankRow DEF TypeOK, DeleteWrite, Without, NoRequestHeld
<1>9. CASE UndeployWrite
  BY <1>9, BlankRow DEF TypeOK, UndeployWrite, Without, NoRequestHeld
<1>10. CASE Abandon
  BY <1>10 DEF TypeOK, Abandon, NoRequestHeld
<1>11. CASE ChangeAccess
  BY <1>11 DEF TypeOK, ChangeAccess
<1> QED BY <1>1, <1>2, <1>3, <1>4, <1>5, <1>6, <1>7, <1>8, <1>9, <1>10, <1>11 DEF Control

LEMMA TypeTime == TypeOK /\ Time => TypeOK'
<1> SUFFICES ASSUME TypeOK, Time PROVE TypeOK'
  OBVIOUS
<1>1. ASSUME NEW j \in Jobs, Lapse(j) PROVE TypeOK'
  BY <1>1, RowMarks DEF TypeOK, Lapse
<1>2. ASSUME NEW j \in Jobs, Expire(j) PROVE TypeOK'
  BY <1>2, RowMarks DEF TypeOK, Expire
<1>3. ASSUME NEW j \in Jobs, RetentionSweep(j) PROVE TypeOK'
  BY <1>3, BlankRow DEF TypeOK, RetentionSweep, Without
<1>4. CASE GoSilent
  BY <1>4 DEF TypeOK, GoSilent
<1> QED BY <1>1, <1>2, <1>3, <1>4 DEF Time

LEMMA TypeBeat ==
  ASSUME TypeOK, Beat
  PROVE  jobs' \in [Jobs -> Row] /\ healthy' \in BOOLEAN
BY RowStatus DEF TypeOK, Beat

States == {"idle", "sent", "known", "failed"}

LEMMA TypeServe ==
  ASSUME Sound, NEW w \in Workers, Serve(w)
  PROVE  TypeOK'
<1> USE DEF Sound
<1>a. /\ jobs \in [Jobs -> Row] /\ worker \in [Workers -> Local]
      /\ call \in [Workers -> [Handlers -> States]]
      /\ worker[w] \in Local
  BY DEF TypeOK, Local, States
<1>b. ASSUME UNCHANGED control, healthy' \in BOOLEAN, jobs' \in [Jobs -> Row],
             trials' \in [Jobs -> Seq(Verdicts)], worker' \in [Workers -> Local],
             call' \in [Workers -> [Handlers -> States]]
      PROVE  TypeOK'
  BY <1>b DEF TypeOK, Local, States
<1>c. healthy \in BOOLEAN /\ trials \in [Jobs -> Seq(Verdicts)]
  BY DEF TypeOK
<1>d. ASSUME NEW h \in Handlers, NEW state \in States, SetCall(w, h, state)
      PROVE  call' \in [Workers -> [Handlers -> States]]
  BY <1>a, <1>d DEF SetCall
<1>1. CASE Start(w)
  BY <1>1, <1>a, <1>b, <1>c, TypeBeat, LocalRest DEF Start
<1>2. CASE Heartbeat(w)
  BY <1>2, <1>a, <1>b, <1>c, TypeBeat DEF Heartbeat
<1>3. CASE Stop(w)
  <2>1. worker' \in [Workers -> Local]
    BY <1>3, <1>a, LocalRest DEF Stop
  <2>2. call' \in [Workers -> [Handlers -> States]]
    BY <1>3, <1>a DEF Stop, Quiet, States
  <2> QED BY <1>3, <1>a, <1>b, <1>c, <2>1, <2>2 DEF Stop
<1>4. ASSUME NEW j \in Jobs, claim(w, j) PROVE TypeOK'
  <2>1. worker' \in [Workers -> Local]
    <3> DEFINE brokered == jobs[j].budget > 0
               local == [Resting("open") EXCEPT !.job = j, !.brokered = brokered]
    <3>1. brokered \in BOOLEAN
      OBVIOUS
    <3>2. worker' = [worker EXCEPT ![w] = local]
      BY <1>4 DEF claim
    <3> HIDE DEF brokered
    <3>3. local \in Local
      BY <3>1, LocalRest
    <3> QED BY <1>a, <3>2, <3>3
  <2>2. jobs' \in [Jobs -> Row]
    BY <1>4, <1>a, RowStatus DEF claim
  <2> QED BY <1>4, <1>a, <1>b, <1>c, <2>1, <2>2 DEF claim
<1>5. CASE Monitor(w)
  <2>1. worker' \in [Workers -> Local]
    BY <1>5, <1>a, LocalMoves DEF Monitor
  <2>2. jobs' \in [Jobs -> Row]
    BY <1>5, <1>a, RowMarks DEF Monitor
  <2> QED BY <1>5, <1>a, <1>b, <1>c, <2>1, <2>2 DEF Monitor
<1>6. ASSUME NEW h \in Handlers, Reserve(w, h) PROVE TypeOK'
  <2>1. jobs' \in [Jobs -> Row]
    BY <1>6, <1>a, RowUsage DEF Reserve
  <2>2. call' \in [Workers -> [Handlers -> States]]
    BY <1>6, <1>d DEF Reserve, States
  <2> QED BY <1>6, <1>a, <1>b, <1>c, <2>1, <2>2 DEF Reserve
<1>7. ASSUME NEW h \in Handlers, Respond(w, h) PROVE TypeOK'
  <2>1. call' \in [Workers -> [Handlers -> States]]
    BY <1>7, <1>d DEF Respond, States
  <2> QED BY <1>7, <1>a, <1>b, <1>c, <2>1 DEF Respond
<1>8. ASSUME NEW h \in Handlers, Settle(w, h) PROVE TypeOK'
  <2> DEFINE j == worker[w].job
  <2>1. jobs' \in [Jobs -> Row]
    <3>1. CASE Exists(j)
      <4>1. j \in Jobs /\ jobs[j].unknown >= 1
        BY <1>8, <3>1, UnknownCounted DEF Settle
      <4>2. [jobs[j] EXCEPT !.unknown = @ - 1, !.known = @ + 1] \in Row
        BY <1>a, <4>1, RowUsage
      <4> QED BY <1>8, <1>a, <3>1, <4>2 DEF Settle, Written
    <3>2. CASE ~Exists(j)
      BY <1>8, <1>a, <3>2 DEF Settle, Written
    <3> QED BY <3>1, <3>2
  <2>2. call' \in [Workers -> [Handlers -> States]]
    BY <1>8, <1>d DEF Settle, States
  <2> QED BY <1>8, <1>a, <1>b, <1>c, <2>1, <2>2 DEF Settle
<1>9. ASSUME NEW h \in Handlers, NoteFailure(w, h) PROVE TypeOK'
  <2>1. jobs' \in [Jobs -> Row]
    <3>1. CASE jobs' = jobs
      BY <1>a, <3>1
    <3>2. CASE jobs' = Written(worker[w].job, [jobs[worker[w].job] EXCEPT !.error = TRUE])
      BY <1>a, <3>2, RowMarks DEF Written
    <3> QED BY <1>9, <3>1, <3>2 DEF NoteFailure
  <2>2. call' \in [Workers -> [Handlers -> States]]
    BY <1>9, <1>d DEF NoteFailure, States
  <2> QED BY <1>9, <1>a, <1>b, <1>c, <2>1, <2>2 DEF NoteFailure
<1>10. CASE Open(w)
  <2> DEFINE j == worker[w].job
             ready == Exists(j) /\ jobs[j].deployment \in deployments
             stopped == worker[w].cancelled \/ ~allowed(w, j)
             pc == IF ready THEN "next" ELSE "close"
  <2>1. worker' = [worker EXCEPT ![w] = [worker[w] EXCEPT !.pc = pc, !.failed = ~ready,
                                                          !.cancelled = stopped]]
    BY <1>10 DEF Open
  <2>2. stopped \in BOOLEAN /\ (~ready) \in BOOLEAN /\ pc \in Executing
    BY <1>a DEF Executing, allowed
  <2> HIDE DEF ready, stopped, pc
  <2>3. worker' \in [Workers -> Local]
    BY <1>a, <2>1, <2>2, LocalMoves
  <2> QED BY <1>10, <1>a, <1>b, <1>c, <2>3 DEF Open
<1>11. CASE NextTrial(w)
  BY <1>11, <1>a, <1>b, <1>c, LocalMoves DEF NextTrial, Step, Executing
<1>12. CASE Deadline(w)
  BY <1>12, <1>a, <1>b, <1>c, LocalMoves DEF Deadline, Step, Executing
<1>13. CASE EndTrial(w)
  <2>1. \A v \in Verdicts : Append(worker[w].reports, v) \in Seq(Verdicts)
    BY <1>a DEF Local
  <2>2. worker' \in [Workers -> Local]
    BY <1>13, <1>a, <2>1, LocalMoves DEF EndTrial
  <2> QED BY <1>13, <1>a, <1>b, <1>c, <2>2 DEF EndTrial
<1>14. CASE Record(w)
  <2> DEFINE j == worker[w].job
             reports == worker[w].reports
  <2>1. CASE Owned(w, j)
    <3>1. worker[w].pc \in Executing
      BY <1>14 DEF Record, Executing
    <3>2. j \in Jobs /\ reports \in Seq(Verdicts)
      BY <1>a, <3>1 DEF HandOK, Local
    <3>3. PICK v \in Verdicts : reports = Append(trials[j], v)
      BY <1>14, <2>1, <3>1 DEF EvidenceOK, Record
    <3> DEFINE verdict == gate(reports, PlanLength, FALSE)
    <3>4. reports[Len(reports)] = v
      BY <1>c, <3>2, <3>3
    <3>5. trials' \in [Jobs -> Seq(Verdicts)]
      <4>1. trials' = [trials EXCEPT ![j] = Append(trials[j], v)]
        BY <1>14, <2>1, <3>4 DEF Record
      <4> QED BY <1>c, <3>2, <4>1
    <3>6. verdict \in Verdicts
      BY DEF gate, Verdicts
    <3>7. jobs' \in [Jobs -> Row]
      <4>1. jobs' = [jobs EXCEPT ![j] = [jobs[j] EXCEPT !.verdict = verdict]]
        BY <1>14, <2>1 DEF Record
      <4> HIDE DEF verdict
      <4> QED BY <1>a, <3>2, <3>6, <4>1, RowStatus
    <3>8. worker' \in [Workers -> Local]
      BY <1>14, <2>1, <1>a, LocalMoves DEF Record, Step, Executing
    <3> QED BY <1>14, <1>a, <1>b, <1>c, <3>5, <3>7, <3>8 DEF Record
  <2>2. CASE ~Owned(w, j)
    BY <1>14, <2>2, <1>a, <1>b, <1>c, LocalRest DEF Record, Leave
  <2> QED BY <2>1, <2>2
<1>15. CASE Break(w)
  BY <1>15, <1>a, <1>b, <1>c, LocalMoves DEF Break
<1>16. CASE Close(w)
  <2> DEFINE j == worker[w].job
             error == worker[w].failed \/ jobs[j].error
             status == IF worker[w].cancelled \/ jobs[j].cancelRequested THEN "cancelled"
                       ELSE IF error THEN "error" ELSE "completed"
             verdict == gate(worker[w].reports, PlanLength, status = "completed")
             flag == error \/ status = "cancelled"
  <2>1. verdict \in Verdicts /\ status \in Finished /\ flag \in BOOLEAN
    BY DEF gate, Verdicts, Finished
  <2>2. jobs' = IF ~Owned(w, j) THEN jobs
                ELSE [jobs EXCEPT ![j] = [jobs[j] EXCEPT !.status = status, !.late = FALSE,
                                              !.error = flag, !.verdict = verdict]]
    BY <1>16 DEF Close
  <2> HIDE DEF error, status, verdict, flag
  <2>3. jobs' \in [Jobs -> Row]
    BY <1>a, <2>1, <2>2, RowStatus
  <2>4. worker' \in [Workers -> Local]
    BY <1>16, <1>a, LocalRest DEF Close, Leave
  <2> QED BY <1>16, <1>a, <1>b, <1>c, <2>3, <2>4 DEF Close
<1> QED BY <1>1, <1>2, <1>3, <1>4, <1>5, <1>6, <1>7, <1>8, <1>9, <1>10, <1>11, <1>12, <1>13,
           <1>14, <1>15, <1>16 DEF Serve, Call, Execute

-----------------------------------------------------------------------------
(* What one step may do to the row and the trials of a job.                *)

SameWork(j) ==
    /\ jobs'[j].worker = jobs[j].worker
    /\ jobs'[j].deployment = jobs[j].deployment
    /\ jobs'[j].budget = jobs[j].budget

SameUsage(j) ==
    /\ jobs'[j].used = jobs[j].used
    /\ jobs'[j].unknown = jobs[j].unknown
    /\ jobs'[j].known = jobs[j].known

(* Marks change: late, expired, keyed, cancelRequested, or the error.      *)
Kept(j) ==
    /\ SameWork(j) /\ SameUsage(j) /\ trials'[j] = trials[j]
    /\ jobs'[j].status = jobs[j].status /\ jobs'[j].verdict = jobs[j].verdict
    /\ jobs'[j].error = jobs[j].error \/ jobs[j].verdict # "PASS"

(* A call is reserved or its usage is added.                               *)
Counted(j) ==
    /\ SameWork(j) /\ Exists(j) /\ trials'[j] = trials[j]
    /\ jobs'[j].status = jobs[j].status /\ jobs'[j].verdict = jobs[j].verdict
    /\ jobs'[j].error = jobs[j].error
    /\ jobs'[j].used <= jobs'[j].budget
    /\ jobs'[j].used = jobs'[j].unknown + jobs'[j].known

Deleted(j) ==
    /\ Exists(j)
    /\ jobs[j].status \in Active => jobs[j].expired
    /\ jobs'[j] = Blank("gone") /\ trials'[j] = <<>>

(* A sweep or a cancellation ends the job, or a cancellation changes the   *)
(* status of one that has ended.                                           *)
Ended(j) ==
    /\ SameWork(j) /\ SameUsage(j) /\ trials'[j] = trials[j]
    /\ Exists(j) /\ jobs'[j].status \in Finished
    /\ \/ jobs'[j].verdict = jobs[j].verdict
       \/ /\ jobs[j].status \in Active /\ jobs[j].verdict # "FAIL"
          /\ jobs'[j].verdict = "INCONCLUSIVE"
    /\ jobs'[j].error = jobs[j].error \/ jobs'[j].verdict # "PASS"

Submitted(j) ==
    /\ desk.op = "none" /\ trials'[j] = trials[j]
    /\ jobs[j].status = "unborn" /\ jobs'[j].status = "queued"
    /\ jobs'[j].verdict = "INCONCLUSIVE" /\ jobs'[j].worker = NoWorker
    /\ jobs'[j].used = 0 /\ jobs'[j].unknown = 0 /\ jobs'[j].known = 0

Claimed(j) ==
    /\ SameUsage(j) /\ trials'[j] = trials[j]
    /\ jobs'[j].deployment = jobs[j].deployment
    /\ jobs'[j].budget = jobs[j].budget
    /\ jobs[j].status = "queued" /\ jobs'[j].status = "running"
    /\ jobs'[j].verdict = jobs[j].verdict

Recorded(j) ==
    /\ SameWork(j) /\ SameUsage(j)
    /\ jobs[j].status = "running" /\ jobs'[j].status = "running"
    /\ \E v \in Verdicts : trials'[j] = Append(trials[j], v)
    /\ Failed(trials'[j]) => jobs'[j].verdict = "FAIL"
    /\ jobs'[j].verdict # "PASS"

Closed(j) ==
    /\ SameWork(j) /\ SameUsage(j) /\ trials'[j] = trials[j]
    /\ jobs[j].status = "running" /\ jobs'[j].status \in Finished
    /\ Failed(trials[j]) => jobs'[j].verdict = "FAIL"
    /\ jobs'[j].verdict = "PASS" => AllPassed(trials[j], PlanLength) /\ ~jobs'[j].error

(* What may happen to a job while another process executes it.             *)
Beside(j) == Kept(j) \/ Counted(j) \/ Deleted(j) \/ Ended(j)

RowStep(j) == Beside(j) \/ Submitted(j) \/ Claimed(j) \/ Recorded(j) \/ Closed(j)

LEMMA BudgetType ==
  ASSUME NEW b, b \in Budgets \union {0}
  PROVE  b \in Nat
BY SandboxAssumption DEF SandboxAssumption

LEMMA EmptyTrials == ~Failed(<<>>)
BY DEF Failed

LEMMA RowPreserved ==
  ASSUME TypeOK, TypeOK', NEW j \in Jobs, RowOK(j), RowStep(j)
  PROVE  RowOK(j)'
<1>0. jobs[j] \in Row /\ jobs'[j] \in Row
  BY DEF TypeOK
<1>1. CASE Kept(j)
  BY <1>1, <1>0 DEF Kept, SameWork, SameUsage, RowOK
<1>2. CASE Counted(j)
  BY <1>2, <1>0 DEF Counted, SameWork, RowOK, Exists, Active, Finished
<1>3. CASE Deleted(j)
  BY <1>3, EmptyTrials DEF Deleted, RowOK, Blank
<1>4. CASE Ended(j)
  <2>1. jobs[j].status = "queued" => jobs[j].verdict = "INCONCLUSIVE"
    BY DEF RowOK
  <2>2. jobs[j].status \in Active => jobs[j].verdict # "PASS"
    BY <2>1 DEF RowOK, Active
  <2>3. jobs'[j].verdict = "PASS" => jobs[j].verdict = "PASS" /\ jobs'[j].error = jobs[j].error
    BY <1>4 DEF Ended
  <2>4. Failed(trials[j]) => jobs'[j].verdict = "FAIL"
    BY <1>4 DEF Ended, RowOK
  <2>5. jobs'[j].status \notin {"unborn", "queued", "gone", "running"}
    BY <1>4 DEF Ended, Finished
  <2> QED BY <1>4, <2>3, <2>4, <2>5 DEF Ended, SameWork, SameUsage, RowOK
<1>5. CASE Submitted(j)
  <2>1. jobs'[j].budget \in Nat
    <3>1. jobs'[j].budget \in Budgets \union {0}
      BY <1>0 DEF Row
    <3> QED BY <3>1, BudgetType
  <2>2. jobs'[j].used <= jobs'[j].budget /\ jobs'[j].used = jobs'[j].unknown + jobs'[j].known
    BY <1>5, <2>1 DEF Submitted
  <2>3. trials'[j] = <<>> /\ ~Failed(trials'[j])
    BY <1>5, EmptyTrials DEF Submitted, RowOK
  <2> QED BY <1>5, <2>2, <2>3 DEF Submitted, RowOK
<1>6. CASE Claimed(j)
  BY <1>6, EmptyTrials DEF Claimed, SameUsage, RowOK
<1>7. CASE Recorded(j)
  BY <1>7 DEF Recorded, SameWork, SameUsage, RowOK
<1>8. CASE Closed(j)
  BY <1>8 DEF Closed, SameWork, SameUsage, RowOK, Finished
<1> QED BY <1>1, <1>2, <1>3, <1>4, <1>5, <1>6, <1>7, <1>8 DEF RowStep, Beside

\* The hand of a worker that does nothing itself.
LEMMA HandPreserved ==
  ASSUME NEW w \in Workers, HandOK(w), EvidenceOK(w),
         worker'[w].pc = worker[w].pc, worker'[w].job = worker[w].job,
         worker'[w].reports = worker[w].reports, worker'[w].failed = worker[w].failed,
         call'[w] = call[w] \/ worker[w].pc \in {"trial", "ending"},
         worker[w].pc \in Executing => Beside(worker[w].job)
  PROVE  HandOK(w)' /\ EvidenceOK(w)'
<1> DEFINE j == worker[w].job
<1>1. CASE worker[w].pc \notin Executing
  BY <1>1 DEF HandOK, EvidenceOK, Executing
<1>2. CASE worker[w].pc \in Executing
  <2>1. /\ j \in Jobs /\ jobs[j].status \notin {"unborn", "queued"}
        /\ jobs[j].verdict # "PASS"
        /\ Exists(j) => jobs[j].worker = w
    BY <1>2 DEF HandOK
  <2>2. \/ Kept(j) \/ Counted(j)
        \/ /\ Exists(j)' => Exists(j) /\ jobs'[j].worker = jobs[j].worker
           /\ jobs'[j].status \in Finished \union {"gone"}
           /\ jobs'[j].verdict # "PASS"
    <3>1. Deleted(j) => jobs'[j].status = "gone" /\ jobs'[j].verdict = "INCONCLUSIVE"
      BY DEF Deleted, Blank
    <3>2. Ended(j) => /\ Exists(j) /\ jobs'[j].worker = jobs[j].worker
                      /\ jobs'[j].status \in Finished /\ jobs'[j].verdict # "PASS"
      BY <2>1 DEF Ended, SameWork
    <3>3. jobs'[j].status = "gone" => ~Exists(j)'
      BY DEF Exists, Active, Finished
    <3> QED BY <1>2, <3>1, <3>2, <3>3 DEF Beside
  <2>3. CASE Kept(j) \/ Counted(j)
    <3>1. /\ jobs'[j].status = jobs[j].status /\ jobs'[j].worker = jobs[j].worker
          /\ jobs'[j].verdict = jobs[j].verdict /\ trials'[j] = trials[j]
      BY <2>3 DEF Kept, Counted, SameWork
    <3>2. HandOK(w)'
      BY <2>1, <3>1 DEF HandOK, Exists
    <3>3. EvidenceOK(w)'
      BY <3>1 DEF EvidenceOK, Owned
    <3> QED BY <3>2, <3>3
  <2>4. CASE /\ Exists(j)' => Exists(j) /\ jobs'[j].worker = jobs[j].worker
             /\ jobs'[j].status \in Finished \union {"gone"}
             /\ jobs'[j].verdict # "PASS"
    <3>1. HandOK(w)'
      BY <1>2, <2>1, <2>4 DEF HandOK, Finished, Exists
    <3>2. EvidenceOK(w)'
      BY <2>4 DEF EvidenceOK, Owned, Finished
    <3> QED BY <3>1, <3>2
  <2> QED BY <2>2, <2>3, <2>4
<1> QED BY <1>1, <1>2

\* What a request has read outlives every step but its own.
LEMMA DeskPreserved ==
  ASSUME TypeOK, DeskOK, desk' = desk \/ desk' = NoRequestHeld,
         \A j \in Jobs : RowStep(j)
  PROVE  DeskOK'
<1>1. CASE desk' = NoRequestHeld
  BY <1>1 DEF DeskOK, NoRequestHeld
<1>2. CASE desk' = desk
  <2>1. ASSUME NEW j \in Jobs, jobs[j].status \in Finished \union {"gone"}
        PROVE  jobs'[j].status \in Finished \union {"gone"}
    BY <2>1 DEF RowStep, Beside, Kept, Counted, Deleted, Ended, Submitted, Claimed, Recorded,
                Closed, Blank, Finished
  <2>2. ASSUME NEW j \in Jobs, jobs'[j].status \in Active, desk.op # "none"
        PROVE  jobs[j].status \in Active /\ jobs'[j].deployment = jobs[j].deployment
    <3>1. RowStep(j) /\ ~Submitted(j)
      BY <2>2 DEF Submitted
    <3> QED BY <2>2, <3>1 DEF RowStep, Beside, Kept, Counted, Deleted, Ended, Claimed, Recorded,
                              Closed, SameWork, Blank, Active, Finished
  <2> QED BY <1>2, <2>1, <2>2 DEF DeskOK, ActiveJobs
<1> QED BY <1>1, <1>2

-----------------------------------------------------------------------------
(* Calls in flight.                                                        *)

LEMMA NoCallsBefore ==
  ASSUME Sound, NEW j \in Jobs, jobs[j].status \in {"unborn", "queued"}
  PROVE  InFlight(j) = {}
<1>1. ASSUME NEW w \in Workers, NEW h \in Handlers, worker[w].job = j,
             call[w][h] \in {"sent", "known"}
      PROVE  FALSE
  <2>1. worker[w].pc \in {"trial", "ending"}
    BY <1>1 DEF Sound, HandOK, Quiet
  <2> QED BY <1>1, <2>1 DEF Sound, HandOK, Executing
<1> QED BY <1>1 DEF InFlight

\* No call is added and none that is out is forgotten.
LEMMA SpentPreserved ==
  ASSUME Sound, TypeOK', NEW j \in Jobs,
         InFlight(j)' \subseteq InFlight(j),
         RowStep(j), Counted(j) => jobs'[j].unknown = jobs[j].unknown
  PROVE  SpentOK(j)'
<1>1. InFlight(j) \in SUBSET (Workers \X Handlers) /\ InFlight(j)' \in SUBSET (Workers \X Handlers)
  BY DEF InFlight
<1>2. /\ IsFiniteSet(InFlight(j)) /\ Cardinality(InFlight(j)) \in Nat
      /\ Cardinality(InFlight(j)') \in Nat /\ Cardinality(InFlight(j)') <= Cardinality(InFlight(j))
  <2>1. IsFiniteSet(InFlight(j)) /\ Cardinality(InFlight(j)) \in Nat
    BY <1>1, FiniteCalls
  <2>2. Cardinality(InFlight(j)') \in Nat
    BY <1>1, FiniteCalls
  <2>3. InFlight(j)' \in SUBSET InFlight(j)
    OBVIOUS
  <2>4. Cardinality(InFlight(j)') <= Cardinality(InFlight(j))
    BY <2>1, <2>3, FS_Subset
  <2> QED BY <2>1, <2>2, <2>4
<1>3. jobs[j].unknown \in Nat /\ jobs'[j].unknown \in Nat
  BY DEF Sound, TypeOK, Row
<1>4. CASE Submitted(j) \/ jobs[j].status = "queued"
  <2>1. InFlight(j) = {}
    BY <1>4, NoCallsBefore DEF Submitted
  <2>2. Cardinality(InFlight(j)') = 0
    BY <2>1, FS_EmptySet
  <2> QED BY <1>3, <2>2 DEF SpentOK
<1>5. CASE Exists(j) /\ ~Submitted(j) /\ jobs[j].status # "queued"
  <2>1. jobs'[j].unknown = jobs[j].unknown \/ ~Exists(j)'
    BY <1>5 DEF RowStep, Beside, Kept, Deleted, Ended, Claimed, Recorded, Closed, SameUsage,
                Exists, Blank, Active, Finished
  <2>2. Cardinality(InFlight(j)) <= jobs[j].unknown
    BY <1>5 DEF Sound, SpentOK
  <2> QED BY <1>2, <1>3, <2>1, <2>2 DEF SpentOK
<1>6. CASE ~Exists(j) /\ ~Submitted(j)
  <2>1. ~Exists(j)'
    BY <1>6 DEF RowStep, Beside, Kept, Counted, Deleted, Ended, Claimed, Recorded, Closed,
                Exists, Active, Finished
  <2> QED BY <2>1 DEF SpentOK
<1> QED BY <1>4, <1>5, <1>6

-----------------------------------------------------------------------------
(* Steps that leave the workers alone, and steps of one worker.            *)

LEMMA TableStep ==
  ASSUME Sound, TypeOK', UNCHANGED <<worker, call>>, desk' = desk \/ desk' = NoRequestHeld,
         \A j \in Jobs : Kept(j) \/ Deleted(j) \/ Ended(j) \/ Submitted(j)
  PROVE  Sound' /\ \A j \in Jobs : RowStep(j)
<1>1. \A j \in Jobs : RowStep(j)
  BY DEF RowStep, Beside
<1>2. DeskOK'
  BY <1>1, DeskPreserved DEF Sound
<1>3. \A j \in Jobs : RowOK(j)'
  BY <1>1, RowPreserved DEF Sound
<1>4. ASSUME NEW j \in Jobs PROVE SpentOK(j)'
  <2>1. InFlight(j)' = InFlight(j)
    BY DEF InFlight
  <2>2. Counted(j) => jobs'[j].unknown = jobs[j].unknown
    BY DEF Kept, Deleted, Ended, Submitted, Counted, SameUsage, Exists, Active, Finished, Blank
  <2> QED BY <1>1, <2>1, <2>2, SpentPreserved
<1>5. ASSUME NEW w \in Workers PROVE HandOK(w)' /\ EvidenceOK(w)'
  <2>1. worker[w].pc \in Executing => Beside(worker[w].job)
    BY DEF Sound, HandOK, Submitted, Beside
  <2> QED BY <2>1, HandPreserved DEF Sound
<1> QED BY <1>1, <1>2, <1>3, <1>4, <1>5 DEF Sound

LEMMA WorkerStep ==
  ASSUME Sound, TypeOK', NEW w \in Workers, desk' = desk,
         \A u \in Workers \ {w} : worker'[u] = worker[u] /\ call'[u] = call[u],
         \A j \in Jobs : Beside(j) \/ (RowStep(j) /\ (\/ Exists(j) /\ jobs[j].worker = w
                                                      \/ jobs[j].status = "queued")),
         \A j \in Jobs : SpentOK(j)',
         HandOK(w)', EvidenceOK(w)'
  PROVE  Sound' /\ \A j \in Jobs : RowStep(j)
<1>1. \A j \in Jobs : RowStep(j)
  BY DEF RowStep
<1>2. DeskOK'
  BY <1>1, DeskPreserved DEF Sound
<1>3. \A j \in Jobs : RowOK(j)'
  BY <1>1, RowPreserved DEF Sound
<1>4. ASSUME NEW u \in Workers \ {w} PROVE HandOK(u)' /\ EvidenceOK(u)'
  <2>1. worker[u].pc \in Executing => Beside(worker[u].job)
    BY DEF Sound, HandOK
  <2> QED BY <2>1, HandPreserved DEF Sound
<1> QED BY <1>1, <1>2, <1>3, <1>4 DEF Sound

\* A step of one worker that puts no call in flight.
LEMMA WorkerSpent ==
  ASSUME Sound, TypeOK', NEW w \in Workers,
         \A u \in Workers \ {w} : worker'[u] = worker[u] /\ call'[u] = call[u],
         \A h \in Handlers : call'[w][h] \in {"sent", "known"} =>
             call[w][h] \in {"sent", "known"} /\ worker'[w].job = worker[w].job,
         \A j \in Jobs : (RowStep(j) /\ ~Counted(j)) \/ Kept(j)
  PROVE  \A j \in Jobs : SpentOK(j)'
<1> TAKE j \in Jobs
<1>1. InFlight(j)' \subseteq InFlight(j)
  BY DEF InFlight
<1>2. RowStep(j) /\ (Counted(j) => jobs'[j].unknown = jobs[j].unknown)
  BY DEF RowStep, Beside, Kept, SameUsage
<1> QED BY <1>1, <1>2, SpentPreserved

-----------------------------------------------------------------------------
(* The control plane and time.                                             *)

LEMMA Unmoved ==
  ASSUME Sound, TypeOK', UNCHANGED <<jobs, trials, worker, call>>, DeskOK'
  PROVE  Sound' /\ \A j \in Jobs : RowStep(j)
<1>1. \A j \in Jobs : Kept(j)
  BY DEF Kept, SameWork, SameUsage
<1>2. \A j \in Jobs : RowOK(j)' /\ SpentOK(j)'
  BY DEF Sound, RowOK, SpentOK, Exists, InFlight
<1>3. \A w \in Workers : HandOK(w)' /\ EvidenceOK(w)'
  BY DEF Sound, HandOK, EvidenceOK, Exists, Owned
<1> QED BY <1>1, <1>2, <1>3 DEF Sound, RowStep, Beside

LEMMA WithoutRows ==
  ASSUME Sound, NEW gone \in SUBSET Jobs, Without(gone),
         \A j \in gone : jobs[j].status \in Active => jobs[j].expired
  PROVE  \A j \in Jobs : Kept(j) \/ Deleted(j)
<1> TAKE j \in Jobs
<1>1. CASE j \in gone /\ Exists(j)
  BY <1>1 DEF Without, Deleted
<1>2. CASE ~(j \in gone /\ Exists(j))
  <2>1. jobs'[j] = jobs[j]
    BY <1>2 DEF Without
  <2>2. trials'[j] = trials[j]
    <3>1. CASE j \in gone
      <4>1. jobs[j].status \in {"unborn", "gone"}
        BY <1>2, <3>1 DEF Sound, TypeOK, Row, Exists
      <4> QED BY <3>1, <4>1 DEF Sound, RowOK, Without
    <3>2. CASE j \notin gone
      BY <3>2 DEF Without
    <3> QED BY <3>1, <3>2
  <2> QED BY <2>1, <2>2 DEF Kept, SameWork, SameUsage
<1> QED BY <1>1, <1>2

LEMMA ControlStep ==
  ASSUME Sound, Control
  PROVE  Sound' /\ \A j \in Jobs : RowStep(j)
<1>t. TypeOK /\ TypeOK'
  BY TypeControl DEF Sound
<1> DEFINE Goal == Sound' /\ \A j \in Jobs : RowStep(j)
<1>k. ASSUME UNCHANGED <<jobs, trials>> PROVE \A j \in Jobs : Kept(j)
  BY <1>k DEF Kept, SameWork, SameUsage
<1>1. ASSUME NEW d \in Deployments, Deploy(d) PROVE Goal
  BY <1>1, <1>t, <1>k, TableStep DEF Deploy
<1>2. ASSUME NEW d \in Deployments, UndeployRead(d) PROVE Goal
  <2>1. DeskOK'
    BY <1>2 DEF UndeployRead, Hold, DeskOK, ActiveJobs
  <2> QED BY <1>2, <1>t, <2>1, Unmoved DEF UndeployRead, Hold
<1>3. ASSUME NEW present \in BOOLEAN, ReplaceKey(present) PROVE Goal
  <2>1. ASSUME NEW j \in Jobs PROVE Kept(j)
    <3>1. jobs[j] \in Row /\ jobs'[j] = [jobs[j] EXCEPT !.keyed = FALSE] /\ trials'[j] = trials[j]
      BY <1>3, <1>t DEF ReplaceKey, TypeOK
    <3> QED BY <3>1 DEF Kept, SameWork, SameUsage, Row
  <2> QED BY <1>3, <1>t, <2>1, TableStep DEF ReplaceKey
<1>4. ASSUME NEW i \in Jobs, NEW r \in Requests, NEW d \in Deployments, NEW b \in Budgets,
             CreateRun(i, r, d, b)
      PROVE  Goal
  <2>1. ASSUME NEW j \in Jobs PROVE Kept(j) \/ Submitted(j)
    <3>1. CASE j = i
      <4>1. jobs'[j] = [Blank("queued") EXCEPT !.request = r, !.deployment = d, !.budget = b,
                                               !.keyed = b > 0]
        BY <1>4, <1>t, <3>1 DEF CreateRun, TypeOK
      <4>2. desk.op = "none" /\ trials'[j] = trials[j] /\ jobs[j].status = "unborn"
        BY <1>4, <3>1 DEF CreateRun, LockFree, NoRequestHeld
      <4> QED BY <4>1, <4>2 DEF Submitted, Blank
    <3>2. CASE j # i
      BY <1>4, <1>t, <3>2 DEF CreateRun, TypeOK, Kept, SameWork, SameUsage
    <3> QED BY <3>1, <3>2
  <2> QED BY <1>4, <1>t, <2>1, TableStep DEF CreateRun
<1>5. ASSUME NEW i \in Jobs, CancelRead(i) PROVE Goal
  <2>1. DeskOK'
    BY <1>5 DEF CancelRead, Hold, DeskOK
  <2> QED BY <1>5, <1>t, <2>1, Unmoved DEF CancelRead, Hold
<1>6. ASSUME NEW i \in Jobs, DeleteRead(i) PROVE Goal
  <2>1. jobs[i].status \in Finished
    BY <1>6 DEF DeleteRead, Visible, Exists
  <2>2. DeskOK'
    BY <1>6, <2>1 DEF DeleteRead, Hold, DeskOK
  <2> QED BY <1>6, <1>t, <2>2, Unmoved DEF DeleteRead, Hold
<1>7. CASE CancelWrite
  <2>1. desk.job \in Jobs
    BY <1>7 DEF CancelWrite, Sound, DeskOK
  <2>2. ASSUME NEW j \in Jobs PROVE Kept(j) \/ Ended(j)
    <3>1. CASE j = desk.job /\ Visible(desk.job)
      <4>1. jobs[j] \in Row /\ jobs'[j] = Cancelled(jobs[j], desk.seen) /\ trials'[j] = trials[j]
        BY <1>7, <1>t, <2>1, <3>1 DEF CancelWrite, TypeOK
      <4>2. /\ SameWork(j) /\ SameUsage(j)
            /\ jobs'[j].verdict = jobs[j].verdict /\ jobs'[j].error = jobs[j].error
            /\ jobs'[j].status \in {jobs[j].status, "cancelled"}
        BY <4>1 DEF Cancelled, SameWork, SameUsage, Row
      <4>3. Exists(j)
        BY <3>1 DEF Visible
      <4> QED BY <4>1, <4>2, <4>3 DEF Kept, Ended, Finished
    <3>2. CASE ~(j = desk.job /\ Visible(desk.job))
      BY <1>7, <1>t, <2>1, <3>2 DEF CancelWrite, TypeOK, Kept, SameWork, SameUsage
    <3> QED BY <3>1, <3>2
  <2> QED BY <1>7, <1>t, <2>2, TableStep DEF CancelWrite
<1>8. CASE DeleteWrite
  <2>1. desk.job \in Jobs /\ jobs[desk.job].status \notin Active
    BY <1>8 DEF DeleteWrite, Sound, DeskOK, Active, Finished
  <2>2. \A j \in Jobs : Kept(j) \/ Deleted(j)
    BY <1>8, <2>1, WithoutRows DEF DeleteWrite
  <2> QED BY <1>8, <1>t, <2>2, TableStep DEF DeleteWrite
<1>9. CASE UndeployWrite
  <2> DEFINE gone == {j \in Jobs : jobs[j].deployment = desk.deployment}
  <2>1. \A j \in gone : jobs[j].status \notin Active
    BY <1>9 DEF UndeployWrite, Sound, DeskOK, ActiveJobs
  <2>2. \A j \in Jobs : Kept(j) \/ Deleted(j)
    BY <1>9, <2>1, WithoutRows DEF UndeployWrite
  <2> QED BY <1>9, <1>t, <2>2, TableStep DEF UndeployWrite
<1>10. CASE Abandon
  BY <1>10, <1>t, <1>k, TableStep DEF Abandon
<1>11. CASE ChangeAccess
  BY <1>11, <1>t, <1>k, TableStep DEF ChangeAccess
<1> QED BY <1>1, <1>2, <1>3, <1>4, <1>5, <1>6, <1>7, <1>8, <1>9, <1>10, <1>11 DEF Control

LEMMA TimeStep ==
  ASSUME Sound, Time
  PROVE  Sound' /\ \A j \in Jobs : RowStep(j)
<1>t. TypeOK /\ TypeOK'
  BY TypeTime DEF Sound
<1> DEFINE Goal == Sound' /\ \A j \in Jobs : RowStep(j)
<1>1. ASSUME NEW i \in Jobs, Lapse(i) PROVE Goal
  <2>1. \A j \in Jobs : Kept(j)
    BY <1>1, <1>t DEF Lapse, TypeOK, Row, Kept, SameWork, SameUsage
  <2> QED BY <1>1, <1>t, <2>1, TableStep DEF Lapse
<1>2. ASSUME NEW i \in Jobs, Expire(i) PROVE Goal
  <2>1. jobs \in [Jobs -> Row] /\ trials' = trials /\ jobs' = [jobs EXCEPT ![i].expired = TRUE]
    BY <1>2, <1>t DEF Expire, TypeOK
  <2>2. \A j \in Jobs : Kept(j)
    BY <2>1 DEF Row, Kept, SameWork, SameUsage
  <2> QED BY <1>2, <1>t, <2>2, TableStep DEF Expire
<1>3. ASSUME NEW i \in Jobs, RetentionSweep(i) PROVE Goal
  <2>1. \A j \in Jobs : Kept(j) \/ Deleted(j)
    BY <1>3, WithoutRows DEF RetentionSweep
  <2> QED BY <1>3, <1>t, <2>1, TableStep DEF RetentionSweep
<1>4. CASE GoSilent
  <2>1. \A j \in Jobs : Kept(j)
    BY <1>4 DEF GoSilent, Kept, SameWork, SameUsage
  <2> QED BY <1>4, <1>t, <2>1, TableStep DEF GoSilent
<1> QED BY <1>1, <1>2, <1>3, <1>4 DEF Time

-----------------------------------------------------------------------------
(* The workers.                                                            *)

LEMMA SweptStep ==
  ASSUME Sound, Beat, trials' = trials
  PROVE  \A j \in Jobs : Kept(j) \/ Ended(j)
<1> TAKE j \in Jobs
<1>1. jobs[j] \in Row /\ jobs'[j] = Swept(jobs[j]) /\ trials'[j] = trials[j]
  BY DEF Sound, TypeOK, Beat
<1>2. CASE ~jobs[j].late \/ jobs[j].status \notin Active
  <2>1. jobs'[j] = jobs[j]
    BY <1>1, <1>2 DEF Swept
  <2> QED BY <1>1, <2>1 DEF Kept, SameWork, SameUsage
<1>3. CASE jobs[j].late /\ jobs[j].status \in Active
  <2> DEFINE v == IF jobs[j].verdict = "FAIL" THEN jobs[j].verdict ELSE "INCONCLUSIVE"
  <2>1. jobs'[j] = [jobs[j] EXCEPT !.status = "error", !.error = TRUE, !.late = FALSE,
                                   !.verdict = v]
    BY <1>1, <1>3 DEF Swept
  <2>2. /\ SameWork(j) /\ SameUsage(j)
        /\ jobs'[j].verdict = v /\ jobs'[j].status = "error"
    BY <1>1, <2>1 DEF Row, SameWork, SameUsage
  <2>3. v = jobs[j].verdict \/ (jobs[j].verdict # "FAIL" /\ v = "INCONCLUSIVE")
    OBVIOUS
  <2>4. v # "PASS" /\ Exists(j)
    BY <1>3 DEF Exists
  <2> HIDE DEF v
  <2> QED BY <1>1, <1>3, <2>2, <2>3, <2>4 DEF Ended, Finished
<1> QED BY <1>2, <1>3

LEMMA GateVerdicts ==
  ASSUME NEW reports, NEW complete
  PROVE  /\ Failed(reports) => gate(reports, PlanLength, complete) = "FAIL"
         /\ gate(reports, PlanLength, complete) = "PASS" =>
                complete /\ AllPassed(reports, PlanLength)
BY DEF gate

\* One more trial, whatever its verdict, does not make a failed job any better.
LEMMA FailedAppended ==
  ASSUME NEW old \in Seq(Verdicts), NEW v \in Verdicts, Failed(old)
  PROVE  Failed(Append(old, v))
<1>1. PICK i \in DOMAIN old : old[i] = "FAIL"
  BY DEF Failed
<1>2. i \in DOMAIN Append(old, v) /\ Append(old, v)[i] = "FAIL"
  BY <1>1
<1> QED BY <1>2 DEF Failed

\* What an executing worker may rely on.
LEMMA InHand ==
  ASSUME Sound, NEW w \in Workers, worker[w].pc \in Executing
  PROVE  LET j == worker[w].job
         IN  /\ j \in Jobs /\ jobs[j] \in Row /\ jobs[j].verdict # "PASS"
             /\ jobs[j].status \notin {"unborn", "queued"}
             /\ Exists(j) => jobs[j].worker = w
BY DEF Sound, HandOK, TypeOK

\* A step of one worker that leaves the tables alone.
LEMMA LocalStep ==
  ASSUME Sound, TypeOK', NEW w \in Workers, UNCHANGED <<jobs, trials, desk>>,
         \A u \in Workers \ {w} : worker'[u] = worker[u] /\ call'[u] = call[u],
         \A h \in Handlers : call'[w][h] \in {"sent", "known"} =>
             call[w][h] \in {"sent", "known"} /\ worker'[w].job = worker[w].job,
         HandOK(w)', EvidenceOK(w)'
  PROVE  Sound' /\ \A j \in Jobs : RowStep(j)
<1>1. \A j \in Jobs : Kept(j)
  BY DEF Kept, SameWork, SameUsage
<1>2. \A j \in Jobs : SpentOK(j)'
  BY <1>1, WorkerSpent
<1> QED BY <1>1, <1>2, WorkerStep DEF Beside

\* A worker that executes nothing calls nothing.
LEMMA AtRest ==
  ASSUME NEW w \in Workers, NEW pc \in {"idle", "down"}, worker'[w] = Resting(pc),
         call'[w] = Quiet
  PROVE  /\ HandOK(w)' /\ EvidenceOK(w)'
         /\ \A h \in Handlers : call'[w][h] \notin {"sent", "known"}
BY DEF Resting, HandOK, EvidenceOK, Executing, Quiet

\* The worker moves on with the same job.
LEMMA MovedOn ==
  ASSUME Sound, NEW w \in Workers, worker[w].pc \in Executing,
         UNCHANGED <<jobs, trials>>, worker'[w].job = worker[w].job,
         worker'[w].pc \in Executing,
         worker'[w].pc \notin {"trial", "ending"} => call'[w] = Quiet
  PROVE  HandOK(w)'
BY DEF Sound, HandOK, Exists

LEMMA ServeStep ==
  ASSUME Sound, NEW w \in Workers, Serve(w)
  PROVE  Sound' /\ \A j \in Jobs : RowStep(j)
<1> DEFINE Goal == Sound' /\ \A j \in Jobs : RowStep(j)
           job == worker[w].job
<1>t. TypeOK /\ TypeOK'
  BY TypeServe DEF Sound
<1>w. /\ worker \in [Workers -> Local] /\ worker[w] \in Local
      /\ call \in [Workers -> [Handlers -> States]]
      /\ jobs \in [Jobs -> Row] /\ trials \in [Jobs -> Seq(Verdicts)]
  BY <1>t DEF TypeOK, Local, States
<1>h. HandOK(w) /\ EvidenceOK(w)
  BY DEF Sound
<1>q. worker[w].pc \notin {"trial", "ending"} => call[w] = Quiet
  BY <1>h DEF HandOK
<1>1. CASE Start(w)
  <2>1. call'[w] = Quiet /\ worker'[w] = Resting("idle")
    BY <1>1, <1>w, <1>q DEF Start
  <2>2. HandOK(w)' /\ EvidenceOK(w)' /\ \A h \in Handlers : call'[w][h] \notin {"sent", "known"}
    BY <2>1, AtRest
  <2>3. \A j \in Jobs : Kept(j) \/ Ended(j)
    BY <1>1, SweptStep DEF Start
  <2>4. \A j \in Jobs : (RowStep(j) /\ ~Counted(j)) \/ Kept(j)
    BY <2>3 DEF RowStep, Beside, Counted, Ended, Kept, SameUsage
  <2>5. \A u \in Workers \ {w} : worker'[u] = worker[u] /\ call'[u] = call[u]
    BY <1>1, <1>w DEF Start
  <2>6. \A j \in Jobs : SpentOK(j)'
    BY <1>t, <2>2, <2>4, <2>5, WorkerSpent
  <2> QED BY <1>1, <1>t, <2>2, <2>3, <2>5, <2>6, WorkerStep DEF Beside, Start
<1>2. CASE Heartbeat(w)
  <2>1. \A j \in Jobs : Kept(j) \/ Ended(j)
    BY <1>2, SweptStep DEF Heartbeat
  <2> QED BY <1>2, <1>t, <2>1, TableStep DEF Heartbeat
<1>3. CASE Stop(w)
  <2>1. worker'[w] = Resting("down") /\ call'[w] = Quiet
    BY <1>3, <1>w DEF Stop
  <2>2. \A u \in Workers \ {w} : worker'[u] = worker[u] /\ call'[u] = call[u]
    BY <1>3, <1>w DEF Stop
  <2> QED BY <1>3, <1>t, <2>1, <2>2, AtRest, LocalStep DEF Stop
<1>4. ASSUME NEW i \in Jobs, claim(w, i) PROVE Goal
  <2>1. /\ jobs[i].status = "queued" /\ jobs[i] \in Row
        /\ jobs' = [jobs EXCEPT ![i] = [jobs[i] EXCEPT !.status = "running", !.worker = w,
                                                       !.late = FALSE]]
        /\ trials' = trials
    BY <1>4, <1>w DEF claim
  <2>2. /\ Claimed(i) /\ jobs'[i].worker = w
    BY <1>w, <2>1 DEF Claimed, SameUsage, Row
  <2>3. \A j \in Jobs \ {i} : Kept(j)
    BY <1>w, <2>1 DEF Kept, SameWork, SameUsage
  <2>4. \A u \in Workers \ {w} : worker'[u] = worker[u] /\ call'[u] = call[u]
    BY <1>4, <1>w DEF claim
  <2>5. /\ worker'[w].pc = "open" /\ worker'[w].job = i /\ worker'[w].reports = <<>>
        /\ call'[w] = Quiet
    BY <1>4, <1>w, <1>q DEF claim, Resting
  <2>6. jobs[i].verdict = "INCONCLUSIVE" /\ trials[i] = <<>>
    BY <2>1 DEF Sound, RowOK
  <2>7. HandOK(w)' /\ EvidenceOK(w)'
    BY <2>1, <2>2, <2>5, <2>6 DEF HandOK, EvidenceOK, Executing, Claimed
  <2>8. \A j \in Jobs : (RowStep(j) /\ ~Counted(j)) \/ Kept(j)
    BY <2>2, <2>3 DEF RowStep, Claimed, Counted
  <2>9. \A j \in Jobs : SpentOK(j)'
    BY <1>t, <2>4, <2>5, <2>8, WorkerSpent DEF Quiet
  <2>10. \A j \in Jobs : Beside(j) \/ (RowStep(j) /\ jobs[j].status = "queued")
    BY <2>1, <2>2, <2>3 DEF Beside, RowStep
  <2> QED BY <1>4, <1>t, <2>4, <2>7, <2>9, <2>10, WorkerStep DEF claim
<1>5. CASE Monitor(w)
  <2>1. worker[w].pc \in Executing /\ job \in Jobs /\ call' = call
    BY <1>5, InHand DEF Monitor
  <2>2. CASE worker' = [worker EXCEPT ![w].cancelled = TRUE] /\ UNCHANGED jobs
    <3>1. /\ worker'[w].pc = worker[w].pc /\ worker'[w].job = job
          /\ worker'[w].reports = worker[w].reports /\ worker'[w].failed = worker[w].failed
      BY <1>w, <2>2 DEF Local
    <3>2. HandOK(w)'
      BY <1>5, <1>q, <2>1, <2>2, <3>1, MovedOn DEF Monitor
    <3>3. EvidenceOK(w)'
      BY <1>5, <1>h, <2>2, <3>1 DEF Monitor, EvidenceOK, Owned
    <3>4. \A u \in Workers \ {w} : worker'[u] = worker[u] /\ call'[u] = call[u]
      BY <1>w, <2>1, <2>2
    <3> QED BY <1>5, <1>t, <2>1, <2>2, <3>1, <3>2, <3>3, <3>4, LocalStep DEF Monitor
  <2>3. CASE jobs' = [jobs EXCEPT ![job].late = FALSE] /\ UNCHANGED worker
    <3>1. \A j \in Jobs : Kept(j)
      BY <1>5, <1>w, <2>1, <2>3 DEF Monitor, Kept, SameWork, SameUsage, Row
    <3> QED BY <1>5, <1>t, <2>1, <2>3, <3>1, TableStep DEF Monitor
  <2> QED BY <1>5, <2>2, <2>3 DEF Monitor
<1>6. ASSUME NEW h \in Handlers, Reserve(w, h) PROVE Goal
  <2> DEFINE granted == /\ allowed(w, job) /\ jobs[job].keyed
                        /\ jobs[job].used < jobs[job].budget
  <2>1. /\ worker[w].pc = "trial" /\ call[w][h] = "idle" /\ worker' = worker /\ trials' = trials
        /\ desk' = desk
    BY <1>6 DEF Reserve
  <2>2. job \in Jobs /\ jobs[job] \in Row /\ (Exists(job) => jobs[job].worker = w)
    BY <2>1, InHand DEF Executing
  <2>3. \A u \in Workers \ {w} : worker'[u] = worker[u] /\ call'[u] = call[u]
    BY <1>6, <1>w, <2>1 DEF Reserve, SetCall
  <2>4. CASE granted
    <3>1. /\ jobs' = [jobs EXCEPT ![job] = Spent(jobs[job])]
          /\ call' = [call EXCEPT ![w][h] = "sent"]
      BY <1>6, <2>4 DEF Reserve, SetCall
    <3>2. Exists(job) /\ jobs[job].worker = w
      BY <2>2, <2>4 DEF allowed, Owned, Exists, Active
    <3>3. /\ jobs[job].used \in Nat /\ jobs[job].unknown \in Nat /\ jobs[job].known \in Nat
          /\ jobs[job].budget \in Nat
      BY <2>2, BudgetType DEF Row
    <3>4. /\ jobs'[job].used = jobs[job].used + 1 /\ jobs'[job].unknown = jobs[job].unknown + 1
          /\ jobs'[job].known = jobs[job].known /\ jobs'[job].budget = jobs[job].budget
          /\ jobs'[job].status = jobs[job].status /\ jobs'[job].verdict = jobs[job].verdict
          /\ jobs'[job].error = jobs[job].error /\ SameWork(job)
      BY <1>w, <2>2, <3>1 DEF Spent, Row, SameWork
    <3>5. jobs[job].used = jobs[job].unknown + jobs[job].known
      BY <2>2 DEF Sound, RowOK
    <3>6. jobs[job].used < jobs[job].budget
      BY <2>4
    <3>7. /\ jobs'[job].used <= jobs'[job].budget
          /\ jobs'[job].used = jobs'[job].unknown + jobs'[job].known
      BY <3>3, <3>4, <3>5, <3>6
    <3>8. Counted(job)
      BY <2>1, <3>2, <3>4, <3>7 DEF Counted
    <3>9. \A j \in Jobs \ {job} : Kept(j)
      BY <1>w, <2>1, <3>1 DEF Kept, SameWork, SameUsage
    <3>10. HandOK(w)' /\ EvidenceOK(w)'
      BY <1>h, <2>1, <3>8, HandPreserved DEF Beside
    <3>11. ASSUME NEW j \in Jobs PROVE SpentOK(j)'
      <4>1. CASE j = job
        <5>1. InFlight(j)' = InFlight(j) \union {<<w, h>>}
          <6>1. \A u \in Workers, g \in Handlers :
                    call'[u][g] = IF u = w /\ g = h THEN "sent" ELSE call[u][g]
            BY <1>w, <3>1
          <6> QED BY <2>1, <4>1, <6>1 DEF InFlight
        <5>2. InFlight(j) \in SUBSET (Workers \X Handlers)
          BY DEF InFlight
        <5>3. IsFiniteSet(InFlight(j)) /\ Cardinality(InFlight(j)) \in Nat
          BY <5>2, FiniteCalls
        <5>4. <<w, h>> \notin InFlight(j)
          BY <2>1 DEF InFlight
        <5>5. Cardinality(InFlight(j)') = Cardinality(InFlight(j)) + 1
          BY <5>1, <5>3, <5>4, FS_AddElement
        <5>6. Cardinality(InFlight(j)) <= jobs[j].unknown
          BY <3>2, <4>1 DEF Sound, SpentOK
        <5> QED BY <3>3, <3>4, <4>1, <5>3, <5>5, <5>6 DEF SpentOK
      <4>2. CASE j # job
        <5>1. InFlight(j)' \subseteq InFlight(j)
          BY <1>w, <2>1, <3>1, <4>2 DEF InFlight
        <5>2. RowStep(j) /\ (Counted(j) => jobs'[j].unknown = jobs[j].unknown)
          BY <3>9, <4>2 DEF RowStep, Beside, Kept, SameUsage
        <5> QED BY <1>t, <5>1, <5>2, SpentPreserved
      <4> QED BY <4>1, <4>2
    <3> QED BY <1>t, <2>1, <2>3, <3>8, <3>9, <3>10, <3>11, WorkerStep DEF Beside
  <2>5. CASE ~granted
    <3>1. jobs' = jobs /\ call' = [call EXCEPT ![w][h] = "failed"]
      BY <1>6, <2>5 DEF Reserve, SetCall
    <3>2. \A g \in Handlers : call'[w][g] \in {"sent", "known"} =>
              call[w][g] \in {"sent", "known"} /\ worker'[w].job = job
      BY <1>w, <2>1, <3>1
    <3>3. HandOK(w)' /\ EvidenceOK(w)'
      BY <1>h, <2>1, <3>1 DEF HandOK, EvidenceOK, Exists, Owned
    <3> QED BY <1>t, <2>1, <2>3, <3>1, <3>2, <3>3, LocalStep
  <2> QED BY <2>4, <2>5
<1>7. ASSUME NEW h \in Handlers, Respond(w, h) PROVE Goal
  <2>1. worker[w].pc \in {"trial", "ending"}
    BY <1>7, <1>q DEF Respond, Quiet
  <2>2. /\ HandOK(w)' /\ EvidenceOK(w)'
    BY <1>7, <1>h, <2>1 DEF Respond, HandOK, EvidenceOK, Owned, Exists, Executing
  <2>3. /\ \A u \in Workers \ {w} : worker'[u] = worker[u] /\ call'[u] = call[u]
        /\ \A g \in Handlers : call'[w][g] \in {"sent", "known"} =>
               call[w][g] \in {"sent", "known"} /\ worker'[w].job = job
    BY <1>7, <1>w DEF Respond, SetCall
  <2> QED BY <1>7, <1>t, <2>2, <2>3, LocalStep DEF Respond
<1>8. ASSUME NEW h \in Handlers, Settle(w, h) PROVE Goal
  <2>1. /\ worker[w].pc \in {"trial", "ending"} /\ call[w][h] = "known"
        /\ worker' = worker /\ trials' = trials /\ desk' = desk
        /\ call' = [call EXCEPT ![w][h] = "idle"]
    BY <1>8, <1>q DEF Settle, SetCall, Quiet
  <2>2. job \in Jobs /\ jobs[job] \in Row /\ (Exists(job) => jobs[job].worker = w)
    BY <2>1, InHand DEF Executing
  <2>3. \A u \in Workers \ {w} : worker'[u] = worker[u] /\ call'[u] = call[u]
    BY <1>w, <2>1
  <2>4. \A g \in Handlers : call'[w][g] \in {"sent", "known"} =>
            call[w][g] \in {"sent", "known"} /\ worker'[w].job = job
    BY <1>w, <2>1
  <2>5. CASE Exists(job)
    <3>1. jobs' = [jobs EXCEPT ![job] = [jobs[job] EXCEPT !.unknown = jobs[job].unknown - 1,
                                                          !.known = jobs[job].known + 1]]
      BY <1>8, <2>5 DEF Settle, Written
    <3>2. /\ jobs[job].used \in Nat /\ jobs[job].unknown \in Nat /\ jobs[job].known \in Nat
      BY <2>2 DEF Row
    <3>3. /\ jobs'[job].used = jobs[job].used /\ jobs'[job].unknown = jobs[job].unknown - 1
          /\ jobs'[job].known = jobs[job].known + 1 /\ jobs'[job].budget = jobs[job].budget
          /\ jobs'[job].status = jobs[job].status /\ jobs'[job].verdict = jobs[job].verdict
          /\ jobs'[job].error = jobs[job].error /\ SameWork(job)
      BY <1>w, <2>2, <3>1 DEF Row, SameWork
    <3>4. jobs[job].used = jobs[job].unknown + jobs[job].known /\ jobs[job].used <= jobs[job].budget
      BY <2>2 DEF Sound, RowOK
    <3>5. /\ jobs'[job].used <= jobs'[job].budget
          /\ jobs'[job].used = jobs'[job].unknown + jobs'[job].known
      BY <3>2, <3>3, <3>4
    <3>6. Counted(job)
      BY <2>1, <2>5, <3>3, <3>5 DEF Counted
    <3>7. \A j \in Jobs \ {job} : Kept(j)
      BY <1>w, <2>1, <3>1 DEF Kept, SameWork, SameUsage
    <3>8. HandOK(w)' /\ EvidenceOK(w)'
      BY <1>h, <2>1, <3>6, HandPreserved DEF Beside
    <3>9. ASSUME NEW j \in Jobs PROVE SpentOK(j)'
      <4>1. CASE j = job
        <5>1. InFlight(j)' = InFlight(j) \ {<<w, h>>}
          <6>1. \A u \in Workers, g \in Handlers :
                    call'[u][g] = IF u = w /\ g = h THEN "idle" ELSE call[u][g]
            BY <1>w, <2>1
          <6> QED BY <2>1, <4>1, <6>1 DEF InFlight
        <5>2. InFlight(j) \in SUBSET (Workers \X Handlers)
          BY DEF InFlight
        <5>3. IsFiniteSet(InFlight(j)) /\ Cardinality(InFlight(j)) \in Nat
          BY <5>2, FiniteCalls
        <5>4. <<w, h>> \in InFlight(j)
          BY <2>1, <4>1 DEF InFlight
        <5>5. Cardinality(InFlight(j)') = Cardinality(InFlight(j)) - 1
          BY <5>1, <5>3, <5>4, FS_RemoveElement
        <5>6. Cardinality(InFlight(j)) <= jobs[j].unknown
          BY <2>5, <4>1 DEF Sound, SpentOK
        <5> QED BY <3>2, <3>3, <4>1, <5>3, <5>5, <5>6 DEF SpentOK
      <4>2. CASE j # job
        <5>1. InFlight(j)' \subseteq InFlight(j)
          BY <1>w, <2>1, <4>2 DEF InFlight
        <5>2. RowStep(j) /\ (Counted(j) => jobs'[j].unknown = jobs[j].unknown)
          BY <3>7, <4>2 DEF RowStep, Beside, Kept, SameUsage
        <5> QED BY <1>t, <5>1, <5>2, SpentPreserved
      <4> QED BY <4>1, <4>2
    <3> QED BY <1>t, <2>1, <2>3, <3>6, <3>7, <3>8, <3>9, WorkerStep DEF Beside
  <2>6. CASE ~Exists(job)
    <3>1. jobs' = jobs
      BY <1>8, <2>6 DEF Settle, Written
    <3>2. HandOK(w)' /\ EvidenceOK(w)'
      BY <1>h, <2>1, <3>1 DEF HandOK, EvidenceOK, Exists, Owned
    <3> QED BY <1>t, <2>1, <2>3, <2>4, <3>1, <3>2, LocalStep
  <2> QED BY <2>5, <2>6
<1>9. ASSUME NEW h \in Handlers, NoteFailure(w, h) PROVE Goal
  <2>1. worker[w].pc \in {"trial", "ending"}
    BY <1>9, <1>q DEF NoteFailure, Quiet
  <2>2. job \in Jobs /\ jobs[job] \in Row /\ jobs[job].verdict # "PASS"
    BY <2>1, InHand DEF Executing
  <2>3. \A j \in Jobs : Kept(j)
    <3>1. trials' = trials
      BY <1>9 DEF NoteFailure
    <3>2. CASE jobs' = jobs
      BY <3>1, <3>2 DEF Kept, SameWork, SameUsage
    <3>3. CASE jobs' = Written(job, [jobs[job] EXCEPT !.error = TRUE])
      BY <1>w, <2>2, <3>1, <3>3 DEF Written, Kept, SameWork, SameUsage, Row
    <3> QED BY <1>9, <3>2, <3>3 DEF NoteFailure
  <2>4. HandOK(w)' /\ EvidenceOK(w)'
    <3>1. worker'[w] = worker[w]
      BY <1>9 DEF NoteFailure
    <3> QED BY <1>h, <2>1, <2>2, <2>3, <3>1, HandPreserved DEF Beside
  <2>5. /\ \A u \in Workers \ {w} : worker'[u] = worker[u] /\ call'[u] = call[u]
        /\ \A g \in Handlers : call'[w][g] \in {"sent", "known"} =>
               call[w][g] \in {"sent", "known"} /\ worker'[w].job = job
    BY <1>9, <1>w DEF NoteFailure, SetCall
  <2>6. \A j \in Jobs : SpentOK(j)'
    BY <1>t, <2>3, <2>5, WorkerSpent
  <2> QED BY <1>9, <1>t, <2>3, <2>4, <2>5, <2>6, WorkerStep DEF Beside, NoteFailure
<1>10. CASE Open(w)
  <2>1. /\ worker'[w].pc \in {"next", "close"} /\ worker'[w].job = job
        /\ worker'[w].reports = worker[w].reports
    BY <1>10, <1>w DEF Open, Local
  <2>2. worker[w].pc = "open" /\ call' = call /\ UNCHANGED <<jobs, trials>>
    BY <1>10 DEF Open
  <2>3. HandOK(w)'
    BY <1>q, <2>1, <2>2, MovedOn DEF Executing
  <2>4. EvidenceOK(w)'
    BY <1>h, <2>1, <2>2 DEF EvidenceOK, Owned, Executing
  <2>5. \A u \in Workers \ {w} : worker'[u] = worker[u] /\ call'[u] = call[u]
    BY <1>10, <1>w DEF Open
  <2> QED BY <1>10, <1>t, <2>1, <2>3, <2>4, <2>5, LocalStep DEF Open
<1>11. CASE NextTrial(w) \/ Deadline(w)
  <2>1. /\ worker'[w].pc \in {"trial", "ending", "close"} /\ worker'[w].job = job
        /\ worker'[w].reports = worker[w].reports
        /\ \A u \in Workers \ {w} : worker'[u] = worker[u]
    BY <1>11, <1>w DEF NextTrial, Deadline, Step, Local
  <2>2. /\ worker[w].pc = "next" \/ (worker[w].pc = "trial" /\ worker'[w].pc = "ending")
        /\ call' = call /\ UNCHANGED <<jobs, trials, desk>>
    BY <1>11, <1>w DEF NextTrial, Deadline, Step, Local
  <2>3. HandOK(w)'
    BY <1>q, <2>1, <2>2, MovedOn DEF Executing
  <2>4. EvidenceOK(w)'
    BY <1>h, <2>1, <2>2 DEF EvidenceOK, Owned, Executing
  <2> QED BY <1>t, <2>1, <2>2, <2>3, <2>4, LocalStep
<1>13. CASE EndTrial(w)
  <2>1. PICK v \in Verdicts :
            worker' = [worker EXCEPT ![w] = [worker[w] EXCEPT !.pc = "record",
                                         !.reports = Append(worker[w].reports, v)]]
    BY <1>13 DEF EndTrial
  <2>2. /\ worker'[w].pc = "record" /\ worker'[w].job = job
        /\ worker'[w].reports = Append(worker[w].reports, v)
        /\ \A u \in Workers \ {w} : worker'[u] = worker[u]
    BY <1>w, <2>1 DEF Local
  <2>3. /\ worker[w].pc \in {"trial", "ending"} /\ call' = call /\ call[w] = Quiet
        /\ UNCHANGED <<jobs, trials, desk>>
    BY <1>13 DEF EndTrial
  <2>4. HandOK(w)'
    BY <2>2, <2>3, MovedOn DEF Executing
  <2>5. EvidenceOK(w)'
    BY <1>h, <2>2, <2>3 DEF EvidenceOK, Owned, Executing
  <2> QED BY <1>t, <2>2, <2>3, <2>4, <2>5, LocalStep
<1>14. CASE Record(w)
  <2> DEFINE reports == worker[w].reports
  <2>1. /\ worker[w].pc = "record" /\ call' = call /\ call[w] = Quiet /\ desk' = desk
    BY <1>14, <1>q DEF Record
  <2>2. /\ job \in Jobs /\ jobs[job] \in Row /\ jobs[job].verdict # "PASS"
        /\ jobs[job].status \notin {"unborn", "queued"}
        /\ (Exists(job) => jobs[job].worker = w)
    BY <2>1, InHand DEF Executing
  <2>3. CASE Owned(w, job)
    <3> DEFINE verdict == gate(reports, PlanLength, FALSE)
    <3>1. PICK v \in Verdicts : reports = Append(trials[job], v)
      BY <1>h, <2>1, <2>3 DEF EvidenceOK, Executing
    <3>2. reports[Len(reports)] = v
      BY <1>w, <2>2, <3>1
    <3>3. /\ trials' = [trials EXCEPT ![job] = Append(trials[job], v)]
          /\ jobs' = [jobs EXCEPT ![job] = [jobs[job] EXCEPT !.verdict = verdict]]
          /\ worker' = [worker EXCEPT ![w].pc = "next"]
      BY <1>14, <2>3, <3>2 DEF Record, Step
    <3>4. (Failed(reports) => verdict = "FAIL") /\ verdict # "PASS"
      BY GateVerdicts
    <3> HIDE DEF verdict
    <3>5. /\ trials'[job] = reports /\ SameWork(job) /\ SameUsage(job)
          /\ jobs'[job].status = jobs[job].status /\ jobs'[job].verdict = verdict
      BY <1>w, <2>2, <3>1, <3>3 DEF SameWork, SameUsage, Row
    <3>6. jobs[job].status = "running" /\ Exists(job) /\ jobs[job].worker = w
      BY <2>3 DEF Owned, Exists, Active
    <3>7. Recorded(job)
      BY <3>1, <3>4, <3>5, <3>6 DEF Recorded
    <3>8. \A j \in Jobs \ {job} : Kept(j)
      BY <1>w, <3>3 DEF Kept, SameWork, SameUsage
    <3>9. /\ worker'[w].pc = "next" /\ worker'[w].job = job /\ worker'[w].reports = reports
          /\ \A u \in Workers \ {w} : worker'[u] = worker[u]
      BY <1>w, <3>3 DEF Local
    <3>10. HandOK(w)' /\ EvidenceOK(w)'
      <4>1. HandOK(w)'
        BY <2>1, <2>2, <3>4, <3>5, <3>6, <3>9 DEF HandOK, SameWork, Executing
      <4>2. EvidenceOK(w)'
        BY <3>5, <3>9 DEF EvidenceOK
      <4> QED BY <4>1, <4>2
    <3>11. \A j \in Jobs : (RowStep(j) /\ ~Counted(j)) \/ Kept(j)
      <4>1. Append(trials[job], v) # trials[job]
        BY <1>w, <2>2
      <4>2. ~Counted(job)
        BY <3>1, <3>5, <4>1 DEF Counted
      <4> QED BY <3>7, <3>8, <4>2 DEF RowStep
    <3>12. \A j \in Jobs : SpentOK(j)'
      BY <1>t, <2>1, <3>9, <3>11, WorkerSpent
    <3>13. \A j \in Jobs : Beside(j) \/ (RowStep(j) /\ Exists(j) /\ jobs[j].worker = w)
      BY <3>6, <3>7, <3>8 DEF Beside, RowStep
    <3> QED BY <1>t, <2>1, <3>9, <3>10, <3>12, <3>13, WorkerStep
  <2>4. CASE ~Owned(w, job)
    <3>1. /\ worker'[w] = Resting("idle") /\ UNCHANGED <<jobs, trials>>
          /\ \A u \in Workers \ {w} : worker'[u] = worker[u]
      BY <1>14, <1>w, <2>4 DEF Record, Leave
    <3> QED BY <1>t, <2>1, <3>1, AtRest, LocalStep
  <2> QED BY <2>3, <2>4
<1>15. CASE Break(w)
  <2>1. /\ worker'[w].pc = "close" /\ worker'[w].failed /\ worker'[w].job = job
        /\ worker'[w].reports = worker[w].reports
        /\ \A u \in Workers \ {w} : worker'[u] = worker[u]
    BY <1>15, <1>w DEF Break, Local
  <2>2. /\ worker[w].pc \in Executing /\ call' = call /\ call[w] = Quiet
        /\ UNCHANGED <<jobs, trials, desk>>
    BY <1>15 DEF Break
  <2>3. HandOK(w)'
    BY <2>1, <2>2, MovedOn DEF Executing
  <2>4. EvidenceOK(w)'
    BY <1>h, <2>1, <2>2 DEF EvidenceOK, Owned, Executing
  <2> QED BY <1>t, <2>1, <2>2, <2>3, <2>4, LocalStep
<1>16. CASE Close(w)
  <2> DEFINE reports == worker[w].reports
             error == worker[w].failed \/ jobs[job].error
             status == IF worker[w].cancelled \/ jobs[job].cancelRequested THEN "cancelled"
                       ELSE IF error THEN "error" ELSE "completed"
             verdict == gate(reports, PlanLength, status = "completed")
             flag == error \/ status = "cancelled"
  <2>1. /\ worker[w].pc = "close" /\ call' = call /\ call[w] = Quiet /\ desk' = desk
        /\ trials' = trials /\ worker' = [worker EXCEPT ![w] = Resting("idle")]
    BY <1>16, <1>q DEF Close, Leave
  <2>2. /\ job \in Jobs /\ jobs[job] \in Row /\ (Exists(job) => jobs[job].worker = w)
    BY <2>1, InHand DEF Executing
  <2>3. /\ worker'[w] = Resting("idle") /\ \A u \in Workers \ {w} : worker'[u] = worker[u]
    BY <1>w, <2>1
  <2>4. CASE Owned(w, job)
    <3>1. jobs' = [jobs EXCEPT ![job] = [jobs[job] EXCEPT !.status = status, !.late = FALSE,
                                               !.error = flag, !.verdict = verdict]]
      BY <1>16, <2>4 DEF Close
    <3>2. status \in Finished
      BY DEF Finished
    <3>3. Failed(reports) => verdict = "FAIL"
      BY GateVerdicts
    <3>4. verdict = "PASS" => AllPassed(reports, PlanLength) /\ ~flag /\ ~worker[w].failed
      <4>1. status = "completed" => ~flag /\ ~worker[w].failed
        OBVIOUS
      <4>2. verdict = "PASS" => status = "completed" /\ AllPassed(reports, PlanLength)
        BY GateVerdicts
      <4> QED BY <4>1, <4>2
    <3>5. \/ reports = trials[job]
          \/ worker[w].failed /\ \E v \in Verdicts : reports = Append(trials[job], v)
      BY <1>h, <2>1, <2>4 DEF EvidenceOK, Executing
    <3>6. Failed(trials[job]) => Failed(reports)
      BY <1>w, <2>2, <3>5, FailedAppended
    <3> HIDE DEF status, flag, verdict
    <3>7. /\ jobs'[job].status = status /\ jobs'[job].verdict = verdict
          /\ jobs'[job].error = flag /\ SameWork(job) /\ SameUsage(job)
      BY <1>w, <2>2, <3>1 DEF Row, SameWork, SameUsage
    <3>8. jobs[job].status = "running" /\ Exists(job) /\ jobs[job].worker = w
      BY <2>4 DEF Owned, Exists, Active
    <3>9. Closed(job)
      BY <2>1, <3>2, <3>3, <3>4, <3>5, <3>6, <3>7, <3>8 DEF Closed
    <3>10. \A j \in Jobs \ {job} : Kept(j)
      BY <1>w, <2>1, <3>1 DEF Kept, SameWork, SameUsage
    <3>11. \A j \in Jobs : (RowStep(j) /\ ~Counted(j)) \/ Kept(j)
      BY <3>9, <3>10 DEF RowStep, Closed, Counted, Finished
    <3>12. \A j \in Jobs : SpentOK(j)'
      BY <1>t, <2>1, <2>3, <3>11, WorkerSpent DEF Quiet
    <3>13. \A j \in Jobs : Beside(j) \/ (RowStep(j) /\ Exists(j) /\ jobs[j].worker = w)
      BY <3>8, <3>9, <3>10 DEF Beside, RowStep
    <3> QED BY <1>t, <2>1, <2>3, <3>12, <3>13, AtRest, WorkerStep
  <2>5. CASE ~Owned(w, job)
    <3>1. jobs' = jobs
      BY <1>16, <2>5 DEF Close
    <3> QED BY <1>t, <2>1, <2>3, <3>1, AtRest, LocalStep
  <2> QED BY <2>4, <2>5
<1>17. CASE Execute(w)
  BY <1>10, <1>11, <1>13, <1>14, <1>15, <1>16, <1>17 DEF Execute
<1>18. CASE Call(w)
  BY <1>6, <1>7, <1>8, <1>9, <1>18 DEF Call
<1> QED BY <1>1, <1>2, <1>3, <1>4, <1>5, <1>17, <1>18 DEF Serve

-----------------------------------------------------------------------------
(* The invariant is inductive, and every step moves each row as said.      *)

LEMMA SoundInit == Init => Sound
<1> SUFFICES ASSUME Init PROVE Sound
  OBVIOUS
<1>1. TypeOK
  BY TypeInit
<1>2. DeskOK
  BY DEF Init, DeskOK, NoRequestHeld
<1>3. ASSUME NEW j \in Jobs PROVE RowOK(j) /\ SpentOK(j)
  <2>1. jobs[j] = Blank("unborn") /\ trials[j] = <<>>
    BY DEF Init
  <2> QED BY <2>1, EmptyTrials DEF RowOK, SpentOK, Exists, Blank, Active, Finished
<1>4. ASSUME NEW w \in Workers PROVE HandOK(w) /\ EvidenceOK(w)
  BY DEF Init, HandOK, EvidenceOK, Resting, Executing
<1> QED BY <1>1, <1>2, <1>3, <1>4 DEF Sound

LEMMA SoundStep ==
  ASSUME Sound, [Next]_vars
  PROVE  Sound' /\ \A j \in Jobs : RowStep(j)
<1>1. CASE Control
  BY <1>1, ControlStep
<1>2. CASE Time
  BY <1>2, TimeStep
<1>3. ASSUME NEW w \in Workers, Serve(w) PROVE Sound' /\ \A j \in Jobs : RowStep(j)
  BY <1>3, ServeStep
<1>4. CASE UNCHANGED vars
  <2>1. TypeOK'
    BY <1>4 DEF Sound, TypeOK
  <2>2. DeskOK'
    BY <1>4 DEF Sound, DeskOK, ActiveJobs
  <2> QED BY <1>4, <2>1, <2>2, Unmoved
<1> QED BY <1>1, <1>2, <1>3, <1>4 DEF Next

(* The invariant holds throughout.                                         *)
THEOREM Invariance == Spec => []Sound
BY SoundInit, SoundStep, PTL DEF Spec

(* TypeOK: every column and local variable keeps its type, the counters of *)
(* calls included, which are decreased when usage arrives.                 *)
THEOREM RowsTyped == Spec => []TypeOK
<1>1. Sound => TypeOK
  BY DEF Sound
<1> QED BY <1>1, Invariance, PTL

(* UsageHonest: calls stay within the job's budget and each is counted     *)
(* once, as one of unknown usage until its usage has been added.           *)
THEOREM CallsCounted == Spec => []UsageHonest
<1>1. Sound => UsageHonest
  BY DEF Sound, UsageHonest, RowOK, SpentOK
<1> QED BY <1>1, Invariance, PTL

(* PassIsEarned: only a job that completed with every trial of its plan    *)
(* saved and passed, and without an error, says PASS.                      *)
THEOREM PassMeansPassed == Spec => []PassIsEarned
<1>1. Sound => PassIsEarned
  BY DEF Sound, PassIsEarned, RowOK
<1> QED BY <1>1, Invariance, PTL

(* FailSurvives: a saved failing trial is in the verdict, whatever ends    *)
(* the job.                                                                *)
THEOREM FailIsKept == Spec => []FailSurvives
<1>1. Sound => FailSurvives
  BY DEF Sound, FailSurvives, RowOK
<1> QED BY <1>1, Invariance, PTL

(* FinishedIsFinal: the verdict and evidence of a finished job never       *)
(* change, although its worker may not know yet that it is finished.       *)
THEOREM FinishedStays == Spec => FinishedIsFinal
<1>1. Sound /\ [Next]_vars =>
        [\A j \in Jobs : jobs[j].status \in Finished =>
            \/ jobs'[j].status = "gone"
            \/ /\ jobs'[j].status \in Finished
               /\ jobs'[j].verdict = jobs[j].verdict
               /\ trials'[j] = trials[j]]_vars
  <2> SUFFICES ASSUME Sound, [Next]_vars, NEW j \in Jobs, jobs[j].status \in Finished
               PROVE  \/ jobs'[j].status = "gone"
                      \/ /\ jobs'[j].status \in Finished
                         /\ jobs'[j].verdict = jobs[j].verdict
                         /\ trials'[j] = trials[j]
    OBVIOUS
  <2>1. RowStep(j)
    BY SoundStep
  <2>2. jobs[j].status \notin Active \union {"unborn"}
    BY DEF Active, Finished
  <2>3. Deleted(j) => jobs'[j].status = "gone"
    BY DEF Deleted, Blank
  <2> QED BY <2>1, <2>2, <2>3
          DEF RowStep, Beside, Kept, Counted, Ended, Submitted, Claimed, Recorded, Closed, Active
<1> QED BY <1>1, Invariance, PTL DEF Spec, FinishedIsFinal

(* NeverReplayed: a claimed job keeps its worker, never waits again, and   *)
(* its evidence only grows.                                                *)
THEOREM ClaimedOnce == Spec => NeverReplayed
<1>1. Sound /\ [Next]_vars =>
        [\A j \in Jobs : jobs[j].worker # NoWorker /\ jobs'[j].status # "gone" =>
            /\ jobs'[j].worker = jobs[j].worker
            /\ jobs'[j].status # "queued"
            /\ Grows(trials[j], trials'[j])]_vars
  <2> SUFFICES ASSUME Sound, [Next]_vars, NEW j \in Jobs, jobs[j].worker # NoWorker,
                      jobs'[j].status # "gone"
               PROVE  /\ jobs'[j].worker = jobs[j].worker
                      /\ jobs'[j].status # "queued"
                      /\ Grows(trials[j], trials'[j])
    OBVIOUS
  <2>1. RowStep(j)
    BY SoundStep
  <2>2. jobs[j].status \notin {"unborn", "queued"} /\ trials[j] \in Seq(Verdicts)
    BY DEF Sound, RowOK, TypeOK
  <2>3. Deleted(j) => jobs'[j].status = "gone"
    BY DEF Deleted, Blank
  <2>4. SameWork(j) /\ jobs'[j].status # "queued"
    BY <2>1, <2>2, <2>3
    DEF RowStep, Beside, Kept, Counted, Ended, Submitted, Claimed, Recorded, Closed, Finished
  <2>5. trials'[j] = trials[j] \/ \E v \in Verdicts : trials'[j] = Append(trials[j], v)
    BY <2>1, <2>2, <2>3
    DEF RowStep, Beside, Kept, Counted, Ended, Submitted, Claimed, Recorded, Closed
  <2>6. Grows(trials[j], trials'[j])
    BY <2>2, <2>5 DEF Grows
  <2> QED BY <2>4, <2>6 DEF SameWork
<1> QED BY <1>1, Invariance, PTL DEF Spec, NeverReplayed

(* ActiveKept: no request takes a queued or running job away, although     *)
(* deletions read its status first and write later.                        *)
THEOREM ActiveStays == Spec => ActiveKept
<1>1. Sound /\ [Next]_vars =>
        [\A j \in Jobs :
            jobs[j].status \in Active /\ jobs'[j].status = "gone" => jobs[j].expired]_vars
  <2> SUFFICES ASSUME Sound, [Next]_vars, NEW j \in Jobs, jobs[j].status \in Active,
                      jobs'[j].status = "gone"
               PROVE  jobs[j].expired
    OBVIOUS
  <2>1. RowStep(j)
    BY SoundStep
  <2>2. ~(jobs[j].status = "gone") /\ "gone" \notin Finished
    BY DEF Active, Finished
  <2> QED BY <2>1, <2>2
          DEF RowStep, Beside, Kept, Counted, Deleted, Ended, Submitted, Claimed, Recorded, Closed
<1> QED BY <1>1, Invariance, PTL DEF Spec, ActiveKept

=============================================================================
