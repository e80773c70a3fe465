------------------------------ MODULE Transfer ------------------------------
(***************************************************************************)
(* File transfers between servers, backend/internal/services/              *)
(* transfer_service.go: a row of transfer_jobs per transfer and a          *)
(* goroutine per run of it.  Nothing ties the two together but the status  *)
(* column, which the goroutine and three HTTP handlers write without       *)
(* looking at each other: CancelTransfer does not stop the rsync, and      *)
(* RetryTransfer starts another one whatever the status is.                *)
(*                                                                         *)
(* A member of Runs is one call of executeTransfer, together with the      *)
(* CreateTransfer or RetryTransfer that starts it.  stranded and           *)
(* mixed are history variables, no part of the code.                       *)
(***************************************************************************)
EXTENDS Naturals

CONSTANTS
  Jobs,        \* ids of transfers, one per CreateTransfer call
  Runs,        \* executions, each used once
  NoJob,       \* the job of a run that has not been started
  MaxTroubles  \* bound: lost UPDATEs and restarts of the API process

ASSUME ConstantsAssumption == NoJob \notin Jobs /\ MaxTroubles \in Nat

VARIABLES
  status,      \* transfer_jobs.status, "absent" before the INSERT
  progress,    \* transfer_jobs.progress
  job,         \* the transfer each run belongs to
  pc,          \* where each run is
  verdict,     \* the status a run is about to write
  stranded,    \* history: jobs whose verdict a restart or an error took away
  mixed,       \* history: jobs retried over a live run, or without the reset
  troubles     \* troubles used up, at most MaxTroubles

rowVars == <<status, progress>>
runVars == <<job, pc, verdict>>
vars == <<status, progress, job, pc, verdict, stranded, mixed, troubles>>

Active   == {"pending", "running"}
Verdicts == {"completed", "failed"}
Statuses == {"absent", "deleted", "cancelled"} \cup Active \cup Verdicts
RunPCs   == {"idle", "asked", "spawned", "load", "connect", "rsync", "report", "done"}

(* The run has not ended: the process still has work to do for it. *)
Live(r) == pc[r] \notin {"idle", "done"}

RunsOf(j) == {r \in Runs : job[r] = j}

RowExists(j) == status[j] \notin {"absent", "deleted"}

(***************************************************************************)
(* Helpers                                                                 *)
(***************************************************************************)
Trouble == troubles < MaxTroubles /\ troubles' = troubles + 1

Goto(r, label) == pc' = [pc EXCEPT ![r] = label]

Will(r, v) == verdict' = [verdict EXCEPT ![r] = v]

(* UPDATE transfer_jobs SET status = s, progress = p WHERE id = j.         *)
UpdateRow(j, s, p) ==
  IF RowExists(j)
    THEN status' = [status EXCEPT ![j] = s] /\ progress' = [progress EXCEPT ![j] = p]
    ELSE UNCHANGED rowVars

Init ==
  /\ status = [j \in Jobs |-> "absent"]
  /\ progress = [j \in Jobs |-> 0]
  /\ job = [r \in Runs |-> NoJob]
  /\ pc = [r \in Runs |-> "idle"]
  /\ verdict = [r \in Runs |-> "none"]
  /\ stranded = {}
  /\ mixed = {}
  /\ troubles = 0

(***************************************************************************)
(* The HTTP handlers                                                       *)
(***************************************************************************)

(* CreateTransfer (and PreviewTransfer, with --dry-run) up to the INSERT.  *)
CreateTransfer(j, r) ==
  /\ status[j] = "absent"
  /\ pc[r] = "idle"
  /\ status' = [status EXCEPT ![j] = "pending"]
  /\ job' = [job EXCEPT ![r] = j]
  /\ Goto(r, "asked")
  /\ UNCHANGED <<progress, verdict, stranded, mixed, troubles>>

(* RetryTransfer up to the UPDATE, which looks at no status and starts the *)
(* run whether it succeeds or not (RetryLost).  A retry of an id that      *)
(* never existed is left out.                                              *)
StartRetry(j, r) ==
  /\ status[j] # "absent"
  /\ pc[r] = "idle"
  /\ job' = [job EXCEPT ![r] = j]
  /\ Goto(r, "asked")
  /\ stranded' = stranded \ {j}
  /\ UNCHANGED verdict

Overlaps(j) == \E o \in RunsOf(j) : Live(o)

MixIf(j, cond) == mixed' = IF cond THEN mixed \cup {j} ELSE mixed \ {j}

RetryTransfer(j, r) ==
  /\ StartRetry(j, r)
  /\ UpdateRow(j, "pending", 0)
  /\ MixIf(j, Overlaps(j))
  /\ UNCHANGED troubles

(* Mutant of Spawn: the goroutine is not started.                          *)
SpawnForgotten(r) ==
  /\ pc[r] = "asked"
  /\ Goto(r, "done")
  /\ UNCHANGED <<rowVars, job, verdict, stranded, mixed, troubles>>

(* go s.executeTransfer(id), the last thing both handlers do.              *)
Spawn(r) ==
  /\ pc[r] = "asked"
  /\ Goto(r, "spawned")
  /\ UNCHANGED <<rowVars, job, verdict, stranded, mixed, troubles>>

CancelTransfer(j) ==
  /\ status[j] \in Active
  /\ status' = [status EXCEPT ![j] = "cancelled"]
  /\ UNCHANGED <<progress, runVars, stranded, mixed, troubles>>

DeleteTransfer(j) ==
  /\ RowExists(j)
  /\ status' = [status EXCEPT ![j] = "deleted"]
  /\ UNCHANGED <<progress, runVars, stranded, mixed, troubles>>

(***************************************************************************)
(* executeTransfer                                                         *)
(***************************************************************************)
MarkRunning(r) ==
  /\ pc[r] = "spawned"
  /\ UpdateRow(job[r], "running", progress[job[r]])
  /\ Goto(r, "load")
  /\ UNCHANGED <<job, verdict, stranded, mixed, troubles>>

(* The SELECT of the job's columns, which finds no row after a delete.     *)
Load(r) ==
  /\ pc[r] = "load"
  /\ \/ RowExists(job[r]) /\ Goto(r, "connect") /\ UNCHANGED verdict
     \/ ~RowExists(job[r]) /\ Goto(r, "report") /\ Will(r, "failed")
  /\ UNCHANGED <<rowVars, job, stranded, mixed, troubles>>

(* Which server runs the command, and GetServerInfo of it: no server is    *)
(* named (or it has been deleted: ON DELETE SET NULL), or the lookup fails. *)
Connect(r) ==
  /\ pc[r] = "connect"
  /\ \/ Goto(r, "rsync") /\ UNCHANGED verdict
     \/ Goto(r, "report") /\ Will(r, "failed")
  /\ UNCHANGED <<rowVars, job, stranded, mixed, troubles>>

(* Mutant of RsyncEnds: the error of RunScript ends the run without a word. *)
RsyncEndsSilently(r) ==
  /\ pc[r] = "rsync"
  /\ \/ Goto(r, "report") /\ Will(r, "completed")
     \/ Goto(r, "done") /\ UNCHANGED verdict
  /\ UNCHANGED <<rowVars, job, stranded, mixed, troubles>>

(* provisioner.RunScript returns, with or without an error.                *)
RsyncEnds(r) ==
  /\ pc[r] = "rsync"
  /\ Goto(r, "report")
  /\ \E v \in Verdicts : Will(r, v)
  /\ UNCHANGED <<rowVars, job, stranded, mixed, troubles>>

(* failJob and the two UPDATEs at the end.                                 *)
Report(r) ==
  /\ pc[r] = "report"
  /\ UpdateRow(job[r], verdict[r],
               IF verdict[r] = "completed" THEN 100 ELSE progress[job[r]])
  /\ Goto(r, "done")
  /\ UNCHANGED <<job, verdict, stranded, mixed, troubles>>

(***************************************************************************)
(* Troubles                                                                *)
(***************************************************************************)

(* The run's last UPDATE fails; its error is ignored.                      *)
ReportLost(r) ==
  /\ pc[r] = "report"
  /\ Trouble
  /\ Goto(r, "done")
  /\ stranded' = stranded \cup {job[r]}
  /\ UNCHANGED <<rowVars, job, verdict, mixed>>

(* The INSERT commits, but its RETURNING row does not arrive (the browser  *)
(* has gone and its request's context with it): no run is started.         *)
CreateLost(j) ==
  /\ status[j] = "absent"
  /\ Trouble
  /\ status' = [status EXCEPT ![j] = "pending"]
  /\ stranded' = stranded \cup {j}
  /\ UNCHANGED <<progress, runVars, mixed>>

(* The UPDATE of a retry fails, for the same reason or another.            *)
RetryLost(j, r) ==
  /\ StartRetry(j, r)
  /\ Trouble
  /\ MixIf(j, TRUE)
  /\ UNCHANGED rowVars

(* The UPDATE to 'running' fails; its error is ignored too.                *)
MarkLost(r) ==
  /\ pc[r] = "spawned"
  /\ Trouble
  /\ Goto(r, "load")
  /\ UNCHANGED <<rowVars, job, verdict, stranded, mixed>>

(* The SELECT fails: the run reports what it could not even begin.         *)
LoadFails(r) ==
  /\ pc[r] = "load"
  /\ Trouble
  /\ Goto(r, "report")
  /\ Will(r, "failed")
  /\ UNCHANGED <<rowVars, job, stranded, mixed>>

(* The API process ends and starts again: main.go resumes no transfer.     *)
Restart ==
  /\ Trouble
  /\ pc' = [r \in Runs |-> IF Live(r) THEN "done" ELSE pc[r]]
  /\ stranded' = stranded \cup {j \in Jobs : \E r \in RunsOf(j) : Live(r)}
  /\ UNCHANGED <<rowVars, job, verdict, mixed>>

(* What a run does by itself, the rsync left aside.                        *)
RunStep(r) == Spawn(r) \/ MarkRunning(r) \/ Load(r) \/ Connect(r) \/ Report(r)

Next ==
  \/ \E j \in Jobs, r \in Runs :
       CreateTransfer(j, r) \/ RetryTransfer(j, r) \/ RetryLost(j, r)
  \/ \E j \in Jobs : CreateLost(j) \/ CancelTransfer(j) \/ DeleteTransfer(j)
  \/ \E r \in Runs : \/ RunStep(r) \/ RsyncEnds(r)
                     \/ ReportLost(r) \/ MarkLost(r) \/ LoadFails(r)
  \/ Restart

Spec == Init /\ [][Next]_vars

FairSpec == Spec /\ \A r \in Runs : WF_vars(RunStep(r))

(* Every rsync ends by itself: the code sets it no deadline.               *)
RsyncsEnd == \A r \in Runs : WF_vars(RsyncEnds(r))

(***************************************************************************)
(* Properties                                                              *)
(***************************************************************************)

(* Types; runs that were started have a job that was created, and a run    *)
(* that reports has something to report.                                   *)
TypeOK ==
  /\ status \in [Jobs -> Statuses]
  /\ progress \in [Jobs -> {0, 100}]
  /\ job \in [Runs -> Jobs \cup {NoJob}]
  /\ pc \in [Runs -> RunPCs]
  /\ verdict \in [Runs -> Verdicts \cup {"none"}]
  /\ \A r \in Runs : pc[r] = "idle" <=> job[r] = NoJob
  /\ \A r \in Runs : pc[r] = "report" => verdict[r] \in Verdicts
  /\ stranded \subseteq Jobs
  /\ mixed \subseteq Jobs
  /\ troubles \in 0..MaxTroubles

(* A transfer shown as pending or running (Transfers.tsx polls while there *)
(* is one) has a run that will give it a verdict, whatever was cancelled,  *)
(* retried or deleted in the meantime, unless a restart or a lost UPDATE   *)
(* came after the last retry.                                              *)
ActiveHasRun ==
  \A j \in Jobs : status[j] \in Active /\ j \notin stranded =>
    \E r \in RunsOf(j) : Live(r)

(* The progress column says 100 exactly when the status says completed, as *)
(* long as the transfer was not retried while a run of it was alive, or    *)
(* without the retry's reset: the page draws both (Transfers.tsx:148), and *)
(* most of the UPDATEs write only one.                                     *)
ProgressFits ==
  \A j \in Jobs : RowExists(j) /\ j \notin mixed =>
    (progress[j] = 100 <=> status[j] = "completed")

(* A transfer that was deleted does not come back when its rsync ends.     *)
DeletedIsFinal ==
  [][\A j \in Jobs : status[j] = "deleted" => status'[j] = "deleted"]_vars

(* When rsyncs end, a pending or running transfer gets a verdict, is       *)
(* cancelled or deleted, or is stranded.                                   *)
ActiveSettles ==
  RsyncsEnd =>
    \A j \in Jobs : status[j] \in Active ~> status[j] \notin Active \/ j \in stranded

(* "CancelTransfer cancels a running transfer (marks as cancelled)": only  *)
(* a retry or a delete changes the status of a cancelled transfer.         *)
CancelSticks ==
  [][\A j \in Jobs : status[j] = "cancelled" =>
       status'[j] \in {"cancelled", "pending", "deleted"}]_vars

(***************************************************************************)
(* The inductive invariant behind ProgressFits                             *)
(***************************************************************************)

(* Retried only after its runs had ended, a transfer has one live run, and *)
(* until that run reports, the row does not say that it is complete.       *)
OneRunUnlessMixed ==
  \A j \in Jobs : j \notin mixed =>
    /\ \A r, s \in RunsOf(j) : Live(r) /\ Live(s) => r = s
    /\ (\E r \in RunsOf(j) : Live(r)) /\ RowExists(j) =>
         progress[j] = 0 /\ status[j] # "completed"

InductiveInv ==
  /\ \A j \in Jobs : status[j] = "absent" => progress[j] = 0 /\ RunsOf(j) = {}
  /\ OneRunUnlessMixed
  /\ ActiveHasRun
  /\ ProgressFits
=============================================================================
