--------------------------- MODULE TransferProofs ---------------------------
(***************************************************************************)
(* Theorems about Transfer for every number of transfers, runs and         *)
(* troubles.                                                               *)
(***************************************************************************)
EXTENDS Transfer, TLAPS

(* The typed invariant the proof carries.                                  *)
IInv == TypeOK /\ InductiveInv

(* The service starts without transfers and without runs.                  *)
LEMMA InitIInv == Init => IInv
  BY ConstantsAssumption
  DEF Init, IInv, TypeOK, InductiveInv, OneRunUnlessMixed, ActiveHasRun, ProgressFits,
      RunsOf, Live, RowExists, Statuses, RunPCs, Active, Verdicts

(* Every step keeps the types.                                             *)
LEMMA TypeStep ==
  ASSUME IInv, [Next]_vars
  PROVE  TypeOK'
<1> USE ConstantsAssumption
    DEF IInv, TypeOK, Statuses, RunPCs, Active, Verdicts, Goto, Will, rowVars, runVars,
        RowExists, Live
<1>1. ASSUME NEW j \in Jobs, NEW r \in Runs, CreateTransfer(j, r) PROVE TypeOK'
  BY <1>1 DEF CreateTransfer
<1>2. ASSUME NEW j \in Jobs, NEW r \in Runs, RetryTransfer(j, r) PROVE TypeOK'
  BY <1>2 DEF RetryTransfer, StartRetry, MixIf, Overlaps, UpdateRow
<1>3. ASSUME NEW j \in Jobs, NEW r \in Runs, RetryLost(j, r) PROVE TypeOK'
  BY <1>3 DEF RetryLost, StartRetry, MixIf, Trouble
<1>4. ASSUME NEW j \in Jobs, CreateLost(j) PROVE TypeOK'
  BY <1>4 DEF CreateLost, Trouble
<1>5. ASSUME NEW j \in Jobs, CancelTransfer(j) PROVE TypeOK'
  BY <1>5 DEF CancelTransfer
<1>6. ASSUME NEW j \in Jobs, DeleteTransfer(j) PROVE TypeOK'
  BY <1>6 DEF DeleteTransfer
<1>7. ASSUME NEW r \in Runs, Spawn(r) PROVE TypeOK'
  BY <1>7 DEF Spawn
<1>8. ASSUME NEW r \in Runs, MarkRunning(r) PROVE TypeOK'
  BY <1>8 DEF MarkRunning, UpdateRow
<1>9. ASSUME NEW r \in Runs, Load(r) PROVE TypeOK'
  BY <1>9 DEF Load
<1>10. ASSUME NEW r \in Runs, Connect(r) PROVE TypeOK'
  BY <1>10 DEF Connect
<1>11. ASSUME NEW r \in Runs, Report(r) PROVE TypeOK'
  BY <1>11 DEF Report, UpdateRow
<1>12. ASSUME NEW r \in Runs, RsyncEnds(r) PROVE TypeOK'
  BY <1>12 DEF RsyncEnds
<1>13. ASSUME NEW r \in Runs, ReportLost(r) PROVE TypeOK'
  BY <1>13 DEF ReportLost, Trouble
<1>14. ASSUME NEW r \in Runs, MarkLost(r) PROVE TypeOK'
  BY <1>14 DEF MarkLost, Trouble
<1>15. ASSUME NEW r \in Runs, LoadFails(r) PROVE TypeOK'
  BY <1>15 DEF LoadFails, Trouble
<1>16. CASE Restart
  BY <1>16 DEF Restart, Trouble
<1>17. CASE UNCHANGED vars
  BY <1>17 DEF vars, rowVars, runVars
<1> QED BY <1>1, <1>2, <1>3, <1>4, <1>5, <1>6, <1>7, <1>8, <1>9, <1>10, <1>11,
       <1>12, <1>13, <1>14, <1>15, <1>16, <1>17
  DEF Next, RunStep

(* A run that ends has given its transfer a verdict, or stranded it; all   *)
(* other steps leave the run of an active transfer alive.                  *)
LEMMA ActiveStep ==
  ASSUME IInv, [Next]_vars
  PROVE  ActiveHasRun'
<1> USE DEF IInv, TypeOK, InductiveInv, ActiveHasRun, RunsOf, Live, RowExists, Active,
            Verdicts, Goto, Will, rowVars, runVars
<1>1. ASSUME NEW j \in Jobs, NEW r \in Runs, CreateTransfer(j, r) PROVE ActiveHasRun'
  BY <1>1 DEF CreateTransfer
<1>2. ASSUME NEW j \in Jobs, NEW r \in Runs, RetryTransfer(j, r) PROVE ActiveHasRun'
  BY <1>2 DEF RetryTransfer, StartRetry, MixIf, Overlaps, UpdateRow
<1>3. ASSUME NEW j \in Jobs, NEW r \in Runs, RetryLost(j, r) PROVE ActiveHasRun'
  BY <1>3 DEF RetryLost, StartRetry, MixIf, Trouble
<1>4. ASSUME NEW j \in Jobs, CreateLost(j) PROVE ActiveHasRun'
  BY <1>4 DEF CreateLost, Trouble
<1>5. ASSUME NEW j \in Jobs, CancelTransfer(j) PROVE ActiveHasRun'
  BY <1>5 DEF CancelTransfer
<1>6. ASSUME NEW j \in Jobs, DeleteTransfer(j) PROVE ActiveHasRun'
  BY <1>6 DEF DeleteTransfer
<1>7. ASSUME NEW r \in Runs, Spawn(r) PROVE ActiveHasRun'
  BY <1>7 DEF Spawn
<1>8. ASSUME NEW r \in Runs, MarkRunning(r) PROVE ActiveHasRun'
  BY <1>8 DEF MarkRunning, UpdateRow
<1>9. ASSUME NEW r \in Runs, Load(r) PROVE ActiveHasRun'
  BY <1>9 DEF Load
<1>10. ASSUME NEW r \in Runs, Connect(r) PROVE ActiveHasRun'
  BY <1>10 DEF Connect
<1>11. ASSUME NEW r \in Runs, Report(r) PROVE ActiveHasRun'
  BY <1>11 DEF Report, UpdateRow
<1>12. ASSUME NEW r \in Runs, RsyncEnds(r) PROVE ActiveHasRun'
  BY <1>12 DEF RsyncEnds
<1>13. ASSUME NEW r \in Runs, ReportLost(r) PROVE ActiveHasRun'
  BY <1>13 DEF ReportLost, Trouble
<1>14. ASSUME NEW r \in Runs, MarkLost(r) PROVE ActiveHasRun'
  BY <1>14 DEF MarkLost, Trouble
<1>15. ASSUME NEW r \in Runs, LoadFails(r) PROVE ActiveHasRun'
  BY <1>15 DEF LoadFails, Trouble
<1>16. CASE Restart
  BY <1>16 DEF Restart, Trouble
<1>17. CASE UNCHANGED vars
  BY <1>17 DEF vars, rowVars, runVars
<1> QED BY <1>1, <1>2, <1>3, <1>4, <1>5, <1>6, <1>7, <1>8, <1>9, <1>10, <1>11,
       <1>12, <1>13, <1>14, <1>15, <1>16, <1>17
  DEF Next, RunStep

(* Only a retry adds a run, and it records when another one is alive.      *)
LEMMA OneRunStep ==
  ASSUME IInv, [Next]_vars
  PROVE  OneRunUnlessMixed'
<1> USE DEF IInv, TypeOK, InductiveInv, OneRunUnlessMixed, ProgressFits, ActiveHasRun,
            RunsOf, Live, RowExists, Active, Verdicts, Goto, Will, rowVars, runVars
<1>1. ASSUME NEW j \in Jobs, NEW r \in Runs, CreateTransfer(j, r) PROVE OneRunUnlessMixed'
  BY <1>1 DEF CreateTransfer
<1>2. ASSUME NEW j \in Jobs, NEW r \in Runs, RetryTransfer(j, r) PROVE OneRunUnlessMixed'
  BY <1>2 DEF RetryTransfer, StartRetry, MixIf, Overlaps, UpdateRow
<1>3. ASSUME NEW j \in Jobs, NEW r \in Runs, RetryLost(j, r) PROVE OneRunUnlessMixed'
  BY <1>3 DEF RetryLost, StartRetry, MixIf, Trouble
<1>4. ASSUME NEW j \in Jobs, CreateLost(j) PROVE OneRunUnlessMixed'
  BY <1>4 DEF CreateLost, Trouble
<1>5. ASSUME NEW j \in Jobs, CancelTransfer(j) PROVE OneRunUnlessMixed'
  BY <1>5 DEF CancelTransfer
<1>6. ASSUME NEW j \in Jobs, DeleteTransfer(j) PROVE OneRunUnlessMixed'
  BY <1>6 DEF DeleteTransfer
<1>7. ASSUME NEW r \in Runs, Spawn(r) PROVE OneRunUnlessMixed'
  BY <1>7 DEF Spawn
<1>8. ASSUME NEW r \in Runs, MarkRunning(r) PROVE OneRunUnlessMixed'
  BY <1>8 DEF MarkRunning, UpdateRow
<1>9. ASSUME NEW r \in Runs, Load(r) PROVE OneRunUnlessMixed'
  BY <1>9 DEF Load
<1>10. ASSUME NEW r \in Runs, Connect(r) PROVE OneRunUnlessMixed'
  BY <1>10 DEF Connect
<1>11. ASSUME NEW r \in Runs, Report(r) PROVE OneRunUnlessMixed'
  BY <1>11 DEF Report, UpdateRow
<1>12. ASSUME NEW r \in Runs, RsyncEnds(r) PROVE OneRunUnlessMixed'
  BY <1>12 DEF RsyncEnds
<1>13. ASSUME NEW r \in Runs, ReportLost(r) PROVE OneRunUnlessMixed'
  BY <1>13 DEF ReportLost, Trouble
<1>14. ASSUME NEW r \in Runs, MarkLost(r) PROVE OneRunUnlessMixed'
  BY <1>14 DEF MarkLost, Trouble
<1>15. ASSUME NEW r \in Runs, LoadFails(r) PROVE OneRunUnlessMixed'
  BY <1>15 DEF LoadFails, Trouble
<1>16. CASE Restart
  BY <1>16 DEF Restart, Trouble
<1>17. CASE UNCHANGED vars
  BY <1>17 DEF vars, rowVars, runVars
<1> QED BY <1>1, <1>2, <1>3, <1>4, <1>5, <1>6, <1>7, <1>8, <1>9, <1>10, <1>11,
       <1>12, <1>13, <1>14, <1>15, <1>16, <1>17
  DEF Next, RunStep

(* The run that reports is the only one, so progress and status agree.     *)
LEMMA ProgressStep ==
  ASSUME IInv, [Next]_vars
  PROVE  /\ ProgressFits'
         /\ (\A j \in Jobs : status[j] = "absent" => progress[j] = 0 /\ RunsOf(j) = {})'
<1> DEFINE Goal == /\ ProgressFits'
                   /\ (\A j \in Jobs : status[j] = "absent" =>
                         progress[j] = 0 /\ RunsOf(j) = {})'
<1> USE DEF IInv, TypeOK, InductiveInv, OneRunUnlessMixed, ProgressFits,
            RunsOf, Live, RowExists, Active, Verdicts, Goto, Will, rowVars, runVars
<1>1. ASSUME NEW j \in Jobs, NEW r \in Runs, CreateTransfer(j, r) PROVE Goal
  BY <1>1 DEF CreateTransfer
<1>2. ASSUME NEW j \in Jobs, NEW r \in Runs, RetryTransfer(j, r) PROVE Goal
  BY <1>2 DEF RetryTransfer, StartRetry, MixIf, Overlaps, UpdateRow
<1>3. ASSUME NEW j \in Jobs, NEW r \in Runs, RetryLost(j, r) PROVE Goal
  BY <1>3 DEF RetryLost, StartRetry, MixIf, Trouble
<1>4. ASSUME NEW j \in Jobs, CreateLost(j) PROVE Goal
  BY <1>4 DEF CreateLost, Trouble
<1>5. ASSUME NEW j \in Jobs, CancelTransfer(j) PROVE Goal
  BY <1>5 DEF CancelTransfer
<1>6. ASSUME NEW j \in Jobs, DeleteTransfer(j) PROVE Goal
  BY <1>6 DEF DeleteTransfer
<1>7. ASSUME NEW r \in Runs, Spawn(r) PROVE Goal
  BY <1>7 DEF Spawn
<1>8. ASSUME NEW r \in Runs, MarkRunning(r) PROVE Goal
  BY <1>8 DEF MarkRunning, UpdateRow
<1>9. ASSUME NEW r \in Runs, Load(r) PROVE Goal
  BY <1>9 DEF Load
<1>10. ASSUME NEW r \in Runs, Connect(r) PROVE Goal
  BY <1>10 DEF Connect
<1>11. ASSUME NEW r \in Runs, Report(r) PROVE Goal
  BY <1>11 DEF Report, UpdateRow
<1>12. ASSUME NEW r \in Runs, RsyncEnds(r) PROVE Goal
  BY <1>12 DEF RsyncEnds
<1>13. ASSUME NEW r \in Runs, ReportLost(r) PROVE Goal
  BY <1>13 DEF ReportLost, Trouble
<1>14. ASSUME NEW r \in Runs, MarkLost(r) PROVE Goal
  BY <1>14 DEF MarkLost, Trouble
<1>15. ASSUME NEW r \in Runs, LoadFails(r) PROVE Goal
  BY <1>15 DEF LoadFails, Trouble
<1>16. CASE Restart
  BY <1>16 DEF Restart, Trouble
<1>17. CASE UNCHANGED vars
  BY <1>17 DEF vars, rowVars, runVars
<1> QED BY <1>1, <1>2, <1>3, <1>4, <1>5, <1>6, <1>7, <1>8, <1>9, <1>10, <1>11,
       <1>12, <1>13, <1>14, <1>15, <1>16, <1>17
  DEF Next, RunStep

(* The invariant holds in every reachable state.                           *)
LEMMA Invariance == Spec => []IInv
<1>1. IInv /\ [Next]_vars => IInv'
  BY TypeStep, ActiveStep, OneRunStep, ProgressStep DEF IInv, InductiveInv
<1> QED BY InitIInv, <1>1, PTL DEF Spec

(* Types hold in every reachable state.                                    *)
THEOREM TransferTypeCorrect == Spec => []TypeOK
<1>1. IInv => TypeOK
  BY DEF IInv
<1> QED BY Invariance, <1>1, PTL

(* No sequence of cancels, retries and deletes leaves a transfer pending   *)
(* or running without a run that will settle it.                           *)
THEOREM TransferActiveHasRun == Spec => []ActiveHasRun
<1>1. IInv => ActiveHasRun
  BY DEF IInv, InductiveInv
<1> QED BY Invariance, <1>1, PTL

(* Progress and status agree unless runs of the transfer overlapped.       *)
THEOREM TransferProgressFits == Spec => []ProgressFits
<1>1. IInv => ProgressFits
  BY DEF IInv, InductiveInv
<1> QED BY Invariance, <1>1, PTL

(* No step of any run brings back a transfer that was deleted.             *)
THEOREM TransferDeletedIsFinal == Spec => DeletedIsFinal
<1> DEFINE Stays == \A j \in Jobs : status[j] = "deleted" => status'[j] = "deleted"
<1>1. ASSUME IInv, [Next]_vars PROVE Stays
  BY <1>1
  DEF IInv, TypeOK, Next, RunStep, vars, rowVars, runVars, CreateTransfer, RetryTransfer,
      RetryLost, StartRetry, CreateLost, CancelTransfer, DeleteTransfer, Spawn,
      MarkRunning, Load, Connect, Report, RsyncEnds, ReportLost, MarkLost, LoadFails,
      Restart, UpdateRow, RowExists, Active
<1>2. IInv /\ [Next]_vars => [Stays]_vars
  BY <1>1
<1> QED BY Invariance, <1>2, PTL DEF Spec, DeletedIsFinal
=============================================================================
