---------------------------- MODULE Deployments ----------------------------
(***************************************************************************)
(* One application and its deployments: AppService, DeployService and      *)
(* WebhookHandler of backend/internal, and the WebSocket that follows a    *)
(* build log.                                                              *)
(*                                                                         *)
(* Every deployment starts in DeployService.Create, which reads the row it *)
(* has inserted back into a struct.  What comes after a successful read is *)
(* not modelled: no deployment gets there (Scans).                         *)
(***************************************************************************)
EXTENDS Background

CONSTANTS Branches

VARIABLES
  app,          \* applications: "none", "live", "deleted" (deleted_at is set)
  branch,       \* its git_branch
  secret,       \* its webhook_secret is set; no code of the panel sets it
  inFlight,     \* the entry of the application in inFlight
  rows,         \* deployments, by the call that inserted them
  started,      \* rows whose ExecuteDeployment was started
  posting,      \* goroutines of recordDelivery at work
  delivered     \* rows of webhook_deliveries, by call

deployVars == <<app, branch, secret, inFlight, rows, started, posting, delivered>>
appVars    == <<app, branch, secret>>
vars == <<op, pc, clash, crashed, troubles, lost, app, branch, secret, inFlight, rows, started,
          posting, delivered>>

Ops    == {"app", "push", "deploy", "watch"}
Labels == {"update", "remove", "claim", "insert", "release", "poll"}

Init ==
  /\ CallsInit
  /\ app = "none" /\ branch \in Branches /\ secret \in {"no", "yes"}
  /\ inFlight = "no"
  /\ rows = {} /\ started = {}
  /\ posting = {} /\ delivered = {}

(***************************************************************************)
(* Applications.  Update and Delete read the row before they write it.     *)
(***************************************************************************)
CreateApp(c) ==
  /\ app = "none"
  /\ Begin(c, "app", "done")
  /\ app' = "live"
  /\ UNCHANGED <<branch, secret, inFlight, rows, started, posting, delivered>>

GetApp(c) ==
  /\ app = "live"
  /\ \E next \in {"update", "remove"} : Begin(c, "app", next)
  /\ UNCHANGED deployVars

(* The UPDATE does not ask for deleted_at.                                 *)
UpdateApp(c, b) ==
  /\ Go(c, "update", "done")
  /\ branch' = b
  /\ UNCHANGED <<app, secret, inFlight, rows, started, posting, delivered>>

DeleteApp(c) ==
  /\ Go(c, "remove", "done")
  /\ app' = "deleted"
  /\ UNCHANGED <<branch, secret, inFlight, rows, started, posting, delivered>>

(***************************************************************************)
(* TriggerDeploy, from three handlers                                      *)
(***************************************************************************)
(* The row is inserted without commit_hash and build_log.                  *)
Inserted == [status |-> "pending", commit |-> "NULL", log |-> "NULL"]

(* pgx reads no NULL into a Go string.                                     *)
Scans(d) == d.commit # "NULL" /\ d.log # "NULL"

TriggerDeploy(c) ==
  /\ rows' = rows \cup {c}
  /\ started' = IF Scans(Inserted) THEN started \cup {c} ELSE started

(* POST /deployments takes any application, a deleted one too; Redeploy    *)
(* takes the application of an earlier deployment.                         *)
Deploy(c) ==
  /\ app # "none"
  /\ Begin(c, "deploy", "done")
  /\ TriggerDeploy(c)
  /\ UNCHANGED <<appVars, inFlight, posting, delivered>>

(***************************************************************************)
(* HandleGitHub and HandleGitLab                                           *)
(***************************************************************************)
(* A push that is turned away leaves no trace.  A deleted application is   *)
(* found too.                                                              *)
Push(c, b) ==
  /\ app # "none"
  /\ Begin(c, "push", IF secret = "yes" /\ b = branch THEN "claim" ELSE "done")
  /\ UNCHANGED deployVars

(* Mutant of Claim: the loser clears the entry on its way out as well.     *)
ClaimAndClear(c) ==
  /\ Go(c, "claim", IF inFlight = "no" THEN "insert" ELSE "done")
  /\ inFlight' = IF inFlight = "no" THEN "yes" ELSE "no"
  /\ UNCHANGED <<appVars, rows, started, posting, delivered>>

(* LoadOrStore.                                                            *)
Claim(c) ==
  /\ Go(c, "claim", IF inFlight = "no" THEN "insert" ELSE "done")
  /\ inFlight' = "yes"
  /\ UNCHANGED <<appVars, rows, started, posting, delivered>>

(* The delivery is recorded by a goroutine, whatever the outcome.          *)
PushDeploys(c) ==
  /\ Go(c, "insert", "release")
  /\ TriggerDeploy(c)
  /\ posting' = posting \cup {c}
  /\ UNCHANGED <<appVars, inFlight, delivered>>

Release(c) ==
  /\ Go(c, "release", "done")
  /\ inFlight' = "no"
  /\ UNCHANGED <<appVars, rows, started, posting, delivered>>

RecordDelivery(c) ==
  /\ c \in posting
  /\ posting' = posting \ {c}
  /\ delivered' = delivered \cup {c}
  /\ UNCHANGED <<callVars, appVars, inFlight, rows, started>>

(***************************************************************************)
(* HandleDeployLogs polls the row until its status is final, which it      *)
(* never is, or until the client goes away.                                *)
(***************************************************************************)
Watch(c) ==
  /\ Begin(c, "watch", IF rows = {} THEN "done" ELSE "poll")
  /\ UNCHANGED deployVars

HangUp(c) ==
  /\ Go(c, "poll", "done")
  /\ UNCHANGED deployVars

Start(c) ==
  \/ CreateApp(c) \/ GetApp(c) \/ Deploy(c) \/ Watch(c)
  \/ \E b \in Branches : Push(c, b)

Step(c) ==
  \/ DeleteApp(c) \/ Claim(c) \/ PushDeploys(c) \/ Release(c) \/ HangUp(c)
  \/ \E b \in Branches : UpdateApp(c, b)

(* inFlight is memory of the process.                                      *)
Crash ==
  /\ CrashCalls
  /\ inFlight' = "no"
  /\ posting' = {}
  /\ UNCHANGED <<appVars, rows, started, delivered>>

Next == (\E c \in Calls : Start(c) \/ Step(c) \/ RecordDelivery(c)) \/ Crash

Spec == Init /\ [][Next]_vars

DeploymentsTypeOK ==
  /\ CallsTypeOK(Ops, Labels)
  /\ app \in {"none", "live", "deleted"}
  /\ branch \in Branches
  /\ secret \in {"no", "yes"} /\ inFlight \in {"no", "yes"}
  /\ rows \subseteq Calls /\ started \subseteq rows
  /\ posting \subseteq rows /\ delivered \subseteq rows

(* Of all the pushes to an application one at a time is being deployed,    *)
(* and when none is, the next one may: an entry is never left behind.      *)
OnePush ==
  LET deploying == {c \in Calls : op[c] = "push" /\ pc[c] \in {"insert", "release"}} IN
  /\ \A c, d \in deploying : c = d
  /\ inFlight = "yes" <=> deploying # {}

(* A deployment that was recorded is executed: "TriggerDeploy creates a    *)
(* deployment record AND executes it in the background"                    *)
(* (backend/internal/services/deploy_service.go:46).                       *)
RecordedIsExecuted == Quiet => rows \subseteq started
=============================================================================
