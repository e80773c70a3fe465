---------------------------- MODULE ServerSetup ----------------------------
(***************************************************************************)
(* The modules of one server: the server_setup task                        *)
(* (backend/internal/provisioner/setup_handler.go and ProvisionServer) and *)
(* ServerModulesService, which writes the same table server_modules from   *)
(* HTTP requests.  How a task reaches its handler, and what becomes of its *)
(* result, is in TaskQueue; here a task is a call that a worker runs, and  *)
(* two workers may have tasks of one server at a time, for neither         *)
(* TriggerSetup nor the handler looks at setup_status.                     *)
(*                                                                         *)
(* DisableModule of ServerModulesService, which would uninstall, has no    *)
(* caller: the HTTP handler of that name calls RemoveModule.  So nothing   *)
(* ever leaves the server.                                                 *)
(***************************************************************************)
EXTENDS Background

CONSTANTS
  Modules,      \* names requests may hold
  Scripted      \* those with a script in InstallScripts and moduleInstallScripts

VARIABLES
  setup,        \* servers.setup_status
  log,          \* per module, setup_logs.status, "absent" without a row
  enabled,      \* modules with an enabled row in server_modules
  present,      \* modules that are on the server
  asked,        \* per call, the modules of its request
  todo,         \* per task, the modules ProvisionServer has not come to
  cur,          \* per task, the modules whose script it runs, at most one
  verdict,      \* per task, allCompleted as a status: "completed" or "partial"
  latest        \* history: the task that wrote 'running' last

tables  == <<setup, log, enabled>>
jobVars == <<asked, todo, cur, verdict, latest>>
vars == <<op, pc, clash, crashed, troubles, lost, setup, log, enabled, present,
          asked, todo, cur, verdict, latest>>

Ops    == {"setup", "enable", "remove", "set"}
Labels == {"lookup", "next", "script", "succeeded", "enable", "failed", "install"}

Init ==
  /\ CallsInit
  /\ setup = "none"
  /\ log = [m \in Modules |-> "absent"]
  /\ enabled = {}
  /\ present = {}
  /\ asked = [c \in Calls |-> {}]
  /\ todo = [c \in Calls |-> {}]
  /\ cur = [c \in Calls |-> {}]
  /\ verdict = [c \in Calls |-> "completed"]
  /\ latest = NoCall

Logged(ms, s) == log' = [m \in Modules |-> IF m \in ms THEN s ELSE log[m]]

(***************************************************************************)
(* SetupHandler.Handle and ProvisionServer                                 *)
(***************************************************************************)
Handle(c, ms) ==
  /\ ms # {}
  /\ Begin(c, "setup", "lookup")
  /\ setup' = "running"
  /\ asked' = [asked EXCEPT ![c] = ms]
  /\ todo' = [todo EXCEPT ![c] = ms]
  /\ latest' = c
  /\ UNCHANGED <<log, enabled, present, cur, verdict>>

(* The server's row is read, then rows of setup_logs are inserted, unless  *)
(* an earlier task has left them (ON CONFLICT DO NOTHING).                 *)
Lookup(c) ==
  /\ \/ /\ Go(c, "lookup", "next")
        /\ Logged({m \in asked[c] : log[m] = "absent"}, "pending")
        /\ UNCHANGED setup
     \/ /\ GoFailed(c, "lookup", "done")
        /\ setup' = "failed"
        /\ UNCHANGED log
  /\ UNCHANGED <<enabled, present, jobVars>>

(* The next module has a script.                                           *)
StartScript(c) == \E m \in todo[c] \cap Scripted :
  /\ Go(c, "next", "script")
  /\ cur' = [cur EXCEPT ![c] = {m}]
  /\ todo' = [todo EXCEPT ![c] = @ \ {m}]
  /\ Logged({m}, "running")
  /\ UNCHANGED <<setup, enabled, present, asked, verdict, latest>>

(* The next module has none.                                               *)
NoScript(c) == \E m \in todo[c] \ Scripted :
  /\ Go(c, "next", "next")
  /\ todo' = [todo EXCEPT ![c] = @ \ {m}]
  /\ verdict' = [verdict EXCEPT ![c] = "partial"]
  /\ Logged({m}, "failed")
  /\ UNCHANGED <<setup, enabled, present, asked, cur, latest>>

(* Mutant of RunModule: the error of RunScript is not looked at.           *)
RunModuleUnchecked(c) ==
  /\ \/ Go(c, "script", "succeeded") /\ present' = present \cup cur[c]
     \/ GoFailed(c, "script", "succeeded") /\ UNCHANGED present
  /\ UNCHANGED <<tables, jobVars>>

(* Every script runs under "set -e"; one cut short may have done its work. *)
RunModule(c) ==
  /\ \/ Go(c, "script", "succeeded") /\ present' = present \cup cur[c]
     \/ GoFailed(c, "script", "failed") /\ present' \in {present, present \cup cur[c]}
  /\ UNCHANGED <<tables, jobVars>>

Succeeded(c) ==
  /\ Go(c, "succeeded", "enable")
  /\ Logged(cur[c], "completed")
  /\ UNCHANGED <<setup, enabled, present, jobVars>>

Enable(c) ==
  /\ Go(c, "enable", "next")
  /\ enabled' = enabled \cup cur[c]
  /\ UNCHANGED <<setup, log, present, jobVars>>

(* Mutant of ModuleFailed: allCompleted stays true.                        *)
ModuleFailedUncounted(c) ==
  /\ Go(c, "failed", "next")
  /\ Logged(cur[c], "failed")
  /\ UNCHANGED <<setup, enabled, present, jobVars>>

ModuleFailed(c) ==
  /\ Go(c, "failed", "next")
  /\ Logged(cur[c], "failed")
  /\ verdict' = [verdict EXCEPT ![c] = "partial"]
  /\ UNCHANGED <<setup, enabled, present, asked, todo, cur, latest>>

Finish(c) ==
  /\ todo[c] = {}
  /\ Go(c, "next", "done")
  /\ setup' = verdict[c]
  /\ UNCHANGED <<log, enabled, present, jobVars>>

(***************************************************************************)
(* ServerModulesService                                                    *)
(***************************************************************************)
Request(c, o, label, ms) ==
  /\ Begin(c, o, label)
  /\ asked' = [asked EXCEPT ![c] = ms]
  /\ UNCHANGED <<setup, log, present, todo, cur, verdict, latest>>

EnableModule(c, m) == Request(c, "enable", "install", {m}) /\ enabled' = enabled \cup {m}

RemoveModule(c, m) == Request(c, "remove", "done", {m}) /\ enabled' = enabled \ {m}

(* One transaction, and no script.                                         *)
SetModules(c, ms) == Request(c, "set", "done", ms) /\ enabled' = ms

(* The goroutine of EnableModule; a failure is only logged, and a module   *)
(* without a script is no failure.                                         *)
InstallModule(c) ==
  /\ \/ Go(c, "install", "done") /\ present' = present \cup (asked[c] \cap Scripted)
     \/ GoFailed(c, "install", "done")
          /\ present' \in {present, present \cup (asked[c] \cap Scripted)}
  /\ UNCHANGED <<tables, jobVars>>

(***************************************************************************)
(* The whole                                                               *)
(***************************************************************************)
Crash == CrashCalls /\ UNCHANGED <<tables, present, jobVars>>

Start(c) ==
  \/ \E ms \in SUBSET Modules : Handle(c, ms) \/ SetModules(c, ms)
  \/ \E m \in Modules : EnableModule(c, m) \/ RemoveModule(c, m)

Step(c) ==
  \/ Lookup(c) \/ StartScript(c) \/ NoScript(c) \/ RunModule(c)
  \/ Succeeded(c) \/ Enable(c) \/ ModuleFailed(c) \/ Finish(c)
  \/ InstallModule(c)

Next == (\E c \in Calls : Start(c) \/ Step(c)) \/ Crash

Spec == Init /\ [][Next]_vars

(* As in Domains: some worker or goroutine that can move does.             *)
FairSpec == Spec /\ WF_vars(\E c \in Calls : Step(c))

(***************************************************************************)
(* Properties                                                              *)
(***************************************************************************)
SetupTypeOK ==
  /\ CallsTypeOK(Ops, Labels)
  /\ setup \in {"none", "running", "failed", "completed", "partial"}
  /\ log \in [Modules -> {"absent", "pending", "running", "completed", "failed"}]
  /\ enabled \subseteq Modules /\ present \subseteq Modules
  /\ asked \in [Calls -> SUBSET Modules] /\ todo \in [Calls -> SUBSET Modules]
  /\ cur \in [Calls -> SUBSET Modules]
  /\ verdict \in [Calls -> {"completed", "partial"}]
  /\ latest \in Calls \cup {NoCall}

(* Whatever overlaps, fails or is killed, a module the progress page calls *)
(* 'completed' is on the server, and so is an enabled one, unless a request*)
(* to EnableModule or SetModules named it: those write the table first and *)
(* the server afterwards, or never.                                        *)
ReportedIsInstalled ==
  /\ \A m \in Modules : log[m] = "completed" => m \in present
  /\ \A m \in enabled \ present : \E c \in Calls : op[c] \in {"enable", "set"} /\ m \in asked[c]

(* The status a setup leaves on the server sums up the log of its modules: *)
(* 'completed' if all of them completed, 'partial' if not, and 'running'   *)
(* when it is not over.  Not so when two calls overlap: the task that ends *)
(* last has the word, and may say 'completed' over the failures of the     *)
(* other, or while the other one runs.                                     *)
SummaryOfLatest ==
  IF \A m \in asked[latest] : log[m] = "completed" THEN "completed" ELSE "partial"

SetupSumsUp ==
  clash = "no" /\ latest # NoCall =>
    IF Live(latest) THEN setup = "running"
    ELSE setup \in {"failed", SummaryOfLatest} \/ crashed = "yes"

(* A setup waits for its end; it must come to it, unless the process dies. *)
Undecided == setup = "running"
=============================================================================
