------------------------------- MODULE MCPanel -------------------------------
(***************************************************************************)
(* The panel's own services for TLC, in one run: Limits (which EXTENDS     *)
(* brings in), Sessions, Alerts, Billing, PanelUpdate, Servers, Waf,       *)
(* Accounts, Deployments, Backups, Startup, Containers, Kubernetes, Crontab*)
(* and MailSettings.  They share no state but that of Background, so a     *)
(* behaviour follows one of them, chosen by part at the start: their state *)
(* spaces add up instead of multiplying.                                   *)
(***************************************************************************)
EXTENDS Limits

CONSTANTS
  Codes,                  \* Sessions
  Rules, MaxChanges,      \* Alerts
  Subs,                   \* Billing
  Releases, NewReleases,  \* PanelUpdate
  Hosts,                  \* Servers
  Resellers,              \* Accounts
  Branches,               \* Deployments
  Paths, FullPaths,       \* Backups
  LastMigration, Engines, \* Startup
  Sites,
  Names, Images,          \* Containers
  Desired, MaxVersion,    \* Kubernetes
  Values                  \* MailSettings

(* MaxChanges bounds the changes of alert rules; subscriptions are numbered*)
(* in the order they are bought, and NoCall stands for none of them, or for*)
(* no release published; what can be discovered is an engine or a site.    *)
ASSUME PanelAssumption ==
  /\ MaxChanges \in Nat
  /\ Subs \subseteq Nat \ {NoCall}
  /\ NoCall \in Releases
  /\ FullPaths \subseteq Paths
  /\ LastMigration \in Nat /\ Engines # {} /\ Engines \cap Sites = {}

VARIABLES
  part,                                             \* the module that moves
  issued, listed, revoked, token, seen, twoFactor,  \* Sessions
  codes, codeList, code, spent, reset, active, slip,
  rules, sample, open, mails, todo, hits, rule,     \* Alerts
  found, current, misread, changes,
  stripe, paid, emitted, due, event, plan, sub,     \* Billing
  customer, months, outrun, late,
  applying, raced, pulled, broken, told,            \* PanelUpdate
  restarting, settings, fetched, offered,
  servers, addr, auth, key, health, sampled,        \* Servers
  authorized, dialled, beats, moved,
  config, snap, file, running, disabled,            \* Waf
  whitelist, crossed,
  boss, creator, status, quota, apiKey, used,       \* Accounts
  stamps, served, invites,
  app, branch, secret, inFlight, rows, started,     \* Deployments
  posting, delivered,
  files, backup, path, database, removed, shared,   \* Backups
  applied, ran, next, outcome, env, masters, login, \* Startup
  admin, host, toFind, item, known,
  state, name, joined, origin, images, network,     \* Containers
  answer, launched,
  cluster, objs, kind, value, object, jobs, wanted, \* Kubernetes
  lines, page, number, meant, text, read, kept,     \* Crontab
  outdated, mangled,
  asked, left, stored, seenRows, live, behind       \* MailSettings

S == INSTANCE Sessions WITH target <- token
A == INSTANCE Alerts WITH row <- rule
B == INSTANCE Billing
U == INSTANCE PanelUpdate
H == INSTANCE Servers WITH rows <- servers, status <- health, target <- beats
W == INSTANCE Waf WITH row <- config
C == INSTANCE Accounts
D == INSTANCE Deployments
K == INSTANCE Backups WITH row <- backup
M == INSTANCE Startup WITH todo <- toFind
X == INSTANCE Containers
Q == INSTANCE Kubernetes WITH got <- object
T == INSTANCE Crontab WITH wanted <- kept
E == INSTANCE MailSettings WITH seen <- seenRows

Parts == {"sessions", "limits", "alerts", "billing", "update", "servers", "waf",
          "accounts", "deploys", "backups", "startup", "containers", "kubernetes",
          "crontab", "mail"}

sessionVars == <<issued, listed, revoked, token, seen, twoFactor, codes, codeList, code,
                 spent, reset, active, slip>>
alertVars   == <<rules, sample, open, mails, todo, hits, rule, found, current, misread, changes>>
billingVars == <<stripe, paid, emitted, due, event, plan, sub, customer, months, outrun, late>>
updateVars  == <<applying, raced, pulled, broken, told, restarting, settings, fetched, offered>>
serverVars  == <<servers, addr, auth, key, health, sampled, authorized, dialled, beats, moved>>
wafVars     == <<config, snap, file, running, disabled, whitelist, crossed>>
accountVars == <<boss, creator, status, quota, apiKey, used, stamps, served, invites>>
deployVars  == <<app, branch, secret, inFlight, rows, started, posting, delivered>>
backupVars  == <<files, backup, path, database, removed, shared>>
startVars   == <<applied, ran, next, outcome, env, masters, login, admin, host, toFind, item,
                 known>>
boxVars     == <<state, name, joined, origin, images, network, answer, launched>>
kubeVars    == <<cluster, objs, kind, value, object, jobs, wanted>>
cronVars    == <<lines, page, number, meant, text, read, kept, outdated, mangled>>
mailVars    == <<asked, left, stored, seenRows, live, behind>>
panelVars   == <<callVars, part, limitVars, sessionVars, alertVars, billingVars, updateVars,
                 serverVars, wafVars, accountVars, deployVars, backupVars, startVars, boxVars,
                 kubeVars, cronVars, mailVars>>

(* What a call is about is chosen at the start, by three modules; where it *)
(* is not used one choice stands for all.                                  *)
One(set) == CHOOSE x \in set : TRUE

Last(p) == CASE p = "billing" -> 5 [] p \in {"accounts", "deploys"} -> 4
             [] p \in {"startup", "kubernetes", "mail"} -> 2 [] OTHER -> 3

Chosen(p, about, set) ==
  \A c \in Calls : part # p \/ c > Last(p) => about[c] = One(set)

PanelInit ==
  /\ part \in Parts
  /\ Init /\ A!Init /\ B!Init /\ U!Init /\ W!Init
  /\ S!Init /\ (part # "sessions" => twoFactor = "off")
  /\ H!Init /\ Chosen("servers", addr, Hosts)
  /\ C!Init /\ Chosen("accounts", boss, Resellers)
  /\ D!Init /\ (part # "deploys" => branch = One(Branches) /\ secret = "no")
  /\ K!Init /\ Chosen("backups", path, Paths)
  /\ M!Init /\ (part # "startup" => env = One(M!Envs))
  /\ X!Init /\ (part # "containers" => images = {})
  /\ Q!Init /\ objs["cronjob"].spec = One(Desired)
  /\ T!Init /\ E!Init

(* Calls are 1 .. n and start in that order.  That loses nothing, but for  *)
(* Billing: there an event starts a call only when all but one have ended, *)
(* so that two are at work at a time.                                      *)
InOrder(c) ==
  /\ c <= Last(part)
  /\ \A b \in 1 .. c - 1 : pc[b] # "idle"
  /\ part = "billing" => \A b \in 1 .. c - 2 : ~ Live(b)

Moves(p) ==
  /\ part = p
  /\ part' = part
  /\ p # "sessions" => UNCHANGED sessionVars
  /\ p # "limits"   => UNCHANGED limitVars
  /\ p # "alerts"   => UNCHANGED alertVars
  /\ p # "billing"  => UNCHANGED billingVars
  /\ p # "update"   => UNCHANGED updateVars
  /\ p # "servers"  => UNCHANGED serverVars
  /\ p \notin {"waf", "crontab", "mail"} => UNCHANGED crossed
  /\ p # "waf"      => UNCHANGED <<config, snap, file, running, disabled, whitelist>>
  /\ p # "accounts" => UNCHANGED accountVars
  /\ p # "deploys"  => UNCHANGED deployVars
  /\ p # "backups"  => UNCHANGED backupVars
  /\ p # "startup"  => UNCHANGED startVars
  /\ p # "containers" => UNCHANGED boxVars
  /\ p # "kubernetes" => UNCHANGED kubeVars
  /\ p # "crontab"    => UNCHANGED cronVars
  /\ p # "mail"       => UNCHANGED mailVars

(* Billing in bounds: nothing is explored behind a fault or a late         *)
(* checkout, where BilledRight no longer speaks; Stripe acts while no      *)
(* goroutine is at work, since none of them can tell; it repeats an event  *)
(* only when it has no new one, and asks only the first subscription for a *)
(* second month, which is charged or fails.                                *)
BillingBounds ==
  /\ late = "no" /\ troubles = 0
  /\ <<stripe, emitted>>' # <<stripe, emitted>> => Quiet
  /\ \A c \in Calls : event'[c] \notin {event[c], B!NoEvent} => event'[c] \in due \/ due = {}
  /\ \A e \in emitted' : e.kind \in {"invoice2", "failed"} => e.sub = 1

PanelNext ==
  \/ /\ Moves("sessions")
     /\ (\E c \in Calls : (InOrder(c) /\ S!Start(c)) \/ S!Step(c)) \/ S!UserAction \/ S!Crash
  \/ /\ Moves("limits")
     /\ (\E c \in Calls : (InOrder(c) /\ Start(c)) \/ Step(c)) \/ Time \/ Crash
  \/ /\ Moves("alerts")
     /\ (\E c \in Calls : (InOrder(c) /\ A!Start(c)) \/ A!Step(c)) \/ A!Environment \/ A!Crash
  \/ /\ Moves("billing")
     /\ (\E c \in Calls : (InOrder(c) /\ B!Start(c)) \/ B!Step(c)) \/ B!Stripe \/ B!Crash
     /\ BillingBounds
  \/ /\ Moves("update")
     /\ (\E c \in Calls : (InOrder(c) /\ U!Start(c)) \/ U!Step(c)) \/ U!Docker \/ U!Crash
  \/ /\ Moves("servers")
     /\ (\E c \in Calls : (InOrder(c) /\ H!Start(c)) \/ H!Step(c)) \/ H!Crash
  \/ /\ Moves("waf")
     /\ (\E c \in Calls : (InOrder(c) /\ W!Start(c)) \/ W!Step(c)) \/ W!Lists \/ W!Crash
  \/ /\ Moves("accounts")
     /\ (\E c \in Calls : (InOrder(c) /\ C!Start(c)) \/ C!Step(c)) \/ C!StampKey \/ C!Crash
  \/ /\ Moves("deploys")
     /\ (\E c \in Calls : (InOrder(c) /\ D!Start(c)) \/ D!Step(c) \/ D!RecordDelivery(c)) \/ D!Crash
  \/ /\ Moves("backups")
     /\ (\E c \in Calls : (InOrder(c) /\ K!Start(c)) \/ K!Step(c)) \/ K!Crash
  \/ /\ Moves("startup")
     /\ (\E c \in Calls : (InOrder(c) /\ M!Start(c)) \/ M!Step(c)) \/ M!Environment \/ M!Crash
  \/ /\ Moves("containers")
     /\ (\E c \in Calls : (InOrder(c) /\ X!Start(c)) \/ X!Step(c)) \/ X!Exits \/ X!Crash
  \/ /\ Moves("kubernetes")
     /\ (\E c \in Calls : (InOrder(c) /\ Q!Start(c)) \/ Q!Step(c)) \/ Q!Environment \/ Q!Crash
  \/ /\ Moves("crontab")
     /\ (\E c \in Calls : (InOrder(c) /\ T!Start(c)) \/ T!Step(c)) \/ T!ListCronJobs \/ T!Crash
  \/ /\ Moves("mail")
     /\ (\E c \in Calls : (InOrder(c) /\ E!Start(c)) \/ E!Step(c)) \/ E!Restart

PanelSpec == PanelInit /\ [][PanelNext]_panelVars

(***************************************************************************)
(* The properties of the other modules, where they are explained;          *)
(* CountersExpire, of Limits, comes with EXTENDS.                          *)
(***************************************************************************)
(* Each module's state has its type, while that module moves.              *)
TypeOK ==
  /\ part = "sessions" => S!SessionsTypeOK
  /\ part = "limits"   => LimitsTypeOK
  /\ part = "alerts"   => A!AlertsTypeOK
  /\ part = "billing"  => B!BillingTypeOK
  /\ part = "update"   => U!UpdateTypeOK
  /\ part = "servers"  => H!ServersTypeOK
  /\ part = "waf"      => W!WafTypeOK
  /\ part = "accounts" => C!AccountsTypeOK
  /\ part = "deploys"  => D!DeploymentsTypeOK
  /\ part = "backups"  => K!BackupsTypeOK
  /\ part = "startup"  => M!StartupTypeOK
  /\ part = "containers" => X!ContainersTypeOK
  /\ part = "kubernetes" => Q!KubernetesTypeOK
  /\ part = "crontab"    => T!CrontabTypeOK
  /\ part = "mail"       => E!MailTypeOK

(* Module Sessions: the list of sessions shows the tokens that are         *)
(* accepted, and a backup code works once.                                 *)
ListIsTruth == part = "sessions" => S!ListIsTruth /\ S!CodesConsumed

(* Module Alerts: a pass leaves the incidents the latest sample calls for. *)
IncidentsAreCurrent == part = "alerts" => A!IncidentsAreCurrent

(* Module Billing: the user has the plan it pays for.                      *)
BilledRight == part = "billing" => B!BilledRight

(* Modules PanelUpdate, Deployments, Accounts and Startup: nothing is done *)
(* twice: an update, or a push of an application, while one is at work; a  *)
(* client is made by one reseller; and a starting process finds migrations,*)
(* the master and what was discovered on it registered.                    *)
OnceOnly ==
  /\ U!OneUpdate
  /\ D!OnePush
  /\ part = "accounts" => C!OneReseller
  /\ part = "startup" => M!MigratedOnce /\ M!RegisteredOnce

(* Modules PanelUpdate, Containers, Backups, Kubernetes, Crontab and       *)
(* MailSettings: what was reported as done was done, and stays so: a       *)
(* complete update has pulled both images, a container that was created    *)
(* and started has run, a completed backup has its file, no change of a    *)
(* cluster's object undoes another one, the crontab has the jobs asked for,*)
(* mail goes out with the saved settings.                                  *)
SaidIsDone ==
  /\ U!CompleteMeansPulled
  /\ part = "containers" => X!CreatedRuns
  /\ K!CompletedHasFile
  /\ part = "kubernetes" => Q!ChangeSticks
  /\ part = "crontab" => T!JobsStay
  /\ part = "mail" => E!SettingsAreLive

(* Modules Servers, Startup and Waf: what the rows say is so on the server:*)
(* the panel's key, or the credential of the master's row, opens it, and   *)
(* nginx runs the engine of the row.                                       *)
ServerFollowsRows ==
  /\ H!KeyWorks
  /\ part = "startup" => M!MasterOpens
  /\ part = "waf" => W!EngineFollowsRow
=============================================================================
