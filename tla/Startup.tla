------------------------------ MODULE Startup ------------------------------
(***************************************************************************)
(* The start of an API process, up to r.Run: cmd/api/main.go and           *)
(* internal/database/migrate.go of the backend.  It migrates the database, *)
(* registers the machine it runs on as the master server, and registers    *)
(* the databases and web sites it discovers there.                         *)
(*                                                                         *)
(* A member of Calls is one process, of the command serve or migrate.  The *)
(* installation, an update and Docker's restarts may have two of them      *)
(* start at a time, and nothing but the database's constraints keeps them  *)
(* apart.                                                                  *)
(***************************************************************************)
EXTENDS Background

CONSTANTS
  LastMigration,  \* the migrations are 1 .. LastMigration, in file order
  Engines,        \* database engines a start may discover
  Sites           \* web sites a start may discover

VARIABLES
  applied,    \* schema_migrations
  ran,        \* history: how often the content of each was committed
  next,       \* per process: the migration it is at
  outcome,    \* per process: "none", "migrated", "serving" or "exited"
  env,        \* .env and the mounted ~/.ssh: what opens the host
  masters,    \* servers with role master, each named by the process that made it
  login,      \* per master: auth_method and the credentials of its row
  admin,      \* whether users has an administrator
  host,       \* per process: the master it registers things for
  todo,       \* per process: what it has found and not yet looked up
  item,       \* per process: what it is about to insert
  known       \* rows of databases and domains

startVars == <<applied, ran, next, outcome, env, masters, login, admin, host, todo, item, known>>
vars == <<op, pc, clash, crashed, troubles, lost, startVars>>

migrateVars  == <<applied, ran, next>>
masterVars   == <<env, masters, login>>
discoverVars == <<admin, host, todo, item, known>>

Ops    == {"serve", "migrate"}
Labels == {"check", "apply", "count", "insert", "refresh", "admin", "look", "register"}

Versions == 1 .. LastMigration

(* How a thing is found: open ports first, then the configurations of nginx*)
(* and Apache, then the files of systemd and init.d.                       *)
Order == [port |-> 1, site |-> 2, unit |-> 3]
Items == [how : {"port", "unit"}, what : Engines] \cup [how : {"site"}, what : Sites]
Rows  == [how : {"port", "unit", "site", "user"}, what : Engines \cup Sites, on : Calls]

Envs   == [key : {"no", "yes"}, password : {"no", "yes"}]
Logins == [method : {"local", "key", "password"}, key : {"no", "yes"}, password : {"no", "yes"}]

Method == CASE env.key = "yes"      -> "key"
            [] env.key = "no" /\ env.password = "yes" -> "password"
            [] OTHER                -> "local"

Init ==
  /\ CallsInit
  /\ applied = {}
  /\ ran = [v \in Versions |-> 0]
  /\ next = [c \in Calls |-> 1]
  /\ outcome = [c \in Calls |-> "none"]
  /\ env \in Envs
  /\ masters = {}
  /\ login = [c \in Calls |-> [method |-> "local", key |-> "no", password |-> "no"]]
  /\ admin = "no"
  /\ host = [c \in Calls |-> c]
  /\ todo = [c \in Calls |-> {}]
  /\ item \in [Calls -> {CHOOSE i \in Items : TRUE}]
  /\ known = {}

Boot(c) ==
  /\ \E command \in Ops : Begin(c, command, "check")
  /\ UNCHANGED startVars

(* The process goes on to serve requests, or log.Fatalf ends it.           *)
Ends(c, how) == outcome' = [outcome EXCEPT ![c] = how]

(***************************************************************************)
(* RunMigrations                                                           *)
(***************************************************************************)
Forward(c) == next' = [next EXCEPT ![c] = next[c] + 1]

(* SELECT EXISTS; its error is dropped and counts as "not applied".        *)
Check(c) ==
  /\ UNCHANGED <<applied, ran, masterVars, discoverVars>>
  /\ \/ /\ next[c] \in applied
        /\ \/ Go(c, "check", "check") /\ Forward(c)
           \/ GoFailed(c, "check", "apply") /\ UNCHANGED next
        /\ UNCHANGED outcome
     \/ /\ next[c] \in Versions \ applied
        /\ Go(c, "check", "apply")
        /\ UNCHANGED <<next, outcome>>
     \/ /\ next[c] > LastMigration
        /\ \/ op[c] = "serve" /\ Go(c, "check", "count") /\ UNCHANGED outcome
           \/ op[c] = "migrate" /\ Go(c, "check", "done") /\ Ends(c, "migrated")
        /\ UNCHANGED next

Commit(v) == ran' = [ran EXCEPT ![v] = @ + 1]

(* Mutant of Apply: the content and the version are not in a transaction.  *)
ApplyUnmarked(c) ==
  /\ UNCHANGED <<masterVars, discoverVars>>
  /\ Commit(next[c])
  /\ \/ Go(c, "apply", "check") /\ Forward(c) /\ applied' = applied \cup {next[c]}
        /\ UNCHANGED outcome
     \/ GoFailed(c, "apply", "done") /\ Ends(c, "exited") /\ UNCHANGED <<applied, next>>

(* One transaction runs the file and inserts its version, the primary key: *)
(* of two processes the second waits for the first, and fails if that one  *)
(* commits.                                                                *)
Apply(c) ==
  /\ UNCHANGED <<masterVars, discoverVars>>
  /\ \/ /\ next[c] \notin applied
        /\ Go(c, "apply", "check")
        /\ applied' = applied \cup {next[c]}
        /\ Commit(next[c])
        /\ Forward(c)
        /\ UNCHANGED outcome
     \/ /\ \/ next[c] \in applied /\ Go(c, "apply", "done")
           \/ GoFailed(c, "apply", "done")
        /\ Ends(c, "exited")
        /\ UNCHANGED migrateVars

(***************************************************************************)
(* autoRegisterHostServer                                                  *)
(***************************************************************************)
(* The number of masters is read first.                                    *)
Count(c) ==
  /\ UNCHANGED <<migrateVars, masterVars, discoverVars>>
  /\ \/ /\ IF masters = {} THEN Go(c, "count", "insert") ELSE Go(c, "count", "refresh")
        /\ UNCHANGED outcome
     \/ GoFailed(c, "count", "done") /\ Ends(c, "serving")

(* The row after the environment gave what is in given, where it has not   *)
(* got the key or the password already.                                    *)
Stored(m, given, keyIs, passwordIs) ==
  login' = [login EXCEPT ![m] =
    [method   |-> Method,
     key      |-> IF keyIs = "yes" THEN "yes" ELSE given.key,
     password |-> IF passwordIs = "yes" THEN "yes" ELSE given.password]]

(* Without a key to encrypt with no credential is stored, the method is.   *)
Nothing == [key |-> "no", password |-> "no"]

InsertMaster(c) ==
  /\ UNCHANGED <<migrateVars, env, admin, todo, item, known>>
  /\ \/ Go(c, "insert", "admin") /\ Stored(c, env, "no", "no") /\ UNCHANGED outcome
        /\ masters' = masters \cup {c} /\ host' = [host EXCEPT ![c] = c]
     \/ GoFailed(c, "insert", "admin") /\ Stored(c, Nothing, "no", "no") /\ UNCHANGED outcome
        /\ masters' = masters \cup {c} /\ host' = [host EXCEPT ![c] = c]
     \/ GoFailed(c, "insert", "done") /\ Ends(c, "serving") /\ UNCHANGED <<masters, login, host>>

(* Mutant of Backfilled: the method is brought up to date alone.           *)
MethodOnly(m, given) == login' = [login EXCEPT ![m].method = Method]

(* Credentials the row has are kept, the method is replaced.               *)
Backfilled(m, given) == Stored(m, given, login[m].key, login[m].password)

Refresh(c) ==
  /\ UNCHANGED <<migrateVars, outcome, env, masters, admin, todo, item, known>>
  /\ \E m \in masters :
       /\ host' = [host EXCEPT ![c] = m]
       /\ \/ Go(c, "refresh", "admin") /\ Backfilled(m, env)
          \/ GoFailed(c, "refresh", "admin") /\ (Backfilled(m, Nothing) \/ UNCHANGED login)

(***************************************************************************)
(* autoDiscoverServices, discoverWebsites, discoverSystemServices          *)
(***************************************************************************)
(* Rows need an owner: without an administrator nothing is looked for.     *)
(* What the probes find, within their second each, is any set.             *)
Admin(c) ==
  /\ UNCHANGED <<migrateVars, masterVars, admin, host, item, known>>
  /\ \/ admin = "no" /\ Go(c, "admin", "done") /\ Ends(c, "serving") /\ UNCHANGED todo
     \/ GoFailed(c, "admin", "done") /\ Ends(c, "serving") /\ UNCHANGED todo
     \/ /\ admin = "yes"
        /\ Go(c, "admin", "look")
        /\ \E found \in SUBSET Items : todo' = [todo EXCEPT ![c] = found]
        /\ UNCHANGED outcome

Turn(c) == {i \in todo[c] : \A j \in todo[c] : Order[i.how] <= Order[j.how]}

Dropped(c, i) == todo' = [todo EXCEPT ![c] = @ \ {i}]

Listed(what) == \E r \in known : r.what = what

(* Counted are the rows with the engine, or the name, of any server.       *)
Look(c) ==
  /\ UNCHANGED <<migrateVars, masterVars, admin, host, known>>
  /\ \/ todo[c] = {} /\ Go(c, "look", "done") /\ Ends(c, "serving") /\ UNCHANGED <<todo, item>>
     \/ \E i \in Turn(c) :
          /\ UNCHANGED outcome
          /\ \/ Listed(i.what) /\ Go(c, "look", "look") /\ Dropped(c, i) /\ UNCHANGED item
             \/ ~ Listed(i.what) /\ Go(c, "look", "register") /\ UNCHANGED todo
                /\ item' = [item EXCEPT ![c] = i]
             \/ Listed(i.what) /\ GoFailed(c, "look", "register") /\ UNCHANGED todo
                /\ item' = [item EXCEPT ![c] = i]

(* Unique: a domain's name, and a database's name on its server.  The name *)
(* says how the database was found, so a user's row never is in the way.   *)
Taken(r) == \E k \in known : k.what = r.what /\ (r.how = "site" \/ k = r)

Register(c) ==
  LET row == [how |-> item[c].how, what |-> item[c].what, on |-> host[c]] IN
  /\ Dropped(c, item[c])
  /\ \/ Go(c, "register", "look") /\ known' = IF Taken(row) THEN known ELSE known \cup {row}
     \/ GoFailed(c, "register", "look") /\ UNCHANGED known
  /\ UNCHANGED <<migrateVars, outcome, masterVars, admin, host, item>>

(***************************************************************************)
(* What the panel's users and the operator do between the steps            *)
(***************************************************************************)
(* An administrator is made, by hand: the panel registers only clients.    *)
Promote == admin = "no" /\ applied # {} /\ admin' = "yes" /\ UNCHANGED <<host, todo, item, known>>

Serving == \E c \in Calls : outcome[c] = "serving"

(* A user deletes a row, a discovered one too.                             *)
Forget ==
  /\ Serving
  /\ \E r \in known : known' = known \ {r}
  /\ UNCHANGED <<admin, host, todo, item>>

(* The operator edits .env between two starts.                             *)
Edit ==
  /\ Quiet /\ masters # {}
  /\ env' \in Envs \ {env}
  /\ UNCHANGED <<masters, login>>

(* ServerService.SetupSSHKey, which module Servers follows step by step,   *)
(* ends with the panel's own key in the row.                               *)
SetupSSHKey ==
  /\ Serving
  /\ \E m \in masters :
       /\ login[m].method # "key" /\ login[m].password = "yes"
       /\ login' = [login EXCEPT ![m].method = "key", ![m].key = "yes"]
  /\ UNCHANGED <<env, masters>>

Environment ==
  /\ \/ (Promote \/ Forget) /\ UNCHANGED masterVars
     \/ (Edit \/ SetupSSHKey) /\ UNCHANGED discoverVars
  /\ UNCHANGED <<op, pc, clash, crashed, troubles, lost, migrateVars, outcome>>

Start(c) == Boot(c)

Step(c) ==
  \/ Check(c) \/ Apply(c)
  \/ Count(c) \/ InsertMaster(c) \/ Refresh(c)
  \/ Admin(c) \/ Look(c) \/ Register(c)

Crash == CrashCalls /\ UNCHANGED startVars

Next == (\E c \in Calls : Start(c) \/ Step(c)) \/ Environment \/ Crash

Spec == Init /\ [][Next]_vars

StartupTypeOK ==
  /\ CallsTypeOK(Ops, Labels)
  /\ applied \subseteq Versions /\ ran \in [Versions -> 0 .. 2]
  /\ next \in [Calls -> 1 .. LastMigration + 1]
  /\ outcome \in [Calls -> {"none", "migrated", "serving", "exited"}]
  /\ env \in Envs /\ masters \subseteq Calls /\ login \in [Calls -> Logins]
  /\ admin \in {"no", "yes"} /\ host \in [Calls -> Calls]
  /\ todo \in [Calls -> SUBSET Items] /\ item \in [Calls -> Items]
  /\ known \subseteq Rows

(* A migration is committed once and in order, whatever processes start    *)
(* together or die in between; who gets past the migrations has them all;  *)
(* and a process gives up over a migration only if another one ran it at   *)
(* the same time, or a statement failed.                                   *)
MigratedOnce ==
  /\ \A v \in Versions : ran[v] = IF v \in applied THEN 1 ELSE 0
  /\ \A v \in applied : 1 .. v \subseteq applied
  /\ \A c \in Calls : outcome[c] \in {"migrated", "serving"} => applied = Versions
  /\ (\E c \in Calls : outcome[c] = "exited") => clash = "yes" \/ troubles > 0

(* Processes that start one after the other register one master, and a     *)
(* discovered thing once, however it is found; domains are never doubled,  *)
(* not even by two at a time.                                              *)
RegisteredOnce ==
  /\ Calm => /\ \A m, n \in masters : m = n
             /\ \A r, s \in known : r.what = s.what => r = s
  /\ \A r, s \in known : r.what \in Sites /\ r.what = s.what => r = s

(* The master's row has the credential its method asks for, also after the *)
(* operator changed the way in, or after SetupSSHKey; unless there was no  *)
(* key to encrypt with.                                                    *)
MasterOpens ==
  \A m \in masters : troubles = 0 =>
    /\ login[m].method = "key" => login[m].key = "yes"
    /\ login[m].method = "password" => login[m].password = "yes"
=============================================================================
