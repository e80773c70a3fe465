----------------------------- MODULE Resources -----------------------------
(***************************************************************************)
(* Databases, FTP accounts, SFTP keys, firewall rules and mail forwarders: *)
(* five services of backend/internal/services with one shape and five      *)
(* orders of doing things.  Each has a table and something on the server,  *)
(* and differs in what is unique, in whether the row has a status, in what *)
(* the scripts do to what is already there, and in whether Delete runs its *)
(* script before, beside or after the DELETE.                              *)
(*                                                                         *)
(* The model follows one key of one service: a database name, an FTP user, *)
(* the authorized_keys of one account, one firewall rule (direction, port, *)
(* source, action), the lines of one mail source in /etc/postfix/virtual.  *)
(* A row is named by the call that inserted it, and so is what its script  *)
(* put on the server.                                                      *)
(***************************************************************************)
EXTENDS Background

VARIABLES
  svc,          \* the service
  rows,         \* ids of the rows in its table
  status,       \* per call, databases.status of its row
  remote,       \* ids of what is on the server
  parent,       \* the domain of the forwarders, the account of the keys
  victim,       \* per Delete, the row it was asked to delete
  bare          \* the databases that were created without a server

resVars == <<rows, status, remote, parent, victim, bare>>
vars == <<op, pc, clash, crashed, troubles, lost, svc, resVars>>

Services == {"database", "ftp", "sftp", "firewall", "mail"}

(* UNIQUE(name, server_id) and UNIQUE(server_id, username); the server_id  *)
(* of a bare database is NULL, which equals no other.                      *)
Unique == {"database", "ftp"}

(* The script looks the parent row up first and does nothing without it.   *)
Children == {"sftp", "mail"}

Ops    == {"create", "delete"}
Labels == {"apply", "settle", "giveUp", "drop", "both", "unapply", "unapplyFirst"}

Init ==
  /\ CallsInit
  /\ svc \in Services
  /\ rows = {}
  /\ status = [c \in Calls |-> "none"]
  /\ remote = {}
  /\ parent = "there"
  /\ victim = [c \in Calls |-> NoCall]
  /\ bare = {}

(* The rows that have something on the server.                             *)
Attached == rows \ bare

(***************************************************************************)
(* Create, of the five services                                            *)
(***************************************************************************)
(* The INSERT, and the goroutine that runs the script.                     *)
Insert(c) ==
  /\ parent = "there"
  /\ Begin(c, "create", "apply")
  /\ rows' = rows \cup {c}
  /\ UNCHANGED <<svc, remote, parent, victim, bare>>

(* A database without a server has no script: its row becomes active.      *)
InsertBare(c) ==
  /\ Begin(c, "create", "settle")
  /\ rows' = rows \cup {c}
  /\ bare' = bare \cup {c}
  /\ UNCHANGED <<svc, remote, parent, victim>>

CreateDatabase(c) ==
  /\ svc = "database"
  /\ (Attached = {} /\ Insert(c)) \/ InsertBare(c)
  /\ status' = [status EXCEPT ![c] = "provisioning"]

CreateFTP(c) == svc = "ftp" /\ Attached = {} /\ Insert(c) /\ UNCHANGED status

AddSFTPKey(c) == svc = "sftp" /\ Insert(c) /\ UNCHANGED status

CreateRule(c) == svc = "firewall" /\ Insert(c) /\ UNCHANGED status

(* CreateForwarder and CreateAlias.                                        *)
CreateForwarder(c) == svc = "mail" /\ Insert(c) /\ UNCHANGED status

Create(c) ==
  CreateDatabase(c) \/ CreateFTP(c) \/ AddSFTPKey(c) \/ CreateRule(c) \/ CreateForwarder(c)

(* What the scripts leave on the server.  CREATE USER IF NOT EXISTS and ufw*)
(* keep what is there.                                                     *)
ProvisionDatabase(c) == IF remote = {} THEN {c} ELSE remote

ApplyUFWRule(c) == IF remote = {} THEN {c} ELSE remote

(* chpasswd sets the password of a user that exists.                       *)
ProvisionFTP(c) == {c}

(* Key and forwarder are appended to a file.                               *)
ProvisionSFTPKey(c) == remote \cup {c}

ApplyForwarder(c) == remote \cup {c}

Added(c) ==
  CASE svc = "database" -> ProvisionDatabase(c)
    [] svc = "ftp"      -> ProvisionFTP(c)
    [] svc = "sftp"     -> ProvisionSFTPKey(c)
    [] svc = "firewall" -> ApplyUFWRule(c)
    [] svc = "mail"     -> ApplyForwarder(c)

Skipped == svc \in Children /\ parent = "gone"

AfterApply  == IF svc = "database" THEN "settle" ELSE "done"
AfterFailure == IF svc = "database" THEN "giveUp" ELSE "done"

Apply(c) ==
  /\ \/ Skipped /\ Go(c, "apply", "done") /\ UNCHANGED remote
     \/ ~ Skipped /\ Go(c, "apply", AfterApply) /\ remote' = Added(c)
     \/ GoFailed(c, "apply", AfterFailure) /\ remote' \in {remote, Added(c)}
  /\ UNCHANGED <<svc, rows, status, parent, victim, bare>>

(* DatabaseService.updateStatus, which ignores its error; for a bare       *)
(* database it is on the request's context.                                *)
Conclude(c, from, s) ==
  /\ \/ Go(c, from, "done") /\ status' = IF c \in rows THEN [status EXCEPT ![c] = s] ELSE status
     \/ GoLost(c, from, "done") /\ UNCHANGED status
  /\ UNCHANGED <<svc, rows, remote, parent, victim, bare>>

Settle(c) == Conclude(c, "settle", "active")

GiveUp(c) == Conclude(c, "giveUp", "error")

(***************************************************************************)
(* Delete, of the five services: its script comes before the DELETE, beside*)
(* it ("both") or after it                                                 *)
(***************************************************************************)
Deletes(c, r, first) ==
  /\ r \in rows
  /\ Begin(c, "delete", first)
  /\ victim' = [victim EXCEPT ![c] = r]
  /\ UNCHANGED <<svc, rows, status, remote, parent, bare>>

DeleteDatabase(c, r) ==
  svc = "database" /\ Deletes(c, r, IF r \in bare THEN "drop" ELSE "unapplyFirst")

DeleteSFTPKey(c, r) == svc = "sftp" /\ Deletes(c, r, "drop")

(* Mutant of DeleteFTP: the row goes, what is on the server stays.         *)
DeleteRowOnly(c, r) ==
  /\ svc = "ftp"
  /\ r \in rows
  /\ Begin(c, "delete", "drop")
  /\ victim' = [victim EXCEPT ![c] = r]
  /\ UNCHANGED <<svc, rows, status, remote, parent, bare>>

DeleteFTP(c, r) == svc = "ftp" /\ Deletes(c, r, "both")

DeleteRule(c, r) == svc = "firewall" /\ Deletes(c, r, "both")

(* DeleteForwarder and DeleteAlias.                                        *)
DeleteForwarder(c, r) == svc = "mail" /\ Deletes(c, r, "both")

Delete(c, r) ==
  \/ DeleteDatabase(c, r) \/ DeleteSFTPKey(c, r) \/ DeleteFTP(c, r)
  \/ DeleteRule(c, r) \/ DeleteForwarder(c, r)

(* DELETE ... WHERE id; "both" is "go deprovision(); DELETE".              *)
Drop(c) ==
  /\ \/ /\ \/ Go(c, "drop", IF svc = "sftp" THEN "unapply" ELSE "done")
           \/ Go(c, "both", "unapply")
        /\ rows' = rows \ {victim[c]}
        /\ status' = IF victim[c] \in Calls THEN [status EXCEPT ![victim[c]] = "none"] ELSE status
     \/ /\ GoFailed(c, "drop", "done") \/ GoFailed(c, "both", "unapply")
        /\ UNCHANGED <<rows, status>>
  /\ UNCHANGED <<svc, remote, parent, victim, bare>>

(* DROP DATABASE, userdel, "ufw delete" name the key, not the row; the sed *)
(* for a forwarder matches every line of its source, the one for an SFTP   *)
(* key its first 30 characters, which all keys of a type share.            *)
Unapply(c) ==
  /\ \E to \in {<<"unapplyFirst", "drop">>, <<"both", "drop">>, <<"unapply", "done">>} :
       \/ Skipped /\ Go(c, to[1], to[2]) /\ UNCHANGED remote
       \/ ~ Skipped /\ Go(c, to[1], to[2]) /\ remote' = {}
       \/ GoFailed(c, to[1], to[2]) /\ remote' \in {remote, {}}
  /\ UNCHANGED <<svc, rows, status, parent, victim, bare>>

(***************************************************************************)
(* Environment: the domain, or the FTP account, is deleted (ON DELETE      *)
(* CASCADE); its own clean-up may or may not take the keys along.          *)
(***************************************************************************)
DeleteParent ==
  /\ svc \in Children
  /\ parent = "there"
  /\ parent' = "gone"
  /\ rows' = {}
  /\ remote' \in IF svc = "sftp" THEN {remote, {}} ELSE {remote}
  /\ UNCHANGED <<callVars, svc, status, victim, bare>>

Crash == CrashCalls /\ UNCHANGED <<svc, resVars>>

Start(c) == Create(c) \/ \E r \in Calls : Delete(c, r)

Step(c) == Apply(c) \/ Settle(c) \/ GiveUp(c) \/ Drop(c) \/ Unapply(c)

Next == (\E c \in Calls : Start(c) \/ Step(c)) \/ DeleteParent \/ Crash

Spec == Init /\ [][Next]_vars

(* As in Domains: some goroutine that can move does.                       *)
FairSpec == Spec /\ WF_vars(\E c \in Calls : Step(c))

(***************************************************************************)
(* Properties                                                              *)
(***************************************************************************)
ResourcesTypeOK ==
  /\ CallsTypeOK(Ops, Labels)
  /\ svc \in Services
  /\ rows \subseteq Calls
  /\ status \in [Calls -> {"none", "provisioning", "active", "error"}]
  /\ remote \subseteq Calls
  /\ parent \in {"there", "gone"}
  /\ victim \in [Calls -> Calls \cup {NoCall}]
  /\ bare \subseteq Calls

(* Calls that do not overlap, and whose scripts run, keep server and table *)
(* in step: nothing is left on the server without a row, a database or an  *)
(* FTP user is the one of its row, password included, and without a Delete *)
(* every row is on the server.  After a Delete the last is lost: it takes  *)
(* the equal rule, the other forwarders of the source and the other keys   *)
(* of the account with it, and their rows stay.                            *)
ServerMatchesRows ==
  Quiet /\ Calm /\ parent = "there" =>
    /\ remote # {} => Attached # {}
    /\ svc \in Unique => remote = Attached
    /\ Did("delete") \/ Attached \subseteq remote \/ (svc = "firewall" /\ remote # {})

(* An 'active' database exists on the server, even after scripts failed, as*)
(* long as no two calls overlap and no DELETE failed after the DROP.       *)
(* (Whether it is still the row's own, with the row's password, needs more:*)
(* a DROP that failed leaves the old user, and CREATE USER IF NOT EXISTS   *)
(* leaves its password.)                                                   *)
ActiveDatabaseIsThere ==
  clash = "no" /\ crashed = "no" /\ Quiet =>
    \A r \in Attached : status[r] = "active" =>
      remote # {} \/ \E c \in Calls : op[c] = "delete" /\ victim[c] = r

(* A database waits for its goroutine's verdict; it must get one or be     *)
(* deleted, unless the process dies or that UPDATE fails.                  *)
Undecided == \E r \in rows \ lost : status[r] = "provisioning"
=============================================================================
