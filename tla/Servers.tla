------------------------------ MODULE Servers ------------------------------
(***************************************************************************)
(* The table of servers: ServerService of                                  *)
(* backend/internal/services/server_service.go and its handlers.           *)
(*                                                                         *)
(* A server added with a password gets a key pair from a goroutine that    *)
(* reads the row, puts the public key on the host, logs in with the        *)
(* private one and stores it.  Rows are named by the call that made them,  *)
(* and so is the key pair of a row.  Two rows may be about one host, and a *)
(* host outlives its row.                                                  *)
(***************************************************************************)
EXTENDS Background

CONSTANTS Hosts

VARIABLES
  rows,         \* servers: the rows that exist
  addr,         \* per row: the host it is about
  auth,         \* per row: auth_method, "password" or "key"
  key,          \* per row: ssh_key, "none", "users" or "own" (the key pair)
  status,       \* per row: "pending", "active"
  sampled,      \* rows with server_metrics
  authorized,   \* per host: the key pair its novapanel-auto line lets in
  dialled,      \* per call: the host its goroutine has read
  target,       \* per call: the row a heartbeat is for
  moved         \* history: rows whose address or authentication was changed

serverVars == <<rows, addr, auth, key, status, sampled, authorized, dialled, target, moved>>
vars == <<op, pc, clash, crashed, troubles, lost, rows, addr, auth, key, status, sampled,
          authorized, dialled, target, moved>>

Ops    == {"create", "update", "delete", "heartbeat"}
Labels == {"read", "deploy", "verify", "store", "metrics"}

Init ==
  /\ CallsInit
  /\ rows = {} /\ sampled = {} /\ moved = {}
  /\ addr \in [Calls -> Hosts]
  /\ auth = [c \in Calls |-> "password"]
  /\ key = [c \in Calls |-> "none"]
  /\ status = [c \in Calls |-> "pending"]
  /\ authorized = [h \in Hosts |-> NoCall]
  /\ dialled = addr
  /\ target = [c \in Calls |-> NoCall]

(***************************************************************************)
(* Handlers                                                                *)
(***************************************************************************)
(* Create with a password leaves SetupSSHKey; with a key it does not.      *)
Create(c) ==
  /\ \/ Begin(c, "create", "read") /\ UNCHANGED <<auth, key>>
     \/ /\ Begin(c, "create", "done")
        /\ auth' = [auth EXCEPT ![c] = "key"]
        /\ key' = [key EXCEPT ![c] = "users"]
  /\ rows' = rows \cup {c}
  /\ UNCHANGED <<addr, status, sampled, authorized, dialled, target, moved>>

(* Update sets the columns the request names: here another host, another   *)
(* method, or a key of the user's.                                         *)
Update(c, r) ==
  /\ r \in rows
  /\ Begin(c, "update", "done")
  /\ \/ \E h \in Hosts : addr' = [addr EXCEPT ![r] = h] /\ UNCHANGED <<auth, key>>
     \/ \E a \in {"password", "key"} : auth' = [auth EXCEPT ![r] = a] /\ UNCHANGED <<addr, key>>
     \/ key' = [key EXCEPT ![r] = "users"] /\ UNCHANGED <<addr, auth>>
  /\ moved' = moved \cup {r}
  /\ UNCHANGED <<rows, status, sampled, authorized, dialled, target>>

(* Mutant of Delete: the rows of server_metrics do not cascade.            *)
DeleteAlone(c, r) ==
  /\ r \in rows
  /\ Begin(c, "delete", "done")
  /\ rows' = rows \ {r}
  /\ UNCHANGED <<addr, auth, key, status, sampled, authorized, dialled, target, moved>>

(* The metrics of a server are deleted with it.                            *)
Delete(c, r) ==
  /\ r \in rows
  /\ Begin(c, "delete", "done")
  /\ rows' = rows \ {r} /\ sampled' = sampled \ {r}
  /\ UNCHANGED <<addr, auth, key, status, authorized, dialled, target, moved>>

(* UpdateHeartbeat: the status, and then the sample.  Nothing ever takes a *)
(* status back when heartbeats stop.                                       *)
Heartbeat(c, r) ==
  /\ Begin(c, "heartbeat", "metrics")
  /\ target' = [target EXCEPT ![c] = r]
  /\ status' = [status EXCEPT ![r] = IF r \in rows THEN "active" ELSE @]
  /\ UNCHANGED <<rows, addr, auth, key, sampled, authorized, dialled, moved>>

(* The INSERT fails if the server is gone.                                 *)
InsertMetrics(c) ==
  /\ Go(c, "metrics", "done")
  /\ sampled' = sampled \cup ({target[c]} \cap rows)
  /\ UNCHANGED <<rows, addr, auth, key, status, authorized, dialled, target, moved>>

(***************************************************************************)
(* SetupSSHKey                                                             *)
(***************************************************************************)
ReadServer(c) ==
  /\ Go(c, "read", IF c \in rows /\ auth[c] = "password" THEN "deploy" ELSE "done")
  /\ dialled' = [dialled EXCEPT ![c] = addr[c]]
  /\ UNCHANGED <<rows, addr, auth, key, status, sampled, authorized, target, moved>>

(* The script adds the key unless a novapanel-auto line is there already.  *)
WithKey(h, c) == [authorized EXCEPT ![h] = IF @ = NoCall THEN c ELSE @]

(* The connection may break after the line was added.                      *)
Deploy(c) ==
  LET h == dialled[c] IN
  /\ \/ /\ Go(c, "deploy", "verify")
        /\ authorized' = WithKey(h, c)
     \/ GoFailed(c, "deploy", "done") /\ authorized' \in {authorized, WithKey(h, c)}
  /\ UNCHANGED <<rows, addr, auth, key, status, sampled, dialled, target, moved>>

(* Mutant of Verify: the new key is not tried.                             *)
NoVerify(c) ==
  /\ Go(c, "verify", "store")
  /\ UNCHANGED serverVars

(* A login with the new key.                                               *)
Verify(c) ==
  /\ \/ Go(c, "verify", IF authorized[dialled[c]] = c THEN "store" ELSE "done")
     \/ GoFailed(c, "verify", "done")
  /\ UNCHANGED serverVars

(* The UPDATE asks neither for the address nor for the method it has read. *)
Store(c) ==
  /\ \/ /\ Go(c, "store", "done")
        /\ key' = [key EXCEPT ![c] = IF c \in rows THEN "own" ELSE @]
        /\ auth' = [auth EXCEPT ![c] = IF c \in rows THEN "key" ELSE @]
     \/ GoFailed(c, "store", "done") /\ UNCHANGED <<key, auth>>
  /\ UNCHANGED <<rows, addr, status, sampled, authorized, dialled, target, moved>>

Start(c) == Create(c) \/ \E r \in Calls : Update(c, r) \/ Delete(c, r) \/ Heartbeat(c, r)

Step(c) == InsertMetrics(c) \/ ReadServer(c) \/ Deploy(c) \/ Verify(c) \/ Store(c)

Crash == CrashCalls /\ UNCHANGED serverVars

Next == (\E c \in Calls : Start(c) \/ Step(c)) \/ Crash

Spec == Init /\ [][Next]_vars

ServersTypeOK ==
  /\ CallsTypeOK(Ops, Labels)
  /\ rows \subseteq Calls /\ sampled \subseteq rows /\ moved \subseteq Calls
  /\ addr \in [Calls -> Hosts] /\ dialled \in [Calls -> Hosts]
  /\ auth \in [Calls -> {"password", "key"}]
  /\ key \in [Calls -> {"none", "users", "own"}]
  /\ status \in [Calls -> {"pending", "active"}]
  /\ authorized \in [Hosts -> Calls \cup {NoCall}]
  /\ target \in [Calls -> Calls \cup {NoCall}]

(* The panel can log in to every server whose row holds a key pair of the  *)
(* panel's: its host lets that key in.  A second row of a host, or a host  *)
(* added again, finds another key there and stays with its password; a     *)
(* setup that fails or is cut off does so too.  Only an Update of the      *)
(* address or the authentication (moved) can come between, since Store     *)
(* writes the key whatever the row says by then.                           *)
KeyWorks ==
  \A r \in rows \ moved :
    auth[r] = "key" /\ key[r] = "own" => authorized[addr[r]] = r
=============================================================================
