------------------------------ MODULE Accounts ------------------------------
(***************************************************************************)
(* The account of one client, identified by an e-mail address: resellers   *)
(* who allocate it (ResellerService), the user who registers it himself    *)
(* (AuthService.Register), the API key it is used with (APIKeyService and  *)
(* its middleware) and the teams it is invited to (TeamService).           *)
(*                                                                         *)
(* AllocateClient is three statements without a transaction: does the user *)
(* exist, INSERT the user, INSERT the quota that ties him to the reseller. *)
(***************************************************************************)
EXTENDS Background

CONSTANTS Resellers

VARIABLES
  boss,         \* per call: the reseller who sent it
  creator,      \* the call that inserted the row of users, NoCall without one
  status,       \* users.status
  quota,        \* reseller_quotas, per reseller: "none", "given", "changed"
  apiKey,       \* the client's key: "none", "active", "revoked"
  used,         \* last_used_at is set
  stamps,       \* goroutines about to set it
  served,       \* per call: it was let through
  invites       \* team_members: per call that invited, "none", "pending", "accepted"

accountVars == <<boss, creator, status, quota, apiKey, used, stamps, served, invites>>
keyVars     == <<apiKey, used, stamps, served>>
vars == <<op, pc, clash, crashed, troubles, lost, boss, creator, status, quota, apiKey, used,
          stamps, served, invites>>

Ops    == {"allocate", "register", "quota", "suspend", "delete", "key", "invite"}
Labels == {"insert", "quota", "status", "user"}

Init ==
  /\ CallsInit
  /\ boss \in [Calls -> Resellers]
  /\ creator = NoCall /\ status = "active"
  /\ quota = [r \in Resellers |-> "none"]
  /\ apiKey = "none" /\ used = "no" /\ stamps = 0
  /\ served = {}
  /\ invites = [c \in Calls |-> "none"]

(***************************************************************************)
(* The row of users                                                        *)
(***************************************************************************)
(* SELECT EXISTS, of AllocateClient and of Register.                       *)
Allocate(c) ==
  /\ creator = NoCall
  /\ \E o \in {"allocate", "register"} : Begin(c, o, "insert")
  /\ UNCHANGED accountVars

(* Mutant of InsertUser: an address that is taken is inserted again.       *)
InsertTrusting(c) ==
  /\ Go(c, "insert", IF op[c] = "allocate" THEN "quota" ELSE "done")
  /\ creator' = c
  /\ UNCHANGED <<boss, status, quota, keyVars, invites>>

(* users.email is UNIQUE: the loser of a race gets an error here.          *)
InsertUser(c) ==
  /\ \/ /\ creator = NoCall
        /\ Go(c, "insert", IF op[c] = "allocate" THEN "quota" ELSE "done")
        /\ creator' = c
     \/ creator # NoCall /\ Go(c, "insert", "done") /\ UNCHANGED creator
  /\ UNCHANGED <<boss, status, quota, keyVars, invites>>

(* If this INSERT fails the user stays, without a reseller.                *)
InsertQuota(c) ==
  /\ \/ Go(c, "quota", "done") /\ quota' = [quota EXCEPT ![boss[c]] = "given"]
     \/ GoFailed(c, "quota", "done") /\ UNCHANGED quota
  /\ UNCHANGED <<boss, creator, status, keyVars, invites>>

(***************************************************************************)
(* The reseller's other operations                                         *)
(***************************************************************************)
UpdateClientQuota(c) ==
  /\ quota[boss[c]] # "none"
  /\ Begin(c, "quota", "done")
  /\ quota' = [quota EXCEPT ![boss[c]] = "changed"]
  /\ UNCHANGED <<boss, creator, status, keyVars, invites>>

(* SuspendClient and DeleteClient count the quota rows first.              *)
CheckOwner(c) ==
  /\ quota[boss[c]] # "none"
  /\ \E o \in {"suspend", "delete"} : Begin(c, o, "status")
  /\ UNCHANGED accountVars

(* The UPDATE does not look at the status: a client deleted meanwhile, or  *)
(* long ago, is only suspended afterwards.                                 *)
SetStatus(c) ==
  /\ Go(c, "status", "done")
  /\ status' = IF op[c] = "suspend" THEN "suspended" ELSE "deleted"
  /\ UNCHANGED <<boss, creator, quota, keyVars, invites>>

(***************************************************************************)
(* API keys                                                                *)
(***************************************************************************)
CreateKey(c) ==
  /\ creator # NoCall
  /\ apiKey = "none"
  /\ Begin(c, "key", "done")
  /\ apiKey' = "active"
  /\ UNCHANGED <<boss, creator, status, quota, used, stamps, served, invites>>

RevokeKey(c) ==
  /\ apiKey # "none"
  /\ Begin(c, "key", "done")
  /\ apiKey' = "revoked"
  /\ UNCHANGED <<boss, creator, status, quota, used, stamps, served, invites>>

(* ValidateKey: the key first, and the user with another SELECT.           *)
FindKey(c) ==
  /\ apiKey = "active"
  /\ Begin(c, "key", "user")
  /\ stamps' = stamps + 1
  /\ UNCHANGED <<boss, creator, status, quota, apiKey, used, served, invites>>

FindUser(c) ==
  /\ Go(c, "user", "done")
  /\ served' = IF status = "active" THEN served \cup {c} ELSE served
  /\ UNCHANGED <<boss, creator, status, quota, apiKey, used, stamps, invites>>

StampKey ==
  /\ stamps > 0
  /\ stamps' = stamps - 1
  /\ used' = "yes"
  /\ UNCHANGED <<callVars, boss, creator, status, quota, apiKey, served, invites>>

(***************************************************************************)
(* Teams                                                                   *)
(***************************************************************************)
(* The UNIQUE key holds scope_id, which is NULL for a whole account: ON    *)
(* CONFLICT never fires then, and each invitation is a row of its own.     *)
InviteMember(c) ==
  /\ creator # NoCall
  /\ Begin(c, "invite", "done")
  /\ invites' = [invites EXCEPT ![c] = "pending"]
  /\ UNCHANGED <<boss, creator, status, quota, keyVars>>

AcceptInvite(c, i) ==
  /\ invites[i] = "pending"
  /\ Begin(c, "invite", "done")
  /\ invites' = [invites EXCEPT ![i] = "accepted"]
  /\ UNCHANGED <<boss, creator, status, quota, keyVars>>

RemoveMember(c, i) ==
  /\ invites[i] # "none"
  /\ Begin(c, "invite", "done")
  /\ invites' = [invites EXCEPT ![i] = "none"]
  /\ UNCHANGED <<boss, creator, status, quota, keyVars>>

Start(c) ==
  \/ Allocate(c) \/ UpdateClientQuota(c) \/ CheckOwner(c)
  \/ CreateKey(c) \/ RevokeKey(c) \/ FindKey(c)
  \/ InviteMember(c)
  \/ \E i \in Calls : AcceptInvite(c, i) \/ RemoveMember(c, i)

Step(c) == InsertUser(c) \/ InsertQuota(c) \/ SetStatus(c) \/ FindUser(c)

Crash ==
  /\ CrashCalls
  /\ stamps' = 0
  /\ UNCHANGED <<boss, creator, status, quota, apiKey, used, served, invites>>

Next == (\E c \in Calls : Start(c) \/ Step(c)) \/ StampKey \/ Crash

Spec == Init /\ [][Next]_vars

AccountsTypeOK ==
  /\ CallsTypeOK(Ops, Labels)
  /\ boss \in [Calls -> Resellers]
  /\ creator \in Calls \cup {NoCall}
  /\ status \in {"active", "suspended", "deleted"}
  /\ quota \in [Resellers -> {"none", "given", "changed"}]
  /\ apiKey \in {"none", "active", "revoked"}
  /\ used \in {"no", "yes"} /\ stamps \in Nat
  /\ served \subseteq Calls
  /\ invites \in [Calls -> {"none", "pending", "accepted"}]

(* A client has the reseller who allocated the account and no other, also  *)
(* when two resellers, or a reseller and the client, race for the address; *)
(* who registered himself has none.  Only an INSERT that fails or a restart*)
(* between the two INSERTs leaves a client without the reseller.           *)
OneReseller ==
  LET owners == {r \in Resellers : quota[r] # "none"} IN
  /\ owners \subseteq {boss[c] : c \in {d \in Calls : d = creator /\ op[d] = "allocate"}}
  /\ Quiet /\ troubles = 0 /\ creator # NoCall =>
       (owners # {} <=> op[creator] = "allocate")
=============================================================================
