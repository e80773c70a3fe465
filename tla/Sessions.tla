------------------------------ MODULE Sessions ------------------------------
(***************************************************************************)
(* The sessions of one user: AuthService of                                *)
(* backend/internal/services/auth_service.go, the handlers of auth.go and  *)
(* the middleware that asks Redis whether a token was revoked.             *)
(*                                                                         *)
(* A token is valid until its jti is in the Redis set revoked_tokens.  The *)
(* table user_sessions is a second record of the same tokens, written by a *)
(* goroutine after the token was handed out and read to decide which jtis  *)
(* go into the set.  A token is named by the call that issued it.          *)
(***************************************************************************)
EXTENDS Background

CONSTANTS Codes   \* backup codes of the user

VARIABLES
  issued,       \* tokens handed out
  listed,       \* rows of user_sessions
  revoked,      \* the Redis set
  target,       \* per call: the token it was sent with or told to revoke
  seen,         \* per call: the jtis its SELECT returned
  twoFactor,    \* users.two_factor_enabled: "off", "asked" (secret stored), "on"
  codes,        \* users.totp_backup_codes
  codeList,     \* per call: the codes it read
  code,         \* per call: the code it was sent, NoCall for a TOTP code
  spent,        \* history: backup codes that let somebody in
  reset,        \* the reset token: "none", "unused", "used"
  active,       \* users.status = 'active'
  slip          \* history: a row was written behind a revocation's back

sessionVars ==
  <<issued, listed, revoked, target, seen, twoFactor, codes, codeList, code, spent, reset,
    active, slip>>
tokenVars == <<issued, listed, revoked, slip>>
userVars  == <<twoFactor, codes, codeList, code, spent, reset, active>>
vars == <<op, pc, clash, crashed, troubles, lost, issued, listed, revoked, target, seen, twoFactor,
          codes, codeList, code, spent, reset, active, slip>>

Issuers  == {"login", "verify"}
Revokers == {"logout", "revokeOne", "revokeOthers", "resetPassword"}
Ops    == Issuers \cup Revokers
Labels == {"consume", "record", "commit", "select", "add", "drop"}

Init ==
  /\ CallsInit
  /\ issued = {} /\ listed = {} /\ revoked = {}
  /\ target = [c \in Calls |-> NoCall]
  /\ seen = [c \in Calls |-> {}]
  /\ twoFactor \in {"off", "on"}
  /\ codes = IF twoFactor = "on" THEN Codes ELSE {}
  /\ codeList = [c \in Calls |-> {}]
  /\ code = [c \in Calls |-> NoCall]
  /\ spent = {}
  /\ reset = "none"
  /\ active = "yes"
  /\ slip = "no"

(* AuthMiddleware lets a request with token t through.                     *)
Accepted(t) == t \in issued \ revoked

(***************************************************************************)
(* Handing out tokens                                                      *)
(***************************************************************************)
(* Login, and Register and Refresh, which issue in the same way.  A login  *)
(* with two-factor authentication on ends in two_factor_required.          *)
Login(c) ==
  /\ active = "yes"
  /\ twoFactor # "on"
  /\ Begin(c, "login", "record")
  /\ issued' = issued \cup {c}
  /\ UNCHANGED <<listed, revoked, slip, target, seen, userVars>>

(* A valid token stays valid when it is exchanged for a new one.           *)
Refresh(c, t) ==
  /\ active = "yes"
  /\ Accepted(t)
  /\ Begin(c, "login", "record")
  /\ issued' = issued \cup {c}
  /\ UNCHANGED <<listed, revoked, slip, target, seen, userVars>>

(* TOTPVerify reads the codes, removes the one it was sent from the list it*)
(* has read, and hands out the token whether or not that UPDATE was made.  *)
VerifyRead(c, k) ==
  /\ active = "yes"
  /\ twoFactor = "on"
  /\ k = NoCall \/ k \in codes
  /\ Begin(c, "verify", "consume")
  /\ code' = [code EXCEPT ![c] = k]
  /\ codeList' = [codeList EXCEPT ![c] = codes]
  /\ UNCHANGED <<tokenVars, target, seen, twoFactor, codes, spent, reset, active>>

(* Mutant of Consume: the list is written as it was read.                  *)
ConsumeNothing(c) ==
  /\ Go(c, "consume", "record")
  /\ codes' = IF code[c] = NoCall THEN codes ELSE codeList[c]
  /\ issued' = issued \cup {c}
  /\ spent' = spent \cup ({code[c]} \ {NoCall})
  /\ UNCHANGED <<listed, revoked, slip, target, seen, twoFactor, codeList, code, reset, active>>

Consume(c) ==
  /\ \/ Go(c, "consume", "record") /\ code[c] = NoCall /\ UNCHANGED codes
     \/ Go(c, "consume", "record") /\ code[c] # NoCall /\ codes' = codeList[c] \ {code[c]}
     \/ GoLost(c, "consume", "record") /\ code[c] # NoCall /\ UNCHANGED codes
  /\ issued' = issued \cup {c}
  /\ spent' = spent \cup ({code[c]} \ {NoCall})
  /\ UNCHANGED <<listed, revoked, slip, target, seen, twoFactor, codeList, code, reset, active>>

(* A revocation that has read the rows and has not yet deleted them.       *)
Sweeping(c) == pc[c] \in {"add", "drop"} /\ op[c] \in {"revokeOthers", "resetPassword"}

(* The goroutine recordSession.  Its INSERT may come after the revocation  *)
(* of its token, and between the SELECT and the DELETE of another one.     *)
Record(c) ==
  /\ \/ Go(c, "record", "done")
        /\ listed' = listed \cup {c}
        /\ slip' = IF c \in revoked \/ \E d \in Calls : Sweeping(d) THEN "yes" ELSE slip
     \/ GoFailed(c, "record", "done") /\ UNCHANGED <<listed, slip>>
  /\ UNCHANGED <<issued, revoked, target, seen, userVars>>

(***************************************************************************)
(* Revoking them: read the rows, add the jtis, delete the rows             *)
(***************************************************************************)
Logout(c, t) ==
  /\ Accepted(t)
  /\ Begin(c, "logout", "add")
  /\ target' = [target EXCEPT ![c] = t]
  /\ seen' = [seen EXCEPT ![c] = {t}]
  /\ UNCHANGED <<tokenVars, userVars>>

RevokeSession(c, t) ==
  /\ t \in listed
  /\ Begin(c, "revokeOne", "add")
  /\ target' = [target EXCEPT ![c] = t]
  /\ seen' = [seen EXCEPT ![c] = {t}]
  /\ UNCHANGED <<tokenVars, userVars>>

RevokeAllOtherSessions(c, t) ==
  /\ Accepted(t)
  /\ Begin(c, "revokeOthers", "add")
  /\ target' = [target EXCEPT ![c] = t]
  /\ seen' = [seen EXCEPT ![c] = listed \ {t}]
  /\ UNCHANGED <<tokenVars, userVars>>

(* ResetPassword finds the token unused, commits the password and used_at, *)
(* and leaves revokeAllSessions to a goroutine.                            *)
ResetPassword(c) ==
  /\ reset = "unused"
  /\ Begin(c, "resetPassword", "commit")
  /\ UNCHANGED sessionVars

CommitReset(c) ==
  /\ Go(c, "commit", "select")
  /\ reset' = "used"
  /\ UNCHANGED <<tokenVars, target, seen, twoFactor, codes, codeList, code, spent, active>>

SelectAll(c) ==
  /\ Go(c, "select", "add")
  /\ seen' = [seen EXCEPT ![c] = listed]
  /\ UNCHANGED <<tokenVars, target, userVars>>

(* SADD; an error of Redis is not looked at.                               *)
AddToSet(c) ==
  /\ \/ Go(c, "add", "drop") /\ revoked' = revoked \cup seen[c]
     \/ GoFailed(c, "add", "drop") /\ UNCHANGED revoked
  /\ UNCHANGED <<issued, listed, slip, target, seen, userVars>>

(* Mutant of Deleted: RevokeAllOtherSessions deletes the caller's row too. *)
DeletedAll(c) == IF op[c] \in {"revokeOthers", "resetPassword"} THEN listed ELSE {target[c]}

(* The rows the DELETE of call c removes, whether it has read them or not. *)
Deleted(c) ==
  CASE op[c] = "revokeOthers"  -> listed \ {target[c]}
    [] op[c] = "resetPassword" -> listed
    [] OTHER                   -> {target[c]}

DropRows(c) ==
  /\ \/ Go(c, "drop", "done") /\ listed' = listed \ Deleted(c)
     \/ GoFailed(c, "drop", "done") /\ UNCHANGED listed
  /\ UNCHANGED <<issued, revoked, slip, target, seen, userVars>>

(***************************************************************************)
(* The user row                                                            *)
(***************************************************************************)
(* Bound: two-factor authentication is switched on before the first code   *)
(* is asked for, so that one generation of backup codes is enough.         *)
TOTPSetup ==
  /\ twoFactor = "off" /\ ~ Did("verify")
  /\ twoFactor' = "asked"
  /\ UNCHANGED <<callVars, tokenVars, target, seen, codes, codeList, code, spent, reset, active>>

TOTPEnable ==
  /\ twoFactor = "asked"
  /\ twoFactor' = "on"
  /\ codes' = Codes
  /\ UNCHANGED <<callVars, tokenVars, target, seen, codeList, code, spent, reset, active>>

TOTPDisable ==
  /\ twoFactor # "off"
  /\ twoFactor' = "off"
  /\ codes' = {}
  /\ UNCHANGED <<callVars, tokenVars, target, seen, codeList, code, spent, reset, active>>

CreatePasswordReset ==
  /\ active = "yes" /\ reset = "none"
  /\ reset' = "unused"
  /\ UNCHANGED <<callVars, tokenVars, target, seen, twoFactor, codes, codeList, code, spent, active>>

(* Resellers and Stripe suspend a user by an UPDATE of its status; tokens  *)
(* already issued are not looked at.                                       *)
Suspend ==
  /\ active = "yes"
  /\ active' = "no"
  /\ UNCHANGED <<callVars, tokenVars, target, seen, twoFactor, codes, codeList, code, spent, reset>>

Start(c) ==
  \/ Login(c)
  \/ ResetPassword(c)
  \/ \E k \in Codes \cup {NoCall} : VerifyRead(c, k)
  \/ \E t \in Calls :
       Refresh(c, t) \/ Logout(c, t) \/ RevokeSession(c, t) \/ RevokeAllOtherSessions(c, t)

Step(c) ==
  \/ Consume(c) \/ Record(c)
  \/ CommitReset(c) \/ SelectAll(c) \/ AddToSet(c) \/ DropRows(c)

UserAction == TOTPSetup \/ TOTPEnable \/ TOTPDisable \/ CreatePasswordReset \/ Suspend

Crash == CrashCalls /\ UNCHANGED sessionVars

Next == (\E c \in Calls : Start(c) \/ Step(c)) \/ UserAction \/ Crash

Spec == Init /\ [][Next]_vars

SessionsTypeOK ==
  /\ CallsTypeOK(Ops, Labels)
  /\ issued \subseteq Calls /\ listed \subseteq Calls /\ revoked \subseteq Calls
  /\ target \in [Calls -> Calls \cup {NoCall}]
  /\ seen \in [Calls -> SUBSET Calls]
  /\ twoFactor \in {"off", "asked", "on"}
  /\ codes \subseteq Codes /\ spent \subseteq Codes
  /\ codeList \in [Calls -> SUBSET Codes]
  /\ code \in [Calls -> Codes \cup {NoCall}]
  /\ reset \in {"none", "unused", "used"}
  /\ active \in {"yes", "no"} /\ slip \in {"yes", "no"}

(* The list of sessions tells the truth: once every goroutine has ended, a *)
(* token is listed exactly when it would be accepted.  What breaks it is a *)
(* row written between the SELECT and the DELETE of RevokeAllOtherSessions *)
(* or revokeAllSessions (the row is deleted, the token lives on: slip), a  *)
(* row written after the logout of its own token, a lost command of Redis  *)
(* or the database, a restart; nothing else, in any order of the calls.    *)
ListIsTruth ==
  Quiet /\ slip = "no" /\ troubles = 0 => listed = issued \ revoked

(* A backup code that let somebody in is gone, unless the UPDATE that      *)
(* should remove it failed, whose error TOTPVerify discards (line 285), or *)
(* another call was at work between its SELECT and its UPDATE.             *)
CodesConsumed ==
  clash = "no" => \A k \in spent \cap codes : \E c \in lost : code[c] = k
=============================================================================
