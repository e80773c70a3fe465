---------------------------- MODULE PanelProofs ----------------------------
(***************************************************************************)
(* Theorems about the panel's own services, each module on its own and all *)
(* of them in the composition MCPanel, for any calls, rules, hosts, paths, *)
(* migrations, subscriptions, failing commands and restarts.               *)
(*                                                                         *)
(* A section per module has its inductive invariant, named for the module  *)
(* (SesInv, UpdInv, ...), and shows that it holds at the start (SesInit),  *)
(* that a step keeps it (SesInvStep) and that it says what the properties  *)
(* of the module say (SesMeans).  None of this uses the order of the calls *)
(* or the bounds on billing of MCPanel, so the theorems hold for more      *)
(* behaviours than its runs explore.  The last section puts them together: *)
(* a step of MCPanel is one of the module that moves, the others keep what *)
(* they have promised at the start.                                        *)
(***************************************************************************)
EXTENDS MCPanel, Sequences, TLAPS

(***************************************************************************)
(* Limits: types                                                           *)
(***************************************************************************)
(* A call that starts, moves or is killed stays typed.                     *)
LEMMA LimitCallsStayTyped ==
  ASSUME CallsTypeOK(Ops, Labels), NEW c \in Calls, NEW o \in Ops,
         NEW from, NEW to \in Labels \cup {"done"},
         Begin(c, o, to) \/ Go(c, from, to) \/ GoFailed(c, from, to) \/ CrashCalls
  PROVE  CallsTypeOK(Ops, Labels)'
<1> USE CallsAssumption
<1>1. CASE Begin(c, o, to)
  BY <1>1 DEF Begin, CallsTypeOK
<1>2. CASE Go(c, from, to)
  BY <1>2 DEF Go, CallsTypeOK
<1>3. CASE GoFailed(c, from, to)
  <2>1. troubles' \in 0 .. MaxTroubles
    BY <1>3 DEF GoFailed, CallsTypeOK
  <2> QED
    BY <1>3, <2>1 DEF GoFailed, CallsTypeOK
<1>4. CASE CrashCalls
  <2>1. troubles' \in 0 .. MaxTroubles
    BY <1>4 DEF CrashCalls, CallsTypeOK
  <2> QED
    BY <1>4, <2>1 DEF CrashCalls, CallsTypeOK
<1> QED
  BY <1>1, <1>2, <1>3, <1>4

(* The types hold at the start.                                            *)
LEMMA LimitTypesInit == Init => LimitsTypeOK
BY CallsAssumption DEF Init, CallsInit, LimitsTypeOK, CallsTypeOK

(* Whatever a call does is one move of its own.                            *)
LEMMA OneMove ==
  ASSUME NEW c \in Calls, Start(c) \/ Step(c)
  PROVE  \E o \in Ops, from \in Labels, to \in Labels \cup {"done"} :
           Begin(c, o, to) \/ Go(c, from, to) \/ GoFailed(c, from, to)
<1>1. CASE Start(c)
  BY <1>1 DEF Start, Request, LoginArrives, Ops, Labels
<1>2. CASE Expire(c) \/ ReadFailures(c) \/ AskLock(c) \/ Succeed(c) \/ Unlock(c)
  BY <1>2 DEF Expire, ReadFailures, AskLock, Succeed, Unlock, Ops, Labels
<1>3. CASE Fail(c) \/ CountFailure(c) \/ ExpireFails(c) \/ SetLock(c)
  BY <1>3 DEF Fail, CountFailure, AfterIncr, ExpireFails, SetLock, Ops, Labels
<1> QED
  BY <1>1, <1>2, <1>3 DEF Step

(* What a call does to the keys keeps their types.                         *)
LEMMA KeysStayTyped ==
  ASSUME LimitsTypeOK, NEW c \in Calls, Start(c) \/ Step(c)
  PROVE  /\ count' \in Nat /\ fails' \in Nat
         /\ countTtl' \in {"none", "set"} /\ failsTtl' \in {"none", "set"}
         /\ lock' \in {"none", "set"}
<1> USE DEF LimitsTypeOK, rateVars, loginVars, limitVars
<1>1. CASE Request(c)
  BY <1>1 DEF Request
<1>2. CASE LoginArrives(c)
  BY <1>2 DEF LoginArrives
<1>3. CASE Expire(c)
  BY <1>3 DEF Expire
<1>4. CASE ReadFailures(c) \/ AskLock(c)
  BY <1>4 DEF ReadFailures, AskLock
<1>5. CASE Succeed(c)
  BY <1>5 DEF Succeed
<1>6. CASE Unlock(c)
  BY <1>6 DEF Unlock
<1>7. CASE Fail(c)
  BY <1>7 DEF Fail
<1>8. CASE CountFailure(c)
  BY <1>8 DEF CountFailure
<1>9. CASE ExpireFails(c)
  BY <1>9 DEF ExpireFails
<1>10. CASE SetLock(c)
  BY <1>10 DEF SetLock
<1> QED
  BY <1>1, <1>2, <1>3, <1>4, <1>5, <1>6, <1>7, <1>8, <1>9, <1>10 DEF Start, Step

(* The types are kept by every step.                                       *)
LEMMA LimitTypesStep == LimitsTypeOK /\ [Next]_vars => LimitsTypeOK'
<1> SUFFICES ASSUME LimitsTypeOK, [Next]_vars
             PROVE  LimitsTypeOK'
  OBVIOUS
<1>1. ASSUME NEW c \in Calls, Start(c) \/ Step(c)
      PROVE  LimitsTypeOK'
  <2>1. CallsTypeOK(Ops, Labels)'
    BY <1>1, OneMove, LimitCallsStayTyped DEF LimitsTypeOK
  <2> QED
    BY <1>1, <2>1, KeysStayTyped DEF LimitsTypeOK
<1>2. CASE Time
  BY <1>2 DEF Time, WindowEnds, FailuresExpire, LockEnds, LimitsTypeOK, CallsTypeOK,
              callVars, rateVars, loginVars
<1>3. CASE Crash
  <2>1. CallsTypeOK(Ops, Labels)'
    <3>1. \A c \in Calls : pc'[c] \in {"idle", "done"} \cup Labels
      BY <1>3 DEF Crash, CrashCalls, LimitsTypeOK, CallsTypeOK
    <3>2. troubles' \in 0 .. MaxTroubles
      BY <1>3, CallsAssumption DEF Crash, CrashCalls, LimitsTypeOK, CallsTypeOK
    <3> QED
      BY <1>3, <3>1, <3>2 DEF Crash, CrashCalls, LimitsTypeOK, CallsTypeOK
  <2> QED
    BY <1>3, <2>1 DEF Crash, LimitsTypeOK, limitVars
<1>4. CASE UNCHANGED vars
  BY <1>4 DEF vars, LimitsTypeOK, CallsTypeOK
<1> QED
  BY <1>1, <1>2, <1>3, <1>4 DEF Next

(* Every value has its type, for any number of requests.                   *)
THEOREM LimitsTypeCorrect == Spec => []LimitsTypeOK
BY LimitTypesInit, LimitTypesStep, PTL DEF Spec

(***************************************************************************)
(* Limits: counters                                                        *)
(***************************************************************************)
(* A fault is counted for good.                                            *)
LEMMA TroublesStay ==
  ASSUME LimitsTypeOK, [Next]_vars, troubles > 0 \/ Crash
  PROVE  troubles' > 0
<1>1. troubles \in Nat
  BY CallsAssumption DEF LimitsTypeOK, CallsTypeOK
<1>2. troubles' = troubles \/ troubles' = troubles + 1
  <2>1. ASSUME NEW c \in Calls, Start(c) \/ Step(c)
        PROVE  troubles' = troubles \/ troubles' = troubles + 1
    BY <2>1, OneMove DEF Begin, Go, GoFailed
  <2>2. CASE Time
    BY <2>2 DEF Time, WindowEnds, FailuresExpire, LockEnds, callVars
  <2>3. CASE Crash
    BY <2>3 DEF Crash, CrashCalls
  <2>4. CASE UNCHANGED vars
    BY <2>4 DEF vars
  <2> QED
    BY <2>1, <2>2, <2>3, <2>4 DEF Next
<1>3. CASE troubles > 0
  BY <1>1, <1>2, <1>3
<1>4. CASE Crash
  BY <1>1, <1>4 DEF Crash, CrashCalls
<1> QED
  BY <1>3, <1>4

(* The two halves of CountersExpire, for calls that no fault touched.      *)
RateDated == count > 0 /\ countTtl = "none" => \E c \in Calls : pc[c] = "expire"

FailsDated == fails > 0 /\ failsTtl = "none" => \E c \in Calls : pc[c] = "expireFails"

(* The counter of requests is dated, or will be: by the call that made it. *)
LEMMA RateStaysDated ==
  ASSUME LimitsTypeOK, RateDated, NEW c \in Calls, Start(c) \/ Step(c),
         troubles' = troubles
  PROVE  RateDated'
<1> USE DEF LimitsTypeOK, CallsTypeOK, RateDated
<1>1. CASE Request(c)
  BY <1>1 DEF Request, Begin
<1>2. CASE LoginArrives(c)
  BY <1>2 DEF LoginArrives, Begin, limitVars
<1>3. CASE Expire(c)
  <2>1. ~ GoFailed(c, "expire", "done")
    BY CallsAssumption DEF GoFailed
  <2> QED
    BY <1>3, <2>1 DEF Expire, Go
<1>4. CASE Step(c) /\ ~ Expire(c)
  <2>1. count' = count /\ countTtl' = countTtl
    BY <1>4 DEF Step, ReadFailures, AskLock, Succeed, Unlock, Fail, CountFailure, ExpireFails, SetLock,
                rateVars, limitVars
  <2>2. pc[c] # "expire" /\ \E to : pc' = [pc EXCEPT ![c] = to]
    BY <1>4 DEF Step, ReadFailures, AskLock, Succeed, Unlock, Fail, CountFailure, ExpireFails, SetLock,
                Go, GoFailed
  <2> QED
    BY <2>1, <2>2
<1> QED
  BY <1>1, <1>2, <1>3, <1>4 DEF Start

(* So is the counter of failed logins.                                     *)
LEMMA FailsStayDated ==
  ASSUME LimitsTypeOK, FailsDated, NEW c \in Calls, Start(c) \/ Step(c),
         troubles' = troubles
  PROVE  FailsDated'
<1> USE DEF LimitsTypeOK, CallsTypeOK, FailsDated
<1>1. CASE CountFailure(c)
  <2>1. ~ GoFailed(c, "incr", "done")
    BY CallsAssumption DEF GoFailed
  <2>2. CASE fails = 0
    BY <1>1, <2>1, <2>2 DEF CountFailure, AfterIncr, Go
  <2>3. CASE fails > 0
    BY <1>1, <2>1, <2>3 DEF CountFailure, Go
  <2> QED
    BY <2>2, <2>3
<1>2. CASE ExpireFails(c)
  <2>1. ~ GoFailed(c, "expireFails", "done")
    BY CallsAssumption DEF GoFailed
  <2> QED
    BY <1>2, <2>1 DEF ExpireFails, Go
<1>3. CASE Succeed(c)
  <2>1. ~ GoFailed(c, "handler", "unlock")
    BY CallsAssumption DEF GoFailed
  <2> QED
    BY <1>3, <2>1 DEF Succeed
<1>4. CASE Start(c)
  <2>1. fails' = fails /\ failsTtl' = failsTtl
    BY <1>4 DEF Start, Request, LoginArrives, loginVars, limitVars
  <2>2. pc[c] = "idle" /\ \E to : pc' = [pc EXCEPT ![c] = to]
    BY <1>4 DEF Start, Request, LoginArrives, Begin
  <2> QED
    BY <2>1, <2>2
<1>5. CASE Expire(c) \/ ReadFailures(c) \/ AskLock(c) \/ Unlock(c) \/ Fail(c) \/ SetLock(c)
  <2>1. fails' = fails /\ failsTtl' = failsTtl
    BY <1>5 DEF Expire, ReadFailures, AskLock, Unlock, Fail, SetLock, loginVars, limitVars
  <2>2. pc[c] # "expireFails" /\ \E to : pc' = [pc EXCEPT ![c] = to]
    BY <1>5 DEF Expire, ReadFailures, AskLock, Unlock, Fail, SetLock, Go, GoFailed
  <2> QED
    BY <2>1, <2>2
<1> QED
  BY <1>1, <1>2, <1>3, <1>4, <1>5 DEF Step

(* A step without a fault keeps every counter dated.                       *)
LEMMA CountersStep == LimitsTypeOK /\ CountersExpire /\ [Next]_vars => CountersExpire'
<1> SUFFICES ASSUME LimitsTypeOK, CountersExpire, [Next]_vars, ~ (troubles' > 0)
             PROVE  RateDated' /\ FailsDated'
  BY DEF CountersExpire, RateDated, FailsDated
<1>1. ~ (troubles > 0) /\ ~ Crash
  BY TroublesStay
<1>2. RateDated /\ FailsDated
  BY <1>1 DEF CountersExpire, RateDated, FailsDated
<1>3. troubles' = troubles
  <2>1. troubles \in Nat /\ troubles' \in Nat
    BY LimitTypesStep, CallsAssumption DEF LimitsTypeOK, CallsTypeOK
  <2> QED
    BY <1>1, <2>1
<1>4. ASSUME NEW c \in Calls, Start(c) \/ Step(c)
      PROVE  RateDated' /\ FailsDated'
  BY <1>2, <1>3, <1>4, RateStaysDated, FailsStayDated
<1>5. CASE Time
  BY <1>2, <1>5 DEF Time, WindowEnds, FailuresExpire, LockEnds, callVars, rateVars,
                    loginVars, RateDated, FailsDated
<1>6. CASE UNCHANGED vars
  BY <1>2, <1>6 DEF vars, RateDated, FailsDated
<1> QED
  BY <1>1, <1>4, <1>5, <1>6 DEF Next

(* No address is held back for ever, for any number of requests and        *)
(* logins, unless a restart or a lost EXPIRE came between the two commands.*)
THEOREM LimitsCountersExpire == Spec => []CountersExpire
<1>1. Init => CountersExpire
  BY DEF Init, CountersExpire
<1> QED
  BY <1>1, CountersStep, LimitsTypeCorrect, PTL DEF Spec

(* As long as no call has started while another was unfinished, at most    *)
(* one call is at work.                                                    *)
OneLive == clash = "no" => \A b, c \in Calls : Live(b) /\ Live(c) => b = c

(* A call that moves lets no other one in, and one that starts finds the   *)
(* others at rest, or clashes.                                             *)
LEMMA OneStays ==
  ASSUME OneLive, NEW c \in Calls, \A b \in Calls \ {c} : pc'[b] = pc[b],
         \/ Live(c) /\ clash' = clash
         \/ clash' = IF Quiet THEN clash ELSE "yes"
  PROVE  OneLive'
BY DEF OneLive, Live, Quiet

(***************************************************************************)
(* Sessions                                                                *)
(***************************************************************************)
(* A goroutine that is still to record a token has its token; what is      *)
(* listed was issued.                                                      *)
SesIssued ==
  /\ listed \subseteq issued
  /\ \A c \in Calls : pc[c] = "record" => c \in issued
  /\ \A c \in Calls : pc[c] \in {"commit", "select"} => op[c] = "resetPassword"

(* A token is listed and revoked only while the row is about to go, and    *)
(* neither only while its row is about to come.                            *)
SesAligned ==
  /\ \A t \in listed \cap revoked : \E c \in Calls : pc[c] = "drop" /\ t \in S!Deleted(c)
  /\ \A t \in issued \ (listed \cup revoked) : pc[t] = "record"
  /\ \A c \in Calls : pc[c] = "add" => S!Deleted(c) \cap listed = seen[c] \cap listed
  /\ \A c \in Calls : pc[c] = "add" /\ op[c] \notin {"revokeOthers", "resetPassword"} =>
       seen[c] = {token[c]}
  /\ \A c \in Calls : pc[c] = "drop" /\ op[c] \notin {"revokeOthers", "resetPassword"} =>
       token[c] \in revoked
  /\ \A c \in Calls : pc[c] = "drop" => S!Deleted(c) \cap listed \subseteq revoked

(* A backup code that is in use is not in what is written back, unless the *)
(* UPDATE that removes it was lost.                                        *)
ConsumeLost(k) == \E d \in lost : code[d] = k

SesCodes ==
  /\ \A d \in lost : pc[d] # "idle"
  /\ \A c \in Calls : pc[c] = "idle" => op[c] = "none"
  /\ \A c \in Calls : pc[c] = "consume" => op[c] = "verify"
  /\ (\A c \in Calls : op[c] # "verify") => spent = {}
  /\ (\E c \in Calls : op[c] = "verify") => twoFactor # "asked"
  /\ clash = "no" =>
       /\ \A k \in spent \cap codes : ConsumeLost(k)
       /\ \A c \in Calls : pc[c] = "consume" => \A k \in codeList[c] \cap spent : ConsumeLost(k)

SesInv ==
  /\ S!SessionsTypeOK /\ OneLive /\ SesIssued /\ SesCodes
  /\ slip = "no" /\ troubles = 0 => SesAligned

(* No token is out at the start.                                           *)
LEMMA SesInit ==
  ASSUME S!Init
  PROVE  SesInv
<1> USE CallsAssumption DEF S!Init, S!CallsInit
<1>1. S!SessionsTypeOK
  BY DEF S!SessionsTypeOK, S!CallsTypeOK
<1>2. OneLive /\ SesIssued /\ SesAligned
  BY DEF OneLive, Live, SesIssued, SesAligned
<1>3. SesCodes
  BY DEF SesCodes, ConsumeLost
<1> QED
  BY <1>1, <1>2, <1>3 DEF SesInv

(* The types.                                                              *)
LEMMA SesTypes ==
  ASSUME S!SessionsTypeOK, [S!Next]_(S!vars)
  PROVE  S!SessionsTypeOK'
<1> USE CallsAssumption
    DEF S!SessionsTypeOK, S!CallsTypeOK, S!Ops, S!Issuers, S!Revokers, S!Labels,
        S!tokenVars, S!userVars
<1>1. ASSUME NEW c \in Calls, NEW t \in Calls, S!Login(c) \/ S!Refresh(c, t)
      PROVE  S!SessionsTypeOK'
  BY <1>1 DEF S!Login, S!Refresh, S!Begin
<1>2. ASSUME NEW c \in Calls, NEW t \in Calls, S!Logout(c, t) \/ S!RevokeSession(c, t)
      PROVE  S!SessionsTypeOK'
  BY <1>2 DEF S!Logout, S!RevokeSession, S!Begin
<1>3. ASSUME NEW c \in Calls, NEW t \in Calls, S!RevokeAllOtherSessions(c, t)
      PROVE  S!SessionsTypeOK'
  BY <1>3 DEF S!RevokeAllOtherSessions, S!Begin
<1>4. ASSUME NEW c \in Calls, S!ResetPassword(c)
      PROVE  S!SessionsTypeOK'
  BY <1>4 DEF S!ResetPassword, S!sessionVars, S!Begin
<1>5. ASSUME NEW c \in Calls, NEW k \in Codes \cup {NoCall}, S!VerifyRead(c, k)
      PROVE  S!SessionsTypeOK'
  BY <1>5 DEF S!VerifyRead, S!Begin
<1>6. ASSUME NEW c \in Calls, S!Consume(c)
      PROVE  S!SessionsTypeOK'
  BY <1>6 DEF S!Consume, S!Go, S!GoLost
<1>7. ASSUME NEW c \in Calls, S!Record(c)
      PROVE  S!SessionsTypeOK'
  BY <1>7 DEF S!Record, S!Go, S!GoFailed
<1>8. ASSUME NEW c \in Calls, S!CommitReset(c) \/ S!SelectAll(c)
      PROVE  S!SessionsTypeOK'
  BY <1>8 DEF S!CommitReset, S!SelectAll, S!Go
<1>9. ASSUME NEW c \in Calls, S!AddToSet(c)
      PROVE  S!SessionsTypeOK'
  BY <1>9 DEF S!AddToSet, S!Go, S!GoFailed
<1>10. ASSUME NEW c \in Calls, S!DropRows(c)
       PROVE  S!SessionsTypeOK'
  BY <1>10 DEF S!DropRows, S!Go, S!GoFailed
<1>11. CASE S!UserAction
  BY <1>11 DEF S!UserAction, S!TOTPSetup, S!TOTPEnable, S!TOTPDisable, S!CreatePasswordReset,
               S!Suspend, S!callVars
<1>12. CASE S!Crash
  BY <1>12 DEF S!Crash, S!CrashCalls, S!sessionVars
<1>13. CASE UNCHANGED S!vars
  BY <1>13 DEF S!vars
<1> QED
  BY <1>1, <1>2, <1>3, <1>4, <1>5, <1>6, <1>7, <1>8, <1>9, <1>10, <1>11, <1>12, <1>13
     DEF S!Next, S!Start, S!Step

(* At most one call is at work.                                            *)
LEMMA SesOneLive ==
  ASSUME S!SessionsTypeOK, OneLive, [S!Next]_(S!vars)
  PROVE  OneLive'
<1> USE DEF OneLive, Live, S!SessionsTypeOK, S!CallsTypeOK
<1>1. ASSUME NEW c \in Calls, S!Start(c)
      PROVE  OneLive'
  BY <1>1 DEF S!Start, S!Login, S!ResetPassword, S!VerifyRead, S!Refresh, S!Logout,
              S!RevokeSession, S!RevokeAllOtherSessions, S!Begin, S!Quiet, S!Live
<1>2. ASSUME NEW c \in Calls, S!Step(c)
      PROVE  OneLive'
  BY <1>2 DEF S!Step, S!Consume, S!Record, S!CommitReset, S!SelectAll, S!AddToSet, S!DropRows,
              S!Go, S!GoFailed, S!GoLost
<1>3. CASE S!UserAction \/ S!Crash \/ UNCHANGED S!vars
  BY <1>3 DEF S!UserAction, S!TOTPSetup, S!TOTPEnable, S!TOTPDisable, S!CreatePasswordReset,
              S!Suspend, S!callVars, S!Crash, S!CrashCalls, S!Live, S!vars
<1> QED
  BY <1>1, <1>2, <1>3 DEF S!Next

(* Tokens and the reset's goroutine.                                       *)
LEMMA SesIssuedStep ==
  ASSUME S!SessionsTypeOK, SesIssued, [S!Next]_(S!vars)
  PROVE  SesIssued'
<1> USE DEF SesIssued, S!SessionsTypeOK, S!CallsTypeOK
<1>1. ASSUME NEW c \in Calls, S!Start(c)
      PROVE  SesIssued'
  BY <1>1 DEF S!Start, S!Login, S!ResetPassword, S!VerifyRead, S!Refresh, S!Logout,
              S!RevokeSession, S!RevokeAllOtherSessions, S!Begin, S!tokenVars, S!sessionVars
<1>2. ASSUME NEW c \in Calls, S!Step(c)
      PROVE  SesIssued'
  BY <1>2 DEF S!Step, S!Consume, S!Record, S!CommitReset, S!SelectAll, S!AddToSet, S!DropRows,
              S!Go, S!GoFailed, S!GoLost, S!tokenVars
<1>3. CASE S!UserAction \/ S!Crash \/ UNCHANGED S!vars
  BY <1>3 DEF S!UserAction, S!TOTPSetup, S!TOTPEnable, S!TOTPDisable, S!CreatePasswordReset,
              S!Suspend, S!callVars, S!tokenVars, S!sessionVars, S!Crash, S!CrashCalls, S!Live, S!vars
<1> QED
  BY <1>1, <1>2, <1>3 DEF S!Next

(* Backup codes.                                                           *)
LEMMA SesCodesStep ==
  ASSUME S!SessionsTypeOK, OneLive, SesCodes, [S!Next]_(S!vars)
  PROVE  SesCodes'
<1> USE DEF SesCodes, ConsumeLost, S!SessionsTypeOK, S!CallsTypeOK
<1>1. ASSUME NEW c \in Calls, NEW k \in Codes \cup {NoCall}, S!VerifyRead(c, k)
      PROVE  SesCodes'
  BY <1>1 DEF S!VerifyRead, S!Begin
<1>2. ASSUME NEW c \in Calls, S!Start(c), ~ \E k \in Codes \cup {NoCall} : S!VerifyRead(c, k)
      PROVE  SesCodes'
  BY <1>2 DEF S!Start, S!Login, S!ResetPassword, S!Refresh, S!Logout,
              S!RevokeSession, S!RevokeAllOtherSessions, S!Begin, S!userVars, S!sessionVars
<1>3. ASSUME NEW c \in Calls, S!Consume(c)
      PROVE  SesCodes'
  <2>1. /\ pc[c] = "consume" /\ pc' = [pc EXCEPT ![c] = "record"]
        /\ spent' = spent \cup ({code[c]} \ {NoCall})
        /\ UNCHANGED <<op, clash, code, codeList, twoFactor>>
    BY <1>3 DEF S!Consume, S!Go, S!GoLost
  <2>2. \/ code[c] = NoCall /\ codes' = codes /\ lost' = lost
        \/ codes' = codeList[c] \ {code[c]} /\ lost' = lost
        \/ codes' = codes /\ lost' = lost \cup {c}
    BY <1>3 DEF S!Consume, S!Go, S!GoLost
  <2>3. clash = "no" => \A d \in Calls : pc'[d] # "consume"
    BY <2>1 DEF OneLive, Live
  <2>4. clash = "no" => \A k \in spent' \cap codes' : ConsumeLost(k)'
    BY <2>1, <2>2
  <2>5. \A d \in lost' : pc'[d] # "idle"
    BY <2>1, <2>2
  <2> QED
    BY <2>1, <2>3, <2>4, <2>5
<1>4. ASSUME NEW c \in Calls, S!Step(c), ~ S!Consume(c)
      PROVE  SesCodes'
  BY <1>4 DEF S!Step, S!Record, S!CommitReset, S!SelectAll, S!AddToSet, S!DropRows,
              S!Go, S!GoFailed, S!GoLost, S!userVars
<1>5. CASE S!UserAction
  BY <1>5 DEF S!UserAction, S!TOTPSetup, S!TOTPEnable, S!TOTPDisable, S!CreatePasswordReset,
              S!Suspend, S!callVars, S!Did
<1>6. CASE S!Crash \/ UNCHANGED S!vars
  BY <1>6 DEF S!Crash, S!CrashCalls, S!Live, S!vars, S!sessionVars
<1> QED
  BY <1>1, <1>2, <1>3, <1>4, <1>5, <1>6 DEF S!Next

(* Nothing fails, so nothing failed before; a row written behind a         *)
(* revocation's back is never forgotten.                                   *)
LEMMA SesCalm ==
  ASSUME S!SessionsTypeOK, [S!Next]_(S!vars), slip' = "no", troubles' = 0
  PROVE  /\ slip = "no" /\ troubles = 0 /\ ~ S!Crash
         /\ \A c, from, to : ~ S!GoFailed(c, from, to) /\ ~ S!GoLost(c, from, to)
<1> USE CallsAssumption DEF S!SessionsTypeOK, S!CallsTypeOK
<1>1. ASSUME NEW c \in Calls, S!Start(c)
      PROVE  slip' = slip /\ troubles' = troubles
  BY <1>1 DEF S!Start, S!Login, S!ResetPassword, S!VerifyRead, S!Refresh, S!Logout,
              S!RevokeSession, S!RevokeAllOtherSessions, S!Begin, S!tokenVars, S!sessionVars
<1>2. ASSUME NEW c \in Calls, S!Step(c)
      PROVE  slip' \in {slip, "yes"} /\ troubles' \in {troubles, troubles + 1}
  BY <1>2 DEF S!Step, S!Consume, S!Record, S!CommitReset, S!SelectAll, S!AddToSet, S!DropRows,
              S!Go, S!GoFailed, S!GoLost, S!tokenVars
<1>3. CASE S!UserAction \/ UNCHANGED S!vars
  BY <1>3 DEF S!UserAction, S!TOTPSetup, S!TOTPEnable, S!TOTPDisable, S!CreatePasswordReset,
              S!Suspend, S!callVars, S!tokenVars, S!vars, S!Crash, S!CrashCalls, S!GoFailed, S!GoLost
<1>4. ~ S!Crash /\ \A c, from, to : ~ S!GoFailed(c, from, to) /\ ~ S!GoLost(c, from, to)
  BY DEF S!Crash, S!CrashCalls, S!GoFailed, S!GoLost
<1> QED
  BY <1>1, <1>2, <1>3, <1>4 DEF S!Next

(* List and set, as long as nothing fails or slips.                        *)
LEMMA SesAlignedStep ==
  ASSUME SesInv, [S!Next]_(S!vars), slip' = "no", troubles' = 0
  PROVE  SesAligned'
<1> USE DEF S!SessionsTypeOK, S!CallsTypeOK
<1>0. /\ S!SessionsTypeOK /\ SesIssued /\ SesAligned
      /\ \A c, from, to : ~ S!GoFailed(c, from, to) /\ ~ S!GoLost(c, from, to)
  BY SesCalm DEF SesInv
<1> USE <1>0
<1>1. ASSUME NEW c \in Calls, NEW t \in Calls, S!Login(c) \/ S!Refresh(c, t)
      PROVE  SesAligned'
  BY <1>1 DEF S!Login, S!Refresh, S!Begin, SesAligned, S!Deleted
<1>2. ASSUME NEW c \in Calls, NEW t \in Calls, S!Logout(c, t) \/ S!RevokeSession(c, t)
      PROVE  SesAligned'
  BY <1>2 DEF S!Logout, S!RevokeSession, S!Begin, S!tokenVars, SesAligned, S!Deleted
<1>3. ASSUME NEW c \in Calls, NEW t \in Calls, S!RevokeAllOtherSessions(c, t)
      PROVE  SesAligned'
  BY <1>3 DEF S!RevokeAllOtherSessions, S!Begin, S!tokenVars, SesAligned, S!Deleted
<1>4. ASSUME NEW c \in Calls, S!ResetPassword(c)
      PROVE  SesAligned'
  BY <1>4 DEF S!ResetPassword, S!Begin, S!sessionVars, SesAligned, S!Deleted
<1>5. ASSUME NEW c \in Calls, NEW k \in Codes \cup {NoCall}, S!VerifyRead(c, k)
      PROVE  SesAligned'
  BY <1>5 DEF S!VerifyRead, S!Begin, S!tokenVars, SesAligned, S!Deleted
<1>6. ASSUME NEW c \in Calls, S!Consume(c)
      PROVE  SesAligned'
  BY <1>6 DEF S!Consume, S!Go, SesAligned, S!Deleted
<1>7. ASSUME NEW c \in Calls, S!Record(c)
      PROVE  SesAligned'
  <2>1. /\ pc[c] = "record" /\ pc' = [pc EXCEPT ![c] = "done"]
        /\ listed' = listed \cup {c} /\ c \notin revoked
        /\ \A d \in Calls : pc[d] \in {"add", "drop"} => op[d] \notin {"revokeOthers", "resetPassword"}
        /\ UNCHANGED <<issued, revoked, op, seen, token>>
    BY <1>7 DEF S!Record, S!Go, S!Sweeping
  <2>2. \A d \in Calls : pc[d] \in {"add", "drop"} =>
          pc'[d] = pc[d] /\ S!Deleted(d) = {token[d]} /\ S!Deleted(d)' = {token[d]}
    BY <2>1 DEF S!Deleted
  <2>3. \A t \in listed' \cap revoked' : \E d \in Calls : pc'[d] = "drop" /\ t \in S!Deleted(d)'
    BY <2>1, <2>2 DEF SesAligned
  <2>4. \A t \in issued' \ (listed' \cup revoked') : pc'[t] = "record"
    BY <2>1 DEF SesAligned
  <2>5. \A d \in Calls : pc'[d] = "add" =>
          seen[d] = {token[d]} /\ S!Deleted(d)' \cap listed' = seen'[d] \cap listed'
    BY <2>1, <2>2 DEF SesAligned
  <2>6. \A d \in Calls : pc'[d] = "drop" => S!Deleted(d)' \cap listed' \subseteq revoked'
    BY <2>1, <2>2 DEF SesAligned
  <2> QED
    BY <2>1, <2>3, <2>4, <2>5, <2>6 DEF SesAligned
<1>8. ASSUME NEW c \in Calls, S!CommitReset(c)
      PROVE  SesAligned'
  BY <1>8 DEF S!CommitReset, S!Go, S!tokenVars, SesAligned, S!Deleted
<1>9. ASSUME NEW c \in Calls, S!SelectAll(c)
      PROVE  SesAligned'
  BY <1>9 DEF S!SelectAll, S!Go, S!tokenVars, SesIssued, SesAligned, S!Deleted
<1>10. ASSUME NEW c \in Calls, S!AddToSet(c)
       PROVE  SesAligned'
  BY <1>10 DEF S!AddToSet, S!Go, SesAligned, S!Deleted
<1>11. ASSUME NEW c \in Calls, S!DropRows(c)
       PROVE  SesAligned'
  BY <1>11 DEF S!DropRows, S!Go, SesAligned, S!Deleted
<1>12. CASE S!UserAction
  BY <1>12 DEF S!UserAction, S!TOTPSetup, S!TOTPEnable, S!TOTPDisable, S!CreatePasswordReset,
               S!Suspend, S!callVars, S!tokenVars, SesAligned, S!Deleted
<1>13. CASE UNCHANGED S!vars
  BY <1>13 DEF S!vars, SesAligned, S!Deleted
<1> QED
  BY <1>1, <1>2, <1>3, <1>4, <1>5, <1>6, <1>7, <1>8, <1>9, <1>10, <1>11, <1>12, <1>13, SesCalm
     DEF S!Next, S!Start, S!Step

(* The invariant is inductive.                                             *)
LEMMA SesInvStep ==
  ASSUME SesInv, [S!Next]_(S!vars)
  PROVE  SesInv'
<1>1. S!SessionsTypeOK'
  BY SesTypes DEF SesInv
<1>2. OneLive'
  BY SesOneLive DEF SesInv
<1>3. SesIssued'
  BY SesIssuedStep DEF SesInv
<1>4. SesCodes'
  BY SesCodesStep DEF SesInv
<1>5. slip' = "no" /\ troubles' = 0 => SesAligned'
  BY SesAlignedStep
<1> QED
  BY <1>1, <1>2, <1>3, <1>4, <1>5 DEF SesInv

(* It says what the properties say.                                        *)
LEMMA SesMeans ==
  ASSUME SesInv
  PROVE  S!ListIsTruth /\ S!CodesConsumed
<1>1. S!CodesConsumed
  BY DEF SesInv, SesCodes, ConsumeLost, S!CodesConsumed
<1>2. S!ListIsTruth
  <2> SUFFICES ASSUME S!Quiet, slip = "no", troubles = 0
               PROVE  listed = issued \ revoked
    BY DEF S!ListIsTruth
  <2>1. \A c \in Calls : pc[c] \notin {"record", "add", "drop"}
    BY DEF S!Quiet, S!Live
  <2> QED
    BY <2>1 DEF SesInv, SesIssued, SesAligned, S!SessionsTypeOK
<1> QED
  BY <1>1, <1>2

(* After any number of logins, logouts, refreshes, revocations and resets, *)
(* in any order, the list of sessions shows exactly the tokens that are    *)
(* accepted, unless a row slipped behind a revocation or something failed; *)
(* and a backup code that let somebody in is gone, unless calls overlapped *)
(* or the UPDATE of the login that used it failed.                         *)
THEOREM SessionsCorrect ==
  S!Spec => [](S!SessionsTypeOK /\ S!ListIsTruth /\ S!CodesConsumed)
<1>1. S!Init => SesInv
  BY SesInit
<1>2. SesInv /\ [S!Next]_(S!vars) => SesInv'
  BY SesInvStep
<1>3. SesInv => S!SessionsTypeOK /\ S!ListIsTruth /\ S!CodesConsumed
  BY SesMeans DEF SesInv
<1> QED
  BY <1>1, <1>2, <1>3, PTL DEF S!Spec

(***************************************************************************)
(* Panel update                                                            *)
(***************************************************************************)
(* While no call raced for the flag, one update has got past it, and the   *)
(* flag is up while that update is at work.                                *)
UpdOne ==
  raced = "no" =>
    /\ \A c, d \in Calls :
         pc[c] \in U!AtWork \cup {"raise"} /\ pc[d] \in U!AtWork \cup {"raise"} => c = d
    /\ \A c \in Calls : pc[c] \in U!AtWork => applying = "yes"

(* While no pull hid an error, an update has the images of the pulls it    *)
(* is past.                                                                *)
UpdPulled ==
  broken = "no" => \A c \in Calls :
    /\ pc[c] = "automation" => "api" \in pulled
    /\ pc[c] = "restart" \/ told[c] = "complete" => {"api", "automation"} \subseteq pulled

UpdInv == U!UpdateTypeOK /\ UpdOne /\ UpdPulled

(* No update is out at the start.                                          *)
LEMMA UpdInit ==
  ASSUME U!Init
  PROVE  UpdInv
<1> USE CallsAssumption, PanelAssumption DEF U!Init, U!CallsInit
<1>1. U!UpdateTypeOK
  BY DEF U!UpdateTypeOK, U!CallsTypeOK
<1>2. UpdOne /\ UpdPulled
  BY DEF UpdOne, UpdPulled, U!AtWork
<1> QED
  BY <1>1, <1>2 DEF UpdInv

(* The types.                                                              *)
LEMMA UpdTypes ==
  ASSUME U!UpdateTypeOK, [U!Next]_(U!vars)
  PROVE  U!UpdateTypeOK'
<1> USE CallsAssumption
    DEF U!UpdateTypeOK, U!CallsTypeOK, U!Ops, U!Labels, U!Saves, U!Keys, U!checkVars, U!updateVars
<1>1. ASSUME NEW c \in Calls, NEW r \in Releases, U!CheckForUpdates(c, r)
      PROVE  U!UpdateTypeOK'
  BY <1>1 DEF U!CheckForUpdates, U!Begin
<1>2. ASSUME NEW c \in Calls, U!ApplyUpdate(c)
      PROVE  U!UpdateTypeOK'
  BY <1>2 DEF U!ApplyUpdate, U!Begin
<1>3. ASSUME NEW c \in Calls, NEW k \in U!Keys, U!Upsert(c, k)
      PROVE  U!UpdateTypeOK'
  BY <1>3 DEF U!Upsert, U!NextSave, U!Go, U!GoFailed
<1>4. ASSUME NEW c \in Calls, U!Raise(c) \/ U!RestartAutomation(c) \/ U!Lower(c)
      PROVE  U!UpdateTypeOK'
  BY <1>4 DEF U!Raise, U!RestartAutomation, U!Lower, U!Go
<1>5. ASSUME NEW c \in Calls, U!PullImages(c)
      PROVE  U!UpdateTypeOK'
  <2>1. /\ UNCHANGED <<op, clash, crashed, lost, applying, raced, restarting, settings, fetched, offered>>
        /\ troubles' = troubles \/ (troubles < MaxTroubles /\ troubles' = troubles + 1)
        /\ \E l \in {"automation", "restart", "lower"} : pc' = [pc EXCEPT ![c] = l]
    BY <1>5 DEF U!PullImages, U!Pull, U!Go, U!GoFailed
  <2>2. /\ \E i \in {"api", "automation"} : pulled' = pulled \/ pulled' = pulled \cup {i}
        /\ broken' \in {broken, "yes"}
        /\ told' = told \/ told' = [told EXCEPT ![c] = "error"]
    BY <1>5 DEF U!PullImages, U!Pull
  <2>3. /\ pc' \in [Calls -> {"idle", "done"} \cup U!Labels]
        /\ troubles' \in 0 .. MaxTroubles
    BY <2>1
  <2>4. /\ pulled' \subseteq {"api", "automation"} /\ broken' \in {"no", "yes"}
        /\ told' \in [Calls -> {"nothing", "error", "complete"}]
    BY <2>2
  <2> QED
    BY <2>1, <2>3, <2>4
<1>6. CASE U!Docker
  BY <1>6 DEF U!Docker, U!RestartApi, U!RestartApiFailed, U!NewProcess, U!callVars
<1>7. CASE U!Crash
  BY <1>7 DEF U!Crash, U!CrashCalls, U!NewProcess
<1>8. CASE UNCHANGED U!vars
  BY <1>8 DEF U!vars
<1> QED
  BY <1>1, <1>2, <1>3, <1>4, <1>5, <1>6, <1>7, <1>8 DEF U!Next, U!Start, U!Step

(* The flag keeps the second update out.                                   *)
LEMMA UpdOneStep ==
  ASSUME U!UpdateTypeOK, UpdOne, [U!Next]_(U!vars)
  PROVE  UpdOne'
<1> USE DEF UpdOne, U!UpdateTypeOK, U!CallsTypeOK, U!AtWork, U!checkVars, U!updateVars
<1>1. ASSUME NEW c \in Calls, NEW r \in Releases, U!CheckForUpdates(c, r)
      PROVE  UpdOne'
  BY <1>1 DEF U!CheckForUpdates, U!Begin
<1>2. ASSUME NEW c \in Calls, U!ApplyUpdate(c)
      PROVE  UpdOne'
  BY <1>2 DEF U!ApplyUpdate, U!Begin
<1>3. ASSUME NEW c \in Calls, NEW k \in U!Keys, U!Upsert(c, k)
      PROVE  UpdOne'
  BY <1>3 DEF U!Upsert, U!NextSave, U!Keys, U!Go, U!GoFailed
<1>4. ASSUME NEW c \in Calls, U!Raise(c)
      PROVE  UpdOne'
  BY <1>4 DEF U!Raise, U!Go
<1>5. ASSUME NEW c \in Calls, U!PullImages(c)
      PROVE  UpdOne'
  BY <1>5 DEF U!PullImages, U!Pull, U!Go, U!GoFailed
<1>6. ASSUME NEW c \in Calls, U!RestartAutomation(c)
      PROVE  UpdOne'
  BY <1>6 DEF U!RestartAutomation, U!Go
<1>7. ASSUME NEW c \in Calls, U!Lower(c)
      PROVE  UpdOne'
  BY <1>7 DEF U!Lower, U!Go
<1>8. CASE U!Docker
  BY <1>8 DEF U!Docker, U!RestartApi, U!RestartApiFailed, U!NewProcess, U!callVars, U!Live
<1>9. CASE U!Crash
  BY <1>9 DEF U!Crash, U!CrashCalls, U!NewProcess, U!Live
<1>10. CASE UNCHANGED U!vars
  BY <1>10 DEF U!vars
<1> QED
  BY <1>1, <1>2, <1>3, <1>4, <1>5, <1>6, <1>7, <1>8, <1>9, <1>10 DEF U!Next, U!Start, U!Step

(* An image that was pulled stays.                                         *)
LEMMA UpdPulledStep ==
  ASSUME U!UpdateTypeOK, UpdPulled, [U!Next]_(U!vars)
  PROVE  UpdPulled'
<1> USE DEF UpdPulled, U!UpdateTypeOK, U!CallsTypeOK, U!checkVars, U!updateVars
<1>1. ASSUME NEW c \in Calls, NEW r \in Releases, U!CheckForUpdates(c, r)
      PROVE  UpdPulled'
  BY <1>1 DEF U!CheckForUpdates, U!Begin
<1>2. ASSUME NEW c \in Calls, U!ApplyUpdate(c)
      PROVE  UpdPulled'
  BY <1>2 DEF U!ApplyUpdate, U!Begin
<1>3. ASSUME NEW c \in Calls, NEW k \in U!Keys, U!Upsert(c, k)
      PROVE  UpdPulled'
  BY <1>3 DEF U!Upsert, U!NextSave, U!Keys, U!Go, U!GoFailed
<1>4. ASSUME NEW c \in Calls, U!Raise(c) \/ U!RestartAutomation(c) \/ U!Lower(c)
      PROVE  UpdPulled'
  BY <1>4 DEF U!Raise, U!RestartAutomation, U!Lower, U!Go
<1>5. ASSUME NEW c \in Calls, U!PullImages(c)
      PROVE  UpdPulled'
  BY <1>5 DEF U!PullImages, U!Pull, U!Go, U!GoFailed
<1>6. CASE U!Docker
  BY <1>6 DEF U!Docker, U!RestartApi, U!RestartApiFailed, U!NewProcess, U!callVars, U!Live
<1>7. CASE U!Crash
  BY <1>7 DEF U!Crash, U!CrashCalls, U!NewProcess, U!Live
<1>8. CASE UNCHANGED U!vars
  BY <1>8 DEF U!vars
<1> QED
  BY <1>1, <1>2, <1>3, <1>4, <1>5, <1>6, <1>7, <1>8 DEF U!Next, U!Start, U!Step

(* The invariant is inductive.                                             *)
LEMMA UpdInvStep ==
  ASSUME UpdInv, [U!Next]_(U!vars)
  PROVE  UpdInv'
BY UpdTypes, UpdOneStep, UpdPulledStep DEF UpdInv

(* It says what the properties of PanelUpdate say.                         *)
LEMMA UpdMeans ==
  ASSUME UpdInv
  PROVE  U!UpdateTypeOK /\ U!OneUpdate /\ U!CompleteMeansPulled
BY DEF UpdInv, UpdOne, UpdPulled, U!UpdateTypeOK, U!OneUpdate, U!CompleteMeansPulled

(* Updates of the panel, for any calls and releases: one is at work at a   *)
(* time unless two requests raced for the flag, and one that is reported   *)
(* as complete has pulled both images.                                     *)
THEOREM UpdatesCorrect ==
  U!Spec => [](U!UpdateTypeOK /\ U!OneUpdate /\ U!CompleteMeansPulled)
<1>1. U!Init => UpdInv
  BY UpdInit
<1>2. UpdInv /\ [U!Next]_(U!vars) => UpdInv'
  BY UpdInvStep
<1>3. UpdInv => U!UpdateTypeOK /\ U!OneUpdate /\ U!CompleteMeansPulled
  BY UpdMeans
<1> QED
  BY <1>1, <1>2, <1>3, PTL DEF U!Spec

(***************************************************************************)
(* Deployments                                                             *)
(***************************************************************************)
(* Only a push claims the application, one has claimed it, and the entry   *)
(* is there for as long as that one is at work.                            *)
DepOne ==
  /\ \A c \in Calls : pc[c] \in {"claim", "insert", "release"} => op[c] = "push"
  /\ \A c, d \in Calls :
       pc[c] \in {"insert", "release"} /\ pc[d] \in {"insert", "release"} => c = d
  /\ inFlight = "yes" <=> \E c \in Calls : pc[c] \in {"insert", "release"}

DepInv == D!DeploymentsTypeOK /\ DepOne

(* No push is out at the start.                                            *)
LEMMA DepInit ==
  ASSUME D!Init
  PROVE  DepInv
BY CallsAssumption DEF D!Init, D!CallsInit, DepInv, DepOne, D!DeploymentsTypeOK, D!CallsTypeOK

(* The types.                                                              *)
LEMMA DepTypes ==
  ASSUME D!DeploymentsTypeOK, [D!Next]_(D!vars)
  PROVE  D!DeploymentsTypeOK'
<1> USE CallsAssumption
    DEF D!DeploymentsTypeOK, D!CallsTypeOK, D!Ops, D!Labels, D!deployVars, D!appVars
<1>1. ASSUME NEW c \in Calls, D!CreateApp(c) \/ D!GetApp(c) \/ D!Watch(c)
      PROVE  D!DeploymentsTypeOK'
  BY <1>1 DEF D!CreateApp, D!GetApp, D!Watch, D!Begin
<1>2. ASSUME NEW c \in Calls, D!Deploy(c)
      PROVE  D!DeploymentsTypeOK'
  BY <1>2 DEF D!Deploy, D!TriggerDeploy, D!Begin
<1>3. ASSUME NEW c \in Calls, NEW b \in Branches, D!Push(c, b)
      PROVE  D!DeploymentsTypeOK'
  BY <1>3 DEF D!Push, D!Begin
<1>4. ASSUME NEW c \in Calls, NEW b \in Branches, D!UpdateApp(c, b)
      PROVE  D!DeploymentsTypeOK'
  BY <1>4 DEF D!UpdateApp, D!Go
<1>5. ASSUME NEW c \in Calls, D!DeleteApp(c) \/ D!Claim(c) \/ D!Release(c) \/ D!HangUp(c)
      PROVE  D!DeploymentsTypeOK'
  BY <1>5 DEF D!DeleteApp, D!Claim, D!Release, D!HangUp, D!Go
<1>6. ASSUME NEW c \in Calls, D!PushDeploys(c)
      PROVE  D!DeploymentsTypeOK'
  BY <1>6 DEF D!PushDeploys, D!TriggerDeploy, D!Go
<1>7. ASSUME NEW c \in Calls, D!RecordDelivery(c)
      PROVE  D!DeploymentsTypeOK'
  BY <1>7 DEF D!RecordDelivery, D!callVars
<1>8. CASE D!Crash
  BY <1>8 DEF D!Crash, D!CrashCalls
<1>9. CASE UNCHANGED D!vars
  BY <1>9 DEF D!vars
<1> QED
  BY <1>1, <1>2, <1>3, <1>4, <1>5, <1>6, <1>7, <1>8, <1>9 DEF D!Next, D!Start, D!Step

(* LoadOrStore lets one push in, and that one takes the entry away.        *)
LEMMA DepOneStep ==
  ASSUME D!DeploymentsTypeOK, DepOne, [D!Next]_(D!vars)
  PROVE  DepOne'
<1> USE DEF DepOne, D!DeploymentsTypeOK, D!CallsTypeOK, D!deployVars, D!appVars
<1>1. ASSUME NEW c \in Calls, D!CreateApp(c) \/ D!GetApp(c) \/ D!Watch(c) \/ D!Deploy(c)
      PROVE  DepOne'
  BY <1>1 DEF D!CreateApp, D!GetApp, D!Watch, D!Deploy, D!Begin
<1>2. ASSUME NEW c \in Calls, NEW b \in Branches, D!Push(c, b)
      PROVE  DepOne'
  BY <1>2 DEF D!Push, D!Begin
<1>3. ASSUME NEW c \in Calls, NEW b \in Branches, D!UpdateApp(c, b)
      PROVE  DepOne'
  BY <1>3 DEF D!UpdateApp, D!Go
<1>4. ASSUME NEW c \in Calls, D!DeleteApp(c) \/ D!HangUp(c)
      PROVE  DepOne'
  BY <1>4 DEF D!DeleteApp, D!HangUp, D!Go
<1>5. ASSUME NEW c \in Calls, D!Claim(c)
      PROVE  DepOne'
  BY <1>5 DEF D!Claim, D!Go
<1>6. ASSUME NEW c \in Calls, D!PushDeploys(c)
      PROVE  DepOne'
  BY <1>6 DEF D!PushDeploys, D!Go
<1>7. ASSUME NEW c \in Calls, D!Release(c)
      PROVE  DepOne'
  BY <1>7 DEF D!Release, D!Go
<1>8. ASSUME NEW c \in Calls, D!RecordDelivery(c)
      PROVE  DepOne'
  BY <1>8 DEF D!RecordDelivery, D!callVars
<1>9. CASE D!Crash
  BY <1>9 DEF D!Crash, D!CrashCalls, D!Live
<1>10. CASE UNCHANGED D!vars
  BY <1>10 DEF D!vars
<1> QED
  BY <1>1, <1>2, <1>3, <1>4, <1>5, <1>6, <1>7, <1>8, <1>9, <1>10 DEF D!Next, D!Start, D!Step

(* The invariant is inductive.                                             *)
LEMMA DepInvStep ==
  ASSUME DepInv, [D!Next]_(D!vars)
  PROVE  DepInv'
BY DepTypes, DepOneStep DEF DepInv

(* It says what the property of Deployments says.                          *)
LEMMA DepMeans ==
  ASSUME DepInv
  PROVE  D!DeploymentsTypeOK /\ D!OnePush
BY DEF DepInv, DepOne, D!DeploymentsTypeOK, D!OnePush

(* Of all the pushes to an application, for any calls and branches, one at *)
(* a time is deployed, and the entry that keeps the others out is never    *)
(* left behind.                                                            *)
THEOREM DeploymentsCorrect ==
  D!Spec => [](D!DeploymentsTypeOK /\ D!OnePush)
<1>1. D!Init => DepInv
  BY DepInit
<1>2. DepInv /\ [D!Next]_(D!vars) => DepInv'
  BY DepInvStep
<1>3. DepInv => D!DeploymentsTypeOK /\ D!OnePush
  BY DepMeans
<1> QED
  BY <1>1, <1>2, <1>3, PTL DEF D!Spec

(***************************************************************************)
(* Accounts                                                                *)
(***************************************************************************)
(* A call that has yet to insert the user has not created him; one that    *)
(* has yet to insert the quota, has; and who created him is no new call.   *)
AccCreator ==
  \A c \in Calls :
    /\ pc[c] = "quota" => creator = c /\ op[c] = "allocate"
    /\ pc[c] = "insert" => creator # c /\ op[c] \in {"allocate", "register"}
    /\ creator = c => pc[c] \in {"quota", "done"} /\ op[c] \in {"allocate", "register"}

(* Only the reseller who created the client has a quota for him, and he    *)
(* has one when his call is through.                                       *)
AccOwner ==
  /\ \A r \in Resellers : quota[r] # "none" =>
       creator \in Calls /\ op[creator] = "allocate" /\ r = boss[creator]
  /\ troubles = 0 /\ creator \in Calls /\ op[creator] = "allocate" =>
       pc[creator] = "quota" \/ quota[boss[creator]] # "none"

AccInv == C!AccountsTypeOK /\ AccCreator /\ AccOwner

(* No client is there at the start.                                        *)
LEMMA AccInit ==
  ASSUME C!Init
  PROVE  AccInv
<1> USE CallsAssumption DEF C!Init, C!CallsInit
<1>1. C!AccountsTypeOK
  BY DEF C!AccountsTypeOK, C!CallsTypeOK
<1>2. AccCreator /\ AccOwner
  BY DEF AccCreator, AccOwner
<1> QED
  BY <1>1, <1>2 DEF AccInv

(* The types.                                                              *)
LEMMA AccTypes ==
  ASSUME C!AccountsTypeOK, [C!Next]_(C!vars)
  PROVE  C!AccountsTypeOK'
<1> USE CallsAssumption
    DEF C!AccountsTypeOK, C!CallsTypeOK, C!Ops, C!Labels, C!accountVars, C!keyVars
<1>1. ASSUME NEW c \in Calls, C!Allocate(c) \/ C!UpdateClientQuota(c) \/ C!CheckOwner(c)
      PROVE  C!AccountsTypeOK'
  BY <1>1 DEF C!Allocate, C!UpdateClientQuota, C!CheckOwner, C!Begin
<1>2. ASSUME NEW c \in Calls, C!CreateKey(c) \/ C!RevokeKey(c) \/ C!FindKey(c)
      PROVE  C!AccountsTypeOK'
  BY <1>2 DEF C!CreateKey, C!RevokeKey, C!FindKey, C!Begin
<1>3. ASSUME NEW c \in Calls, NEW i \in Calls,
             C!InviteMember(c) \/ C!AcceptInvite(c, i) \/ C!RemoveMember(c, i)
      PROVE  C!AccountsTypeOK'
  BY <1>3 DEF C!InviteMember, C!AcceptInvite, C!RemoveMember, C!Begin
<1>4. ASSUME NEW c \in Calls, C!InsertUser(c)
      PROVE  C!AccountsTypeOK'
  BY <1>4 DEF C!InsertUser, C!Go
<1>5. ASSUME NEW c \in Calls, C!InsertQuota(c)
      PROVE  C!AccountsTypeOK'
  BY <1>5 DEF C!InsertQuota, C!Go, C!GoFailed
<1>6. ASSUME NEW c \in Calls, C!SetStatus(c) \/ C!FindUser(c)
      PROVE  C!AccountsTypeOK'
  BY <1>6 DEF C!SetStatus, C!FindUser, C!Go
<1>7. CASE C!StampKey
  BY <1>7 DEF C!StampKey, C!callVars
<1>8. CASE C!Crash
  BY <1>8 DEF C!Crash, C!CrashCalls
<1>9. CASE UNCHANGED C!vars
  BY <1>9 DEF C!vars
<1> QED
  BY <1>1, <1>2, <1>3, <1>4, <1>5, <1>6, <1>7, <1>8, <1>9 DEF C!Next, C!Start, C!Step

(* The UNIQUE key lets one INSERT through, and the rest follows from it.   *)
LEMMA AccOwnerStep ==
  ASSUME C!AccountsTypeOK, AccCreator, AccOwner, [C!Next]_(C!vars)
  PROVE  AccCreator' /\ AccOwner'
<1> USE CallsAssumption
    DEF AccCreator, AccOwner, C!AccountsTypeOK, C!CallsTypeOK, C!accountVars, C!keyVars
<1>1. ASSUME NEW c \in Calls, C!Allocate(c)
      PROVE  AccCreator' /\ AccOwner'
  BY <1>1 DEF C!Allocate, C!Begin
<1>2. ASSUME NEW c \in Calls, C!UpdateClientQuota(c)
      PROVE  AccCreator' /\ AccOwner'
  BY <1>2 DEF C!UpdateClientQuota, C!Begin
<1>3. ASSUME NEW c \in Calls, C!CheckOwner(c)
      PROVE  AccCreator' /\ AccOwner'
  BY <1>3 DEF C!CheckOwner, C!Begin
<1>4. ASSUME NEW c \in Calls, C!CreateKey(c) \/ C!RevokeKey(c) \/ C!FindKey(c)
      PROVE  AccCreator' /\ AccOwner'
  BY <1>4 DEF C!CreateKey, C!RevokeKey, C!FindKey, C!Begin
<1>5. ASSUME NEW c \in Calls, NEW i \in Calls,
             C!InviteMember(c) \/ C!AcceptInvite(c, i) \/ C!RemoveMember(c, i)
      PROVE  AccCreator' /\ AccOwner'
  BY <1>5 DEF C!InviteMember, C!AcceptInvite, C!RemoveMember, C!Begin
<1>6. ASSUME NEW c \in Calls, C!InsertUser(c)
      PROVE  AccCreator' /\ AccOwner'
  BY <1>6 DEF C!InsertUser, C!Go
<1>7. ASSUME NEW c \in Calls, C!InsertQuota(c)
      PROVE  AccCreator' /\ AccOwner'
  BY <1>7 DEF C!InsertQuota, C!Go, C!GoFailed
<1>8. ASSUME NEW c \in Calls, C!SetStatus(c) \/ C!FindUser(c)
      PROVE  AccCreator' /\ AccOwner'
  BY <1>8 DEF C!SetStatus, C!FindUser, C!Go
<1>9. CASE C!StampKey
  BY <1>9 DEF C!StampKey, C!callVars
<1>10. CASE C!Crash
  BY <1>10 DEF C!Crash, C!CrashCalls, C!Live
<1>11. CASE UNCHANGED C!vars
  BY <1>11 DEF C!vars
<1> QED
  BY <1>1, <1>2, <1>3, <1>4, <1>5, <1>6, <1>7, <1>8, <1>9, <1>10, <1>11
     DEF C!Next, C!Start, C!Step

(* The invariant is inductive.                                             *)
LEMMA AccInvStep ==
  ASSUME AccInv, [C!Next]_(C!vars)
  PROVE  AccInv'
BY AccTypes, AccOwnerStep DEF AccInv

(* It says what the property of Accounts says.                             *)
LEMMA AccMeans ==
  ASSUME AccInv
  PROVE  C!AccountsTypeOK /\ C!OneReseller
<1> USE CallsAssumption
    DEF AccInv, AccCreator, AccOwner, C!AccountsTypeOK, C!CallsTypeOK
<1>1. ASSUME NEW r \in Resellers, quota[r] # "none"
      PROVE  r \in {boss[c] : c \in {d \in Calls : d = creator /\ op[d] = "allocate"}}
  BY <1>1
<1>2. ASSUME C!Quiet, troubles = 0, creator # NoCall
      PROVE  (\E r \in Resellers : quota[r] # "none") <=> op[creator] = "allocate"
  BY <1>2 DEF C!Quiet, C!Live
<1> QED
  BY <1>1, <1>2 DEF C!OneReseller

(* A client belongs to the reseller who allocated the account and to no    *)
(* other, however many resellers and the client race for the address.      *)
THEOREM AccountsCorrect ==
  C!Spec => [](C!AccountsTypeOK /\ C!OneReseller)
<1>1. C!Init => AccInv
  BY AccInit
<1>2. AccInv /\ [C!Next]_(C!vars) => AccInv'
  BY AccInvStep
<1>3. AccInv => C!AccountsTypeOK /\ C!OneReseller
  BY AccMeans
<1> QED
  BY <1>1, <1>2, <1>3, PTL DEF C!Spec

(***************************************************************************)
(* Start-up                                                                *)
(***************************************************************************)
(* A version and its content are one transaction; the versions go up; and  *)
(* who got past the migrations saw the last one.                           *)
StaRan == \A v \in M!Versions : ran[v] = IF v \in applied THEN 1 ELSE 0

StaPast == {"count", "insert", "refresh", "admin", "look", "register"}

StaOrder ==
  /\ \A v \in applied : 1 .. v \subseteq applied
  /\ \A c \in Calls :
       /\ 1 .. next[c] - 1 \subseteq applied
       /\ pc[c] = "apply" => next[c] \in M!Versions
       /\ pc[c] \in StaPast \/ outcome[c] \in {"migrated", "serving"} => applied = M!Versions

(* A process that starts alone finds what it checked unchanged.            *)
StaAlone ==
  M!Calm =>
    /\ \A c \in Calls : /\ outcome[c] # "exited"
                        /\ pc[c] = "apply" => next[c] \notin applied
                        /\ pc[c] = "insert" => masters = {}
                        /\ pc[c] = "register" => \A r \in known : r.what # item[c].what
    /\ \A m, n \in masters : m = n
    /\ \A r, s \in known : r.what = s.what => r = s

StaSites == \A r, s \in known : r.what \in Sites /\ r.what = s.what => r = s

StaInv == M!StartupTypeOK /\ OneLive /\ StaRan /\ StaOrder /\ StaAlone /\ StaSites /\ M!MasterOpens

(* No process has come up at the start.                                    *)
LEMMA StaInit ==
  ASSUME M!Init
  PROVE  StaInv
<1> USE CallsAssumption, PanelAssumption DEF M!Init, M!CallsInit
<1>1. (CHOOSE i \in M!Items : TRUE) \in M!Items
  <2>1. PICK e \in Engines : TRUE
    OBVIOUS
  <2>2. [how |-> "port", what |-> e] \in M!Items
    BY DEF M!Items
  <2> QED
    BY <2>2
<1>2. next \in [Calls -> 1 .. LastMigration + 1]
  OBVIOUS
<1>3. login \in [Calls -> M!Logins]
  BY DEF M!Logins
<1>4. M!StartupTypeOK
  BY <1>1, <1>2, <1>3 DEF M!StartupTypeOK, M!CallsTypeOK, M!Versions
<1>5. OneLive /\ StaRan /\ StaAlone /\ StaSites /\ M!MasterOpens
  BY DEF OneLive, Live, StaRan, StaAlone, StaSites, M!MasterOpens
<1>6. StaOrder
  BY DEF StaOrder, StaPast
<1> QED
  BY <1>4, <1>5, <1>6 DEF StaInv

(* The rows and the credentials that are written have their types.         *)
LEMMA StaRows ==
  /\ \A i \in M!Items, c \in Calls : [how |-> i.how, what |-> i.what, on |-> c] \in M!Rows
  /\ \A i \in M!Items : i.what \in Sites => i.how = "site"
BY PanelAssumption DEF M!Items, M!Rows

LEMMA StaLogins ==
  ASSUME env \in M!Envs, NEW k \in {"no", "yes"}, NEW w \in {"no", "yes"}
  PROVE  [method |-> M!Method, key |-> k, password |-> w] \in M!Logins
BY DEF M!Logins, M!Method, M!Envs

(* What a start does to the log of the migrations, the counter and the     *)
(* content, in one place.                                                  *)
LEMMA StaMigrate ==
  ASSUME M!StartupTypeOK, StaRan, StaOrder, NEW c \in Calls, M!Check(c) \/ M!Apply(c)
  PROVE  /\ applied' \subseteq M!Versions /\ ran' \in [M!Versions -> 0 .. 2]
         /\ next' \in [Calls -> 1 .. LastMigration + 1]
         /\ StaRan'
<1> USE PanelAssumption DEF M!StartupTypeOK, M!CallsTypeOK, StaRan, StaOrder, M!Versions, M!Forward
<1>1. CASE M!Check(c)
  <2>1. /\ UNCHANGED <<applied, ran>>
        /\ \/ next' = next
           \/ next[c] \in applied /\ next' = [next EXCEPT ![c] = next[c] + 1]
    BY <1>1 DEF M!Check
  <2>2. next[c] \in applied => next[c] + 1 \in 1 .. LastMigration + 1
    OBVIOUS
  <2>3. next' \in [Calls -> 1 .. LastMigration + 1]
    <3>1. next \in [Calls -> 1 .. LastMigration + 1]
      OBVIOUS
    <3>2. next' = next \/ \E v \in 1 .. LastMigration + 1 : next' = [next EXCEPT ![c] = v]
      BY <2>1, <2>2
    <3> HIDE DEF M!StartupTypeOK, StaRan, StaOrder
    <3> QED
      BY <3>1, <3>2
  <2> QED
    BY <2>1, <2>3
<1>2. CASE M!Apply(c)
  <2>1. CASE UNCHANGED <<applied, ran, next>>
    BY <2>1
  <2>2. CASE /\ pc[c] = "apply" /\ next[c] \notin applied
             /\ applied' = applied \cup {next[c]}
             /\ ran' = [ran EXCEPT ![next[c]] = @ + 1]
             /\ next' = [next EXCEPT ![c] = next[c] + 1]
    <3>1. next[c] \in 1 .. LastMigration /\ ran[next[c]] = 0
      BY <2>2
    <3>2. ran' = [ran EXCEPT ![next[c]] = 1]
      BY <2>2, <3>1
    <3>3. /\ next' \in [Calls -> 1 .. LastMigration + 1]
          /\ applied' \subseteq 1 .. LastMigration
      <4>1. next[c] + 1 \in 1 .. LastMigration + 1
        BY <3>1
      <4>2. next' \in [Calls -> 1 .. LastMigration + 1]
        BY <2>2, <4>1
      <4> QED
        BY <2>2, <3>1, <4>2
    <3>4. ran' \in [1 .. LastMigration -> 0 .. 2]
      BY <3>1, <3>2
    <3>5. \A v \in 1 .. LastMigration : ran'[v] = IF v \in applied' THEN 1 ELSE 0
      BY <2>2, <3>1, <3>2
    <3> QED
      BY <3>3, <3>4, <3>5
  <2> QED
    BY <1>2, <2>1, <2>2 DEF M!Apply, M!Commit, M!migrateVars, M!Go
<1> QED
  BY <1>1, <1>2

(* The types.                                                              *)
LEMMA StaTypes ==
  ASSUME M!StartupTypeOK, StaRan, StaOrder, [M!Next]_(M!vars)
  PROVE  M!StartupTypeOK' /\ StaRan'
<1> DEFINE Good == M!StartupTypeOK /\ StaRan
<1> USE CallsAssumption
    DEF M!StartupTypeOK, M!CallsTypeOK, StaRan, M!Ops, M!Labels, M!startVars,
        M!migrateVars, M!masterVars, M!discoverVars
<1>1. ASSUME NEW c \in Calls, M!Boot(c) PROVE Good'
  BY <1>1 DEF M!Boot, M!Begin
<1>2. ASSUME NEW c \in Calls, M!Check(c) PROVE Good'
  <2>1. M!CallsTypeOK(M!Ops, M!Labels)'
    BY <1>2 DEF M!Check, M!Go, M!GoFailed
  <2>2. outcome' \in [Calls -> {"none", "migrated", "serving", "exited"}]
    BY <1>2 DEF M!Check, M!Ends
  <2>3. UNCHANGED <<env, masters, login, admin, host, toFind, item, known>>
    BY <1>2 DEF M!Check
  <2> QED
    BY <1>2, <2>1, <2>2, <2>3, StaMigrate
<1>3. ASSUME NEW c \in Calls, M!Apply(c) PROVE Good'
  <2>1. M!CallsTypeOK(M!Ops, M!Labels)'
    BY <1>3 DEF M!Apply, M!Go, M!GoFailed
  <2>2. outcome' \in [Calls -> {"none", "migrated", "serving", "exited"}]
    BY <1>3 DEF M!Apply, M!Ends
  <2>3. UNCHANGED <<env, masters, login, admin, host, toFind, item, known>>
    BY <1>3 DEF M!Apply
  <2> QED
    BY <1>3, <2>1, <2>2, <2>3, StaMigrate
<1>4. ASSUME NEW c \in Calls, M!Count(c) PROVE Good'
  BY <1>4 DEF M!Count, M!Ends, M!Go, M!GoFailed
<1>5. ASSUME NEW c \in Calls, M!InsertMaster(c) PROVE Good'
  <2>1. M!CallsTypeOK(M!Ops, M!Labels)'
    BY <1>5 DEF M!InsertMaster, M!Go, M!GoFailed
  <2>2. login' \in [Calls -> M!Logins]
    BY <1>5, StaLogins DEF M!InsertMaster, M!Stored, M!Nothing, M!Envs
  <2>3. /\ outcome' \in [Calls -> {"none", "migrated", "serving", "exited"}]
        /\ masters' \subseteq Calls /\ host' \in [Calls -> Calls]
        /\ UNCHANGED <<applied, ran, next, env, admin, toFind, item, known>>
    BY <1>5 DEF M!InsertMaster, M!Ends
  <2> QED
    BY <2>1, <2>2, <2>3
<1>6. ASSUME NEW c \in Calls, M!Refresh(c) PROVE Good'
  <2>1. M!CallsTypeOK(M!Ops, M!Labels)'
    BY <1>6 DEF M!Refresh, M!Go, M!GoFailed
  <2>2. \A m \in Calls : login[m].key \in {"no", "yes"} /\ login[m].password \in {"no", "yes"}
    BY DEF M!Logins
  <2>3. PICK m \in masters : M!Backfilled(m, env) \/ M!Backfilled(m, M!Nothing) \/ UNCHANGED login
    BY <1>6 DEF M!Refresh
  <2>4. \E k, w \in {"no", "yes"} :
          \/ login' = [login EXCEPT ![m] = [method |-> M!Method, key |-> k, password |-> w]]
          \/ login' = login
    BY <2>2, <2>3 DEF M!Backfilled, M!Stored, M!Nothing, M!Envs
  <2>5. login' \in [Calls -> M!Logins]
    BY <2>4, StaLogins
  <2>6. /\ host' \in [Calls -> Calls]
        /\ UNCHANGED <<applied, ran, next, outcome, env, masters, admin, toFind, item, known>>
    BY <1>6 DEF M!Refresh
  <2> QED
    BY <2>1, <2>5, <2>6
<1>7. ASSUME NEW c \in Calls, M!Admin(c) PROVE Good'
  BY <1>7 DEF M!Admin, M!Ends, M!Go, M!GoFailed
<1>8. ASSUME NEW c \in Calls, M!Look(c) PROVE Good'
  <2>1. M!CallsTypeOK(M!Ops, M!Labels)'
    BY <1>8 DEF M!Look, M!Go, M!GoFailed
  <2>2. /\ outcome' \in [Calls -> {"none", "migrated", "serving", "exited"}]
        /\ toFind' \in [Calls -> SUBSET M!Items] /\ item' \in [Calls -> M!Items]
        /\ UNCHANGED <<applied, ran, next, env, masters, login, admin, host, known>>
    BY <1>8 DEF M!Look, M!Ends, M!Turn, M!Dropped
  <2> QED
    BY <2>1, <2>2
<1>9. ASSUME NEW c \in Calls, M!Register(c) PROVE Good'
  <2>1. M!CallsTypeOK(M!Ops, M!Labels)'
    BY <1>9 DEF M!Register, M!Go, M!GoFailed
  <2>2. [how |-> item[c].how, what |-> item[c].what, on |-> host[c]] \in M!Rows
    BY StaRows
  <2>3. /\ toFind' \in [Calls -> SUBSET M!Items] /\ known' \subseteq M!Rows
        /\ UNCHANGED <<applied, ran, next, outcome, env, masters, login, admin, host, item>>
    BY <1>9, <2>2 DEF M!Register, M!Dropped
  <2> QED
    BY <2>1, <2>3
<1>10. CASE M!Environment
  <2>1. \A l \in M!Logins : [l EXCEPT !.method = "key", !.key = "yes"] \in M!Logins
    BY DEF M!Logins
  <2>2. login' \in [Calls -> M!Logins]
    <3>1. CASE M!SetupSSHKey
      <4>1. PICK m \in masters :
              login' = [login EXCEPT ![m] = [login[m] EXCEPT !.method = "key", !.key = "yes"]]
        BY <3>1 DEF M!SetupSSHKey
      <4> QED
        BY <2>1, <4>1
    <3>2. CASE UNCHANGED login
      BY <3>2
    <3> QED
      BY <1>10, <3>1, <3>2 DEF M!Environment, M!Edit
  <2> QED
    BY <1>10, <2>2 DEF M!Environment, M!Promote, M!Forget, M!Edit, M!SetupSSHKey
<1>11. CASE M!Crash
  BY <1>11 DEF M!Crash, M!CrashCalls
<1>12. CASE UNCHANGED M!vars
  BY <1>12 DEF M!vars
<1> QED
  BY <1>1, <1>2, <1>3, <1>4, <1>5, <1>6, <1>7, <1>8, <1>9, <1>10, <1>11, <1>12
     DEF M!Next, M!Start, M!Step

(* At most one process is coming up.                                       *)
LEMMA StaOneLive ==
  ASSUME M!StartupTypeOK, OneLive, [M!Next]_(M!vars)
  PROVE  OneLive'
<1> USE DEF M!StartupTypeOK, M!CallsTypeOK
<1>1. ASSUME NEW c \in Calls, M!Boot(c)
      PROVE  OneLive'
  <2>1. /\ clash' = IF Quiet THEN clash ELSE "yes"
        /\ \A b \in Calls \ {c} : pc'[b] = pc[b]
    BY <1>1 DEF M!Boot, M!Begin, M!Quiet, M!Live, Quiet, Live
  <2> QED
    BY <2>1, OneStays
<1>2. ASSUME NEW c \in Calls, M!Check(c) \/ M!Apply(c) \/ M!Count(c) \/ M!InsertMaster(c)
      PROVE  OneLive'
  <2>1. Live(c) /\ clash' = clash /\ \A b \in Calls \ {c} : pc'[b] = pc[b]
    BY <1>2 DEF M!Check, M!Apply, M!Count, M!InsertMaster, M!Go, M!GoFailed, Live
  <2> QED
    BY <2>1, OneStays
<1>3. ASSUME NEW c \in Calls, M!Refresh(c) \/ M!Admin(c) \/ M!Look(c) \/ M!Register(c)
      PROVE  OneLive'
  <2>1. Live(c) /\ clash' = clash /\ \A b \in Calls \ {c} : pc'[b] = pc[b]
    BY <1>3 DEF M!Refresh, M!Admin, M!Look, M!Register, M!Go, M!GoFailed, Live
  <2> QED
    BY <2>1, OneStays
<1>4. CASE M!Environment \/ M!Crash \/ UNCHANGED M!vars
  BY <1>4 DEF M!Environment, M!Crash, M!CrashCalls, M!Live, M!vars, OneLive, Live
<1> QED
  BY <1>1, <1>2, <1>3, <1>4 DEF M!Next, M!Start, M!Step

(* Migrations are run in order.                                            *)
LEMMA StaOrderStep ==
  ASSUME M!StartupTypeOK, StaOrder, [M!Next]_(M!vars)
  PROVE  StaOrder'
<1> USE PanelAssumption
    DEF StaOrder, StaPast, M!StartupTypeOK, M!CallsTypeOK, M!Versions, M!startVars,
        M!migrateVars, M!masterVars, M!discoverVars
<1>1. ASSUME NEW c \in Calls, M!Boot(c) PROVE StaOrder'
  BY <1>1 DEF M!Boot, M!Begin
<1>2. ASSUME NEW c \in Calls, M!Check(c) PROVE StaOrder'
  <2>1. CASE next[c] \in applied
    <3>1. 1 .. next[c] \subseteq applied /\ next[c] + 1 - 1 = next[c]
      BY <2>1
    <3>2. /\ UNCHANGED <<applied, outcome>>
          /\ \/ pc' = [pc EXCEPT ![c] = "check"] /\ next' = [next EXCEPT ![c] = next[c] + 1]
             \/ pc' = [pc EXCEPT ![c] = "apply"] /\ next' = next
      BY <1>2, <2>1 DEF M!Check, M!Forward, M!Go, M!GoFailed
    <3>3. ASSUME NEW d \in Calls PROVE 1 .. next'[d] - 1 \subseteq applied
      <4>1. next'[d] = next[d] \/ (d = c /\ next'[d] = next[c] + 1)
        BY <3>2
      <4>2. CASE next'[d] = next[d]
        BY <4>2
      <4>3. CASE d = c /\ next'[d] = next[c] + 1
        <5>1. next'[d] - 1 = next[c]
          BY <4>3
        <5> QED
          BY <3>1, <5>1
      <4> QED
        BY <4>1, <4>2, <4>3
    <3>4. \A d \in Calls : pc'[d] = "apply" => next'[d] \in M!Versions
      BY <2>1, <3>2
    <3>5. \A d \in Calls : pc'[d] \in StaPast => pc[d] \in StaPast
      BY <3>2
    <3> QED
      BY <3>2, <3>3, <3>4, <3>5
  <2>2. CASE next[c] \in M!Versions \ applied
    BY <1>2, <2>2 DEF M!Check, M!Go
  <2>3. CASE next[c] > LastMigration
    <3>1. applied = M!Versions
      <4>1. next[c] - 1 = LastMigration
        BY <2>3
      <4>2. 1 .. next[c] - 1 \subseteq applied /\ applied \subseteq 1 .. LastMigration
        OBVIOUS
      <4> QED
        BY <4>1, <4>2
    <3>2. /\ UNCHANGED <<applied, next>>
          /\ \E l \in {"count", "done"} : pc' = [pc EXCEPT ![c] = l]
          /\ outcome' = outcome \/ outcome' = [outcome EXCEPT ![c] = "migrated"]
      BY <1>2, <2>3 DEF M!Check, M!Ends, M!Go
    <3> QED
      BY <3>1, <3>2
  <2> QED
    BY <2>1, <2>2, <2>3
<1>3. ASSUME NEW c \in Calls, M!Apply(c) PROVE StaOrder'
  <2>1. CASE UNCHANGED <<applied, next>>
    BY <1>3, <2>1 DEF M!Apply, M!Ends, M!Go, M!GoFailed
  <2>2. CASE /\ pc[c] = "apply" /\ pc' = [pc EXCEPT ![c] = "check"]
             /\ applied' = applied \cup {next[c]}
             /\ next' = [next EXCEPT ![c] = next[c] + 1]
             /\ UNCHANGED outcome
    <3>1. next[c] \in M!Versions /\ 1 .. next[c] \subseteq applied'
      BY <2>2
    <3>2. next'[c] - 1 = next[c] /\ \A d \in Calls \ {c} : next'[d] = next[d]
      BY <2>2
    <3>3. \A v \in applied' : 1 .. v \subseteq applied'
      BY <2>2, <3>1
    <3>4. \A d \in Calls : 1 .. next'[d] - 1 \subseteq applied'
      BY <2>2, <3>1, <3>2
    <3>5. \A d \in Calls : pc'[d] = "apply" => next'[d] \in M!Versions
      BY <2>2, <3>2
    <3>6. applied = M!Versions => applied' = M!Versions
      BY <2>2, <3>1
    <3> QED
      BY <2>2, <3>3, <3>4, <3>5, <3>6
  <2> QED
    BY <1>3, <2>1, <2>2 DEF M!Apply, M!Forward, M!Go
<1>4. ASSUME NEW c \in Calls, M!Count(c) \/ M!InsertMaster(c) PROVE StaOrder'
  BY <1>4 DEF M!Count, M!InsertMaster, M!Ends, M!Go, M!GoFailed
<1>5. ASSUME NEW c \in Calls, M!Refresh(c) \/ M!Admin(c) PROVE StaOrder'
  BY <1>5 DEF M!Refresh, M!Admin, M!Ends, M!Go, M!GoFailed
<1>6. ASSUME NEW c \in Calls, M!Look(c) \/ M!Register(c) PROVE StaOrder'
  BY <1>6 DEF M!Look, M!Register, M!Ends, M!Go, M!GoFailed
<1>7. CASE M!Environment \/ M!Crash \/ UNCHANGED M!vars
  BY <1>7 DEF M!Environment, M!Crash, M!CrashCalls, M!Live, M!vars
<1> QED
  BY <1>1, <1>2, <1>3, <1>4, <1>5, <1>6, <1>7 DEF M!Next, M!Start, M!Step

(* The master's credential follows its method.                             *)
LEMMA StaMasterStep ==
  ASSUME M!StartupTypeOK, M!MasterOpens, [M!Next]_(M!vars)
  PROVE  M!MasterOpens'
<1> USE CallsAssumption
    DEF M!MasterOpens, M!StartupTypeOK, M!CallsTypeOK, M!startVars,
        M!migrateVars, M!masterVars, M!discoverVars
<1>1. ASSUME UNCHANGED <<masters, login>>, troubles' = troubles \/ troubles' = troubles + 1
      PROVE  M!MasterOpens'
  BY <1>1
<1>2. ASSUME NEW c \in Calls, NEW k \in {"no", "yes"}, NEW w \in {"no", "yes"}, NEW m \in Calls,
             M!Stored(m, env, k, w), masters' = masters \cup {m}, troubles' = troubles
      PROVE  M!MasterOpens'
  BY <1>2 DEF M!Stored, M!Method, M!Envs
<1>3. ASSUME NEW c \in Calls, M!InsertMaster(c) PROVE M!MasterOpens'
  <2>1. CASE troubles' = troubles + 1
    BY <2>1
  <2>2. CASE M!Go(c, "insert", "admin") /\ M!Stored(c, env, "no", "no") /\ masters' = masters \cup {c}
    BY <1>2, <2>2 DEF M!Go
  <2> QED
    BY <1>3, <2>1, <2>2 DEF M!InsertMaster, M!GoFailed
<1>4. ASSUME NEW c \in Calls, M!Refresh(c) PROVE M!MasterOpens'
  <2>1. CASE troubles' = troubles + 1
    BY <2>1
  <2>2. ASSUME NEW m \in masters, M!Backfilled(m, env), troubles' = troubles
        PROVE  M!MasterOpens'
    <3>1. login[m].key \in {"no", "yes"} /\ login[m].password \in {"no", "yes"}
      BY DEF M!Logins
    <3>2. M!Stored(m, env, login[m].key, login[m].password) /\ masters' = masters \cup {m}
      BY <1>4, <2>2 DEF M!Refresh, M!Backfilled
    <3> QED
      BY <1>2, <2>2, <3>1, <3>2
  <2> QED
    BY <1>4, <2>1, <2>2 DEF M!Refresh, M!Go, M!GoFailed
<1>5. ASSUME NEW c \in Calls, M!Boot(c) \/ M!Check(c) \/ M!Apply(c) \/ M!Count(c)
      PROVE  M!MasterOpens'
  BY <1>1, <1>5 DEF M!Boot, M!Begin, M!Check, M!Apply, M!Count, M!Go, M!GoFailed
<1>6. ASSUME NEW c \in Calls, M!Admin(c) \/ M!Look(c) \/ M!Register(c)
      PROVE  M!MasterOpens'
  BY <1>1, <1>6 DEF M!Admin, M!Look, M!Register, M!Go, M!GoFailed
<1>7. CASE M!Environment
  <2>1. CASE M!SetupSSHKey
    <3>1. PICK m \in masters :
            login' = [login EXCEPT ![m] = [login[m] EXCEPT !.method = "key", !.key = "yes"]]
      BY <2>1 DEF M!SetupSSHKey
    <3>2. login[m] \in M!Logins
      OBVIOUS
    <3>3. login'[m].method = "key" /\ login'[m].key = "yes"
      BY <3>1, <3>2 DEF M!Logins
    <3> QED
      BY <1>7, <2>1, <3>1, <3>3 DEF M!SetupSSHKey, M!Environment
  <2> QED
    BY <1>1, <1>7, <2>1 DEF M!Environment, M!Edit
<1>8. CASE M!Crash \/ UNCHANGED M!vars
  BY <1>1, <1>8 DEF M!Crash, M!CrashCalls, M!vars
<1> QED
  BY <1>3, <1>4, <1>5, <1>6, <1>7, <1>8 DEF M!Next, M!Start, M!Step

(* Nothing takes back a clash or a trouble.                                *)
LEMMA StaCalm ==
  ASSUME M!StartupTypeOK, [M!Next]_(M!vars), M!Calm'
  PROVE  M!Calm
<1>1. ASSUME NEW c \in Calls, M!Boot(c) \/ M!Check(c) \/ M!Apply(c) \/ M!Count(c)
      PROVE  (clash' = clash \/ clash' = "yes") /\ (troubles' = troubles \/ troubles' = troubles + 1)
  BY <1>1 DEF M!Boot, M!Begin, M!Check, M!Apply, M!Count, M!Go, M!GoFailed
<1>2. ASSUME NEW c \in Calls, M!InsertMaster(c) \/ M!Refresh(c) \/ M!Admin(c)
      PROVE  clash' = clash /\ (troubles' = troubles \/ troubles' = troubles + 1)
  BY <1>2 DEF M!InsertMaster, M!Refresh, M!Admin, M!Go, M!GoFailed
<1>3. ASSUME NEW c \in Calls, M!Look(c) \/ M!Register(c)
      PROVE  clash' = clash /\ (troubles' = troubles \/ troubles' = troubles + 1)
  BY <1>3 DEF M!Look, M!Register, M!Go, M!GoFailed
<1>4. CASE M!Environment \/ M!Crash \/ UNCHANGED M!vars
  BY <1>4, CallsAssumption DEF M!Environment, M!Crash, M!CrashCalls, M!vars, M!Calm,
                               M!StartupTypeOK, M!CallsTypeOK
<1>5. clash \in {"no", "yes"} /\ troubles \in Nat
  BY CallsAssumption DEF M!StartupTypeOK, M!CallsTypeOK
<1> QED
  BY <1>1, <1>2, <1>3, <1>4, <1>5 DEF M!Next, M!Start, M!Step, M!Calm

(* What a process that starts alone has looked up stays so until it writes.*)
LEMMA StaAloneStep ==
  ASSUME StaInv, [M!Next]_(M!vars), M!Calm'
  PROVE  StaAlone'
<1>1. /\ M!Calm /\ M!StartupTypeOK
      /\ \A b, c \in Calls : Live(b) /\ Live(c) => b = c
  BY StaCalm DEF StaInv, M!Calm, OneLive
<1>2. /\ \A c \in Calls : /\ outcome[c] # "exited"
                          /\ pc[c] = "apply" => next[c] \notin applied
                          /\ pc[c] = "insert" => masters = {}
                          /\ pc[c] = "register" => \A r \in known : r.what # item[c].what
      /\ \A m, n \in masters : m = n
      /\ \A r, s \in known : r.what = s.what => r = s
  BY <1>1 DEF StaInv, StaAlone
<1>3. troubles = 0 /\ troubles' = 0 /\ clash' = "no" /\ M!StartupTypeOK
  BY <1>1 DEF M!Calm
<1> USE <1>2, <1>3
    DEF StaAlone, M!StartupTypeOK, M!CallsTypeOK, M!startVars, M!migrateVars, M!masterVars,
        M!discoverVars
<1>4. ASSUME NEW c \in Calls, Live(c)
      PROVE  \A b \in Calls \ {c} : pc[b] \notin {"apply", "insert", "register"}
  BY <1>1, <1>4 DEF Live
<1>5. ASSUME NEW c \in Calls, M!Boot(c) PROVE StaAlone'
  BY <1>1, <1>5 DEF M!Boot, M!Begin, M!Quiet, M!Live
<1>6. ASSUME NEW c \in Calls, M!Check(c) PROVE StaAlone'
  <2>1. Live(c)
    BY <1>6 DEF M!Check, M!Go, M!GoFailed, Live
  <2> QED
    BY <1>1, <1>4, <1>6, <2>1 DEF M!Check, M!Go, M!GoFailed, M!Ends
<1>7. ASSUME NEW c \in Calls, M!Apply(c) PROVE StaAlone'
  <2>1. /\ pc[c] = "apply" /\ next[c] \notin applied
        /\ pc' = [pc EXCEPT ![c] = "check"]
        /\ UNCHANGED <<outcome, masters, known, item>>
    BY <1>1, <1>7 DEF M!Apply, M!Go, M!GoFailed
  <2>2. \A b \in Calls \ {c} : pc'[b] \notin {"apply", "insert", "register"}
    BY <1>4, <2>1 DEF Live
  <2> QED
    BY <2>1, <2>2
<1>8. ASSUME NEW c \in Calls, M!Count(c) PROVE StaAlone'
  <2>1. /\ pc[c] = "count" /\ UNCHANGED <<outcome, masters, known, item, applied, next>>
        /\ \/ masters = {} /\ pc' = [pc EXCEPT ![c] = "insert"]
           \/ pc' = [pc EXCEPT ![c] = "refresh"]
    BY <1>1, <1>8 DEF M!Count, M!Go, M!GoFailed
  <2>2. \A b \in Calls \ {c} : pc'[b] \notin {"apply", "insert", "register"}
    BY <1>4, <2>1 DEF Live
  <2> QED
    BY <2>1, <2>2
<1>9. ASSUME NEW c \in Calls, M!InsertMaster(c) PROVE StaAlone'
  <2>1. /\ pc[c] = "insert" /\ UNCHANGED <<outcome, known, item, applied, next>>
        /\ masters' = {c} /\ pc' = [pc EXCEPT ![c] = "admin"]
    BY <1>1, <1>9 DEF M!InsertMaster, M!Go, M!GoFailed
  <2>2. \A b \in Calls \ {c} : pc'[b] \notin {"apply", "insert", "register"}
    BY <1>4, <2>1 DEF Live
  <2> QED
    BY <2>1, <2>2
<1>10. ASSUME NEW c \in Calls, M!Refresh(c) \/ M!Admin(c) PROVE StaAlone'
  <2>1. /\ Live(c) /\ UNCHANGED <<masters, known, item, applied, next>>
        /\ outcome' = outcome \/ outcome' = [outcome EXCEPT ![c] = "serving"]
        /\ \E l \in {"admin", "look", "done"} : pc' = [pc EXCEPT ![c] = l]
    BY <1>1, <1>10 DEF M!Refresh, M!Admin, M!Ends, M!Go, M!GoFailed, Live
  <2>2. \A b \in Calls \ {c} : pc'[b] \notin {"apply", "insert", "register"}
    BY <1>4, <2>1
  <2> QED
    BY <2>1, <2>2
<1>11. ASSUME NEW c \in Calls, M!Look(c) PROVE StaAlone'
  <2>1. /\ Live(c) /\ UNCHANGED <<masters, known, applied, next>>
        /\ outcome' = outcome \/ outcome' = [outcome EXCEPT ![c] = "serving"]
        /\ \/ \E l \in {"look", "done"} : pc' = [pc EXCEPT ![c] = l] /\ UNCHANGED item
           \/ \E i \in toFind[c] : ~ M!Listed(i.what) /\ pc' = [pc EXCEPT ![c] = "register"]
                                   /\ item' = [item EXCEPT ![c] = i]
    BY <1>1, <1>11 DEF M!Look, M!Turn, M!Ends, M!Go, M!GoFailed, Live
  <2>2. \A b \in Calls \ {c} : pc'[b] \notin {"apply", "insert", "register"}
    BY <1>4, <2>1
  <2> QED
    BY <2>1, <2>2 DEF M!Listed
<1>12. ASSUME NEW c \in Calls, M!Register(c) PROVE StaAlone'
  <2> DEFINE row == [how |-> item[c].how, what |-> item[c].what, on |-> host[c]]
  <2>1. /\ pc[c] = "register" /\ UNCHANGED <<outcome, masters, item, applied, next>>
        /\ pc' = [pc EXCEPT ![c] = "look"]
        /\ known' = known \/ known' = known \cup {row}
    BY <1>1, <1>12 DEF M!Register, M!Go, M!GoFailed
  <2>2. row.what = item[c].what
    OBVIOUS
  <2> HIDE DEF row
  <2>3. \A r, s \in known' : r.what = s.what => r = s
    BY <2>1, <2>2
  <2>4. \A b \in Calls \ {c} : pc'[b] \notin {"apply", "insert", "register"}
    BY <1>4, <2>1 DEF Live
  <2> QED
    BY <2>1, <2>3, <2>4
<1>13. CASE M!Environment
  <2>1. /\ UNCHANGED <<pc, outcome, masters, item, applied, next>>
        /\ known' \subseteq known
    BY <1>1, <1>13 DEF M!Environment, M!Promote, M!Forget, M!Edit, M!SetupSSHKey
  <2> QED
    BY <2>1
<1>14. CASE M!Crash
  BY <1>1, <1>14 DEF M!Crash, M!CrashCalls
<1>15. CASE UNCHANGED M!vars
  BY <1>15 DEF M!vars
<1> QED
  BY <1>5, <1>6, <1>7, <1>8, <1>9, <1>10, <1>11, <1>12, <1>13, <1>14, <1>15
     DEF M!Next, M!Start, M!Step

(* A domain's name is unique, whatever the counting said.                  *)
LEMMA StaSitesStep ==
  ASSUME M!StartupTypeOK, StaSites, [M!Next]_(M!vars)
  PROVE  StaSites'
<1>1. CASE UNCHANGED known \/ M!Forget
  BY <1>1 DEF StaSites, M!Forget
<1>2. ASSUME NEW c \in Calls, M!Register(c) PROVE StaSites'
  <2> DEFINE row == [how |-> item[c].how, what |-> item[c].what, on |-> host[c]]
  <2>1. known' = known \/ (known' = known \cup {row} /\ ~ M!Taken(row))
    BY <1>2 DEF M!Register
  <2>2. row.what \in Sites => row.how = "site"
    BY StaRows DEF M!StartupTypeOK
  <2> HIDE DEF row
  <2> QED
    BY <2>1, <2>2 DEF StaSites, M!Taken
<1>3. ASSUME NEW c \in Calls, M!Boot(c) \/ M!Check(c) \/ M!Apply(c) \/ M!Count(c)
      PROVE  UNCHANGED known
  BY <1>3 DEF M!Boot, M!Check, M!Apply, M!Count, M!startVars, M!discoverVars
<1>4. ASSUME NEW c \in Calls, M!InsertMaster(c) \/ M!Refresh(c) \/ M!Admin(c) \/ M!Look(c)
      PROVE  UNCHANGED known
  BY <1>4 DEF M!InsertMaster, M!Refresh, M!Admin, M!Look
<1>5. CASE M!Environment
  BY <1>1, <1>5 DEF M!Environment, M!Promote, M!discoverVars
<1>6. CASE M!Crash \/ UNCHANGED M!vars
  BY <1>1, <1>6 DEF M!Crash, M!vars, M!startVars
<1> QED
  BY <1>1, <1>2, <1>3, <1>4, <1>5, <1>6 DEF M!Next, M!Start, M!Step

(* The invariant is inductive.                                             *)
LEMMA StaInvStep ==
  ASSUME StaInv, [M!Next]_(M!vars)
  PROVE  StaInv'
<1>1. M!StartupTypeOK' /\ StaRan'
  BY StaTypes DEF StaInv
<1>2. OneLive' /\ StaOrder' /\ M!MasterOpens' /\ StaSites'
  BY StaOneLive, StaOrderStep, StaMasterStep, StaSitesStep DEF StaInv
<1>3. StaAlone'
  BY StaAloneStep DEF StaAlone
<1> QED
  BY <1>1, <1>2, <1>3 DEF StaInv

(* It says what the properties of Startup say.                             *)
LEMMA StaMeans ==
  ASSUME StaInv
  PROVE  M!StartupTypeOK /\ M!MigratedOnce /\ M!RegisteredOnce /\ M!MasterOpens
<1>1. M!MigratedOnce
  BY CallsAssumption DEF StaInv, StaRan, StaOrder, StaAlone, M!Calm, M!MigratedOnce,
                         M!StartupTypeOK, M!CallsTypeOK
<1>2. M!RegisteredOnce
  BY DEF StaInv, StaAlone, StaSites, M!RegisteredOnce
<1> QED
  BY <1>1, <1>2 DEF StaInv

(* Starts of the panel, for any processes, migrations and discoveries: a   *)
(* migration is committed once and in order; processes that start one      *)
(* after the other register one master and each thing once, and domains are*)
(* never doubled; and the master's row opens the host.                     *)
THEOREM StartupCorrect ==
  M!Spec => [](M!StartupTypeOK /\ M!MigratedOnce /\ M!RegisteredOnce /\ M!MasterOpens)
<1>1. M!Init => StaInv
  BY StaInit
<1>2. StaInv /\ [M!Next]_(M!vars) => StaInv'
  BY StaInvStep
<1>3. StaInv => M!StartupTypeOK /\ M!MigratedOnce /\ M!RegisteredOnce /\ M!MasterOpens
  BY StaMeans
<1> QED
  BY <1>1, <1>2, <1>3, PTL DEF M!Spec

(***************************************************************************)
(* Servers                                                                 *)
(***************************************************************************)
(* A host keeps the key it was given first.  A setup that is about to      *)
(* store its key has logged in with it, on the host of its row unless that *)
(* was changed; and what it stores is the key of that host from then on.   *)
SrvKeys ==
  \A c \in Calls :
    /\ pc[c] = "store" => authorized[dialled[c]] = c
    /\ pc[c] \in {"deploy", "verify", "store"} /\ c \notin moved => addr[c] = dialled[c]
    /\ auth[c] = "key" /\ key[c] = "own" /\ c \notin moved => authorized[addr[c]] = c

SrvInv == H!ServersTypeOK /\ SrvKeys

(* No server is there at the start.                                        *)
LEMMA SrvInit ==
  ASSUME H!Init
  PROVE  SrvInv
<1> USE CallsAssumption DEF H!Init, H!CallsInit
<1>1. H!ServersTypeOK
  BY DEF H!ServersTypeOK, H!CallsTypeOK
<1>2. SrvKeys
  BY DEF SrvKeys
<1> QED
  BY <1>1, <1>2 DEF SrvInv

(* The types.                                                              *)
LEMMA SrvTypes ==
  ASSUME H!ServersTypeOK, [H!Next]_(H!vars)
  PROVE  H!ServersTypeOK'
<1> USE CallsAssumption
    DEF H!ServersTypeOK, H!CallsTypeOK, H!Ops, H!Labels, H!serverVars
<1>1. ASSUME NEW c \in Calls, H!Create(c)
      PROVE  H!ServersTypeOK'
  BY <1>1 DEF H!Create, H!Begin
<1>2. ASSUME NEW c \in Calls, NEW r \in Calls, H!Update(c, r)
      PROVE  H!ServersTypeOK'
  BY <1>2 DEF H!Update, H!Begin
<1>3. ASSUME NEW c \in Calls, NEW r \in Calls, H!Delete(c, r) \/ H!Heartbeat(c, r)
      PROVE  H!ServersTypeOK'
  BY <1>3 DEF H!Delete, H!Heartbeat, H!Begin
<1>4. ASSUME NEW c \in Calls, H!InsertMetrics(c) \/ H!ReadServer(c)
      PROVE  H!ServersTypeOK'
  BY <1>4 DEF H!InsertMetrics, H!ReadServer, H!Go
<1>5. ASSUME NEW c \in Calls, H!Deploy(c)
      PROVE  H!ServersTypeOK'
  BY <1>5 DEF H!Deploy, H!WithKey, H!Go, H!GoFailed
<1>6. ASSUME NEW c \in Calls, H!Verify(c)
      PROVE  H!ServersTypeOK'
  BY <1>6 DEF H!Verify, H!Go, H!GoFailed
<1>7. ASSUME NEW c \in Calls, H!Store(c)
      PROVE  H!ServersTypeOK'
  <2>1. /\ UNCHANGED <<op, clash, crashed, lost, servers, addr, health, sampled, authorized, dialled,
                      beats, moved>>
        /\ pc' = [pc EXCEPT ![c] = "done"] /\ troubles' \in 0 .. MaxTroubles
    BY <1>7 DEF H!Store, H!Go, H!GoFailed
  <2>2. /\ key' = key \/ key' = [key EXCEPT ![c] = "own"]
        /\ auth' = auth \/ auth' = [auth EXCEPT ![c] = "key"]
    BY <1>7 DEF H!Store
  <2> QED
    BY <2>1, <2>2
<1>8. CASE H!Crash
  BY <1>8 DEF H!Crash, H!CrashCalls
<1>9. CASE UNCHANGED H!vars
  BY <1>9 DEF H!vars
<1> QED
  BY <1>1, <1>2, <1>3, <1>4, <1>5, <1>6, <1>7, <1>8, <1>9 DEF H!Next, H!Start, H!Step

(* A key that works goes on to work.                                       *)
LEMMA SrvKeysStep ==
  ASSUME H!ServersTypeOK, SrvKeys, [H!Next]_(H!vars)
  PROVE  SrvKeys'
<1> USE CallsAssumption DEF SrvKeys, H!ServersTypeOK, H!CallsTypeOK, H!serverVars
<1>1. ASSUME NEW c \in Calls, H!Create(c)
      PROVE  SrvKeys'
  BY <1>1 DEF H!Create, H!Begin
<1>2. ASSUME NEW c \in Calls, NEW r \in Calls, H!Update(c, r)
      PROVE  SrvKeys'
  BY <1>2 DEF H!Update, H!Begin
<1>3. ASSUME NEW c \in Calls, NEW r \in Calls, H!Delete(c, r) \/ H!Heartbeat(c, r)
      PROVE  SrvKeys'
  BY <1>3 DEF H!Delete, H!Heartbeat, H!Begin
<1>4. ASSUME NEW c \in Calls, H!InsertMetrics(c) \/ H!ReadServer(c)
      PROVE  SrvKeys'
  BY <1>4 DEF H!InsertMetrics, H!ReadServer, H!Go
<1>5. ASSUME NEW c \in Calls, H!Deploy(c)
      PROVE  SrvKeys'
  BY <1>5 DEF H!Deploy, H!WithKey, H!Go, H!GoFailed
<1>6. ASSUME NEW c \in Calls, H!Verify(c)
      PROVE  SrvKeys'
  BY <1>6 DEF H!Verify, H!Go, H!GoFailed
<1>7. ASSUME NEW c \in Calls, H!Store(c)
      PROVE  SrvKeys'
  BY <1>7 DEF H!Store, H!Go, H!GoFailed
<1>8. CASE H!Crash
  BY <1>8 DEF H!Crash, H!CrashCalls, H!Live
<1>9. CASE UNCHANGED H!vars
  BY <1>9 DEF H!vars
<1> QED
  BY <1>1, <1>2, <1>3, <1>4, <1>5, <1>6, <1>7, <1>8, <1>9 DEF H!Next, H!Start, H!Step

(* The invariant is inductive.                                             *)
LEMMA SrvInvStep ==
  ASSUME SrvInv, [H!Next]_(H!vars)
  PROVE  SrvInv'
BY SrvTypes, SrvKeysStep DEF SrvInv

(* It says what the property of Servers says.                              *)
LEMMA SrvMeans ==
  ASSUME SrvInv
  PROVE  H!ServersTypeOK /\ H!KeyWorks
BY DEF SrvInv, SrvKeys, H!ServersTypeOK, H!KeyWorks

(* Any setups of keys, heartbeats, changes and deletions of servers on any *)
(* hosts: the panel's key, where a row holds it, opens the row's host.     *)
THEOREM ServersCorrect ==
  H!Spec => [](H!ServersTypeOK /\ H!KeyWorks)
<1>1. H!Init => SrvInv
  BY SrvInit
<1>2. SrvInv /\ [H!Next]_(H!vars) => SrvInv'
  BY SrvInvStep
<1>3. SrvInv => H!ServersTypeOK /\ H!KeyWorks
  BY SrvMeans
<1> QED
  BY <1>1, <1>2, <1>3, PTL DEF H!Spec

(***************************************************************************)
(* The web application firewall                                            *)
(***************************************************************************)
(* A goroutine on its way to the server has a row behind it.  While no two *)
(* of them have crossed, there is one at most; it brings the row as it is, *)
(* and when there is none the server has it.                               *)
WafApplied ==
  /\ \A c \in Calls : pc[c] = "apply" => config # W!NoRow
  /\ crossed = "no" /\ troubles = 0 =>
       /\ \A c, d \in Calls : pc[c] = "apply" /\ pc[d] = "apply" => c = d
       /\ \A c \in Calls : pc[c] = "apply" => snap[c] = config
       /\ (\A c \in Calls : pc[c] # "apply") => running = W!Engine(config) /\ file = running

WafInv == W!WafTypeOK /\ WafApplied

(* The firewall is off at the start, and without a row.                    *)
LEMMA WafInit ==
  ASSUME W!Init
  PROVE  WafInv
<1> USE CallsAssumption DEF W!Init, W!CallsInit
<1>1. W!WafTypeOK
  BY DEF W!WafTypeOK, W!CallsTypeOK
<1>2. WafApplied
  BY DEF WafApplied, W!Engine, W!NoRow
<1> QED
  BY <1>1, <1>2 DEF WafInv

(* A row and what is written from it.                                      *)
LEMMA WafRows ==
  /\ W!NoRow \notin W!Configs /\ W!Default \in W!Configs
  /\ W!Engine(W!NoRow) = "Off" /\ W!Engine(W!Default) = "Off"
BY DEF W!NoRow, W!Configs, W!Modes, W!Default, W!Engine

(* The types.                                                              *)
LEMMA WafTypes ==
  ASSUME W!WafTypeOK, [W!Next]_(W!vars)
  PROVE  W!WafTypeOK'
<1> USE CallsAssumption, WafRows
    DEF W!WafTypeOK, W!CallsTypeOK, W!Ops, W!Labels, W!wafVars
<1>1. ASSUME NEW c \in Calls, W!GetConfig(c) \/ W!UpdateConfig(c)
      PROVE  W!WafTypeOK'
  BY <1>1 DEF W!GetConfig, W!UpdateConfig, W!Begin
<1>2. ASSUME NEW c \in Calls, W!Select(c)
      PROVE  W!WafTypeOK'
  BY <1>2 DEF W!Select, W!AfterGet, W!Go, W!GoFailed
<1>3. ASSUME NEW c \in Calls, W!InsertDefault(c)
      PROVE  W!WafTypeOK'
  BY <1>3 DEF W!InsertDefault, W!AfterGet, W!Go
<1>4. ASSUME NEW c \in Calls, W!Update(c)
      PROVE  W!WafTypeOK'
  BY <1>4 DEF W!Update, W!Go
<1>5. ASSUME NEW c \in Calls, W!Apply(c)
      PROVE  W!WafTypeOK'
  <2>1. W!Engine(snap[c]) \in {"Off", "DetectionOnly", "On"}
    BY DEF W!Engine
  <2> QED
    BY <1>5, <2>1 DEF W!Apply, W!Go, W!GoFailed
<1>6. CASE W!Lists
  BY <1>6 DEF W!Lists, W!DisableRule, W!EnableRule, W!AddWhitelist, W!RemoveWhitelist, W!callVars
<1>7. CASE W!Crash
  BY <1>7 DEF W!Crash, W!CrashCalls
<1>8. CASE UNCHANGED W!vars
  BY <1>8 DEF W!vars
<1> QED
  BY <1>1, <1>2, <1>3, <1>4, <1>5, <1>6, <1>7, <1>8 DEF W!Next, W!Start, W!Step

(* A goroutine brings what its own UPDATE returned, and that is the row.   *)
LEMMA WafAppliedStep ==
  ASSUME W!WafTypeOK, WafApplied, [W!Next]_(W!vars)
  PROVE  WafApplied'
<1> USE CallsAssumption, WafRows DEF WafApplied, W!WafTypeOK, W!CallsTypeOK, W!wafVars
<1>1. ASSUME NEW c \in Calls, W!GetConfig(c) \/ W!UpdateConfig(c)
      PROVE  WafApplied'
  BY <1>1 DEF W!GetConfig, W!UpdateConfig, W!Begin
<1>2. ASSUME NEW c \in Calls, W!Select(c)
      PROVE  WafApplied'
  BY <1>2 DEF W!Select, W!AfterGet, W!Go, W!GoFailed
<1>3. ASSUME NEW c \in Calls, W!InsertDefault(c)
      PROVE  WafApplied'
  <2>1. CASE config = W!NoRow /\ config' = W!Default
    BY <1>3, <2>1 DEF W!InsertDefault, W!AfterGet, W!Go
  <2>2. CASE UNCHANGED config
    BY <1>3, <2>2 DEF W!InsertDefault, W!AfterGet, W!Go
  <2> QED
    BY <1>3, <2>1, <2>2 DEF W!InsertDefault
<1>4. ASSUME NEW c \in Calls, W!Update(c)
      PROVE  WafApplied'
  BY <1>4 DEF W!Update, W!Go
<1>5. ASSUME NEW c \in Calls, W!Apply(c)
      PROVE  WafApplied'
  BY <1>5 DEF W!Apply, W!Go, W!GoFailed
<1>6. CASE W!Lists
  BY <1>6 DEF W!Lists, W!callVars
<1>7. CASE W!Crash
  BY <1>7 DEF W!Crash, W!CrashCalls, W!Live
<1>8. CASE UNCHANGED W!vars
  BY <1>8 DEF W!vars
<1> QED
  BY <1>1, <1>2, <1>3, <1>4, <1>5, <1>6, <1>7, <1>8 DEF W!Next, W!Start, W!Step

(* The invariant is inductive.                                             *)
LEMMA WafInvStep ==
  ASSUME WafInv, [W!Next]_(W!vars)
  PROVE  WafInv'
BY WafTypes, WafAppliedStep DEF WafInv

(* It says what the property of Waf says.                                  *)
LEMMA WafMeans ==
  ASSUME WafInv
  PROVE  W!WafTypeOK /\ W!EngineFollowsRow
BY DEF WafInv, WafApplied, W!WafTypeOK, W!EngineFollowsRow, W!Quiet, W!Live

(* For any calls that read and change the configuration, overlapping as    *)
(* they may: nginx runs the engine of the row once they have ended, unless *)
(* two goroutines crossed, a script failed or the process died.            *)
THEOREM WafCorrect ==
  W!Spec => [](W!WafTypeOK /\ W!EngineFollowsRow)
<1>1. W!Init => WafInv
  BY WafInit
<1>2. WafInv /\ [W!Next]_(W!vars) => WafInv'
  BY WafInvStep
<1>3. WafInv => W!WafTypeOK /\ W!EngineFollowsRow
  BY WafMeans
<1> QED
  BY <1>1, <1>2, <1>3, PTL DEF W!Spec

(***************************************************************************)
(* Alerts                                                                  *)
(***************************************************************************)
(* What a pass leaves for a rule.                                          *)
AleRight(r) ==
  /\ A!Breached(r) => open[r] > 0
  /\ misread = "no" => open[r] = IF A!Breached(r) THEN 1 ELSE 0

(* One pass at a time.  While no lookup failed a rule has one incident at  *)
(* most, and none when the pass found none; what it found is still there,  *)
(* unless the rule was changed.                                            *)
AlePass ==
  /\ \A b, c \in Calls : Live(b) /\ Live(c) => b = c
  /\ misread = "no" => \A r \in Rules : open[r] \in {0, 1}
  /\ \A c \in Calls : pc[c] \in {"look", "act"} => rule \in Rules
  /\ \A c \in Calls : pc[c] = "act" =>
       /\ found = "none" /\ misread = "no" => open[rule] = 0
       /\ found = "open" /\ rule \in current => open[rule] > 0

(* A rule that has not changed since the pass read it is active and was    *)
(* judged by the sample that still counts; it is right, or the pass has    *)
(* yet to come to it, or has it at hand.                                   *)
AleCurrent ==
  \A r \in current :
    /\ r \in A!Active
    /\ r \in hits <=> A!Breached(r)
    /\ \/ AleRight(r)
       \/ \E c \in Calls : Live(c) /\ r \in todo
       \/ \E c \in Calls : pc[c] \in {"look", "act"} /\ r = rule

AleInv == A!AlertsTypeOK /\ AlePass /\ AleCurrent

(* No rule is there at the start.                                          *)
LEMMA AleInit ==
  ASSUME A!Init
  PROVE  AleInv
<1> USE CallsAssumption, PanelAssumption DEF A!Init, A!CallsInit
<1>1. A!AlertsTypeOK
  BY DEF A!AlertsTypeOK, A!CallsTypeOK, A!NoRow
<1>2. AlePass /\ AleCurrent
  BY DEF AlePass, AleCurrent, Live
<1> QED
  BY <1>1, <1>2 DEF AleInv

(* What Act writes is a number of incidents.                               *)
LEMMA AleOpened ==
  ASSUME A!AlertsTypeOK, rule \in Rules
  PROVE  A!Opened \in [Rules -> Nat]
<1> USE DEF A!AlertsTypeOK, A!Fires, A!Resolves
<1>1. CASE A!Fires /\ rules[rule] # "none"
  <2>1. A!Opened = [open EXCEPT ![rule] = @ + 1]
    BY <1>1 DEF A!Opened
  <2> QED
    BY <2>1
<1>2. CASE ~ (A!Fires /\ rules[rule] # "none") /\ A!Resolves /\ open[rule] > 0
  <2>1. A!Opened = [open EXCEPT ![rule] = @ - 1]
    BY <1>2 DEF A!Opened
  <2> QED
    BY <1>2, <2>1
<1>3. CASE ~ (A!Fires /\ rules[rule] # "none") /\ ~ (A!Resolves /\ open[rule] > 0)
  BY <1>3 DEF A!Opened
<1> QED
  BY <1>1, <1>2, <1>3

(* The types.                                                              *)
LEMMA AleTypes ==
  ASSUME A!AlertsTypeOK, AlePass, [A!Next]_(A!vars)
  PROVE  A!AlertsTypeOK'
<1> USE CallsAssumption, PanelAssumption
    DEF A!AlertsTypeOK, A!CallsTypeOK, A!Ops, A!Labels, A!alertVars, A!passVars
<1>1. ASSUME NEW c \in Calls, A!EvaluateRules(c)
      PROVE  A!AlertsTypeOK'
  BY <1>1 DEF A!EvaluateRules, A!Active, A!Begin
<1>2. ASSUME NEW c \in Calls, NEW r \in Rules, A!NextRow(c, r)
      PROVE  A!AlertsTypeOK'
  BY <1>2 DEF A!NextRow, A!Go
<1>3. ASSUME NEW c \in Calls, A!NoMoreRows(c) \/ A!Look(c)
      PROVE  A!AlertsTypeOK'
  BY <1>3 DEF A!NoMoreRows, A!Look, A!Go, A!GoFailed
<1>4. ASSUME NEW c \in Calls, A!Act(c)
      PROVE  A!AlertsTypeOK'
  <2>1. A!CallsTypeOK(A!Ops, A!Labels)'
    BY <1>4 DEF A!Act, A!Go, A!GoFailed
  <2>2. open' \in [Rules -> Nat]
    BY <1>4, AleOpened DEF A!Act, A!Go, A!GoFailed, AlePass
  <2>3. /\ mails' \in Nat /\ current' \subseteq Rules
        /\ UNCHANGED <<rules, sample, todo, hits, rule, found, misread, changes>>
    BY <1>4 DEF A!Act
  <2> QED
    BY <2>1, <2>2, <2>3
<1>5. CASE A!Notify
  BY <1>5 DEF A!Notify, A!callVars
<1>6. ASSUME NEW r \in Rules, A!ChangeRule(r)
      PROVE  A!AlertsTypeOK'
  BY <1>6 DEF A!ChangeRule, A!UpdateRule, A!CreateRule, A!DeleteRule, A!callVars
<1>7. ASSUME NEW s \in {"low", "high"}, A!SaveMetrics(s)
      PROVE  A!AlertsTypeOK'
  BY <1>7 DEF A!SaveMetrics, A!callVars
<1>8. CASE A!Crash
  BY <1>8 DEF A!Crash, A!CrashCalls
<1>9. CASE UNCHANGED A!vars
  BY <1>9 DEF A!vars
<1> QED
  BY <1>1, <1>2, <1>3, <1>4, <1>5, <1>6, <1>7, <1>8, <1>9
     DEF A!Next, A!Start, A!Step, A!Environment

(* What Act does to the incidents of the rule at hand; it leaves those of  *)
(* the others.                                                             *)
LEMMA AleActs ==
  ASSUME A!AlertsTypeOK, rule \in Rules, open' = A!Opened
  PROVE  /\ \A r \in Rules \ {rule} : open'[r] = open[r]
         /\ rule \in hits /\ found = "none" /\ rules[rule] # "none" =>
              open'[rule] = open[rule] + 1
         /\ rule \notin hits /\ found = "open" /\ open[rule] > 0 =>
              open'[rule] = open[rule] - 1
         /\ \/ rule \in hits /\ found = "none" /\ rules[rule] # "none"
            \/ rule \notin hits /\ found = "open" /\ open[rule] > 0
            \/ open'[rule] = open[rule]
<1> USE DEF A!AlertsTypeOK, A!Fires, A!Resolves
<1>1. CASE A!Fires /\ rules[rule] # "none"
  BY <1>1 DEF A!Opened
<1>2. CASE ~ (A!Fires /\ rules[rule] # "none") /\ A!Resolves /\ open[rule] > 0
  BY <1>2 DEF A!Opened
<1>3. CASE ~ (A!Fires /\ rules[rule] # "none") /\ ~ (A!Resolves /\ open[rule] > 0)
  BY <1>3 DEF A!Opened
<1> QED
  BY <1>1, <1>2, <1>3

(* A pass finds what is there.                                             *)
LEMMA AlePassStep ==
  ASSUME A!AlertsTypeOK, AlePass, AleCurrent, [A!Next]_(A!vars)
  PROVE  AlePass'
<1> USE DEF AlePass, A!AlertsTypeOK, A!CallsTypeOK, A!alertVars, A!passVars, Live
<1>1. ASSUME NEW c \in Calls, A!EvaluateRules(c)
      PROVE  AlePass'
  BY <1>1 DEF A!EvaluateRules, A!Begin, A!Quiet, A!Live
<1>2. ASSUME NEW c \in Calls, NEW r \in Rules, A!NextRow(c, r)
      PROVE  AlePass'
  BY <1>2 DEF A!NextRow, A!Go
<1>3. ASSUME NEW c \in Calls, A!NoMoreRows(c)
      PROVE  AlePass'
  BY <1>3 DEF A!NoMoreRows, A!Go
<1>4. ASSUME NEW c \in Calls, A!Look(c)
      PROVE  AlePass'
  BY <1>4 DEF A!Look, A!Go, A!GoFailed
<1>5. ASSUME NEW c \in Calls, A!Act(c)
      PROVE  AlePass'
  <2>1. /\ pc[c] = "act" /\ pc' = [pc EXCEPT ![c] = "next"]
        /\ UNCHANGED <<rule, found, misread>>
        /\ open' = open \/ open' = A!Opened
    BY <1>5 DEF A!Act, A!Go, A!GoFailed
  <2>2. \A b \in Calls : pc'[b] \notin {"look", "act"}
    BY <2>1
  <2>3. misread' = "no" => \A r \in Rules : open'[r] \in {0, 1}
    BY <2>1, AleActs
  <2>4. \A a, b \in Calls : Live(a)' /\ Live(b)' => a = b
    BY <2>1
  <2> QED
    BY <2>2, <2>3, <2>4
<1>6. CASE A!Notify
  BY <1>6 DEF A!Notify, A!callVars
<1>7. ASSUME NEW r \in Rules, A!ChangeRule(r)
      PROVE  AlePass'
  BY <1>7 DEF A!ChangeRule, A!UpdateRule, A!CreateRule, A!DeleteRule, A!callVars
<1>8. ASSUME NEW s \in {"low", "high"}, A!SaveMetrics(s)
      PROVE  AlePass'
  BY <1>8 DEF A!SaveMetrics, A!callVars
<1>9. CASE A!Crash
  BY <1>9 DEF A!Crash, A!CrashCalls, A!Live
<1>10. CASE UNCHANGED A!vars
  BY <1>10 DEF A!vars
<1> QED
  BY <1>1, <1>2, <1>3, <1>4, <1>5, <1>6, <1>7, <1>8, <1>9, <1>10
     DEF A!Next, A!Start, A!Step, A!Environment

(* A pass puts right what it has at hand and comes to the rest.            *)
LEMMA AleCurrentStep ==
  ASSUME A!AlertsTypeOK, AlePass, AleCurrent, [A!Next]_(A!vars)
  PROVE  AleCurrent'
<1> USE DEF AleCurrent, A!AlertsTypeOK, A!CallsTypeOK, A!alertVars, A!passVars,
            AleRight, A!Breached, A!Active, Live
<1>1. ASSUME NEW c \in Calls, A!EvaluateRules(c)
      PROVE  AleCurrent'
  BY <1>1 DEF A!EvaluateRules, A!Begin
<1>2. ASSUME NEW c \in Calls, NEW r \in Rules, A!NextRow(c, r)
      PROVE  AleCurrent'
  <2>1. /\ pc[c] = "next" /\ pc' = [pc EXCEPT ![c] = "look"]
        /\ rule' = r /\ todo' = todo \ {r} /\ r \in todo
        /\ UNCHANGED <<rules, sample, open, hits, current, misread>>
    BY <1>2 DEF A!NextRow, A!Go
  <2>2. \A b \in Calls : pc[b] \notin {"look", "act"}
    BY <2>1 DEF AlePass
  <2>3. pc'[c] = "look"
    BY <2>1
  <2> QED
    BY <2>1, <2>2, <2>3
<1>3. ASSUME NEW c \in Calls, A!NoMoreRows(c)
      PROVE  AleCurrent'
  <2>1. /\ pc[c] = "next" /\ pc' = [pc EXCEPT ![c] = "done"] /\ todo = {}
        /\ UNCHANGED <<rules, sample, open, hits, current, misread>>
    BY <1>3 DEF A!NoMoreRows, A!Go
  <2>2. \A b \in Calls : pc[b] \notin {"look", "act"}
    BY <2>1 DEF AlePass
  <2> QED
    BY <2>1, <2>2
<1>4. ASSUME NEW c \in Calls, A!Look(c)
      PROVE  AleCurrent'
  <2>1. /\ pc[c] = "look" /\ pc' = [pc EXCEPT ![c] = "act"]
        /\ misread' = misread \/ misread' = "yes"
        /\ UNCHANGED <<rules, sample, open, hits, current, todo, rule>>
    BY <1>4 DEF A!Look, A!Go, A!GoFailed
  <2>2. \A b \in Calls : pc[b] \in {"look", "act"} => pc'[b] \in {"look", "act"}
    BY <2>1
  <2>3. \A b \in Calls : Live(b) => Live(b)'
    BY <2>1
  <2> QED
    BY <2>1, <2>2, <2>3
<1>5. ASSUME NEW c \in Calls, A!Act(c)
      PROVE  AleCurrent'
  <2>1. /\ pc[c] = "act" /\ pc' = [pc EXCEPT ![c] = "next"] /\ rule \in Rules
        /\ UNCHANGED <<rules, sample, hits, todo, rule, found, misread>>
        /\ \/ open' = A!Opened /\ current' = current
           \/ open' = open /\ current' = current \ {rule}
    BY <1>5 DEF A!Act, A!Go, A!GoFailed, AlePass
  <2>2. \A r \in Rules \ {rule} : open'[r] = open[r]
    BY <2>1, AleActs
  <2>3. \A b \in Calls : Live(b) => Live(b)'
    BY <2>1
  <2>4. \A b \in Calls : pc[b] \in {"look", "act"} => b = c
    BY <2>1 DEF AlePass
  <2>5. rule \in current' => AleRight(rule)'
    <3>1. SUFFICES ASSUME rule \in current, open' = A!Opened
                   PROVE  AleRight(rule)'
      BY <2>1
    <3>2. /\ rules[rule] # "none"
          /\ rule \in hits <=> A!Breached(rule)
          /\ misread = "no" => open[rule] \in {0, 1}
          /\ found = "none" /\ misread = "no" => open[rule] = 0
          /\ found = "open" => open[rule] > 0
      BY <2>1, <3>1 DEF AlePass
    <3>3. A!Breached(rule)' <=> A!Breached(rule)
      BY <2>1
    <3>4. open[rule] \in Nat
      BY <2>1
    <3> HIDE DEF A!Breached
    <3>5. CASE A!Breached(rule)
      BY <2>1, <3>1, <3>2, <3>3, <3>4, <3>5, AleActs
    <3>6. CASE ~ A!Breached(rule)
      BY <2>1, <3>1, <3>2, <3>3, <3>4, <3>6, AleActs
    <3> QED
      BY <3>5, <3>6
  <2>6. ASSUME NEW r \in current', r # rule
        PROVE  AleRight(r)' \/ \E b \in Calls : Live(b)' /\ r \in todo'
    BY <2>1, <2>2, <2>3, <2>4, <2>6
  <2> QED
    BY <2>1, <2>5, <2>6
<1>6. CASE A!Notify
  BY <1>6 DEF A!Notify, A!callVars
<1>7. ASSUME NEW r \in Rules, A!ChangeRule(r)
      PROVE  AleCurrent'
  <2>1. /\ UNCHANGED <<pc, sample, hits, todo, rule, found, misread>>
        /\ current' = current \ {r}
        /\ \A q \in Rules \ {r} : rules'[q] = rules[q] /\ open'[q] = open[q]
    BY <1>7 DEF A!ChangeRule, A!UpdateRule, A!CreateRule, A!DeleteRule, A!callVars
  <2> QED
    BY <2>1
<1>8. ASSUME NEW s \in {"low", "high"}, A!SaveMetrics(s)
      PROVE  AleCurrent'
  BY <1>8 DEF A!SaveMetrics, A!callVars
<1>9. CASE A!Crash
  BY <1>9 DEF A!Crash
<1>10. CASE UNCHANGED A!vars
  BY <1>10 DEF A!vars
<1> QED
  BY <1>1, <1>2, <1>3, <1>4, <1>5, <1>6, <1>7, <1>8, <1>9, <1>10
     DEF A!Next, A!Start, A!Step, A!Environment

(* The invariant is inductive.                                             *)
LEMMA AleInvStep ==
  ASSUME AleInv, [A!Next]_(A!vars)
  PROVE  AleInv'
BY AleTypes, AlePassStep, AleCurrentStep DEF AleInv

(* It says what the property of Alerts says.                               *)
LEMMA AleMeans ==
  ASSUME AleInv
  PROVE  A!AlertsTypeOK /\ A!IncidentsAreCurrent
<1>1. ASSUME A!Quiet, NEW r \in current
      PROVE  AleRight(r)
  BY <1>1 DEF AleInv, AleCurrent, A!Quiet, A!Live, Live
<1> QED
  BY <1>1 DEF AleInv, AleRight, A!IncidentsAreCurrent

(* For any rules, and whatever passes ended early, decided on outdated     *)
(* rows or failed to write: the next pass that ends leaves an open incident*)
(* for exactly the rules that call for one, of those that did not change   *)
(* under it.                                                               *)
THEOREM AlertsCorrect ==
  A!Spec => [](A!AlertsTypeOK /\ A!IncidentsAreCurrent)
<1>1. A!Init => AleInv
  BY AleInit
<1>2. AleInv /\ [A!Next]_(A!vars) => AleInv'
  BY AleInvStep
<1>3. AleInv => A!AlertsTypeOK /\ A!IncidentsAreCurrent
  BY AleMeans
<1> QED
  BY <1>1, <1>2, <1>3, PTL DEF A!Spec

(***************************************************************************)
(* Billing                                                                 *)
(***************************************************************************)
(* An event that Stripe has yet to deliver, or a goroutine has yet to      *)
(* apply.                                                                  *)
BilEvent(k, s) == [kind |-> k, sub |-> s]

BilPending(e) == e \in due \/ \E c \in Calls : pc[c] = "apply" /\ event[c] = e

(* Events are about subscriptions that were paid for; the second month and *)
(* the end of a subscription have theirs.                                  *)
BilEmitted ==
  /\ due \subseteq emitted
  /\ \A c \in Calls : pc[c] = "apply" => event[c] \in emitted
  /\ \A e \in emitted : paid[e.sub] > 0
  /\ \A s \in Subs :
       /\ stripe[s] \in {"alive", "ending"} => paid[s] > 0
       /\ paid[s] = 2 => BilEvent("invoice2", s) \in emitted
       /\ stripe[s] = "over" <=> BilEvent("deleted", s) \in emitted

(* Nothing is lost unless something fails.                                 *)
BilApplied ==
  troubles = 0 =>
    \A s \in Subs, k \in {"invoice2", "deleted"} :
      BilEvent(k, s) \in emitted => BilPending(BilEvent(k, s)) \/ s \in outrun

(* The checkout of a subscription was applied, after those of all the      *)
(* earlier ones, and the rest is applied or on its way ...                 *)
BilOwned(s) ==
  /\ plan = "paid" /\ sub = s /\ months > 0
  /\ paid[s] = 2 => months > 1 \/ BilPending(BilEvent("invoice2", s))
  /\ stripe[s] = "over" => BilPending(BilEvent("deleted", s))

(* ... or its end was.                                                     *)
BilEnded(s) ==
  /\ plan = "community" /\ sub = NoCall
  /\ stripe[s] = "over" /\ s \in outrun

BilPlan ==
  late = "no" /\ troubles = 0 =>
    \A s \in Subs : B!Newest(s) =>
      \/ BilPending(BilEvent("checkout", s))
      \/ /\ \A r \in Subs : r < s => r \in outrun
         /\ BilOwned(s) \/ BilEnded(s)

BilInv == B!BillingTypeOK /\ BilEmitted /\ BilApplied /\ BilPlan

(* An event is what it is about, and a subscription is a number.           *)
LEMMA BilEvents ==
  /\ \A e \in B!Events : e = BilEvent(e.kind, e.sub) /\ e.kind \in B!Kinds /\ e.sub \in Subs
  /\ \A k \in B!Kinds, s \in Subs : BilEvent(k, s) \in B!Events
  /\ \A k, s : BilEvent(k, s).kind = k /\ BilEvent(k, s).sub = s
  /\ B!NoEvent \notin B!Events
<1>1. \A e \in B!Events : e = [kind |-> e.kind, sub |-> e.sub] /\ e.kind \in B!Kinds /\ e.sub \in Subs
  BY DEF B!Events
<1>2. \A k \in B!Kinds, s \in Subs : [kind |-> k, sub |-> s] \in B!Events
  BY DEF B!Events
<1>3. \A k, s : [kind |-> k, sub |-> s].kind = k /\ [kind |-> k, sub |-> s].sub = s
  OBVIOUS
<1>4. B!NoEvent \notin B!Events
  BY <1>1 DEF B!NoEvent, B!Kinds
<1> QED
  BY <1>1, <1>2, <1>3, <1>4 DEF BilEvent

LEMMA BilSubs ==
  /\ NoCall \notin Subs
  /\ \A r, s \in Subs : r < s \/ r = s \/ r > s
  /\ \A r, s \in Subs : r > s => ~ r < s /\ r # s
<1>1. \A s \in Subs : s \in Nat /\ s # NoCall
  BY PanelAssumption
<1> QED
  BY <1>1

(* Nothing has been bought at the start.                                   *)
LEMMA BilInit ==
  ASSUME B!Init
  PROVE  BilInv
<1> USE CallsAssumption DEF B!Init, B!CallsInit
<1>1. B!BillingTypeOK
  BY DEF B!BillingTypeOK, B!CallsTypeOK
<1>2. BilEmitted /\ BilApplied
  BY DEF BilEmitted, BilApplied
<1>3. BilPlan
  BY DEF BilPlan, B!Newest
<1> QED
  BY <1>1, <1>2, <1>3 DEF BilInv

(* What Stripe sends with a change.                                        *)
LEMMA BilEmit ==
  ASSUME B!BillingTypeOK, NEW ks \in SUBSET B!Kinds, NEW s \in Subs, B!Emit(ks, s)
  PROVE  /\ emitted' \subseteq B!Events /\ due' \subseteq B!Events
         /\ emitted' = emitted \cup {BilEvent(k, s) : k \in ks}
         /\ due' = due \cup {BilEvent(k, s) : k \in ks}
<1>1. [kind : ks, sub : {s}] = {BilEvent(k, s) : k \in ks}
  <2>1. \A e \in [kind : ks, sub : {s}] : e = [kind |-> e.kind, sub |-> s] /\ e.kind \in ks
    OBVIOUS
  <2>2. \A k \in ks : [kind |-> k, sub |-> s] \in [kind : ks, sub : {s}]
    OBVIOUS
  <2> QED
    BY <2>1, <2>2 DEF BilEvent
<1>2. {BilEvent(k, s) : k \in ks} \subseteq B!Events
  BY BilEvents
<1> QED
  BY <1>1, <1>2 DEF B!Emit, B!BillingTypeOK

(* The types.                                                              *)
LEMMA BilTypes ==
  ASSUME B!BillingTypeOK, BilEmitted, [B!Next]_(B!vars)
  PROVE  B!BillingTypeOK'
<1> USE CallsAssumption
    DEF B!BillingTypeOK, B!CallsTypeOK, B!Ops, B!Labels, B!stripeVars, B!rowVars
<1>1. ASSUME NEW c \in Calls, NEW e \in emitted, B!Webhook(c, e)
      PROVE  B!BillingTypeOK'
  BY <1>1 DEF B!Webhook, B!Begin
<1>2. ASSUME NEW c \in Calls, B!Apply(c)
      PROVE  B!BillingTypeOK'
  <2>1. event[c] \in B!Events /\ event[c].sub \in Subs
    BY <1>2, BilEvents DEF B!Apply, B!Go, BilEmitted
  <2>2. /\ plan' \in {"community", "paid"} /\ sub' \in Subs \cup {NoCall}
        /\ customer' \in {"none", "set"} /\ months' \in Nat
        /\ outrun' \subseteq Subs /\ late' \in {"no", "yes"}
    BY <1>2, <2>1 DEF B!Apply, B!CheckoutCompleted, B!InvoicePaid, B!PaymentFailed,
                      B!SubscriptionDeleted, B!Kinds
  <2> QED
    BY <1>2, <2>2 DEF B!Apply, B!Go
<1>3. ASSUME NEW c \in Calls, B!ApplyFailed(c)
      PROVE  B!BillingTypeOK'
  BY <1>3 DEF B!ApplyFailed, B!GoFailed
<1>4. ASSUME B!Stripe
      PROVE  B!BillingTypeOK'
  <2>1. UNCHANGED <<op, pc, clash, crashed, troubles, lost, event, plan, sub, customer, months, outrun, late>>
    BY <1>4 DEF B!Stripe, B!callVars
  <2>2. ASSUME NEW s \in Subs, B!CreateCheckout(s)
        PROVE  B!BillingTypeOK'
    BY <2>1, <2>2 DEF B!CreateCheckout
  <2>3. ASSUME NEW s \in Subs, B!Complete(s)
        PROVE  B!BillingTypeOK'
    <3>1. emitted' \subseteq B!Events /\ due' \subseteq B!Events
      BY <2>3, BilEmit DEF B!Complete, B!Kinds
    <3> QED
      BY <2>1, <2>3, <3>1 DEF B!Complete
  <2>4. ASSUME NEW s \in Subs, B!Renew(s)
        PROVE  B!BillingTypeOK'
    <3>1. emitted' \subseteq B!Events /\ due' \subseteq B!Events
      BY <2>4, BilEmit DEF B!Renew, B!Kinds
    <3> QED
      BY <2>1, <2>4, <3>1 DEF B!Renew
  <2>5. ASSUME NEW s \in Subs, B!End(s)
        PROVE  B!BillingTypeOK'
    <3>1. emitted' \subseteq B!Events /\ due' \subseteq B!Events
      BY <2>5, BilEmit DEF B!End, B!Kinds
    <3> QED
      BY <2>1, <2>5, <3>1 DEF B!End
  <2>6. CASE B!CancelSubscription
    BY <2>1, <2>6 DEF B!CancelSubscription
  <2> QED
    BY <1>4, <2>2, <2>3, <2>4, <2>5, <2>6 DEF B!Stripe
<1>5. CASE B!Crash
  BY <1>5 DEF B!Crash, B!CrashCalls
<1>6. CASE UNCHANGED B!vars
  BY <1>6 DEF B!vars
<1> QED
  BY <1>1, <1>2, <1>3, <1>4, <1>5, <1>6 DEF B!Next, B!Start, B!Step

(* The application of an event leaves the other ones pending ...           *)
LEMMA BilPendingApply ==
  ASSUME B!BillingTypeOK, NEW c \in Calls, B!Apply(c), NEW e, BilPending(e), event[c] # e
  PROVE  BilPending(e)'
<1>1. /\ due' = due /\ pc' = [pc EXCEPT ![c] = "done"]
      /\ event' = [event EXCEPT ![c] = B!NoEvent]
  BY DEF B!Apply, B!Go, B!stripeVars
<1> QED
  BY <1>1 DEF BilPending, B!BillingTypeOK, B!CallsTypeOK

(* ... so that an event is pending until it is applied or something fails.  *)
LEMMA BilPendingStep ==
  ASSUME B!BillingTypeOK, BilEmitted, [B!Next]_(B!vars), troubles' = 0, NEW e, BilPending(e)
  PROVE  BilPending(e)' \/ \E c \in Calls : B!Apply(c) /\ event[c] = e
<1> USE DEF BilPending, B!BillingTypeOK, B!CallsTypeOK, B!stripeVars
<1>1. ASSUME NEW c \in Calls, NEW f \in emitted, B!Webhook(c, f)
      PROVE  BilPending(e)'
  BY <1>1 DEF B!Webhook, B!Begin
<1>2. ASSUME NEW c \in Calls, B!Apply(c), event[c] # e
      PROVE  BilPending(e)'
  BY <1>2, BilPendingApply
<1>3. ASSUME NEW c \in Calls, B!ApplyFailed(c) \/ B!Crash
      PROVE  FALSE
  BY <1>3, CallsAssumption DEF B!ApplyFailed, B!GoFailed, B!Crash, B!CrashCalls
<1>4. CASE B!Stripe
  <2>1. UNCHANGED <<pc, event>>
    BY <1>4 DEF B!Stripe, B!callVars
  <2>2. due \subseteq due'
    BY <1>4 DEF B!Stripe, B!CreateCheckout, B!Complete, B!Renew, B!End, B!CancelSubscription, B!Emit
  <2> QED
    BY <2>1, <2>2
<1>5. CASE UNCHANGED B!vars
  BY <1>5 DEF B!vars
<1>6. ~ B!Crash
  BY CallsAssumption DEF B!Crash, B!CrashCalls
<1> QED
  BY <1>1, <1>2, <1>3, <1>4, <1>5, <1>6 DEF B!Next, B!Start, B!Step

(* Stripe's own record.                                                    *)
LEMMA BilEmittedStep ==
  ASSUME B!BillingTypeOK, BilEmitted, [B!Next]_(B!vars)
  PROVE  BilEmitted'
<1> USE CallsAssumption DEF BilEmitted, B!BillingTypeOK, B!CallsTypeOK, B!stripeVars
<1>1. ASSUME NEW c \in Calls, NEW e \in emitted, B!Webhook(c, e)
      PROVE  BilEmitted'
  BY <1>1 DEF B!Webhook, B!Begin
<1>2. ASSUME NEW c \in Calls, B!Apply(c) \/ B!ApplyFailed(c)
      PROVE  BilEmitted'
  <2>1. /\ UNCHANGED <<stripe, paid, emitted, due>>
        /\ pc' = [pc EXCEPT ![c] = "done"]
        /\ event' = [event EXCEPT ![c] = B!NoEvent]
    BY <1>2 DEF B!Apply, B!ApplyFailed, B!Go, B!GoFailed
  <2> QED
    BY <2>1
<1>3. CASE B!Crash
  <2>1. /\ UNCHANGED <<stripe, paid, emitted, due>>
        /\ \A c \in Calls : pc'[c] # "apply"
    BY <1>3 DEF B!Crash, B!CrashCalls, B!Live
  <2> QED
    BY <2>1
<1>4. ASSUME B!Stripe
      PROVE  BilEmitted'
  <2>1. UNCHANGED <<pc, event>>
    BY <1>4 DEF B!Stripe, B!callVars
  <2>2. ASSUME NEW s \in Subs, B!CreateCheckout(s)
        PROVE  BilEmitted'
    BY <2>1, <2>2 DEF B!CreateCheckout
  <2>3. ASSUME NEW s \in Subs, NEW ks \in SUBSET B!Kinds, B!Emit(ks, s), paid'[s] > 0,
               \A r \in Subs \ {s} : paid'[r] = paid[r] /\ stripe'[r] = stripe[r],
               paid'[s] = 2 => paid[s] = 2 \/ "invoice2" \in ks,
               stripe'[s] = "over" <=> stripe[s] = "over" \/ "deleted" \in ks
        PROVE  BilEmitted'
    <3>1. /\ emitted' = emitted \cup {BilEvent(k, s) : k \in ks}
          /\ due' = due \cup {BilEvent(k, s) : k \in ks}
      BY <2>3, BilEmit
    <3>2. due' \subseteq emitted' /\ emitted \subseteq emitted'
      BY <3>1
    <3>3. ASSUME NEW e \in emitted' PROVE paid'[e.sub] > 0
      <4>1. CASE e \in emitted
        BY <2>3, <4>1, BilEvents
      <4>2. CASE \E k \in ks : e = BilEvent(k, s)
        BY <2>3, <4>2, BilEvents
      <4> QED
        BY <3>1, <4>1, <4>2
    <3>4. ASSUME NEW r \in Subs
          PROVE  /\ stripe'[r] \in {"alive", "ending"} => paid'[r] > 0
                 /\ paid'[r] = 2 => BilEvent("invoice2", r) \in emitted'
                 /\ stripe'[r] = "over" <=> BilEvent("deleted", r) \in emitted'
      BY <2>3, <3>1, BilEvents
    <3> QED
      BY <2>1, <3>2, <3>3, <3>4
  <2>4. ASSUME NEW s \in Subs, B!Complete(s)
        PROVE  BilEmitted'
    <3>1. /\ B!Emit({"checkout", "invoice1"}, s)
          /\ stripe[s] = "open"
          /\ stripe' = [stripe EXCEPT ![s] = "alive"] /\ paid' = [paid EXCEPT ![s] = 1]
      BY <2>4 DEF B!Complete
    <3>2. {"checkout", "invoice1"} \in SUBSET B!Kinds
      BY DEF B!Kinds
    <3> QED
      BY <2>3, <3>1, <3>2
  <2>5. ASSUME NEW s \in Subs, B!Renew(s)
        PROVE  BilEmitted'
    <3>1. CASE paid' = [paid EXCEPT ![s] = 2] /\ B!Emit({"invoice2"}, s)
      <4>1. stripe' = stripe /\ {"invoice2"} \in SUBSET B!Kinds
        BY <2>5 DEF B!Renew, B!Kinds
      <4> QED
        BY <2>3, <3>1, <4>1
    <3>2. CASE UNCHANGED paid /\ B!Emit({"failed"}, s)
      <4>1. stripe' = stripe /\ paid[s] = 1 /\ {"failed"} \in SUBSET B!Kinds
        BY <2>5 DEF B!Renew, B!Kinds
      <4> QED
        BY <2>3, <3>2, <4>1
    <3> QED
      BY <2>5, <3>1, <3>2 DEF B!Renew
  <2>6. ASSUME NEW s \in Subs, B!End(s)
        PROVE  BilEmitted'
    <3>1. /\ stripe' = [stripe EXCEPT ![s] = "over"] /\ paid' = paid
          /\ B!Emit({"deleted"}, s) /\ {"deleted"} \in SUBSET B!Kinds
      BY <2>6 DEF B!End, B!Kinds
    <3>2. paid[s] > 0
      <4>1. CASE stripe[s] = "ending"
        BY <4>1
      <4>2. CASE BilEvent("failed", s) \in emitted
        BY <4>2, BilEvents
      <4> QED
        BY <2>6, <4>1, <4>2 DEF B!End, BilEvent
    <3> QED
      BY <2>3, <3>1, <3>2
  <2>7. CASE B!CancelSubscription
    BY <2>1, <2>7 DEF B!CancelSubscription
  <2> QED
    BY <1>4, <2>2, <2>4, <2>5, <2>6, <2>7 DEF B!Stripe
<1>5. CASE UNCHANGED B!vars
  BY <1>5 DEF B!vars
<1> QED
  BY <1>1, <1>2, <1>3, <1>4, <1>5 DEF B!Next, B!Start, B!Step

(* What one application of an event does to the histories.                 *)
LEMMA BilApply ==
  ASSUME B!BillingTypeOK, BilEmitted, NEW c \in Calls, B!Apply(c)
  PROVE  /\ event[c] \in emitted /\ event[c] \in B!Events /\ event[c].sub \in Subs
         /\ outrun \subseteq outrun' /\ (late' = "no" => late = "no")
         /\ UNCHANGED <<stripe, paid, emitted, due, troubles>>
         /\ event[c].kind \in {"invoice2", "deleted"} => outrun' = outrun \cup {event[c].sub}
<1>1. event[c] \in emitted
  BY DEF B!Apply, B!Go, BilEmitted
<1>2. event[c] \in B!Events
  BY <1>1 DEF B!BillingTypeOK
<1>3. event[c].kind \in B!Kinds /\ event[c].sub \in Subs
  BY <1>2, BilEvents
<1>4. UNCHANGED <<stripe, paid, emitted, due, troubles>>
  BY DEF B!Apply, B!Go, B!stripeVars
<1>5. event[c].kind \in {"invoice2", "deleted"} => outrun' = outrun \cup {event[c].sub} /\ late' = late
  BY DEF B!Apply
<1>6. event[c].kind \in {"invoice1", "failed"} => outrun' = outrun /\ late' = late
  BY DEF B!Apply
<1>7. event[c].kind = "checkout" => outrun \subseteq outrun' /\ (late' = "no" => late = "no")
  BY DEF B!Apply, B!CheckoutCompleted, B!BillingTypeOK
<1> QED
  BY <1>1, <1>2, <1>3, <1>4, <1>5, <1>6, <1>7 DEF B!Kinds

(* What Stripe does: it sends what it did.                                 *)
LEMMA BilStripe ==
  ASSUME B!BillingTypeOK, BilEmitted, B!Stripe
  PROVE  /\ UNCHANGED <<pc, event, plan, sub, months, outrun, late, troubles>>
         /\ due \subseteq due' /\ emitted' \subseteq emitted \cup due'
         /\ \A s \in Subs :
              /\ paid[s] > 0 => paid'[s] > 0
              /\ paid[s] = 0 /\ paid'[s] > 0 => BilEvent("checkout", s) \in due'
              /\ paid[s] < 2 /\ paid'[s] = 2 => BilEvent("invoice2", s) \in due'
              /\ stripe[s] = "over" => stripe'[s] = "over"
              /\ stripe[s] # "over" /\ stripe'[s] = "over" => BilEvent("deleted", s) \in due'
<1> USE DEF B!BillingTypeOK
<1>1. UNCHANGED <<pc, event, plan, sub, months, outrun, late, troubles>>
  BY DEF B!Stripe, B!callVars, B!rowVars
<1>2. ASSUME NEW ks \in SUBSET B!Kinds, NEW s \in Subs, B!Emit(ks, s)
      PROVE  /\ due \subseteq due' /\ emitted' \subseteq emitted \cup due'
             /\ \A k \in ks : BilEvent(k, s) \in due'
  <2>1. /\ emitted' = emitted \cup {BilEvent(k, s) : k \in ks}
        /\ due' = due \cup {BilEvent(k, s) : k \in ks}
    BY <1>2, BilEmit
  <2> QED
    BY <2>1
<1> DEFINE Sent ==
      /\ due \subseteq due' /\ emitted' \subseteq emitted \cup due'
      /\ \A s \in Subs :
           /\ paid[s] > 0 => paid'[s] > 0
           /\ paid[s] = 0 /\ paid'[s] > 0 => BilEvent("checkout", s) \in due'
           /\ paid[s] < 2 /\ paid'[s] = 2 => BilEvent("invoice2", s) \in due'
           /\ stripe[s] = "over" => stripe'[s] = "over"
           /\ stripe[s] # "over" /\ stripe'[s] = "over" => BilEvent("deleted", s) \in due'
<1>3. ASSUME NEW s \in Subs, B!CreateCheckout(s)
      PROVE  Sent
  BY <1>3 DEF B!CreateCheckout
<1>4. ASSUME NEW s \in Subs, B!Complete(s)
      PROVE  Sent
  <2>1. /\ B!Emit({"checkout", "invoice1"}, s) /\ {"checkout", "invoice1"} \in SUBSET B!Kinds
        /\ stripe[s] = "open"
        /\ stripe' = [stripe EXCEPT ![s] = "alive"] /\ paid' = [paid EXCEPT ![s] = 1]
    BY <1>4 DEF B!Complete, B!Kinds
  <2>2. /\ due \subseteq due' /\ emitted' \subseteq emitted \cup due'
        /\ BilEvent("checkout", s) \in due'
    BY <2>1, <1>2
  <2> QED
    BY <2>1, <2>2
<1>5. ASSUME NEW s \in Subs, B!Renew(s)
      PROVE  Sent
  <2>1. CASE paid' = [paid EXCEPT ![s] = 2] /\ B!Emit({"invoice2"}, s)
    <3>1. stripe' = stripe /\ paid[s] = 1 /\ {"invoice2"} \in SUBSET B!Kinds
      BY <1>5 DEF B!Renew, B!Kinds
    <3>2. /\ due \subseteq due' /\ emitted' \subseteq emitted \cup due'
          /\ BilEvent("invoice2", s) \in due'
      BY <2>1, <3>1, <1>2
    <3> QED
      BY <2>1, <3>1, <3>2
  <2>2. CASE UNCHANGED paid /\ B!Emit({"failed"}, s)
    <3>1. stripe' = stripe /\ {"failed"} \in SUBSET B!Kinds
      BY <1>5 DEF B!Renew, B!Kinds
    <3>2. due \subseteq due' /\ emitted' \subseteq emitted \cup due'
      BY <2>2, <3>1, <1>2
    <3> QED
      BY <2>2, <3>1, <3>2
  <2> QED
    BY <1>5, <2>1, <2>2 DEF B!Renew
<1>6. ASSUME NEW s \in Subs, B!End(s)
      PROVE  Sent
  <2>1. /\ B!Emit({"deleted"}, s) /\ {"deleted"} \in SUBSET B!Kinds
        /\ stripe' = [stripe EXCEPT ![s] = "over"] /\ paid' = paid
    BY <1>6 DEF B!End, B!Kinds
  <2>2. /\ due \subseteq due' /\ emitted' \subseteq emitted \cup due'
        /\ BilEvent("deleted", s) \in due'
    BY <2>1, <1>2
  <2> QED
    BY <2>1, <2>2
<1>7. ASSUME B!CancelSubscription
      PROVE  Sent
  <2>1. paid' = paid /\ due' = due /\ emitted' = emitted
    BY <1>7 DEF B!CancelSubscription
  <2>2. ASSUME NEW s \in Subs
        PROVE  /\ stripe[s] = "over" => stripe'[s] = "over"
               /\ stripe[s] # "over" => stripe'[s] # "over"
    BY <1>7 DEF B!CancelSubscription
  <2>3. \A s \in Subs :
          /\ paid[s] > 0 => paid'[s] > 0
          /\ ~ (paid[s] = 0 /\ paid'[s] > 0)
          /\ ~ (paid[s] < 2 /\ paid'[s] = 2)
    BY <2>1
  <2> QED
    BY <2>1, <2>2, <2>3
<1> QED
  BY <1>1, <1>3, <1>4, <1>5, <1>6, <1>7 DEF B!Stripe

(* An event that was sent is delivered and applied.                        *)
LEMMA BilAppliedStep ==
  ASSUME B!BillingTypeOK, BilEmitted, BilApplied, [B!Next]_(B!vars)
  PROVE  BilApplied'
<1> SUFFICES ASSUME troubles' = 0, NEW s \in Subs, NEW k \in {"invoice2", "deleted"},
                    BilEvent(k, s) \in emitted'
             PROVE  BilPending(BilEvent(k, s))' \/ s \in outrun'
  BY DEF BilApplied
<1> DEFINE e == BilEvent(k, s)
<1>1. troubles = 0 /\ outrun \subseteq outrun' /\ emitted' \subseteq emitted \cup due'
  <2> USE CallsAssumption DEF B!BillingTypeOK, B!CallsTypeOK, B!stripeVars
  <2>1. ASSUME NEW c \in Calls, NEW f \in emitted, B!Webhook(c, f)
        PROVE  troubles = 0 /\ outrun \subseteq outrun' /\ emitted' \subseteq emitted \cup due'
    BY <2>1 DEF B!Webhook, B!Begin
  <2>2. ASSUME NEW c \in Calls, B!Apply(c)
        PROVE  troubles = 0 /\ outrun \subseteq outrun' /\ emitted' \subseteq emitted \cup due'
    BY <2>2, BilApply
  <2>3. ASSUME NEW c \in Calls, B!ApplyFailed(c)
        PROVE  FALSE
    BY <2>3 DEF B!ApplyFailed, B!GoFailed
  <2>4. CASE B!Stripe
    BY <2>4, BilStripe
  <2>5. ~ B!Crash
    BY DEF B!Crash, B!CrashCalls
  <2>6. CASE UNCHANGED B!vars
    BY <2>6 DEF B!vars
  <2> QED
    BY <2>1, <2>2, <2>3, <2>4, <2>5, <2>6 DEF B!Next, B!Start, B!Step
<1>2. CASE e \in due'
  BY <1>2 DEF BilPending
<1>3. CASE e \in emitted /\ s \in outrun
  BY <1>1, <1>3
<1>4. CASE e \in emitted /\ BilPending(e)
  <2>1. CASE BilPending(e)'
    BY <2>1
  <2>2. ASSUME NEW c \in Calls, B!Apply(c), event[c] = e
        PROVE  s \in outrun'
    BY <2>2, BilApply, BilEvents
  <2> QED
    BY <1>4, <2>1, <2>2, BilPendingStep
<1>5. e \in emitted => BilPending(e) \/ s \in outrun
  BY <1>1 DEF BilApplied
<1> QED
  BY <1>1, <1>2, <1>3, <1>4, <1>5

(* The row follows the events, in whatever order they are applied.         *)
LEMMA BilPlanStep ==
  ASSUME BilInv, [B!Next]_(B!vars)
  PROVE  BilPlan'
<1> SUFFICES ASSUME late' = "no", troubles' = 0, NEW s \in Subs, B!Newest(s)'
             PROVE  \/ BilPending(BilEvent("checkout", s))'
                    \/ /\ \A r \in Subs : r < s => r \in outrun'
                       /\ BilOwned(s)' \/ BilEnded(s)'
  BY DEF BilPlan
<1> DEFINE Goal == \/ BilPending(BilEvent("checkout", s))'
                   \/ /\ \A r \in Subs : r < s => r \in outrun'
                      /\ BilOwned(s)' \/ BilEnded(s)'
           On(k) == BilPending(BilEvent(k, s))
           Bound == /\ late = "no" /\ troubles = 0
                    /\ \A r \in Subs : paid[r] > 0 => paid'[r] > 0
<1>1. B!BillingTypeOK /\ BilEmitted /\ BilApplied /\ BilPlan
  BY DEF BilInv
(* The subscription was the newest before, or it is new.                   *)
<1>2. ASSUME Bound, paid[s] > 0
      PROVE  On("checkout") \/ ((\A r \in Subs : r < s => r \in outrun) /\ (BilOwned(s) \/ BilEnded(s)))
  <2>1. B!Newest(s)
    <3>1. \A r \in Subs : r > s => paid'[r] = 0
      BY DEF B!Newest
    <3>2. \A r \in Subs : paid[r] \in 0 .. 2
      BY <1>1 DEF B!BillingTypeOK
    <3>3. \A r \in Subs : r > s => paid[r] = 0
      BY <1>2, <3>1, <3>2
    <3> QED
      BY <1>2, <3>3 DEF B!Newest
  <2> QED
    BY <1>1, <1>2, <2>1 DEF BilPlan
(* Steps that leave the row alone.                                         *)
<1>3. ASSUME Bound, UNCHANGED <<plan, sub, months, outrun>>,
             On("checkout") => On("checkout")',
             On("invoice2") => On("invoice2")',
             On("deleted") => On("deleted")',
             paid[s] = 0 /\ paid'[s] > 0 => On("checkout")',
             paid[s] < 2 /\ paid'[s] = 2 => On("invoice2")',
             stripe[s] = "over" => stripe'[s] = "over",
             stripe[s] # "over" /\ stripe'[s] = "over" => On("deleted")'
      PROVE  Goal
  <2>1. paid[s] \in 0 .. 2 /\ paid'[s] > 0
    BY <1>1 DEF B!BillingTypeOK, B!Newest
  <2>2. CASE paid[s] = 0
    BY <1>3, <2>1, <2>2
  <2>3. CASE On("checkout")
    BY <1>3, <2>3
  <2>4. CASE paid[s] > 0 /\ (\A r \in Subs : r < s => r \in outrun) /\ BilOwned(s)
    <3>1. plan' = "paid" /\ sub' = s /\ months' > 0
      BY <1>3, <2>4 DEF BilOwned
    <3>2. paid'[s] = 2 => months' > 1 \/ On("invoice2")'
      <4>1. CASE paid[s] = 2
        BY <1>3, <2>4, <4>1 DEF BilOwned
      <4>2. CASE paid[s] < 2
        BY <1>3, <4>2
      <4> QED
        BY <2>1, <4>1, <4>2
    <3>3. stripe'[s] = "over" => On("deleted")'
      BY <1>3, <2>4 DEF BilOwned
    <3>4. BilOwned(s)'
      BY <3>1, <3>2, <3>3 DEF BilOwned
    <3> QED
      BY <1>3, <2>4, <3>4
  <2>5. CASE paid[s] > 0 /\ (\A r \in Subs : r < s => r \in outrun) /\ BilEnded(s)
    <3>1. BilEnded(s)'
      BY <1>3, <2>5 DEF BilEnded
    <3> QED
      BY <1>3, <2>5, <3>1
  <2> QED
    BY <1>2, <1>3, <2>1, <2>2, <2>3, <2>4, <2>5
(* An event is applied.                                                    *)
<1>4. ASSUME NEW c \in Calls, B!Apply(c)
      PROVE  Goal
  <2> DEFINE e == event[c]
             t == e.sub
  <2>1. /\ e \in emitted /\ e \in B!Events /\ t \in Subs
        /\ outrun \subseteq outrun' /\ late = "no"
        /\ UNCHANGED <<stripe, paid, emitted, due, troubles>>
        /\ e.kind \in {"invoice2", "deleted"} => outrun' = outrun \cup {t}
    BY <1>1, <1>4, BilApply
  <2>2. Bound /\ paid[s] > 0
    BY <2>1 DEF B!Newest
  <2>3. \A k \in {"checkout", "invoice2", "deleted"} : On(k) /\ (e.kind # k \/ t # s) => On(k)'
    BY <1>1, <1>4, BilPendingApply, BilEvents
  <2>4. \A k \in B!Kinds : e.kind = k => e = BilEvent(k, t)
    BY <2>1, BilEvents
  <2>5. NoCall # s /\ NoCall # t
    BY <2>1, BilSubs
  <2>6. CASE e.kind = "checkout"
    <3>1. /\ plan' = "paid" /\ sub' = t /\ months' = 1
          /\ t \notin outrun
          /\ \A r \in Subs : r < t => r \in outrun'
      <4>1. B!CheckoutCompleted(t)
        BY <1>4, <2>6 DEF B!Apply
      <4> QED
        BY <4>1 DEF B!CheckoutCompleted
    <3>2. CASE t = s
      <4>1. \A k \in {"invoice2", "deleted"} : BilEvent(k, s) \in emitted => On(k)'
        BY <1>1, <2>2, <2>3, <2>6, <3>1, <3>2 DEF BilApplied
      <4>2. /\ paid'[s] = 2 => On("invoice2")'
            /\ stripe'[s] = "over" => On("deleted")'
        BY <1>1, <2>1, <4>1 DEF BilEmitted
      <4>3. BilOwned(s)'
        BY <3>1, <3>2, <4>2 DEF BilOwned
      <4> QED
        BY <3>1, <3>2, <4>3
    <3>3. CASE t > s
      <4>1. paid[t] > 0
        BY <1>1, <2>1 DEF BilEmitted
      <4>2. paid'[t] = 0
        BY <2>1, <3>3 DEF B!Newest
      <4> QED
        BY <2>1, <4>1, <4>2
    <3>4. CASE t < s /\ t # s
      <4>1. On("checkout")
        BY <1>2, <2>1, <2>2, <3>1, <3>4
      <4> QED
        BY <2>3, <3>4, <4>1
    <3> QED
      BY <2>1, <3>2, <3>3, <3>4, BilSubs
  <2>7. CASE e.kind \in {"invoice1", "invoice2"}
    <3>1. /\ plan' = plan /\ sub' = sub
          /\ months' = IF sub = t THEN months + 1 ELSE months
      BY <1>4, <2>7 DEF B!Apply, B!InvoicePaid
    <3>2. On("checkout") => On("checkout")'
      BY <2>3, <2>7
    <3>3. ASSUME BilOwned(s)
          PROVE  BilOwned(s)'
      <4>1. months \in Nat /\ months > 0
        BY <1>1, <3>3 DEF B!BillingTypeOK, BilOwned
      <4>2. months' > 0 /\ (months > 1 => months' > 1)
        BY <3>1, <4>1
      <4>3. paid'[s] = 2 => months' > 1 \/ On("invoice2")'
        <5>1. CASE paid[s] = 2 /\ months > 1
          BY <4>2, <5>1
        <5>2. CASE paid[s] = 2 /\ On("invoice2") /\ t # s
          BY <2>3, <5>2
        <5>3. CASE t = s
          <6>1. months' = months + 1
            BY <3>1, <3>3, <5>3 DEF BilOwned
          <6> QED
            BY <4>1, <6>1
        <5> QED
          BY <2>1, <3>3, <5>1, <5>2, <5>3 DEF BilOwned
      <4>4. stripe'[s] = "over" => On("deleted")'
        BY <2>1, <2>3, <2>7, <3>3 DEF BilOwned
      <4> QED
        BY <3>1, <3>3, <4>2, <4>3, <4>4 DEF BilOwned
    <3>4. ASSUME BilEnded(s)
          PROVE  BilEnded(s)'
      BY <2>1, <3>1, <3>4 DEF BilEnded
    <3> QED
      BY <1>2, <2>1, <2>2, <3>2, <3>3, <3>4
  <2>8. CASE e.kind = "failed"
    <3>1. UNCHANGED <<plan, sub, months, outrun>>
      BY <1>4, <2>8 DEF B!Apply, B!PaymentFailed, B!rowVars
    <3>2. /\ On("checkout") => On("checkout")'
          /\ On("invoice2") => On("invoice2")'
          /\ On("deleted") => On("deleted")'
      BY <2>3, <2>8
    <3>3. /\ paid[s] = 0 /\ paid'[s] > 0 => On("checkout")'
          /\ paid[s] < 2 /\ paid'[s] = 2 => On("invoice2")'
          /\ stripe[s] = "over" => stripe'[s] = "over"
          /\ stripe[s] # "over" /\ stripe'[s] = "over" => On("deleted")'
      <4>1. paid'[s] = paid[s] /\ stripe'[s] = stripe[s]
        BY <2>1
      <4> QED
        BY <4>1, <2>2
    <3> QED
      BY <1>3, <2>2, <3>1, <3>2, <3>3
  <2>9. CASE e.kind = "deleted"
    <3>1. \/ sub = t /\ plan' = "community" /\ sub' = NoCall /\ months' = 0
          \/ sub # t /\ UNCHANGED <<plan, sub, months>>
      BY <1>4, <2>9 DEF B!Apply, B!SubscriptionDeleted
    <3>2. /\ On("checkout") => On("checkout")'
          /\ On("invoice2") => On("invoice2")'
          /\ t # s /\ On("deleted") => On("deleted")'
      BY <2>3, <2>9
    <3>3. stripe[t] = "over" /\ t \in outrun'
      <4>1. BilEvent("deleted", t) \in emitted
        BY <2>1, <2>4, <2>9 DEF B!Kinds
      <4> QED
        BY <1>1, <2>1, <2>9, <4>1 DEF BilEmitted
    <3>4. ASSUME BilOwned(s), t = s
          PROVE  BilEnded(s)'
      BY <2>1, <3>1, <3>3, <3>4 DEF BilOwned, BilEnded
    <3>5. ASSUME BilOwned(s), t # s
          PROVE  BilOwned(s)'
      <4>1. UNCHANGED <<plan, sub, months>>
        BY <3>1, <3>5 DEF BilOwned
      <4> QED
        BY <2>1, <3>2, <3>5, <4>1 DEF BilOwned
    <3>6. ASSUME BilEnded(s)
          PROVE  BilEnded(s)'
      BY <2>1, <2>5, <3>1, <3>6 DEF BilEnded
    <3> QED
      BY <1>2, <2>1, <2>2, <3>2, <3>4, <3>5, <3>6
  <2> QED
    BY <2>1, <2>6, <2>7, <2>8, <2>9, BilEvents DEF B!Kinds
<1>5. ASSUME NEW c \in Calls, NEW f \in emitted, B!Webhook(c, f)
      PROVE  Goal
  <2>1. /\ UNCHANGED <<plan, sub, months, outrun, late, troubles, stripe, paid>>
        /\ pc' = [pc EXCEPT ![c] = "apply"] /\ event' = [event EXCEPT ![c] = f]
        /\ due' = due \ {f} /\ pc[c] = "idle"
    BY <1>5 DEF B!Webhook, B!Begin, B!rowVars
  <2>2. ASSUME NEW k, On(k)
        PROVE  On(k)'
    BY <1>1, <2>1, <2>2 DEF BilPending, B!BillingTypeOK, B!CallsTypeOK
  <2>3. Bound /\ paid'[s] = paid[s] /\ stripe'[s] = stripe[s]
    BY <2>1
  <2>4. paid[s] > 0
    BY <2>1 DEF B!Newest
  <2> QED
    BY <1>3, <2>1, <2>2, <2>3, <2>4
<1>6. CASE B!Stripe
  <2>1. /\ UNCHANGED <<pc, event, plan, sub, months, outrun, late, troubles>>
        /\ due \subseteq due' /\ emitted' \subseteq emitted \cup due'
        /\ \A r \in Subs :
             /\ paid[r] > 0 => paid'[r] > 0
             /\ paid[r] = 0 /\ paid'[r] > 0 => BilEvent("checkout", r) \in due'
             /\ paid[r] < 2 /\ paid'[r] = 2 => BilEvent("invoice2", r) \in due'
             /\ stripe[r] = "over" => stripe'[r] = "over"
             /\ stripe[r] # "over" /\ stripe'[r] = "over" => BilEvent("deleted", r) \in due'
    BY <1>1, <1>6, BilStripe
  <2>2. ASSUME NEW k, On(k)
        PROVE  On(k)'
    BY <2>1, <2>2 DEF BilPending
  <2>3. ASSUME NEW k, BilEvent(k, s) \in due'
        PROVE  On(k)'
    BY <2>3 DEF BilPending
  <2>4. Bound
    BY <2>1
  <2> QED
    BY <1>3, <2>1, <2>2, <2>3, <2>4
<1>7. CASE UNCHANGED B!vars
  <2>1. /\ UNCHANGED <<pc, event, plan, sub, months, outrun, late, troubles, due, stripe, paid>>
    BY <1>7 DEF B!vars
  <2>2. ASSUME NEW k, On(k)
        PROVE  On(k)'
    BY <2>1, <2>2 DEF BilPending
  <2>3. Bound /\ paid'[s] = paid[s] /\ stripe'[s] = stripe[s]
    BY <2>1
  <2>4. paid[s] > 0
    BY <2>1 DEF B!Newest
  <2> QED
    BY <1>3, <2>1, <2>2, <2>3, <2>4
<1>8. ASSUME NEW c \in Calls, B!ApplyFailed(c)
      PROVE  FALSE
  BY <1>1, <1>8, CallsAssumption
     DEF B!ApplyFailed, B!GoFailed, B!BillingTypeOK, B!CallsTypeOK
<1>9. ~ B!Crash
  BY <1>1, CallsAssumption DEF B!Crash, B!CrashCalls, B!BillingTypeOK, B!CallsTypeOK
<1> QED
  BY <1>4, <1>5, <1>6, <1>7, <1>8, <1>9 DEF B!Next, B!Start, B!Step

(* Every step preserves the invariant.                                     *)
LEMMA BilInvStep ==
  ASSUME BilInv, [B!Next]_(B!vars)
  PROVE  BilInv'
BY BilTypes, BilEmittedStep, BilAppliedStep, BilPlanStep DEF BilInv

(* With every event applied only the row is left.                          *)
LEMMA BilMeans ==
  ASSUME BilInv
  PROVE  B!BillingTypeOK /\ B!BilledRight
<1>1. B!BillingTypeOK /\ BilEmitted /\ BilPlan
  BY DEF BilInv
<1>2. SUFFICES ASSUME B!Quiet, due = {}, late = "no", troubles = 0, NEW s \in Subs, B!Newest(s)
               PROVE  IF stripe[s] = "over" THEN plan = "community" /\ sub = NoCall
                      ELSE plan = "paid" /\ sub = s /\ months >= paid[s]
  BY <1>1 DEF B!BilledRight
<1>3. \A e : ~ BilPending(e)
  BY <1>2 DEF BilPending, B!Quiet, B!Live
<1>4. BilOwned(s) \/ BilEnded(s)
  BY <1>1, <1>2, <1>3 DEF BilPlan
<1>5. paid[s] \in 0 .. 2 /\ months \in Nat
  BY <1>1 DEF B!BillingTypeOK
<1>6. CASE BilOwned(s)
  <2>1. stripe[s] # "over" /\ months > 0 /\ (paid[s] = 2 => months > 1)
    BY <1>3, <1>6 DEF BilOwned
  <2>2. months >= paid[s]
    BY <1>5, <2>1
  <2> QED
    BY <1>6, <2>1, <2>2 DEF BilOwned
<1>7. CASE BilEnded(s)
  BY <1>7 DEF BilEnded
<1> QED
  BY <1>4, <1>6, <1>7

(* Module Billing, for any number of subscriptions, deliveries and repeats:*)
(* handlers/stripe_handler.go leaves the user with the plan it pays for,   *)
(* whatever the order its goroutines write in.                             *)
THEOREM BillingCorrect ==
  B!Spec => [](B!BillingTypeOK /\ B!BilledRight)
<1>1. B!Spec => []BilInv
  BY BilInit, BilInvStep, PTL DEF B!Spec
<1> QED
  BY <1>1, BilMeans, PTL

(***************************************************************************)
(* Mail settings                                                           *)
(***************************************************************************)
MaiAt(l) == \E c \in Calls : pc[c] = l

(* One reload at a time is between its SELECT and its lock; nobody being   *)
(* about to store more, it has read what is stored ...                     *)
MaiOne == crossed = "no" => \A c, d \in Calls : pc[c] = "assign" /\ pc[d] = "assign" => c = d

MaiSeen ==
  crossed = "no" /\ behind = "no" /\ ~ MaiAt("store") =>
    \A c \in Calls : pc[c] = "assign" => seenRows[c] = stored

(* ... and with no request at work the mail goes out with it.              *)
MaiLive ==
  crossed = "no" /\ behind = "no" /\ ~ MaiAt("store") /\ ~ MaiAt("assign") =>
    \A k \in E!Keys : live[k] = stored[k] \/ (k = "host" /\ stored[k] = "")

(* What a request has still to store, it asks for.                         *)
MaiLeft == \A c \in Calls : \A k \in left[c] : asked[c][k] # "kept"

MaiInv == E!MailTypeOK /\ MaiLeft /\ MaiOne /\ MaiSeen /\ MaiLive

(* The process has just started.                                           *)
LEMMA MaiInit ==
  ASSUME E!Init
  PROVE  MaiInv
<1>4. E!CallsTypeOK({"save"}, {"store", "assign"})
  <2>1. E!CallsInit
    BY DEF E!Init
  <2> QED
    BY <2>1, CallsAssumption DEF E!CallsInit, E!CallsTypeOK
<1> USE CallsAssumption DEF E!Init, E!CallsInit
<1>1. E!Kept \in E!Asked /\ [k \in E!Keys |-> ""] \in E!Rows /\ E!FromEnv \in E!Fields
  BY DEF E!Kept, E!Asked, E!Rows, E!FromEnv, E!Fields
<1>3. E!MailTypeOK
  <2>2. asked \in [Calls -> E!Asked] /\ left \in [Calls -> SUBSET E!Keys]
    BY <1>1
  <2>3. stored \in E!Rows /\ seenRows \in [Calls -> E!Rows]
    BY <1>1
  <2> QED
    BY <1>1, <1>4, <2>2, <2>3 DEF E!MailTypeOK
<1>2. MaiLeft /\ MaiOne /\ MaiSeen /\ MaiLive
  BY DEF MaiLeft, MaiOne, MaiSeen, MaiLive, MaiAt
<1> QED
  BY <1>2, <1>3 DEF MaiInv

(* The types.                                                              *)
LEMMA MaiTypes ==
  ASSUME E!MailTypeOK, MaiLeft, [E!Next]_(E!vars)
  PROVE  E!MailTypeOK' /\ MaiLeft'
<1> DEFINE Goal == E!MailTypeOK' /\ MaiLeft'
<1> USE CallsAssumption DEF E!MailTypeOK, E!CallsTypeOK, MaiLeft
<1>1. ASSUME NEW c \in Calls, E!UpdateSystemSettings(c)
      PROVE  Goal
  <2>1. PICK r \in E!Asked :
          /\ asked' = [asked EXCEPT ![c] = r]
          /\ left' = [left EXCEPT ![c] = {k \in E!Keys : r[k] # "kept"}]
    BY <1>1 DEF E!UpdateSystemSettings
  <2> QED
    BY <1>1, <2>1 DEF E!UpdateSystemSettings, E!Begin
<1>2. ASSUME NEW c \in Calls, E!Store(c)
      PROVE  Goal
  <2>1. PICK k \in left[c] :
          \/ /\ E!Go(c, "store", "store")
             /\ stored' = [stored EXCEPT ![k] = asked[c][k]]
             /\ left' = [left EXCEPT ![c] = @ \ {k}]
             /\ UNCHANGED <<asked, seenRows, live, behind, crossed>>
          \/ /\ E!GoFailed(c, "store", "done")
             /\ behind' = "yes"
             /\ UNCHANGED <<asked, left, stored, seenRows, live, crossed>>
    BY <1>2 DEF E!Store
  <2>2. CASE /\ E!Go(c, "store", "store")
             /\ stored' = [stored EXCEPT ![k] = asked[c][k]]
             /\ left' = [left EXCEPT ![c] = @ \ {k}]
             /\ UNCHANGED <<asked, seenRows, live, behind, crossed>>
    <3>1. asked[c] \in E!Asked /\ left[c] \subseteq E!Keys /\ stored \in E!Rows
      OBVIOUS
    <3>2. asked[c][k] # "kept"
      OBVIOUS
    <3>3. stored' \in E!Rows
      BY <2>2, <3>1, <3>2 DEF E!Rows, E!Asked
    <3> QED
      BY <2>2, <3>3 DEF E!Go
  <2>3. CASE /\ E!GoFailed(c, "store", "done")
             /\ behind' = "yes"
             /\ UNCHANGED <<asked, left, stored, seenRows, live, crossed>>
    BY <2>3 DEF E!GoFailed
  <2> QED
    BY <2>1, <2>2, <2>3
<1>3. ASSUME NEW c \in Calls, E!Select(c)
      PROVE  Goal
  BY <1>3 DEF E!Select, E!Go, E!GoFailed
<1>4. ASSUME NEW c \in Calls, E!Assign(c)
      PROVE  Goal
  <2>1. seenRows[c] \in E!Rows
    OBVIOUS
  <2>2. E!Reloaded(seenRows[c]) \in E!Fields
    BY <2>1 DEF E!Reloaded, E!Rows, E!Fields
  <2> QED
    BY <1>4, <2>2 DEF E!Assign, E!Go
<1>5. CASE E!Restart
  <2>1. E!FromEnv \in E!Fields
    BY DEF E!FromEnv, E!Fields
  <2> QED
    BY <1>5, <2>1 DEF E!Restart
<1>6. CASE UNCHANGED E!vars
  BY <1>6 DEF E!vars
<1> QED
  BY <1>1, <1>2, <1>3, <1>4, <1>5, <1>6 DEF E!Next, E!Start, E!Step

(* Every step preserves the invariant.                                     *)
LEMMA MaiInvStep ==
  ASSUME MaiInv, [E!Next]_(E!vars)
  PROVE  MaiInv'
<1>1. E!MailTypeOK' /\ MaiLeft'
  BY MaiTypes DEF MaiInv
<1> DEFINE Rest == MaiOne /\ MaiSeen /\ MaiLive
<1>2. Rest
  BY DEF MaiInv
<1>0. /\ pc \in [Calls -> {"idle", "done"} \cup {"store", "assign"}]
      /\ seenRows \in [Calls -> E!Rows]
  BY DEF MaiInv, E!MailTypeOK, E!CallsTypeOK
<1> USE <1>0, <1>2 DEF MaiOne, MaiSeen, MaiLive, MaiAt
<1>3. ASSUME NEW c \in Calls, E!UpdateSystemSettings(c)
      PROVE  Rest'
  <2>1. /\ pc' = [pc EXCEPT ![c] = "store"] /\ pc[c] = "idle"
        /\ UNCHANGED <<stored, seenRows, live, behind, crossed>>
    BY <1>3 DEF E!UpdateSystemSettings, E!Begin
  <2> QED
    BY <2>1
<1>4. ASSUME NEW c \in Calls, E!Store(c)
      PROVE  Rest'
  <2>1. /\ pc[c] = "store" /\ crossed' = crossed /\ seenRows' = seenRows
        /\ \/ pc' = [pc EXCEPT ![c] = "store"] /\ behind' = behind
           \/ pc' = [pc EXCEPT ![c] = "done"] /\ behind' = "yes"
    BY <1>4 DEF E!Store, E!Go, E!GoFailed
  <2>2. MaiOne'
    <3>1. \A d \in Calls : pc'[d] = "assign" => pc[d] = "assign"
      BY <2>1
    <3> QED
      BY <2>1, <3>1
  <2>3. CASE pc' = [pc EXCEPT ![c] = "store"] /\ behind' = behind
    <3>1. MaiAt("store")'
      BY <2>3
    <3> QED
      BY <2>2, <3>1
  <2>4. CASE behind' = "yes"
    BY <2>2, <2>4
  <2> QED
    BY <2>1, <2>3, <2>4
<1>5. ASSUME NEW c \in Calls, E!Select(c)
      PROVE  Rest'
  <2>1. pc[c] = "store" /\ UNCHANGED <<stored, live>>
    BY <1>5 DEF E!Select, E!Go, E!GoFailed
  <2>2. CASE /\ pc' = [pc EXCEPT ![c] = "done"] /\ behind' = "yes"
             /\ UNCHANGED <<seenRows, crossed>>
    BY <2>1, <2>2
  <2>3. CASE /\ pc' = [pc EXCEPT ![c] = "assign"] /\ behind' = behind
             /\ seenRows' = [seenRows EXCEPT ![c] = stored]
             /\ crossed' = IF \E d \in Calls : pc[d] = "assign" THEN "yes" ELSE crossed
    <3>1. crossed' = "no" => crossed = "no" /\ \A d \in Calls : pc[d] # "assign"
      BY <2>3
    <3>2. crossed' = "no" => \A d \in Calls : pc'[d] = "assign" => d = c
      BY <2>3, <3>1
    <3> QED
      BY <2>1, <2>3, <3>2
  <2> QED
    BY <1>5, <2>2, <2>3 DEF E!Select, E!Go, E!GoFailed
<1>6. ASSUME NEW c \in Calls, E!Assign(c)
      PROVE  Rest'
  <2>1. /\ pc[c] = "assign" /\ pc' = [pc EXCEPT ![c] = "done"]
        /\ live' = E!Reloaded(seenRows[c])
        /\ behind' = IF seenRows[c] = stored THEN "no" ELSE behind
        /\ UNCHANGED <<stored, seenRows, crossed>>
    BY <1>6 DEF E!Assign, E!Go
  <2>2. MaiOne'
    BY <2>1
  <2>3. crossed = "no" => \A d \in Calls : pc'[d] # "assign"
    BY <2>1
  <2>4. MaiSeen'
    BY <2>1, <2>3
  <2>5. ASSUME crossed' = "no", behind' = "no", ~ MaiAt("store")'
        PROVE  \A k \in E!Keys : live'[k] = stored'[k] \/ (k = "host" /\ stored'[k] = "")
    <3>1. \A d \in Calls : pc[d] # "store"
      BY <2>1, <2>5
    <3>2. seenRows[c] = stored
      BY <2>1, <2>5, <3>1
    <3>3. live' = [k \in E!Keys |-> IF k = "host" /\ stored[k] = "" THEN live[k] ELSE stored[k]]
      BY <2>1, <3>2 DEF E!Reloaded
    <3> QED
      BY <2>1, <3>3
  <2> QED
    BY <2>2, <2>4, <2>5
<1>7. ASSUME E!Restart
      PROVE  Rest'
  <2>1. /\ behind' = "yes" /\ crossed' = crossed
        /\ \A d \in Calls : pc'[d] # "assign"
    BY <1>7 DEF E!Restart, E!Live
  <2> QED
    BY <2>1
<1>8. ASSUME UNCHANGED E!vars
      PROVE  Rest'
  BY <1>8 DEF E!vars
<1>9. Rest'
  BY <1>3, <1>4, <1>5, <1>6, <1>7, <1>8 DEF E!Next, E!Start, E!Step
<1> QED
  BY <1>1, <1>9 DEF MaiInv

(* Quiet, nobody stores or reloads.                                        *)
LEMMA MaiMeans ==
  ASSUME MaiInv
  PROVE  E!MailTypeOK /\ E!SettingsAreLive
<1>1. E!Quiet => ~ MaiAt("store") /\ ~ MaiAt("assign")
  BY DEF E!Quiet, E!Live, MaiAt
<1> QED
  BY <1>1 DEF MaiInv, MaiLive, E!SettingsAreLive

(* Module MailSettings, for any number of requests and restarts: with all  *)
(* requests ended, handlers/settings.go and services/smtp_service.go send  *)
(* mail with the settings that are stored.                                 *)
THEOREM MailCorrect ==
  E!Spec => [](E!MailTypeOK /\ E!SettingsAreLive)
<1>1. E!Spec => []MaiInv
  BY MaiInit, MaiInvStep, PTL DEF E!Spec
<1> QED
  BY <1>1, MaiMeans, PTL

(***************************************************************************)
(* Backups                                                                 *)
(***************************************************************************)
(* A backup has its file from the end of its script on, not only once its  *)
(* row says so, and a file that is removed is not there.  While a script   *)
(* is at it a file need not be whole.                                      *)
Untouched(p) == troubles = 0 /\ p \notin shared /\ \A d \in Calls : ~ K!Writes(d, p)

Has(c) == backup[c] = "completed" \/ pc[c] = "completed"

BacFiles ==
  /\ \A p \in removed : files[p] = "none"
  /\ \A c \in Calls : Has(c) /\ path[c] \notin removed =>
       /\ files[path[c]] # "none"
       /\ Untouched(path[c]) => files[path[c]] = "whole"

BacInv == K!BackupsTypeOK /\ BacFiles

(* There is no backup at the start.                                        *)
LEMMA BacInit ==
  ASSUME K!Init
  PROVE  BacInv
<1> USE CallsAssumption DEF K!Init, K!CallsInit
<1>1. K!BackupsTypeOK
  BY DEF K!BackupsTypeOK, K!CallsTypeOK
<1>2. BacFiles
  BY DEF BacFiles, Has
<1> QED
  BY <1>1, <1>2 DEF BacInv

(* The types.                                                              *)
LEMMA BacTypes ==
  ASSUME K!BackupsTypeOK, [K!Next]_(K!vars)
  PROVE  K!BackupsTypeOK'
<1> USE CallsAssumption
    DEF K!BackupsTypeOK, K!CallsTypeOK, K!Ops, K!Labels, K!Begin, K!Go, K!GoFailed,
        K!backupVars, K!Write, K!StillRemoved
<1>1. ASSUME NEW c \in Calls, K!Create(c)
      PROVE  K!BackupsTypeOK'
  BY <1>1 DEF K!Create
<1>2. ASSUME NEW c \in Calls, K!Backup(c) \/ K!Restore(c) \/ K!DeleteFile(c)
      PROVE  K!BackupsTypeOK'
  BY <1>2 DEF K!Backup, K!Restore, K!DeleteFile
<1>3. ASSUME NEW c \in Calls, NEW r \in Calls, K!DeleteRow(c, r)
      PROVE  K!BackupsTypeOK'
  BY <1>3 DEF K!DeleteRow
<1>4. ASSUME NEW c \in Calls, K!Script(c)
      PROVE  K!BackupsTypeOK'
  BY <1>4 DEF K!Script
<1>10. ASSUME NEW c \in Calls, K!Finish(c)
       PROVE  K!BackupsTypeOK'
  BY <1>10 DEF K!Finish
<1>5. ASSUME NEW c \in Calls, K!Record(c)
      PROVE  K!BackupsTypeOK'
  BY <1>5 DEF K!Record
<1>6. ASSUME NEW c \in Calls, K!Load(c)
      PROVE  K!BackupsTypeOK'
  BY <1>6 DEF K!Load
<1>7. ASSUME NEW c \in Calls, K!Remove(c)
      PROVE  K!BackupsTypeOK'
  BY <1>7 DEF K!Remove
<1>8. ASSUME K!Crash
      PROVE  K!BackupsTypeOK'
  BY <1>8 DEF K!Crash, K!CrashCalls
<1>9. CASE UNCHANGED K!vars
  BY <1>9 DEF K!vars
<1> QED
  BY <1>1, <1>2, <1>3, <1>4, <1>5, <1>6, <1>7, <1>8, <1>9, <1>10 DEF K!Next, K!Start, K!Step

(* Every step preserves the invariant: a script that leaves a broken file  *)
(* without an error shared it with another one.                            *)
LEMMA BacInvStep ==
  ASSUME BacInv, [K!Next]_(K!vars)
  PROVE  BacInv'
<1>1. K!BackupsTypeOK'
  BY BacTypes DEF BacInv
<1>2. /\ pc \in [Calls -> {"idle", "done"} \cup K!Labels] /\ troubles \in Nat
      /\ files \in [Paths -> {"none", "whole", "broken"}] /\ path \in [Calls -> Paths]
      /\ backup \in [Calls -> {"none", "pending", "failed", "completed"}]
      /\ removed \subseteq Paths /\ shared \subseteq Paths
  BY CallsAssumption DEF BacInv, K!BackupsTypeOK, K!CallsTypeOK
<1>3. BacFiles
  BY DEF BacInv
<1> USE <1>2, <1>3 DEF BacFiles, Has, Untouched, K!Writes
(* Steps after which no other call is completed, and the files are there.  *)
<1>4. ASSUME UNCHANGED <<path, files, removed, shared>>, troubles' = 0 => troubles = 0,
             \A d \in Calls : Has(d)' => Has(d),
             \A d \in Calls : pc[d] = "write" => pc'[d] = "write" \/ troubles' # 0
      PROVE  BacFiles'
  BY <1>4
<1>5. ASSUME NEW c \in Calls, K!Create(c)
      PROVE  BacFiles'
  BY <1>4, <1>5 DEF K!Create, K!Begin
<1>6. ASSUME NEW c \in Calls, K!Backup(c) \/ K!Restore(c) \/ K!DeleteFile(c)
      PROVE  BacFiles'
  BY <1>4, <1>6 DEF K!Backup, K!Restore, K!DeleteFile, K!Begin, K!backupVars
<1>7. ASSUME NEW c \in Calls, NEW r \in Calls, K!DeleteRow(c, r)
      PROVE  BacFiles'
  BY <1>4, <1>7 DEF K!DeleteRow, K!Begin
<1>8. ASSUME NEW c \in Calls, K!Script(c)
      PROVE  BacFiles'
  <2> DEFINE p == path[c]
  <2>1. /\ backup' = backup /\ path' = path
        /\ removed' = {q \in removed : files'[q] = "none"}
    BY <1>8 DEF K!Script, K!StillRemoved
  <2>2. CASE K!Go(c, "script", "write")
    <3>1. /\ pc' = [pc EXCEPT ![c] = "write"] /\ troubles' = troubles
          /\ files' = files \/ files' = [files EXCEPT ![p] = "broken"]
          /\ shared \subseteq shared'
      BY <1>8, <2>2 DEF K!Script, K!Go, K!GoFailed, K!Write
    <3>2. \A d \in Calls : Has(d)' => Has(d)
      BY <2>1, <3>1
    <3>3. CASE files' = files
      BY <2>1, <3>1, <3>2, <3>3
    <3>4. CASE files' = [files EXCEPT ![p] = "broken"]
      BY <2>1, <3>1, <3>2, <3>4
    <3> QED
      BY <3>1, <3>3, <3>4
  <2>3. CASE K!GoFailed(c, "script", "done") \/ K!GoFailed(c, "script", "failed")
    <3>1. /\ pc' = [pc EXCEPT ![c] = "done"] \/ pc' = [pc EXCEPT ![c] = "failed"]
          /\ troubles' # 0 /\ pc[c] = "script"
      BY <2>3 DEF K!GoFailed
    <3>2. files' = files /\ shared' = shared
      BY <1>8, <3>1 DEF K!Script, K!Go, K!Labels
    <3>3. removed' = removed
      BY <2>1, <3>2
    <3> QED
      BY <1>4, <2>1, <3>1, <3>2, <3>3
  <2> QED
    BY <1>8, <2>2, <2>3 DEF K!Script
<1>9. ASSUME NEW c \in Calls, K!Finish(c)
      PROVE  BacFiles'
  <2> DEFINE p == path[c]
  <2>1. /\ backup' = backup /\ path' = path /\ shared' = shared
        /\ removed' = {q \in removed : files'[q] = "none"}
        /\ pc[c] = "write"
    BY <1>9 DEF K!Finish, K!Go, K!GoFailed, K!StillRemoved
(* Whole, broken and shared, broken by an error, gone, or an error.        *)
  <2>2. \/ /\ files' = [files EXCEPT ![p] = "whole"] /\ pc' = [pc EXCEPT ![c] = "completed"]
           /\ troubles' = troubles
        \/ /\ files' = [files EXCEPT ![p] = "broken"] /\ pc' = [pc EXCEPT ![c] = "completed"]
           /\ p \in shared \/ troubles' # 0
           /\ troubles' = 0 => troubles = 0
        \/ /\ files' = files /\ files[p] = "none" /\ pc' = [pc EXCEPT ![c] = "failed"]
           /\ troubles' = troubles
        \/ /\ files' = files \/ files' = [files EXCEPT ![p] = "broken"]
           /\ pc' = [pc EXCEPT ![c] = "failed"] /\ troubles' # 0
    BY <1>9 DEF K!Finish, K!Go, K!GoFailed, K!Write
  <2>3. /\ \A q \in removed' : files'[q] = "none"
        /\ \A q \in Paths : q \notin removed' /\ q \in removed => files'[q] # "none"
        /\ \A d \in Calls \ {c} : pc'[d] = pc[d]
    BY <2>1, <2>2
  <2>4. ASSUME NEW d \in Calls, Has(d)', path[d] \notin removed'
        PROVE  files'[path[d]] # "none"
    BY <2>1, <2>2, <2>3, <2>4
  <2>5. ASSUME NEW d \in Calls, Has(d)', path[d] \notin removed', Untouched(path[d])'
        PROVE  files'[path[d]] = "whole"
    <3>1. CASE path[d] = p
      <4>1. p \notin shared /\ troubles' = 0
        BY <2>1, <2>5, <3>1
      <4>2. CASE files' = files /\ files[p] = "none"
        BY <2>4, <2>5, <3>1, <4>2
      <4> QED
        BY <2>2, <3>1, <4>1, <4>2
    <3>2. CASE path[d] # p
      <4>1. d # c /\ Has(d) /\ files'[path[d]] = files[path[d]]
        BY <2>1, <2>2, <2>3, <2>5, <3>2
      <4>2. path[d] \notin removed
        BY <2>3, <2>4, <2>5, <4>1
      <4>3. troubles = 0
        BY <2>2, <2>5
      <4>4. \A e \in Calls : ~ (pc[e] = "write" /\ path[e] = path[d])
        BY <2>1, <2>3, <2>5, <3>2
      <4> QED
        BY <2>1, <2>5, <4>1, <4>2, <4>3, <4>4
    <3> QED
      BY <3>1, <3>2
  <2> QED
    BY <2>1, <2>3, <2>4, <2>5
<1>10. ASSUME NEW c \in Calls, K!Record(c)
       PROVE  BacFiles'
  <2>1. /\ UNCHANGED <<files, path, removed, shared>> /\ (troubles' = 0 => troubles = 0)
        /\ pc' = [pc EXCEPT ![c] = "done"] /\ pc[c] # "write"
    BY <1>10 DEF K!Record, K!Go, K!GoFailed
  <2>2. \A d \in Calls : Has(d)' => Has(d)
    BY <1>10 DEF K!Record, K!Go, K!GoFailed
  <2> QED
    BY <1>4, <2>1, <2>2
<1>11. ASSUME NEW c \in Calls, K!Load(c)
       PROVE  BacFiles'
  <2>1. /\ UNCHANGED <<files, path, removed, shared, backup>> /\ (troubles' = 0 => troubles = 0)
        /\ pc' = [pc EXCEPT ![c] = "done"] /\ pc[c] # "write"
    BY <1>11 DEF K!Load, K!Go, K!GoFailed
  <2> QED
    BY <1>4, <2>1
<1>12. ASSUME NEW c \in Calls, K!Remove(c)
       PROVE  BacFiles'
  <2>1. /\ UNCHANGED <<path, backup, shared>> /\ (troubles' = 0 => troubles = 0)
        /\ pc' = [pc EXCEPT ![c] = "done"] /\ pc[c] # "write"
        /\ \/ UNCHANGED <<files, removed>>
           \/ /\ files' = [files EXCEPT ![path[c]] = "none"]
              /\ removed' = removed \cup {path[c]}
    BY <1>12 DEF K!Remove, K!Go, K!GoFailed, K!Write
  <2> QED
    BY <2>1
<1>13. ASSUME K!Crash
       PROVE  BacFiles'
  <2>1. /\ UNCHANGED <<files, path, removed, shared, backup>> /\ troubles' # 0
        /\ \A d \in Calls : pc'[d] = "completed" => pc[d] = "completed"
    BY <1>13 DEF K!Crash, K!CrashCalls, K!backupVars
  <2> QED
    BY <1>4, <2>1
<1>14. ASSUME UNCHANGED K!vars
       PROVE  BacFiles'
  BY <1>4, <1>14 DEF K!vars
<1>15. BacFiles'
  BY <1>5, <1>6, <1>7, <1>8, <1>9, <1>10, <1>11, <1>12, <1>13, <1>14 DEF K!Next, K!Start, K!Step
<1> QED
  BY <1>1, <1>15 DEF BacInv

(* Module Backups, for any number of backups, restores and deletions: with *)
(* services/backup_manager.go a backup that is listed as completed has its *)
(* file, until the panel removes it, and a whole one, unless scripts of one*)
(* second were at it side by side or one of them failed.                   *)
THEOREM BackupsCorrect ==
  K!Spec => [](K!BackupsTypeOK /\ K!CompletedHasFile)
<1>1. K!Spec => []BacInv
  BY BacInit, BacInvStep, PTL DEF K!Spec
<1>2. BacInv => K!BackupsTypeOK /\ K!CompletedHasFile
  BY DEF BacInv, BacFiles, Has, Untouched, K!CompletedHasFile
<1> QED
  BY <1>1, <1>2, PTL

(***************************************************************************)
(* Kubernetes                                                              *)
(***************************************************************************)
(* What a call may be at, by what it does.                                 *)
KubWhere ==
  \A c \in Calls :
    /\ pc[c] = "write" => op[c] \in {"scale", "restart", "suspend"}
    /\ pc[c] = "get" => op[c] \in {"scale", "restart", "suspend", "trigger"}
    /\ pc[c] = "client" => op[c] \in {"scale", "restart", "suspend", "trigger", "delete"}

(* An object of the version that was read is the object that was read: its *)
(* versions only grow, but for the deletion.                               *)
KubRead ==
  \A c \in Calls : pc[c] = "write" =>
    /\ object[c].version > 0
    /\ Q!Exists(kind[c]) => object[c].version <= objs[kind[c]].version
    /\ Q!Current(c) => object[c] = objs[kind[c]]

KubInv == Q!KubernetesTypeOK /\ KubWhere /\ KubRead /\ Q!ChangeSticks

(* What objects are made of, and what is made of them.                     *)
LEMMA KubFields ==
  /\ \A f \in Q!FieldValues :
       f.spec \in Desired /\ f.restarted \in Calls \cup {NoCall} /\ f = Q!Fields(f.spec, f.restarted)
  /\ \A v \in Desired, r \in Calls \cup {NoCall} : Q!Fields(v, r) \in Q!FieldValues
  /\ \A v, r : Q!Fields(v, r).spec = v /\ Q!Fields(v, r).restarted = r
BY DEF Q!FieldValues, Q!Fields

LEMMA KubObjects ==
  /\ \A o \in Q!Objects :
       o.version \in Nat /\ o.spec \in Desired /\ o.restarted \in Calls \cup {NoCall}
  /\ \A n \in Nat : \A f \in Q!FieldValues :
       /\ Q!Object(n, f) \in Q!Objects
       /\ Q!Object(n, f).version = n /\ Q!Fields(Q!Object(n, f).spec, Q!Object(n, f).restarted) = f
<1>1. \A o \in Q!Objects :
        o.version \in Nat /\ o.spec \in Desired /\ o.restarted \in Calls \cup {NoCall}
  BY DEF Q!Objects
<1>2. ASSUME NEW n \in Nat, NEW f \in Q!FieldValues
      PROVE  /\ Q!Object(n, f) \in Q!Objects
             /\ Q!Object(n, f).version = n
             /\ Q!Object(n, f).spec = f.spec /\ Q!Object(n, f).restarted = f.restarted
  BY KubFields DEF Q!Objects, Q!Object
<1> QED
  BY <1>1, <1>2, KubFields

(* A cluster starts with objects nobody has touched.                       *)
LEMMA KubInit ==
  ASSUME Q!Init
  PROVE  KubInv
<1>1. Q!CallsTypeOK(Q!Ops, Q!Labels) /\ \A c \in Calls : pc[c] = "idle"
  <2>1. Q!CallsInit
    BY DEF Q!Init
  <2> QED
    BY <2>1, CallsAssumption DEF Q!CallsInit, Q!CallsTypeOK
<1>2. PICK v \in Desired :
        /\ objs = [k \in Q!Kinds |-> Q!Object(1, Q!Fields(v, NoCall))]
        /\ wanted = [k \in Q!Kinds |-> Q!Fields(v, NoCall)]
  BY DEF Q!Init
<1>3. (CHOOSE d \in Desired : TRUE) \in Desired
  BY <1>2
<1>4. /\ Q!Object(1, Q!Fields(v, NoCall)) \in Q!Objects
      /\ Q!Gone \in Q!Objects /\ Q!Fields(v, NoCall) \in Q!FieldValues
  BY <1>3, KubFields, KubObjects DEF Q!Gone
<1>5. objs \in [Q!Kinds -> Q!Objects] /\ wanted \in [Q!Kinds -> Q!FieldValues]
  BY <1>2, <1>4
<1>6. /\ cluster = "absent" /\ kind = [c \in Calls |-> "deployment"] /\ jobs = {}
      /\ value = [c \in Calls |-> CHOOSE d \in Desired : TRUE]
      /\ object = [c \in Calls |-> Q!Gone]
  BY DEF Q!Init
<1>7. Q!KubernetesTypeOK
  BY <1>1, <1>3, <1>4, <1>5, <1>6 DEF Q!KubernetesTypeOK, Q!Kinds
<1>8. KubWhere /\ KubRead
  BY <1>1 DEF KubWhere, KubRead
<1>9. Q!ChangeSticks
  BY <1>2, <1>4, KubObjects DEF Q!ChangeSticks
<1> QED
  BY <1>7, <1>8, <1>9 DEF KubInv

(* What is done of a call at each step, of what does not touch objects.    *)
LEMMA KubWhereStep ==
  ASSUME Q!CallsTypeOK(Q!Ops, Q!Labels), KubWhere, [Q!Next]_(Q!vars)
  PROVE  Q!CallsTypeOK(Q!Ops, Q!Labels)' /\ KubWhere'
<1> DEFINE Goal == Q!CallsTypeOK(Q!Ops, Q!Labels)' /\ KubWhere'
<1> USE CallsAssumption
    DEF Q!CallsTypeOK, Q!Ops, Q!Labels, KubWhere, Q!Begin, Q!Go, Q!GoFailed
<1>1. ASSUME NEW c \in Calls, Q!RemoveCluster(c)
      PROVE  Goal
  BY <1>1 DEF Q!RemoveCluster
<1>2. ASSUME NEW c \in Calls, NEW o \in {"scale", "restart", "suspend", "trigger", "delete"},
             Q!Begin(c, o, "client")
      PROVE  Goal
  BY <1>2
<1>3. ASSUME NEW c \in Calls, Q!ScaleDeployment(c) \/ Q!SuspendCronJob(c) \/ Q!RestartDeployment(c)
                                \/ Q!TriggerCronJob(c) \/ \E k \in Q!Kinds : Q!DeleteObject(c, k)
      PROVE  Goal
  <2>1. \E o \in {"scale", "restart", "suspend", "trigger", "delete"} : Q!Begin(c, o, "client")
    BY <1>3 DEF Q!ScaleDeployment, Q!SuspendCronJob, Q!RestartDeployment, Q!TriggerCronJob,
                Q!DeleteObject, Q!Ask
  <2> QED
    BY <1>2, <2>1
<1>4. ASSUME NEW c \in Calls, Q!ClientFor(c)
      PROVE  Goal
  BY <1>4 DEF Q!ClientFor
<1>5. ASSUME NEW c \in Calls, Q!Get(c)
      PROVE  Goal
  BY <1>5 DEF Q!Get
<1>6. ASSUME NEW c \in Calls, Q!Write(c)
      PROVE  Goal
  <2>1. \/ Q!Go(c, "write", "done")
        \/ Q!GoFailed(c, "write", "done")
    BY <1>6 DEF Q!Write
  <2> QED
    BY <2>1
<1>7. ASSUME NEW c \in Calls, Q!CreateJob(c)
      PROVE  Goal
  <2>1. Q!Go(c, "post", "done") \/ Q!GoFailed(c, "post", "done")
    BY <1>7 DEF Q!CreateJob
  <2> QED
    BY <2>1
<1>8. ASSUME NEW c \in Calls, Q!Erase(c)
      PROVE  Goal
  <2>1. Q!Go(c, "erase", "done") \/ Q!GoFailed(c, "erase", "done")
    BY <1>8 DEF Q!Erase
  <2> QED
    BY <2>1
<1>9. ASSUME Q!Environment
      PROVE  Goal
  <2>1. UNCHANGED <<op, pc, clash, crashed, troubles, lost>>
    BY <1>9 DEF Q!Environment, Q!AddCluster, Q!Controllers, Q!callVars
  <2> QED
    BY <2>1
<1>10. ASSUME Q!Crash
       PROVE  Goal
  BY <1>10 DEF Q!Crash, Q!CrashCalls, Q!Live
<1>11. ASSUME UNCHANGED Q!vars
       PROVE  Goal
  BY <1>11 DEF Q!vars
<1> QED
  BY <1>1, <1>3, <1>4, <1>5, <1>6, <1>7, <1>8, <1>9, <1>10, <1>11 DEF Q!Next, Q!Start, Q!Step

(* A change of an object, a panel's or a controller's, that is accepted    *)
(* gives it a version nobody has read.                                     *)
LEMMA KubTouch ==
  ASSUME Q!KubernetesTypeOK, KubRead, Q!ChangeSticks,
         NEW k \in Q!Kinds, NEW f \in Q!FieldValues, Q!Exists(k),
         objs' = [objs EXCEPT ![k] = Q!Object(objs[k].version + 1, f)],
         wanted' = [wanted EXCEPT ![k] = f],
         kind' = kind, object' = object,
         \A d \in Calls : pc'[d] = "write" => pc[d] = "write"
  PROVE  /\ objs' \in [Q!Kinds -> Q!Objects] /\ wanted' \in [Q!Kinds -> Q!FieldValues]
         /\ KubRead' /\ Q!ChangeSticks'
<1>1. /\ objs \in [Q!Kinds -> Q!Objects] /\ wanted \in [Q!Kinds -> Q!FieldValues]
      /\ kind \in [Calls -> Q!Kinds]
  BY DEF Q!KubernetesTypeOK
<1>2. objs[k].version \in Nat /\ objs[k].version > 0
  BY <1>1, KubObjects DEF Q!Exists
<1> DEFINE new == Q!Object(objs[k].version + 1, f)
<1>3. /\ new \in Q!Objects
      /\ new.version = objs[k].version + 1 /\ Q!Fields(new.spec, new.restarted) = f
  <2>1. objs[k].version + 1 \in Nat
    BY <1>2
  <2> QED
    BY <2>1, KubObjects
<1> HIDE DEF new
<1>4. objs' = [objs EXCEPT ![k] = new]
  BY DEF new
<1>5. objs' \in [Q!Kinds -> Q!Objects] /\ wanted' \in [Q!Kinds -> Q!FieldValues]
  BY <1>1, <1>3, <1>4
<1>6. ASSUME NEW d \in Calls, pc'[d] = "write"
      PROVE  /\ object[d].version > 0
             /\ Q!Exists(kind[d])' => object[d].version <= objs'[kind[d]].version
             /\ objs'[kind[d]].version = object[d].version => object[d] = objs'[kind[d]]
  <2>1. /\ object[d].version > 0
        /\ Q!Exists(kind[d]) => object[d].version <= objs[kind[d]].version
        /\ Q!Current(d) => object[d] = objs[kind[d]]
    BY <1>6 DEF KubRead
  <2>2. CASE kind[d] # k
    <3>1. objs'[kind[d]] = objs[kind[d]]
      BY <1>1, <1>4, <2>2
    <3> QED
      BY <2>1, <3>1 DEF Q!Exists, Q!Current
  <2>3. CASE kind[d] = k
    <3>1. objs'[kind[d]].version = objs[k].version + 1
      BY <1>1, <1>3, <1>4, <2>3
    <3>2. object[d].version \in Nat /\ object[d].version <= objs[k].version
      BY <2>1, <2>3, KubObjects DEF Q!KubernetesTypeOK
    <3> QED
      BY <1>2, <2>1, <3>1, <3>2
  <2> QED
    BY <2>2, <2>3
<1>7. KubRead'
  BY <1>6 DEF KubRead, Q!Current
<1>8. ASSUME NEW l \in Q!Kinds, Q!Exists(l)'
      PROVE  Q!Fields(objs'[l].spec, objs'[l].restarted) = wanted'[l]
  <2>1. CASE l = k
    BY <1>1, <1>3, <1>4, <2>1
  <2>2. CASE l # k
    <3>1. objs'[l] = objs[l] /\ wanted'[l] = wanted[l]
      BY <1>1, <1>4, <2>2
    <3> QED
      BY <1>8, <3>1 DEF Q!ChangeSticks, Q!Exists
  <2> QED
    BY <2>1, <2>2
<1>9. Q!ChangeSticks'
  BY <1>8 DEF Q!ChangeSticks
<1> QED
  BY <1>5, <1>7, <1>9

(* What a call writes back changes one field.                              *)
LEMMA KubWrite ==
  ASSUME KubInv, NEW c \in Calls, pc[c] = "write", Q!Current(c), Q!Written(c)
  PROVE  /\ Q!Exists(kind[c])
         /\ \E f \in Q!FieldValues :
              /\ objs' = [objs EXCEPT ![kind[c]] = Q!Object(objs[kind[c]].version + 1, f)]
              /\ wanted' = [wanted EXCEPT ![kind[c]] = f]
<1> DEFINE k == kind[c]
           o == objs[k]
           w == wanted[k]
<1>1. /\ objs \in [Q!Kinds -> Q!Objects] /\ wanted \in [Q!Kinds -> Q!FieldValues]
      /\ k \in Q!Kinds /\ value[c] \in Desired
  BY DEF KubInv, Q!KubernetesTypeOK
<1>2. o \in Q!Objects /\ w \in Q!FieldValues
  BY <1>1
<1>3. object[c] = o /\ o.version > 0 /\ op[c] \in {"scale", "restart", "suspend"}
  BY DEF KubInv, KubRead, KubWhere, Q!Current
<1>4. Q!Exists(k)
  BY <1>3 DEF Q!Exists
<1>5. w = Q!Fields(o.spec, o.restarted)
  BY <1>1, <1>4 DEF KubInv, Q!ChangeSticks
<1>6. /\ o.spec \in Desired /\ o.restarted \in Calls \cup {NoCall}
      /\ w.spec = o.spec /\ w.restarted = o.restarted
  BY <1>2, <1>5, KubObjects, KubFields
<1> DEFINE f == Q!Edited(c)
<1>7. f = IF op[c] = "restart" THEN Q!Fields(o.spec, c) ELSE Q!Fields(value[c], o.restarted)
  BY <1>3 DEF Q!Edited
<1>8. f \in Q!FieldValues
  BY <1>1, <1>6, <1>7, KubFields
<1>9. objs' = [objs EXCEPT ![k] = Q!Object(o.version + 1, f)]
  BY DEF Q!Written
<1>10. wanted' = [wanted EXCEPT ![k] = IF op[c] = "restart" THEN Q!Fields(w.spec, c)
                                       ELSE Q!Fields(value[c], w.restarted)]
  BY DEF Q!Written
<1> QED
  BY <1>4, <1>6, <1>7, <1>8, <1>9, <1>10

(* Every step preserves the invariant.                                     *)
LEMMA KubInvStep ==
  ASSUME KubInv, [Q!Next]_(Q!vars)
  PROVE  KubInv'
<1>1. Q!CallsTypeOK(Q!Ops, Q!Labels)' /\ KubWhere'
  BY KubWhereStep DEF KubInv, Q!KubernetesTypeOK
<1> DEFINE Types == /\ cluster \in {"absent", "listed"} /\ objs \in [Q!Kinds -> Q!Objects]
                    /\ kind \in [Calls -> Q!Kinds] /\ value \in [Calls -> Desired]
                    /\ object \in [Calls -> Q!Objects]
                    /\ jobs \subseteq Calls /\ wanted \in [Q!Kinds -> Q!FieldValues]
           Rest == Types /\ KubRead /\ Q!ChangeSticks
<1>2. pc \in [Calls -> {"idle", "done"} \cup Q!Labels]
  BY DEF KubInv, Q!KubernetesTypeOK, Q!CallsTypeOK
<1>3. Q!KubernetesTypeOK /\ Types /\ KubRead /\ Q!ChangeSticks
  BY DEF KubInv, Q!KubernetesTypeOK
(* Steps that neither read nor touch an object.                            *)
<1>4. ASSUME Types', objs' = objs, wanted' = wanted, object' = object,
             \A d \in Calls : pc'[d] = "write" => pc[d] = "write" /\ kind'[d] = kind[d]
      PROVE  Rest'
  <2>1. KubRead'
    BY <1>3, <1>4 DEF KubRead, Q!Exists, Q!Current
  <2>2. Q!ChangeSticks'
    BY <1>3, <1>4 DEF Q!ChangeSticks, Q!Exists
  <2> QED
    BY <1>4, <2>1, <2>2
<1>5. ASSUME NEW c \in Calls, Q!RemoveCluster(c)
      PROVE  Rest'
  <2>1. /\ cluster' = "absent" /\ UNCHANGED <<objs, kind, value, object, jobs, wanted>>
        /\ pc' = [pc EXCEPT ![c] = "done"]
    BY <1>5 DEF Q!RemoveCluster, Q!Begin
  <2>2. Types'
    BY <1>3, <2>1
  <2> QED
    BY <1>2, <1>4, <2>1, <2>2
<1>6. ASSUME NEW c \in Calls, NEW k \in Q!Kinds, NEW o, Q!Ask(c, o, k),
             value' \in [Calls -> Desired]
      PROVE  Rest'
  <2>1. /\ UNCHANGED <<cluster, objs, object, jobs, wanted>>
        /\ kind' = [kind EXCEPT ![c] = k] /\ pc' = [pc EXCEPT ![c] = "client"]
    BY <1>6 DEF Q!Ask, Q!Begin
  <2>2. Types'
    BY <1>3, <1>6, <2>1
  <2> QED
    BY <1>2, <1>3, <1>4, <2>1, <2>2
<1>7. ASSUME NEW c \in Calls, Q!ScaleDeployment(c) \/ Q!SuspendCronJob(c) \/ Q!RestartDeployment(c)
                                \/ Q!TriggerCronJob(c) \/ \E k \in Q!Kinds : Q!DeleteObject(c, k)
      PROVE  Rest'
  <2>1. value' \in [Calls -> Desired]
    BY <1>3, <1>7 DEF Q!ScaleDeployment, Q!SuspendCronJob, Q!RestartDeployment,
                      Q!TriggerCronJob, Q!DeleteObject
  <2>2. \E o \in Q!Ops, k \in Q!Kinds : Q!Ask(c, o, k)
    BY <1>7 DEF Q!ScaleDeployment, Q!SuspendCronJob, Q!RestartDeployment,
                Q!TriggerCronJob, Q!DeleteObject, Q!Ops, Q!Kinds
  <2> QED
    BY <1>6, <2>1, <2>2
<1>8. ASSUME NEW c \in Calls, Q!ClientFor(c)
      PROVE  Rest'
  <2>1. UNCHANGED <<cluster, objs, kind, value, object, jobs, wanted>>
    BY <1>8 DEF Q!ClientFor, Q!kubeVars
  <2>2. \A d \in Calls : pc'[d] = "write" => pc[d] = "write"
    BY <1>2, <1>8 DEF Q!ClientFor, Q!Go, Q!GoFailed
  <2>3. Types'
    BY <1>3, <2>1
  <2> QED
    BY <1>4, <2>1, <2>2, <2>3
<1>9. ASSUME NEW c \in Calls, Q!Get(c)
      PROVE  Rest'
  <2>1. /\ UNCHANGED <<cluster, objs, kind, value, jobs, wanted>>
        /\ \/ /\ Q!Exists(kind[c]) /\ object' = [object EXCEPT ![c] = objs[kind[c]]]
              /\ \A d \in Calls \ {c} : pc'[d] = pc[d]
           \/ object' = object /\ pc' = [pc EXCEPT ![c] = "done"]
    <3>1. CASE /\ Q!Exists(kind[c])
               /\ Q!Go(c, "get", IF op[c] = "trigger" THEN "post" ELSE "write")
               /\ object' = [object EXCEPT ![c] = objs[kind[c]]]
      <4>1. \A d \in Calls \ {c} : pc'[d] = pc[d]
        BY <1>2, <3>1 DEF Q!Go
      <4> QED
        BY <1>9, <3>1, <4>1 DEF Q!Get
    <3>2. CASE object' = object /\ (Q!Go(c, "get", "done") \/ Q!GoFailed(c, "get", "done"))
      BY <1>9, <3>2 DEF Q!Get, Q!Go, Q!GoFailed
    <3> QED
      BY <1>9, <3>1, <3>2 DEF Q!Get
  <2>2. CASE object' = object /\ pc' = [pc EXCEPT ![c] = "done"]
    <3>1. Types'
      BY <1>3, <2>1, <2>2
    <3> QED
      BY <1>2, <1>4, <2>1, <2>2, <3>1
  <2>3. CASE /\ Q!Exists(kind[c]) /\ object' = [object EXCEPT ![c] = objs[kind[c]]]
             /\ \A d \in Calls \ {c} : pc'[d] = pc[d]
    <3>1. objs[kind[c]] \in Q!Objects
      BY <1>3
    <3>2. Types'
      BY <1>3, <2>1, <2>3, <3>1
    <3>3. ASSUME NEW d \in Calls \ {c}, pc'[d] = "write"
          PROVE  /\ object'[d].version > 0
                 /\ Q!Exists(kind[d])' => object'[d].version <= objs'[kind'[d]].version
                 /\ Q!Current(d)' => object'[d] = objs'[kind'[d]]
      <4>1. object'[d] = object[d] /\ pc[d] = "write"
        BY <1>3, <2>3, <3>3
      <4> QED
        BY <1>3, <2>1, <4>1 DEF KubRead, Q!Exists, Q!Current
    <3>4. object'[c] = objs[kind[c]] /\ objs[kind[c]].version \in Nat
      BY <1>3, <2>3, <3>1, KubObjects
    <3>5. /\ object'[c].version > 0
          /\ object'[c].version <= objs'[kind'[c]].version
          /\ object'[c] = objs'[kind'[c]]
      BY <2>1, <2>3, <3>4 DEF Q!Exists
    <3>6. KubRead'
      BY <3>3, <3>5 DEF KubRead
    <3>7. Q!ChangeSticks'
      BY <1>3, <2>1 DEF Q!ChangeSticks, Q!Exists
    <3> QED
      BY <3>2, <3>6, <3>7
  <2> QED
    BY <2>1, <2>2, <2>3
<1>10. ASSUME NEW c \in Calls, Q!Write(c)
       PROVE  Rest'
  <2>1. /\ UNCHANGED <<cluster, kind, value, object, jobs>>
        /\ pc[c] = "write" /\ pc' = [pc EXCEPT ![c] = "done"]
        /\ \/ Q!Current(c) /\ Q!Written(c)
           \/ UNCHANGED <<objs, wanted>>
    BY <1>10 DEF Q!Write, Q!Go, Q!GoFailed
  <2>2. \A d \in Calls : pc'[d] = "write" => pc[d] = "write"
    BY <1>2, <2>1
  <2>3. CASE UNCHANGED <<objs, wanted>>
    <3>1. Types'
      BY <1>3, <2>1, <2>3
    <3> QED
      BY <1>4, <2>1, <2>2, <2>3, <3>1
  <2>4. CASE Q!Current(c) /\ Q!Written(c)
    <3>1. kind[c] \in Q!Kinds
      BY <1>3
    <3>2. PICK f \in Q!FieldValues :
            /\ objs' = [objs EXCEPT ![kind[c]] = Q!Object(objs[kind[c]].version + 1, f)]
            /\ wanted' = [wanted EXCEPT ![kind[c]] = f]
      BY <2>1, <2>4, KubWrite
    <3>3. Q!Exists(kind[c])
      BY <2>1, <2>4, KubWrite
    <3>4. /\ objs' \in [Q!Kinds -> Q!Objects] /\ wanted' \in [Q!Kinds -> Q!FieldValues]
          /\ KubRead' /\ Q!ChangeSticks'
      BY <1>3, <2>1, <2>2, <3>1, <3>2, <3>3, KubTouch
    <3> QED
      BY <1>3, <2>1, <3>4
  <2> QED
    BY <2>1, <2>3, <2>4
<1>11. ASSUME NEW c \in Calls, Q!CreateJob(c)
       PROVE  Rest'
  <2>1. /\ UNCHANGED <<cluster, objs, kind, value, object, wanted>>
        /\ pc' = [pc EXCEPT ![c] = "done"] /\ jobs' \subseteq jobs \cup {c}
    BY <1>11 DEF Q!CreateJob, Q!Go, Q!GoFailed
  <2>2. Types'
    BY <1>3, <2>1
  <2> QED
    BY <1>2, <1>4, <2>1, <2>2
<1>12. ASSUME NEW c \in Calls, Q!Erase(c)
       PROVE  Rest'
  <2>1. /\ UNCHANGED <<cluster, kind, value, object, jobs, wanted>>
        /\ pc' = [pc EXCEPT ![c] = "done"]
        /\ objs' = objs \/ objs' = [objs EXCEPT ![kind[c]] = Q!Gone]
    BY <1>12 DEF Q!Erase, Q!Go, Q!GoFailed
  <2>2. CASE objs' = objs
    <3>1. Types'
      BY <1>3, <2>1, <2>2
    <3> QED
      BY <1>2, <1>4, <2>1, <2>2, <3>1
  <2>3. CASE objs' = [objs EXCEPT ![kind[c]] = Q!Gone]
    <3>1. objs[kind[c]].spec \in Desired
      BY <1>3, KubObjects
    <3>2. Q!Gone \in Q!Objects /\ Q!Gone.version = 0
      <4>1. (CHOOSE v \in Desired : TRUE) \in Desired
        BY <3>1
      <4>2. Q!Fields(CHOOSE v \in Desired : TRUE, NoCall) \in Q!FieldValues
        BY <4>1, KubFields
      <4> QED
        BY <4>2, KubObjects DEF Q!Gone
    <3>3. objs' \in [Q!Kinds -> Q!Objects]
      BY <1>3, <2>3, <3>2
    <3>4. \A k \in Q!Kinds : Q!Exists(k)' => objs'[k] = objs[k] /\ Q!Exists(k)
      BY <1>3, <2>3, <3>2 DEF Q!Exists
    <3>5. Q!ChangeSticks'
      BY <1>3, <2>1, <3>4 DEF Q!ChangeSticks
    <3>6. ASSUME NEW d \in Calls, pc'[d] = "write"
          PROVE  /\ object[d].version > 0
                 /\ Q!Exists(kind[d])' => object[d].version <= objs'[kind[d]].version
                 /\ objs'[kind[d]].version = object[d].version => object[d] = objs'[kind[d]]
      <4>1. /\ object[d].version > 0
            /\ Q!Exists(kind[d]) => object[d].version <= objs[kind[d]].version
            /\ Q!Current(d) => object[d] = objs[kind[d]]
        BY <1>2, <1>3, <2>1, <3>6 DEF KubRead
      <4>2. kind[d] \in Q!Kinds /\ kind'[d] = kind[d]
        BY <1>3, <2>1
      <4>3. CASE objs'[kind[d]] = objs[kind[d]]
        BY <4>1, <4>2, <4>3 DEF Q!Exists, Q!Current
      <4>4. CASE objs'[kind[d]].version = 0
        BY <4>1, <4>2, <4>4 DEF Q!Exists
      <4> QED
        BY <1>3, <2>3, <3>2, <4>2, <4>3, <4>4
    <3>7. KubRead'
      BY <2>1, <3>6 DEF KubRead, Q!Current
    <3> QED
      BY <1>3, <2>1, <3>3, <3>5, <3>7
  <2> QED
    BY <2>1, <2>2, <2>3
<1>13. ASSUME Q!AddCluster
       PROVE  Rest'
  <2>1. cluster' = "listed" /\ UNCHANGED <<pc, objs, kind, value, object, jobs, wanted>>
    BY <1>13 DEF Q!AddCluster, Q!callVars
  <2>2. Types'
    BY <1>3, <2>1
  <2> QED
    BY <1>4, <2>1, <2>2
<1>14. ASSUME Q!Controllers
       PROVE  Rest'
  <2>1. PICK k \in Q!Kinds, v \in Desired :
          /\ Q!Exists(k)
          /\ objs' = [objs EXCEPT ![k] = Q!Object(objs[k].version + 1, Q!Fields(v, objs[k].restarted))]
          /\ wanted' = [wanted EXCEPT ![k] = Q!Fields(v, wanted[k].restarted)]
    BY <1>14 DEF Q!Controllers
  <2>2. UNCHANGED <<pc, cluster, kind, value, object, jobs>>
    BY <1>14 DEF Q!Controllers, Q!callVars
  <2>3. /\ objs[k].restarted \in Calls \cup {NoCall}
        /\ wanted[k] = Q!Fields(objs[k].spec, objs[k].restarted)
    BY <1>3, <2>1, KubObjects DEF Q!ChangeSticks
  <2>4. wanted[k].restarted = objs[k].restarted
    BY <2>3, KubFields
  <2>5. Q!Fields(v, objs[k].restarted) \in Q!FieldValues
    BY <2>3, KubFields
  <2>6. /\ objs' \in [Q!Kinds -> Q!Objects] /\ wanted' \in [Q!Kinds -> Q!FieldValues]
        /\ KubRead' /\ Q!ChangeSticks'
    BY <1>3, <2>1, <2>2, <2>4, <2>5, KubTouch
  <2> QED
    BY <1>3, <2>2, <2>6
<1>15. ASSUME Q!Crash
       PROVE  Rest'
  <2>1. UNCHANGED <<cluster, objs, kind, value, object, jobs, wanted>>
    BY <1>15 DEF Q!Crash, Q!kubeVars
  <2>2. \A d \in Calls : pc'[d] = "write" => pc[d] = "write"
    BY <1>15 DEF Q!Crash, Q!CrashCalls
  <2>3. Types'
    BY <1>3, <2>1
  <2> QED
    BY <1>4, <2>1, <2>2, <2>3
<1>16. ASSUME UNCHANGED Q!vars
       PROVE  Rest'
  <2>1. UNCHANGED <<pc, cluster, objs, kind, value, object, jobs, wanted>>
    BY <1>16 DEF Q!vars
  <2>2. Types'
    BY <1>3, <2>1
  <2> QED
    BY <1>4, <2>1, <2>2
<1>17. Rest'
  <2>1. CASE \E c \in Calls : Q!Start(c)
    BY <2>1, <1>5, <1>7 DEF Q!Start
  <2>2. CASE \E c \in Calls : Q!Step(c)
    BY <2>2, <1>8, <1>9, <1>10, <1>11, <1>12 DEF Q!Step
  <2> QED
    BY <2>1, <2>2, <1>13, <1>14, <1>15, <1>16 DEF Q!Next, Q!Environment
<1> QED
  BY <1>1, <1>17 DEF KubInv, Q!KubernetesTypeOK

(* Module Kubernetes, for any number of requests and any number of changes *)
(* by controllers: no change that services/k8s_service.go makes undoes     *)
(* another one.                                                            *)
THEOREM KubernetesCorrect ==
  Q!Spec => [](Q!KubernetesTypeOK /\ Q!ChangeSticks)
<1>1. Q!Spec => []KubInv
  BY KubInit, KubInvStep, PTL DEF Q!Spec
<1>2. KubInv => Q!KubernetesTypeOK /\ Q!ChangeSticks
  BY DEF KubInv
<1> QED
  BY <1>1, <1>2, PTL

(***************************************************************************)
(* Containers                                                              *)
(***************************************************************************)
(* What a call may be at, by what it does; it has no answer before its     *)
(* end, and no container before the daemon has made one.                   *)
BoxAt ==
  \A c \in Calls :
    /\ pc[c] \in {"create", "launch"} => op[c] = "create"
    /\ pc[c] = "copy" => op[c] = "duplicate"
    /\ pc[c] \in {"containers", "networks"} => op[c] = "prune"
    /\ pc[c] # "done" => answer[c] = "none"
    /\ pc[c] \notin {"launch", "done"} => state[c] = "none"

(* Two containers have two names.                                          *)
BoxNames ==
  \A k, l \in Calls : X!There(k) /\ X!There(l) /\ name[k] = name[l] => k = l

(* What is no longer just created has run, and so has what a request that  *)
(* creates and starts a container has reported; one that never ran was not *)
(* reported as started.                                                    *)
BoxRan ==
  \A k \in Calls :
    /\ state[k] \in {"running", "paused", "exited"} => k \in launched
    /\ op[k] = "create" /\ answer[k] = "ok" => k \in launched
    /\ state[k] = "created" /\ pc[k] = "done" =>
         origin[k] = "duplicate" \/ answer[k] = "error" \/ crashed = "yes"

BoxRest == BoxAt /\ BoxNames /\ BoxRan
BoxInv  == X!ContainersTypeOK /\ BoxRest

(* There is no container at the start.                                     *)
LEMMA BoxInit ==
  ASSUME X!Init
  PROVE  BoxInv
<1> USE CallsAssumption DEF X!Init, X!CallsInit
<1>1. X!ContainersTypeOK
  <2>1. X!CallsTypeOK(X!Ops, X!Labels)
    BY DEF X!CallsTypeOK
  <2> QED
    BY <2>1 DEF X!ContainersTypeOK, X!States
<1>2. BoxRest
  BY DEF BoxRest, BoxAt, BoxNames, BoxRan, X!There
<1> QED
  BY <1>1, <1>2 DEF BoxInv

(* The types.                                                              *)
LEMMA BoxTypes ==
  ASSUME X!ContainersTypeOK, [X!Next]_(X!vars)
  PROVE  X!ContainersTypeOK'
<1> DEFINE Goal == X!ContainersTypeOK'
<1> USE CallsAssumption
    DEF X!ContainersTypeOK, X!CallsTypeOK, X!Ops, X!Labels, X!States, X!Begin, X!Go, X!GoFailed,
        X!containerVars, X!boxVars, X!otherVars, X!Answer, X!Becomes, X!Launched
<1>1. ASSUME NEW c \in Calls, X!Create(c)
      PROVE  Goal
  BY <1>1 DEF X!Create
<1>2. ASSUME NEW c \in Calls, X!Duplicate(c)
      PROVE  Goal
  BY <1>2 DEF X!Duplicate
<1>3. ASSUME NEW c \in Calls, X!Prune(c) \/ X!DeployStack(c) \/ X!RemoveStack(c)
      PROVE  Goal
  BY <1>3 DEF X!Prune, X!DeployStack, X!RemoveStack
<1>4. ASSUME NEW c \in Calls, X!AddImage(c) \/ X!RemoveImage(c) \/ X!ChangeNetwork(c)
      PROVE  Goal
  BY <1>4 DEF X!AddImage, X!RemoveImage, X!ChangeNetwork
<1>5. ASSUME NEW c \in Calls, NEW k \in Calls, X!StartContainer(c, k)
      PROVE  Goal
  BY <1>5 DEF X!StartContainer
<1>6. ASSUME NEW c \in Calls, NEW k \in Calls, NEW o \in X!Ops, NEW from, NEW to \in X!States,
             X!Turns(c, o, k, from, to)
      PROVE  Goal
  BY <1>6 DEF X!Turns
<1>7. ASSUME NEW c \in Calls, NEW k \in Calls, X!StopContainer(c, k) \/ X!PauseContainer(c, k)
                \/ X!UnpauseContainer(c, k) \/ X!RemoveContainer(c, k)
      PROVE  Goal
  BY <1>6, <1>7 DEF X!StopContainer, X!PauseContainer, X!UnpauseContainer, X!RemoveContainer
<1>8. ASSUME NEW c \in Calls, NEW k \in Calls, X!RenameContainer(c, k) \/ X!Connect(c, k)
      PROVE  Goal
  BY <1>8 DEF X!RenameContainer, X!Connect
<1>9. ASSUME NEW c \in Calls, X!ContainerCreate(c)
      PROVE  Goal
  BY <1>9 DEF X!ContainerCreate
<1>10. ASSUME NEW c \in Calls, X!ContainerStart(c)
       PROVE  Goal
  BY <1>10 DEF X!ContainerStart
<1>11. ASSUME NEW c \in Calls, X!Copy(c)
       PROVE  Goal
  BY <1>11 DEF X!Copy
<1>12. ASSUME NEW c \in Calls, X!PruneContainers(c)
       PROVE  Goal
  BY <1>12 DEF X!PruneContainers
<1>13. ASSUME NEW c \in Calls, X!PruneNetworks(c)
       PROVE  Goal
  BY <1>13 DEF X!PruneNetworks
<1>15. ASSUME X!Exits
       PROVE  Goal
  BY <1>15 DEF X!Exits, X!callVars
<1>16. ASSUME X!Crash
       PROVE  Goal
  BY <1>16 DEF X!Crash, X!CrashCalls
<1>17. ASSUME UNCHANGED X!vars
       PROVE  Goal
  BY <1>17 DEF X!vars
<1> HIDE DEF Goal
<1>18. ASSUME NEW c \in Calls, X!Start(c)
       PROVE  Goal
  BY <1>18, <1>1, <1>2, <1>3, <1>4, <1>5, <1>7, <1>8 DEF X!Start
<1>19. ASSUME NEW c \in Calls, X!Step(c)
       PROVE  Goal
  BY <1>19, <1>9, <1>10, <1>11, <1>12, <1>13 DEF X!Step
<1>20. Goal
  BY <1>18, <1>19, <1>15, <1>16, <1>17 DEF X!Next
<1> QED
  BY <1>20 DEF Goal

(* Every step preserves the rest of the invariant.                         *)
LEMMA BoxRestStep ==
  ASSUME X!ContainersTypeOK, BoxRest, [X!Next]_(X!vars)
  PROVE  BoxRest'
<1> DEFINE Goal == BoxRest'
<1>0. /\ pc \in [Calls -> {"idle", "done"} \cup X!Labels]
      /\ op \in [Calls -> {"none"} \cup X!Ops]
      /\ state \in [Calls -> X!States] /\ name \in [Calls -> Names \cup {"none"}]
      /\ origin \in [Calls -> {"none", "create", "duplicate"}]
      /\ answer \in [Calls -> {"none", "ok", "error"}]
      /\ troubles \in Nat
  BY CallsAssumption DEF X!ContainersTypeOK, X!CallsTypeOK
<1> USE <1>0 DEF BoxRest, BoxAt, BoxNames, BoxRan, X!There, X!InUse, X!Startable,
        X!Labels, X!Ops, X!States
(* Another call starts and ends, or starts.                                *)
<1>1. ASSUME NEW c \in Calls, X!Create(c)
      PROVE  Goal
  <2>1. /\ pc[c] = "idle" /\ pc' = [pc EXCEPT ![c] = "create"] /\ op' = [op EXCEPT ![c] = "create"]
        /\ \A k \in Calls \ {c} : name'[k] = name[k]
        /\ UNCHANGED <<state, origin, launched, answer, crashed, troubles>>
    BY <1>1 DEF X!Create, X!Begin, X!otherVars
  <2> QED
    BY <2>1
<1>2. ASSUME NEW c \in Calls, X!Duplicate(c)
      PROVE  Goal
  <2>1. /\ pc[c] = "idle" /\ pc' = [pc EXCEPT ![c] = "copy"] /\ op' = [op EXCEPT ![c] = "duplicate"]
        /\ \A k \in Calls \ {c} : name'[k] = name[k]
        /\ UNCHANGED <<state, origin, launched, answer, crashed, troubles>>
    BY <1>2 DEF X!Duplicate, X!Begin, X!otherVars
  <2> QED
    BY <2>1
<1>3. ASSUME NEW c \in Calls, X!Prune(c)
      PROVE  Goal
  <2>1. /\ pc[c] = "idle" /\ pc' = [pc EXCEPT ![c] = "containers"] /\ op' = [op EXCEPT ![c] = "prune"]
        /\ UNCHANGED <<name, state, origin, launched, answer, crashed, troubles>>
    BY <1>3 DEF X!Prune, X!Begin, X!containerVars
  <2> QED
    BY <2>1
(* One call to the daemon, of any request but those that create.           *)
<1>5. ASSUME NEW c \in Calls, NEW o \in X!Ops \ {"create"}, X!Begin(c, o, "done"),
             origin' = origin, launched \subseteq launched',
             \A k \in Calls \ {c} : answer'[k] = answer[k],
             \A k \in Calls : state[k] = "none" => state'[k] = "none",
             \A k \in Calls : state'[k] = "created" => state[k] = "created",
             \A k \in Calls : state'[k] \in {"running", "paused", "exited"} => k \in launched',
             BoxNames'
      PROVE  Goal
  <2>1. /\ pc[c] = "idle" /\ pc' = [pc EXCEPT ![c] = "done"] /\ op' = [op EXCEPT ![c] = o]
        /\ UNCHANGED <<crashed, troubles>>
    BY <1>5 DEF X!Begin
  <2>2. BoxAt'
    BY <1>5, <2>1
  <2>3. state[c] = "none"
    BY <2>1
  <2>4. BoxRan'
    BY <1>5, <2>1, <2>3
  <2> QED
    BY <1>5, <2>2, <2>4
<1>6. ASSUME NEW c \in Calls, NEW k \in Calls, NEW o \in X!Ops \ {"create"},
             NEW from \in SUBSET (X!States \ {"none"}), NEW to \in X!States,
             to # "created", to = "exited" => from \subseteq {"running", "paused"},
             to \in {"running", "paused"} => from \subseteq {"running", "paused"},
             X!Turns(c, o, k, from, to)
      PROVE  Goal
  <2>1. /\ X!Begin(c, o, "done")
        /\ UNCHANGED <<name, origin, launched>>
        /\ \A l \in Calls \ {c} : answer'[l] = answer[l]
        /\ state' = state \/ (state[k] \in from /\ state' = [state EXCEPT ![k] = to])
    BY <1>6 DEF X!Turns, X!otherVars, X!Answer, X!Becomes
  <2>2. \A l \in Calls : state[l] = "none" => state'[l] = "none"
    BY <1>6, <2>1
  <2>3. \A l \in Calls : state'[l] = "created" => state[l] = "created"
    BY <1>6, <2>1
  <2>4. \A l \in Calls : state'[l] \in {"running", "paused", "exited"} => l \in launched'
    BY <1>6, <2>1
  <2>5. BoxNames'
    BY <2>1, <2>2
  <2> QED
    BY <1>5, <2>1, <2>2, <2>3, <2>4, <2>5
<1>7. ASSUME NEW c \in Calls, NEW k \in Calls, X!StopContainer(c, k) \/ X!PauseContainer(c, k)
                \/ X!UnpauseContainer(c, k) \/ X!RemoveContainer(c, k)
      PROVE  Goal
  <2>1. CASE X!StopContainer(c, k)
    <3>1. X!Turns(c, "stop", k, {"running", "paused"}, "exited")
      BY <2>1 DEF X!StopContainer
    <3> QED
      BY <1>6, <3>1
  <2>2. CASE X!PauseContainer(c, k)
    <3>1. X!Turns(c, "pause", k, {"running"}, "paused")
      BY <2>2 DEF X!PauseContainer
    <3> QED
      BY <1>6, <3>1
  <2>3. CASE X!UnpauseContainer(c, k)
    <3>1. X!Turns(c, "unpause", k, {"paused"}, "running")
      BY <2>3 DEF X!UnpauseContainer
    <3> QED
      BY <1>6, <3>1
  <2>4. CASE X!RemoveContainer(c, k)
    <3>1. PICK from \in SUBSET (X!States \ {"none"}) : X!Turns(c, "remove", k, from, "none")
      BY <2>4 DEF X!RemoveContainer
    <3> QED
      BY <1>6, <3>1
  <2> QED
    BY <1>7, <2>1, <2>2, <2>3, <2>4
<1>8. ASSUME NEW c \in Calls, NEW k \in Calls, X!StartContainer(c, k)
      PROVE  Goal
  <2>1. /\ X!Begin(c, "start", "done") /\ UNCHANGED <<name, origin>>
        /\ \A l \in Calls \ {c} : answer'[l] = answer[l]
        /\ \/ UNCHANGED <<state, launched>>
           \/ /\ state[k] # "none" /\ state' = [state EXCEPT ![k] = "running"]
              /\ launched' = launched \cup {k}
    BY <1>8 DEF X!StartContainer, X!otherVars, X!Answer, X!Becomes, X!Launched
  <2>2. \A l \in Calls : state[l] = "none" => state'[l] = "none"
    BY <2>1
  <2>3. \A l \in Calls : state'[l] = "created" => state[l] = "created"
    BY <2>1
  <2>4. \A l \in Calls : state'[l] \in {"running", "paused", "exited"} => l \in launched'
    BY <2>1
  <2>5. BoxNames' /\ launched \subseteq launched'
    BY <2>1, <2>2
  <2> QED
    BY <1>5, <2>1, <2>2, <2>3, <2>4, <2>5
<1>9. ASSUME NEW c \in Calls, NEW k \in Calls, X!RenameContainer(c, k)
      PROVE  Goal
  <2>1. /\ X!Begin(c, "rename", "done") /\ UNCHANGED <<state, origin, launched>>
        /\ \A l \in Calls \ {c} : answer'[l] = answer[l]
        /\ \E n \in Names : name' = name \/ (~ X!InUse(n) /\ name' = [name EXCEPT ![k] = n])
    BY <1>9 DEF X!RenameContainer, X!otherVars, X!Answer
  <2>2. BoxNames'
    BY <2>1
  <2> QED
    BY <1>5, <2>1, <2>2
<1>10. ASSUME NEW c \in Calls, NEW o \in X!Ops \ {"create"}, X!Begin(c, o, "done"),
              UNCHANGED <<state, name, origin, launched>>,
              \A l \in Calls \ {c} : answer'[l] = answer[l]
       PROVE  Goal
  BY <1>5, <1>10
<1>11. ASSUME NEW c \in Calls, X!AddImage(c) \/ X!RemoveImage(c) \/ X!ChangeNetwork(c)
                 \/ X!DeployStack(c) \/ X!RemoveStack(c) \/ \E k \in Calls : X!Connect(c, k)
       PROVE  Goal
  <2>1. /\ UNCHANGED <<state, name, origin, launched>>
        /\ \A l \in Calls \ {c} : answer'[l] = answer[l]
    BY <1>11 DEF X!AddImage, X!RemoveImage, X!ChangeNetwork, X!DeployStack, X!RemoveStack,
                 X!Connect, X!boxVars, X!otherVars, X!Answer
  <2>2. \E o \in X!Ops \ {"create"} : X!Begin(c, o, "done")
    BY <1>11 DEF X!AddImage, X!RemoveImage, X!ChangeNetwork, X!DeployStack, X!RemoveStack,
                 X!Connect
  <2> QED
    BY <1>10, <2>1, <2>2
(* What follows the first call of a request.                               *)
<1>12. ASSUME NEW c \in Calls, X!ContainerCreate(c)
       PROVE  Goal
  <2>1. CASE /\ ~ X!InUse(name[c])
             /\ X!Go(c, "create", "launch") /\ X!Becomes(c, "created")
             /\ origin' = [origin EXCEPT ![c] = "create"] /\ answer' = answer
    <3>1. /\ pc[c] = "create" /\ pc' = [pc EXCEPT ![c] = "launch"]
          /\ state' = [state EXCEPT ![c] = "created"]
          /\ UNCHANGED <<op, name, launched, crashed, troubles>>
      BY <1>12, <2>1 DEF X!ContainerCreate, X!Go, X!Becomes, X!otherVars
    <3>2. BoxAt'
      BY <2>1, <3>1
    <3>3. BoxNames'
      BY <2>1, <3>1
    <3>4. BoxRan'
      BY <2>1, <3>1
    <3> QED
      BY <3>2, <3>3, <3>4
  <2>2. CASE X!Go(c, "create", "done") /\ X!Answer(c, "error") /\ UNCHANGED <<state, origin>>
    <3>1. /\ pc[c] = "create" /\ pc' = [pc EXCEPT ![c] = "done"]
          /\ answer' = [answer EXCEPT ![c] = "error"]
          /\ UNCHANGED <<op, state, origin, name, launched, crashed, troubles>>
      BY <1>12, <2>2 DEF X!ContainerCreate, X!Go, X!Answer, X!otherVars
    <3> QED
      BY <3>1
  <2> QED
    BY <1>12, <2>1, <2>2 DEF X!ContainerCreate
<1>13. ASSUME NEW c \in Calls, X!ContainerStart(c)
       PROVE  Goal
  <2>1. /\ pc[c] = "launch" /\ pc' = [pc EXCEPT ![c] = "done"]
        /\ UNCHANGED <<op, name, origin, crashed>>
        /\ \/ /\ state[c] # "none" /\ answer' = [answer EXCEPT ![c] = "ok"]
              /\ state' = [state EXCEPT ![c] = "running"] /\ launched' = launched \cup {c}
           \/ /\ state[c] = "running" /\ answer' = [answer EXCEPT ![c] = "ok"]
              /\ UNCHANGED <<state, launched>>
           \/ /\ answer' = [answer EXCEPT ![c] = "error"]
              /\ UNCHANGED <<state, launched>>
    BY <1>13 DEF X!ContainerStart, X!Go, X!GoFailed, X!Answer, X!Becomes, X!Launched, X!otherVars
  <2>2. BoxAt'
    BY <2>1
  <2>3. BoxNames'
    BY <2>1
  <2>4. BoxRan'
    BY <2>1
  <2> QED
    BY <2>2, <2>3, <2>4
<1>14. ASSUME NEW c \in Calls, X!Copy(c)
       PROVE  Goal
  <2>1. /\ pc[c] = "copy" /\ pc' = [pc EXCEPT ![c] = "done"]
        /\ UNCHANGED <<op, name, launched, crashed, troubles>>
        /\ \/ /\ ~ X!InUse(name[c]) /\ answer' = [answer EXCEPT ![c] = "ok"]
              /\ state' = [state EXCEPT ![c] = "created"]
              /\ origin' = [origin EXCEPT ![c] = "duplicate"]
           \/ /\ answer' = [answer EXCEPT ![c] = "error"]
              /\ UNCHANGED <<state, origin>>
    BY <1>14 DEF X!Copy, X!Go, X!Answer, X!Becomes, X!otherVars
  <2>2. BoxAt'
    BY <2>1
  <2>3. BoxNames'
    BY <2>1
  <2>4. BoxRan'
    BY <2>1
  <2> QED
    BY <2>2, <2>3, <2>4
<1>15. ASSUME NEW c \in Calls, X!PruneContainers(c)
       PROVE  Goal
  <2>1. /\ pc[c] = "containers" /\ pc' = [pc EXCEPT ![c] = "networks"]
        /\ UNCHANGED <<op, name, origin, launched, answer, crashed>>
        /\ \A k \in Calls : state'[k] = state[k] \/ state'[k] = "none"
    BY <1>15 DEF X!PruneContainers, X!Go, X!GoFailed, X!otherVars
  <2>2. BoxAt'
    BY <2>1
  <2>3. BoxNames'
    BY <2>1
  <2>4. BoxRan'
    BY <2>1
  <2> QED
    BY <2>2, <2>3, <2>4
<1>16. ASSUME NEW c \in Calls, X!PruneNetworks(c)
       PROVE  Goal
  <2>1. /\ pc[c] = "networks" /\ pc' = [pc EXCEPT ![c] = "done"]
        /\ answer' = [answer EXCEPT ![c] = "ok"]
        /\ UNCHANGED <<op, state, name, origin, launched, crashed>>
    BY <1>16 DEF X!PruneNetworks, X!Go, X!GoFailed, X!Answer, X!boxVars
  <2>2. BoxAt' /\ BoxNames'
    BY <2>1
  <2>3. BoxRan'
    BY <2>1
  <2> QED
    BY <2>2, <2>3
<1>18. ASSUME X!Exits
       PROVE  Goal
  <2>1. PICK k \in Calls : state[k] = "running" /\ state' = [state EXCEPT ![k] = "exited"]
    BY <1>18 DEF X!Exits, X!Becomes
  <2>2. UNCHANGED <<op, pc, crashed, troubles, name, origin, launched, answer>>
    BY <1>18 DEF X!Exits, X!callVars, X!otherVars
  <2> QED
    BY <2>1, <2>2
<1>19. ASSUME X!Crash
       PROVE  Goal
  <2>1. /\ UNCHANGED <<op, state, name, origin, launched, answer>>
        /\ crashed' = "yes" /\ troubles' > 0
        /\ \A c \in Calls : pc'[c] = pc[c] \/ pc'[c] = "done"
    BY <1>19 DEF X!Crash, X!CrashCalls, X!containerVars
  <2> QED
    BY <2>1
<1>20. ASSUME UNCHANGED X!vars
       PROVE  Goal
  BY <1>20 DEF X!vars, X!containerVars
<1>21. ASSUME NEW c \in Calls, X!Start(c)
       PROVE  Goal
  BY <1>21, <1>1, <1>2, <1>3, <1>7, <1>8, <1>9, <1>11 DEF X!Start
<1>22. ASSUME NEW c \in Calls, X!Step(c)
       PROVE  Goal
  BY <1>22, <1>12, <1>13, <1>14, <1>15, <1>16 DEF X!Step
<1> QED
  BY <1>18, <1>19, <1>20, <1>21, <1>22 DEF X!Next

(* The invariant is inductive.                                             *)
LEMMA BoxInvStep ==
  ASSUME BoxInv, [X!Next]_(X!vars)
  PROVE  BoxInv'
BY BoxTypes, BoxRestStep DEF BoxInv

(* What the invariant is for.                                              *)
LEMMA BoxMeans ==
  ASSUME BoxInv
  PROVE  X!ContainersTypeOK /\ X!CreatedRuns
BY DEF BoxInv, BoxRest, BoxNames, BoxRan, X!CreatedRuns

(* Module Containers, for any number of requests: with                     *)
(* services/docker_service.go a container that was created and started has *)
(* run, one that never ran was not reported as started, and no two share a *)
(* name.                                                                   *)
THEOREM ContainersCorrect ==
  X!Spec => [](X!ContainersTypeOK /\ X!CreatedRuns)
<1>1. BoxInv /\ [X!Next]_(X!vars) => BoxInv'
  BY BoxInvStep
<1>2. X!Spec => []BoxInv
  BY BoxInit, <1>1, PTL DEF X!Spec
<1> QED
  BY <1>2, BoxMeans, PTL

(***************************************************************************)
(* Crontab                                                                 *)
(***************************************************************************)
(* The lines of a crontab, each of them once.                              *)
CroLines(s) == s \in Seq(T!Line) /\ T!IsInjective(s)

(* What a line is tells whose it is; a job is no comment and not garbled.  *)
LEMMA CroNames ==
  /\ T!NoLine \notin T!Line
  /\ \A l \in T!Line : l[1] \in Calls
  /\ \A c \in Calls : T!Job(c) \in T!Line /\ T!Comment(c) \in T!Line /\ T!Garbled(c) \in T!Line
  /\ \A c \in Calls : T!Job(c)[1] = c /\ T!Comment(c)[1] = c /\ T!Garbled(c)[1] = c
  /\ \A c, d \in Calls : T!Job(c) # T!Comment(d) /\ T!Job(c) # T!Garbled(d)
  /\ \A c, d \in Calls : T!Job(c) = T!Job(d) => c = d
BY CallsAssumption DEF T!NoLine, T!Line, T!Job, T!Comment, T!Garbled

(* What the three pipelines make of a list: one line more, ...             *)
LEMMA CroAppend ==
  ASSUME NEW s, CroLines(s), NEW l \in T!Line, l \notin T!ToSet(s)
  PROVE  CroLines(Append(s, l)) /\ T!ToSet(Append(s, l)) = T!ToSet(s) \cup {l}
BY DEF CroLines, T!IsInjective, T!ToSet

(* ... one line less, ...                                                  *)
LEMMA CroRemove ==
  ASSUME NEW s, CroLines(s), NEW n \in 1 .. Len(s)
  PROVE  CroLines(T!RemoveAt(s, n)) /\ T!ToSet(T!RemoveAt(s, n)) = T!ToSet(s) \ {s[n]}
<1> DEFINE a == SubSeq(s, 1, n - 1)
           b == SubSeq(s, n + 1, Len(s))
           r == a \o b
<1>1. s \in Seq(T!Line) /\ Len(s) \in Nat /\ \A i, j \in 1 .. Len(s) : s[i] = s[j] => i = j
  BY DEF CroLines, T!IsInjective
<1>2. /\ a \in Seq(T!Line) /\ Len(a) = n - 1
      /\ \A i \in 1 .. n - 1 : a[i] = s[i]
  BY <1>1
<1>3. /\ b \in Seq(T!Line) /\ Len(b) = Len(s) - n
      /\ \A i \in 1 .. Len(s) - n : b[i] = s[n + i]
  BY <1>1
<1> HIDE DEF a, b
<1>4. /\ r \in Seq(T!Line) /\ Len(r) = Len(s) - 1
      /\ \A i \in 1 .. Len(r) : r[i] = IF i < n THEN s[i] ELSE s[i + 1]
  <2>1. r \in Seq(T!Line) /\ Len(r) = Len(s) - 1
    <3>1. \A p, q \in Seq(T!Line) : p \o q \in Seq(T!Line) /\ Len(p \o q) = Len(p) + Len(q)
      OBVIOUS
    <3>2. (n - 1) + (Len(s) - n) = Len(s) - 1
      BY <1>1
    <3> QED
      BY <1>2, <1>3, <3>1, <3>2
  <2>2. ASSUME NEW i \in 1 .. n - 1
        PROVE  r[i] = s[i]
    BY <1>1, <1>2, <1>3
  <2>3. ASSUME NEW i \in n .. Len(s) - 1
        PROVE  r[i] = s[i + 1]
    <3>1. r[i] = b[i - (n - 1)]
      BY <1>1, <1>2, <1>3
    <3>2. b[i - (n - 1)] = s[n + (i - (n - 1))]
      BY <1>1, <1>3
    <3>3. n + (i - (n - 1)) = i + 1
      BY <1>1
    <3> QED
      BY <3>1, <3>2, <3>3
  <2> QED
    BY <1>1, <2>1, <2>2, <2>3
<1> HIDE DEF r
<1>5. \A i, j \in 1 .. Len(r) : r[i] = r[j] => i = j
  BY <1>1, <1>4
<1>6. ASSUME NEW x \in T!ToSet(r)
      PROVE  x \in T!ToSet(s) \ {s[n]}
  <2>1. PICK i \in 1 .. Len(r) : x = r[i]
    BY <1>4 DEF T!ToSet
  <2>2. CASE i < n
    <3>1. x = s[i] /\ i \in 1 .. Len(s) /\ i # n
      BY <1>1, <1>4, <2>1, <2>2
    <3> QED
      BY <1>1, <3>1 DEF T!ToSet
  <2>3. CASE i >= n
    <3>1. x = s[i + 1] /\ i + 1 \in 1 .. Len(s) /\ i + 1 # n
      BY <1>1, <1>4, <2>1, <2>3
    <3> QED
      BY <1>1, <3>1 DEF T!ToSet
  <2> QED
    BY <2>1, <2>2, <2>3
<1>7. ASSUME NEW x \in T!ToSet(s) \ {s[n]}
      PROVE  x \in T!ToSet(r)
  <2>1. PICK i \in 1 .. Len(s) : x = s[i] /\ i # n
    BY <1>1 DEF T!ToSet
  <2>2. CASE i < n
    <3>1. i \in 1 .. Len(r) /\ r[i] = x
      BY <1>1, <1>4, <2>1, <2>2
    <3> QED
      BY <1>4, <3>1 DEF T!ToSet
  <2>3. CASE i > n
    <3>1. i - 1 \in 1 .. Len(r) /\ r[i - 1] = x
      <4>1. i - 1 \in 1 .. Len(r) /\ ~ (i - 1 < n) /\ (i - 1) + 1 = i
        BY <1>1, <1>4, <2>1, <2>3
      <4> QED
        BY <1>4, <2>1, <4>1
    <3> QED
      BY <1>4, <3>1 DEF T!ToSet
  <2> QED
    BY <2>1, <2>2, <2>3
<1>8. T!ToSet(r) = T!ToSet(s) \ {s[n]}
  BY <1>6, <1>7
<1>9. CroLines(r)
  BY <1>4, <1>5 DEF CroLines, T!IsInjective
<1>10. r = T!RemoveAt(s, n)
  BY DEF r, a, b, T!RemoveAt
<1> QED
  BY <1>8, <1>9, <1>10

(* ... and one line instead of another.                                    *)
LEMMA CroReplace ==
  ASSUME NEW s, CroLines(s), NEW n \in 1 .. Len(s), NEW l \in T!Line, l \notin T!ToSet(s)
  PROVE  /\ CroLines([s EXCEPT ![n] = l])
         /\ T!ToSet([s EXCEPT ![n] = l]) = (T!ToSet(s) \ {s[n]}) \cup {l}
BY DEF CroLines, T!IsInjective, T!ToSet

CroPending(c) == pc[c] \in {"read", "install"}

(* No line is there twice, on the server, on the page or in what a pipe    *)
(* has read, and it was brought by a call that has ended.                  *)
CroOld(s) == CroLines(s) /\ \A l \in T!ToSet(s) : pc[l[1]] = "done"
CroSeqs   == CroOld(lines) /\ CroOld(page) /\ \A c \in Calls : CroOld(read[c])

(* A call that changes a line names one, a call that adds one does not.    *)
CroMeant ==
  \A c \in Calls :
    /\ pc[c] = "idle" => number[c] = 0 /\ meant[c] = T!NoLine /\ text[c] = "plain"
    /\ CroPending(c) =>
         \/ op[c] = "add" /\ number[c] = 0 /\ meant[c] = T!NoLine
         \/ /\ op[c] \in {"delete", "update"}
            /\ meant[c] \in T!Line /\ pc[meant[c][1]] = "done"
            /\ op[c] = "update" => text[c] \in T!UpdateTexts

(* One pipeline at a time has read the lines and not written them yet, so  *)
(* that it has read what is there, and it has found the line it names.     *)
CroPipe ==
  /\ crossed = "no" => \A c, d \in Calls : pc[c] = "install" /\ pc[d] = "install" => c = d
  /\ crossed = "no" => \A c \in Calls : pc[c] = "install" => read[c] = lines
  /\ outdated = "no" => \A c \in Calls : pc[c] = "install" => T!LineNamed(c, read[c]) = meant[c]

(* What is asked for is what is there, but for what the calls at work take *)
(* away, and what they bring.                                              *)
CroAsked(x) ==
  \/ T!Job(x) \in T!ToSet(lines) /\ \A c \in Calls : CroPending(c) => meant[c] # T!Job(x)
  \/ CroPending(x) /\ op[x] \in {"add", "update"}

CroKept ==
  troubles = 0 /\ crossed = "no" /\ outdated = "no" /\ mangled = "no" =>
    \A x \in Calls : x \in kept <=> CroAsked(x)

CroInv == T!CrontabTypeOK /\ CroSeqs /\ CroMeant /\ CroPipe /\ CroKept

(* The crontab is empty at the start.                                      *)
LEMMA CroInit ==
  ASSUME T!Init
  PROVE  CroInv
<1>1. T!CallsTypeOK({"add", "delete", "update"}, {"read", "install"})
      /\ \A c \in Calls : pc[c] = "idle"
  <2>1. T!CallsInit
    BY DEF T!Init
  <2> QED
    BY <2>1, CallsAssumption DEF T!CallsInit, T!CallsTypeOK
<1> USE DEF T!Init
<1>2. <<>> \in Seq(T!Line) /\ T!ToSet(<<>>) = {} /\ T!IsInjective(<<>>)
  BY DEF T!ToSet, T!IsInjective
<1>3. T!CrontabTypeOK
  BY <1>1, <1>2 DEF T!CrontabTypeOK, T!AddTexts, T!UpdateTexts
<1>4. CroSeqs
  BY <1>2 DEF CroSeqs, CroOld, CroLines
<1>5. CroMeant /\ CroPipe
  BY <1>1 DEF CroMeant, CroPipe, CroPending
<1>6. CroKept
  BY <1>1, <1>2 DEF CroKept, CroAsked, CroPending
<1> QED
  BY <1>3, <1>4, <1>5, <1>6 DEF CroInv

(* What a pipeline installs, from what it has read ...                     *)
LEMMA CroEdited ==
  ASSUME CroInv, NEW c \in Calls, pc[c] = "install"
  PROVE  /\ CroLines(T!Edited(c))
         /\ \A l \in T!ToSet(T!Edited(c)) : l \in T!ToSet(read[c]) \/ l[1] = c
         /\ text[c] \notin {"slash", "ampersand"} /\ T!LineNamed(c, read[c]) = meant[c] =>
              \A x \in Calls : T!Job(x) \in T!ToSet(T!Edited(c)) <=>
                \/ T!Job(x) \in T!ToSet(read[c]) /\ T!Job(x) # meant[c]
                \/ x = c /\ op[c] # "delete"
<1> DEFINE s == read[c]
           n == number[c]
<1>1. CroLines(s) /\ (\A l \in T!ToSet(s) : l \in T!Line /\ pc[l[1]] = "done") /\ n \in Nat
  <2>1. CroLines(s) /\ (\A l \in T!ToSet(s) : pc[l[1]] = "done") /\ n \in Nat
    BY DEF CroInv, CroSeqs, CroOld, T!CrontabTypeOK
  <2>2. \A l \in T!ToSet(s) : l \in T!Line
    BY <2>1 DEF CroLines, T!ToSet
  <2> QED
    BY <2>1, <2>2
<1>2. \A l \in T!ToSet(s) : l[1] # c
  BY <1>1
<1>3. /\ T!Job(c) \notin T!ToSet(s) /\ T!Comment(c) \notin T!ToSet(s) /\ T!Garbled(c) \notin T!ToSet(s)
      /\ T!NoLine \notin T!ToSet(s)
  BY <1>1, <1>2, CroNames
<1>4. \/ op[c] = "add" /\ meant[c] = T!NoLine
      \/ op[c] \in {"delete", "update"} /\ meant[c] \in T!Line
  BY DEF CroInv, CroMeant, CroPending
<1>5. /\ n \in 1 .. Len(s) => T!LineNamed(c, s) = s[n] /\ s[n] \in T!ToSet(s)
      /\ n \notin 1 .. Len(s) => T!LineNamed(c, s) = T!NoLine
  BY <1>1 DEF T!LineNamed, T!ToSet, CroLines
<1>6. T!LineNamed(c, s) = T!NoLine <=> n \notin 1 .. Len(s)
  BY <1>3, <1>5
<1>7. CroLines(<<>>) /\ T!ToSet(<<>>) = {}
  BY DEF CroLines, T!ToSet, T!IsInjective
<1>8. CASE op[c] = "add"
  <2> DEFINE r == IF text[c] = "commented" THEN Append(s, T!Comment(c)) ELSE s
  <2>1. T!Edited(c) = Append(r, T!Job(c))
    BY <1>8 DEF T!Edited, T!Added
  <2>2. CroLines(r) /\ T!ToSet(r) \subseteq T!ToSet(s) \cup {T!Comment(c)} /\ T!ToSet(s) \subseteq T!ToSet(r)
    <3>1. CASE text[c] = "commented"
      <4>1. /\ CroLines(Append(s, T!Comment(c)))
            /\ T!ToSet(Append(s, T!Comment(c))) = T!ToSet(s) \cup {T!Comment(c)}
        BY <1>1, <1>3, CroNames, CroAppend
      <4> QED
        BY <3>1, <4>1
    <3>2. CASE text[c] # "commented"
      BY <1>1, <3>2
    <3> QED
      BY <3>1, <3>2
  <2> HIDE DEF r
  <2>3. T!Job(c) \notin T!ToSet(r)
    BY <1>3, <2>2, CroNames
  <2>4. /\ CroLines(Append(r, T!Job(c)))
        /\ T!ToSet(Append(r, T!Job(c))) = T!ToSet(r) \cup {T!Job(c)}
    BY <2>2, <2>3, CroNames, CroAppend
  <2>5. \A l \in T!ToSet(T!Edited(c)) : l \in T!ToSet(s) \/ l[1] = c
    BY <2>1, <2>2, <2>4, CroNames
  <2>6. \A x \in Calls : T!Job(x) \in T!ToSet(T!Edited(c)) <=> T!Job(x) \in T!ToSet(s) \/ x = c
    BY <2>1, <2>2, <2>4, CroNames
  <2>7. \A x \in Calls : T!Job(x) # meant[c]
    BY <1>4, <1>8, CroNames
  <2> QED
    BY <1>8, <2>1, <2>4, <2>5, <2>6, <2>7
<1>9. CASE op[c] = "delete"
  <2>1. T!Edited(c) = IF T!LineNamed(c, s) = T!NoLine THEN s ELSE T!RemoveAt(s, n)
    BY <1>9 DEF T!Edited, T!Deleted
  <2>2. CASE n \in 1 .. Len(s)
    <3>1. T!Edited(c) = T!RemoveAt(s, n)
      BY <1>6, <2>1, <2>2
    <3>2. CroLines(T!RemoveAt(s, n)) /\ T!ToSet(T!RemoveAt(s, n)) = T!ToSet(s) \ {s[n]}
      BY <1>1, <2>2, CroRemove
    <3> QED
      BY <1>5, <1>9, <2>2, <3>1, <3>2
  <2>3. CASE n \notin 1 .. Len(s)
    <3>1. T!Edited(c) = s /\ T!LineNamed(c, s) = T!NoLine
      BY <1>6, <2>1, <2>3
    <3>2. T!LineNamed(c, s) # meant[c]
      BY <1>4, <1>9, <3>1, CroNames
    <3> QED
      BY <1>1, <3>1, <3>2
  <2> QED
    BY <2>2, <2>3
<1>10. CASE op[c] = "update"
  <2>1. T!Edited(c) = T!Updated(c)
    BY <1>10 DEF T!Edited
  <2>2. text[c] \in {"plain", "slash", "ampersand"}
    BY <1>10 DEF CroInv, CroMeant, CroPending, T!UpdateTexts
  <2>3. CASE text[c] = "slash"
    BY <1>7, <2>1, <2>3 DEF T!Updated
  <2>4. CASE text[c] # "slash" /\ n \notin 1 .. Len(s)
    <3>1. T!Edited(c) = s /\ T!LineNamed(c, s) = T!NoLine
      BY <1>6, <2>1, <2>4 DEF T!Updated
    <3>2. T!LineNamed(c, s) # meant[c]
      BY <1>4, <1>10, <3>1, CroNames
    <3> QED
      BY <1>1, <3>1, <3>2
  <2>5. CASE text[c] # "slash" /\ n \in 1 .. Len(s)
    <3> DEFINE l == IF text[c] = "plain" THEN T!Job(c) ELSE T!Garbled(c)
    <3>1. T!Edited(c) = [s EXCEPT ![n] = l]
      BY <1>6, <2>1, <2>5 DEF T!Updated
    <3>2. l \in T!Line /\ l[1] = c /\ l \notin T!ToSet(s) /\ (text[c] = "plain" => l = T!Job(c))
      BY <1>3, CroNames
    <3> HIDE DEF l
    <3>3. CroLines([s EXCEPT ![n] = l]) /\ T!ToSet([s EXCEPT ![n] = l]) = (T!ToSet(s) \ {s[n]}) \cup {l}
      BY <1>1, <2>5, <3>2, CroReplace
    <3>4. ASSUME text[c] = "plain", T!LineNamed(c, s) = meant[c], NEW x \in Calls
          PROVE  T!Job(x) \in T!ToSet(T!Edited(c)) <=>
                   (T!Job(x) \in T!ToSet(s) /\ T!Job(x) # meant[c]) \/ x = c
      BY <1>5, <2>5, <3>1, <3>2, <3>3, <3>4, CroNames
    <3> QED
      BY <1>10, <2>2, <3>1, <3>2, <3>3, <3>4
  <2> QED
    BY <2>3, <2>4, <2>5
<1> QED
  BY <1>4, <1>8, <1>9, <1>10

(* ... and how the installed jobs differ from those it has read, if no     *)
(* step went wrong.                                                        *)
LEMMA CroInstalled ==
  ASSUME CroInv, NEW c \in Calls, pc[c] = "install", text[c] \notin {"slash", "ampersand"},
         crossed = "no", outdated = "no"
  PROVE  \A x \in Calls : T!Job(x) \in T!ToSet(T!Edited(c)) <=>
           \/ T!Job(x) \in T!ToSet(lines) /\ T!Job(x) # meant[c]
           \/ x = c /\ op[c] # "delete"
<1>1. read[c] = lines /\ T!LineNamed(c, read[c]) = meant[c]
  BY DEF CroInv, CroPipe
<1> QED
  BY <1>1, CroEdited

(* The types, the lines and what calls name.                               *)
LEMMA CroTypes ==
  ASSUME CroInv, [T!Next]_(T!vars)
  PROVE  T!CrontabTypeOK' /\ CroSeqs' /\ CroMeant'
<1> DEFINE Goal == T!CrontabTypeOK' /\ CroSeqs' /\ CroMeant'
           Ended == \A x \in Calls : pc[x] = "done" => pc'[x] = "done"
<1>1. T!CrontabTypeOK /\ CroSeqs /\ CroMeant
  BY DEF CroInv
<1> USE <1>1, CallsAssumption
    DEF T!CrontabTypeOK, T!CallsTypeOK, T!AddTexts, T!UpdateTexts
(* Lines are as old as they were.                                          *)
<1>2. ASSUME Ended, NEW s, CroOld(s)
      PROVE  CroOld(s)'
  <2>1. \A l \in T!ToSet(s) : l \in T!Line /\ l[1] \in Calls
    BY <1>2, CroNames DEF CroOld, CroLines, T!ToSet
  <2> QED
    BY <1>2, <2>1 DEF CroOld
<1>3. ASSUME Ended, UNCHANGED <<lines, page, read>>
      PROVE  CroSeqs'
  <2>1. /\ CroOld(lines) /\ CroOld(page) /\ \A c \in Calls : CroOld(read[c])
    BY DEF CroSeqs
  <2>2. \A s : CroOld(s) => CroOld(s)'
    BY <1>2, <1>3
  <2> QED
    BY <1>3, <2>1, <2>2 DEF CroSeqs, CroOld, CroLines
<1>4. ASSUME NEW c \in Calls, NEW t \in T!AddTexts, T!AddCronJob(c, t)
      PROVE  Goal
  <2>1. Ended /\ UNCHANGED <<lines, page, read>>
    BY <1>4 DEF T!AddCronJob, T!Begin
  <2>2. T!CrontabTypeOK'
    BY <1>4 DEF T!AddCronJob, T!Begin
  <2>3. CroMeant'
    BY <1>4 DEF T!AddCronJob, T!Begin, CroMeant, CroPending
  <2> QED
    BY <1>3, <2>1, <2>2, <2>3
<1>5. ASSUME NEW n \in 1 .. Len(page)
      PROVE  /\ page[n] \in T!Line /\ page[n][1] \in Calls /\ pc[page[n][1]] = "done"
             /\ n \in Nat
  BY <1>5, CroNames DEF CroSeqs, CroOld, CroLines, T!ToSet
<1>6. ASSUME NEW c \in Calls, NEW n \in 1 .. Len(page), T!DeleteCronJob(c, n)
      PROVE  Goal
  <2>1. Ended /\ UNCHANGED <<lines, page, read>>
    BY <1>6 DEF T!DeleteCronJob, T!Begin
  <2>2. T!CrontabTypeOK'
    BY <1>5, <1>6 DEF T!DeleteCronJob, T!Begin, T!Without
  <2>3. CroMeant'
    BY <1>5, <1>6 DEF T!DeleteCronJob, T!Begin, CroMeant, CroPending
  <2> QED
    BY <1>3, <2>1, <2>2, <2>3
<1>7. ASSUME NEW c \in Calls, NEW n \in 1 .. Len(page), NEW t \in T!UpdateTexts, T!UpdateCronJob(c, n, t)
      PROVE  Goal
  <2>1. Ended /\ UNCHANGED <<lines, page, read>>
    BY <1>7 DEF T!UpdateCronJob, T!Begin
  <2>2. T!CrontabTypeOK'
    BY <1>5, <1>7 DEF T!UpdateCronJob, T!Begin, T!Without
  <2>3. CroMeant'
    BY <1>5, <1>7 DEF T!UpdateCronJob, T!Begin, CroMeant, CroPending
  <2> QED
    BY <1>3, <2>1, <2>2, <2>3
<1>8. ASSUME NEW c \in Calls, T!Read(c)
      PROVE  Goal
  <2>1. /\ Ended /\ UNCHANGED <<op, lines, page, number, meant, text, kept, clash, crashed, lost>>
        /\ pc[c] = "read" /\ pc' \in {[pc EXCEPT ![c] = "install"], [pc EXCEPT ![c] = "done"]}
        /\ read' = read \/ read' = [read EXCEPT ![c] = lines]
    BY <1>8 DEF T!Read, T!Go, T!GoFailed, T!crontabVars
  <2>2. T!CrontabTypeOK'
    <3>1. troubles' \in 0 .. MaxTroubles /\ {crossed', outdated', mangled'} \subseteq {"no", "yes"}
      BY <1>8 DEF T!Read, T!Go, T!GoFailed, T!crontabVars
    <3>2. read' \in [Calls -> Seq(T!Line)] /\ pc' \in [Calls -> {"idle", "done"} \cup {"read", "install"}]
      BY <2>1
    <3> QED
      BY <2>1, <3>1, <3>2
  <2>3. CroMeant'
    BY <2>1, CroNames DEF CroMeant, CroPending
  <2>4. \A s : CroOld(s) => CroOld(s)'
    BY <1>2, <2>1
  <2>5. CroOld(lines) /\ CroOld(page) /\ \A d \in Calls : CroOld(read'[d])
    BY <2>1 DEF CroSeqs
  <2>6. CroSeqs'
    BY <2>1, <2>4, <2>5 DEF CroSeqs, CroOld, CroLines
  <2> QED
    BY <2>2, <2>3, <2>6
<1>9. ASSUME NEW c \in Calls, T!Install(c)
      PROVE  Goal
  <2>1. /\ Ended /\ UNCHANGED <<op, page, number, meant, text, read, kept, clash, crashed, lost>>
        /\ pc[c] = "install" /\ pc' = [pc EXCEPT ![c] = "done"]
        /\ lines' = lines \/ lines' = T!Edited(c)
    BY <1>9 DEF T!Install, T!Go, T!GoFailed
  <2>2. /\ CroLines(T!Edited(c))
        /\ \A l \in T!ToSet(T!Edited(c)) : l \in T!ToSet(read[c]) \/ l[1] = c
    BY <2>1, CroEdited
  <2>3. T!CrontabTypeOK'
    <3>1. lines' \in Seq(T!Line)
      BY <2>1, <2>2 DEF CroLines
    <3>2. troubles' \in 0 .. MaxTroubles /\ mangled' \in {"no", "yes"} /\ UNCHANGED <<crossed, outdated>>
      BY <1>9 DEF T!Install, T!Go, T!GoFailed
    <3> QED
      BY <2>1, <3>1, <3>2
  <2>4. CroMeant'
    BY <2>1, CroNames DEF CroMeant, CroPending
  <2>5. CroOld(page)' /\ \A d \in Calls : CroOld(read[d])'
    <3>1. \A s : CroOld(s) => CroOld(s)'
      BY <1>2, <2>1
    <3> QED
      BY <2>1, <3>1 DEF CroSeqs, CroOld, CroLines
  <2>6. CroOld(lines)'
    <3>1. CASE lines' = lines
      BY <1>2, <2>1, <3>1 DEF CroSeqs, CroOld, CroLines
    <3>2. CASE lines' = T!Edited(c)
      <4>1. \A l \in T!ToSet(read[c]) : pc[l[1]] = "done" /\ l[1] \in Calls
        BY CroNames DEF CroSeqs, CroOld, CroLines, T!ToSet
      <4>2. \A l \in T!ToSet(lines') : pc'[l[1]] = "done"
        BY <2>1, <2>2, <3>2, <4>1
      <4> QED
        BY <2>2, <3>2, <4>2 DEF CroOld, CroLines
    <3> QED
      BY <2>1, <3>1, <3>2
  <2> QED
    BY <2>3, <2>4, <2>5, <2>6 DEF CroSeqs
<1>10. ASSUME T!ListCronJobs
       PROVE  Goal
  <2>1. page' = lines /\ UNCHANGED <<op, pc, clash, crashed, troubles, lost, lines, number, meant,
                                     text, read, kept, crossed, outdated, mangled>>
    BY <1>10 DEF T!ListCronJobs, T!callVars
  <2>2. T!CrontabTypeOK'
    BY <2>1
  <2>3. CroSeqs' /\ CroMeant'
    BY <2>1 DEF CroSeqs, CroOld, CroLines, CroMeant, CroPending
  <2> QED
    BY <2>2, <2>3
<1>11. ASSUME T!Crash
       PROVE  Goal
  <2>1. /\ Ended /\ UNCHANGED <<op, clash, lost, lines, page, number, meant, text, read, kept, crossed,
                                outdated, mangled>>
        /\ \A c \in Calls : pc'[c] = pc[c] \/ pc'[c] = "done"
    BY <1>11 DEF T!Crash, T!CrashCalls, T!crontabVars
  <2>2. T!CrontabTypeOK'
    BY <1>11 DEF T!Crash, T!CrashCalls, T!crontabVars
  <2>3. CroMeant'
    BY <2>1, CroNames DEF CroMeant, CroPending
  <2> QED
    BY <1>3, <2>1, <2>2, <2>3
<1>12. ASSUME UNCHANGED T!vars
       PROVE  Goal
  <2>1. UNCHANGED <<op, pc, clash, crashed, troubles, lost, lines, page, number, meant, text, read, kept,
                    crossed, outdated, mangled>>
    BY <1>12 DEF T!vars
  <2>2. T!CrontabTypeOK'
    BY <2>1
  <2>3. CroMeant' /\ Ended
    BY <2>1, CroNames DEF CroMeant, CroPending
  <2> QED
    BY <1>3, <2>1, <2>2, <2>3
<1>13. ASSUME NEW c \in Calls, T!Start(c)
       PROVE  Goal
  <2> HIDE <1>1
  <2> QED
    BY <1>13, <1>4, <1>6, <1>7 DEF T!Start
<1>14. ASSUME NEW c \in Calls, T!Step(c)
       PROVE  Goal
  BY <1>14, <1>8, <1>9 DEF T!Step
<1> HIDE DEF Goal
<1> QED
  BY <1>10, <1>11, <1>12, <1>13, <1>14 DEF T!Next, Goal

(* The pipelines.                                                          *)
LEMMA CroPipeStep ==
  ASSUME CroInv, [T!Next]_(T!vars)
  PROVE  CroPipe'
<1>1. /\ pc \in [Calls -> {"idle", "done"} \cup {"read", "install"}] /\ read \in [Calls -> Seq(T!Line)]
      /\ number \in [Calls -> Nat] /\ meant \in [Calls -> T!Line \cup {T!NoLine}]
  BY DEF CroInv, T!CrontabTypeOK, T!CallsTypeOK
<1>2. CroPipe
  BY DEF CroInv
<1> DEFINE Named(c) == T!LineNamed(c, read[c]) = meant[c]
(* Steps that leave the pipelines alone.                                   *)
<1>3. ASSUME UNCHANGED <<lines, read, crossed, outdated>>,
             \A d \in Calls : pc'[d] = "install" => pc[d] = "install" /\ number'[d] = number[d] /\ meant'[d] = meant[d]
      PROVE  CroPipe'
  BY <1>2, <1>3 DEF CroPipe, T!LineNamed
<1>4. ASSUME NEW c \in Calls, NEW t \in T!AddTexts, T!AddCronJob(c, t)
      PROVE  CroPipe'
  BY <1>1, <1>3, <1>4 DEF T!AddCronJob, T!Begin
<1>5. ASSUME NEW c \in Calls, NEW n \in 1 .. Len(page), T!DeleteCronJob(c, n)
      PROVE  CroPipe'
  BY <1>1, <1>3, <1>5 DEF T!DeleteCronJob, T!Begin
<1>6. ASSUME NEW c \in Calls, NEW n \in 1 .. Len(page), NEW t \in T!UpdateTexts, T!UpdateCronJob(c, n, t)
      PROVE  CroPipe'
  BY <1>1, <1>3, <1>6 DEF T!UpdateCronJob, T!Begin
<1>7. ASSUME NEW c \in Calls, T!Read(c)
      PROVE  CroPipe'
  <2>1. CASE T!GoFailed(c, "read", "done") /\ UNCHANGED T!crontabVars
    BY <1>1, <1>3, <2>1 DEF T!GoFailed, T!crontabVars
  <2>2. CASE T!Go(c, "read", "install")
    <3>1. /\ UNCHANGED <<lines, number, meant>> /\ pc[c] = "read"
          /\ pc' = [pc EXCEPT ![c] = "install"] /\ read' = [read EXCEPT ![c] = lines]
          /\ crossed' = IF \E d \in Calls : pc[d] = "install" THEN "yes" ELSE crossed
          /\ outdated' = IF T!LineNamed(c, lines) # meant[c] THEN "yes" ELSE outdated
      <4>1. pc'[c] # pc[c]
        BY <1>1, <2>2 DEF T!Go
      <4>2. pc'[c] = "install"
        BY <1>1, <2>2 DEF T!Go
      <4> QED
        BY <1>1, <1>7, <2>2, <4>1, <4>2 DEF T!Read, T!Go, T!GoFailed
    <3>2. crossed' = "no" => crossed = "no" /\ \A d \in Calls : pc[d] # "install"
      BY <3>1
    <3>3. outdated' = "no" => outdated = "no" /\ T!LineNamed(c, lines) = meant[c]
      BY <3>1
    <3>4. \A d \in Calls \ {c} : pc'[d] = pc[d] /\ read'[d] = read[d]
      BY <1>1, <3>1
    <3>5. pc'[c] = "install" /\ read'[c] = lines
      BY <1>1, <3>1
    <3>6. crossed' = "no" => \A d, e \in Calls : pc'[d] = "install" /\ pc'[e] = "install" => d = e
      BY <3>2, <3>4
    <3>7. crossed' = "no" => \A d \in Calls : pc'[d] = "install" => read'[d] = lines'
      BY <3>1, <3>2, <3>4, <3>5
    <3>8. ASSUME outdated' = "no", NEW d \in Calls, pc'[d] = "install"
          PROVE  T!LineNamed(d, read[d])' = meant'[d]
      <4>1. CASE d = c
        BY <3>1, <3>3, <3>5, <3>8, <4>1 DEF T!LineNamed
      <4>2. CASE d # c
        BY <1>2, <3>1, <3>3, <3>4, <3>8, <4>2 DEF CroPipe, T!LineNamed
      <4> QED
        BY <4>1, <4>2
    <3> QED
      BY <3>6, <3>7, <3>8 DEF CroPipe
  <2> QED
    BY <1>7, <2>1, <2>2 DEF T!Read
<1>8. ASSUME NEW c \in Calls, T!Install(c)
      PROVE  CroPipe'
  <2>1. /\ UNCHANGED <<number, meant, read, crossed, outdated>>
        /\ pc[c] = "install" /\ pc' = [pc EXCEPT ![c] = "done"]
    BY <1>8 DEF T!Install, T!Go, T!GoFailed
  <2>2. \A d \in Calls : pc'[d] = "install" => pc[d] = "install" /\ d # c
    BY <1>1, <2>1
  <2>3. crossed = "no" => \A d \in Calls : pc'[d] # "install"
    BY <1>2, <2>1, <2>2 DEF CroPipe
  <2>4. outdated' = "no" => \A d \in Calls : pc'[d] = "install" => T!LineNamed(d, read[d])' = meant'[d]
    BY <1>2, <2>1, <2>2 DEF CroPipe, T!LineNamed
  <2> QED
    BY <2>1, <2>3, <2>4 DEF CroPipe
<1>9. ASSUME T!ListCronJobs
      PROVE  CroPipe'
  BY <1>3, <1>9 DEF T!ListCronJobs, T!callVars
<1>10. ASSUME T!Crash
       PROVE  CroPipe'
  BY <1>3, <1>10 DEF T!Crash, T!CrashCalls, T!crontabVars
<1>11. ASSUME UNCHANGED T!vars
       PROVE  CroPipe'
  BY <1>3, <1>11 DEF T!vars
<1> QED
  BY <1>4, <1>5, <1>6, <1>7, <1>8, <1>9, <1>10, <1>11 DEF T!Next, T!Start, T!Step

(* The lines that are kept.                                                *)
LEMMA CroKeptStep ==
  ASSUME CroInv, [T!Next]_(T!vars)
  PROVE  CroKept'
<1> SUFFICES ASSUME troubles' = 0, crossed' = "no", outdated' = "no", mangled' = "no"
             PROVE  \A x \in Calls : x \in kept' <=> CroAsked(x)'
  BY DEF CroKept
<1> DEFINE Goal == \A x \in Calls : x \in kept' <=> CroAsked(x)'
           Fine == troubles = 0 /\ crossed = "no" /\ outdated = "no" /\ mangled = "no"
<1>1. /\ pc \in [Calls -> {"idle", "done"} \cup {"read", "install"}]
      /\ op \in [Calls -> {"none"} \cup {"add", "delete", "update"}] /\ text \in [Calls -> T!AddTexts \cup T!UpdateTexts]
      /\ number \in [Calls -> Nat] /\ meant \in [Calls -> T!Line \cup {T!NoLine}]
      /\ troubles \in Nat /\ NoCall \notin Calls
  BY CallsAssumption DEF CroInv, T!CrontabTypeOK, T!CallsTypeOK
<1>2. CroSeqs /\ CroMeant
  BY DEF CroInv
<1>3. ASSUME Fine
      PROVE  \A x \in Calls : x \in kept <=> CroAsked(x)
  BY <1>3 DEF CroInv, CroKept
<1>4. \A l \in T!ToSet(lines) : l \in T!Line /\ pc[l[1]] = "done"
  BY <1>2 DEF CroSeqs, CroOld, CroLines, T!ToSet
<1>5. ASSUME NEW n \in 1 .. Len(page)
      PROVE  page[n] \in T!Line /\ page[n][1] \in Calls /\ pc[page[n][1]] = "done"
  BY <1>2, <1>5, CroNames DEF CroSeqs, CroOld, CroLines, T!ToSet
(* Steps that change neither what is asked nor what is there.              *)
<1>6. ASSUME Fine, UNCHANGED <<lines, kept, op, meant>>,
             \A d \in Calls : CroPending(d)' <=> CroPending(d)
      PROVE  Goal
  BY <1>3, <1>6 DEF CroAsked
<1>7. ASSUME NEW c \in Calls, NEW t \in T!AddTexts, T!AddCronJob(c, t)
      PROVE  Goal
  <2>1. /\ Fine /\ UNCHANGED <<lines, meant>> /\ kept' = kept \cup {c} /\ pc[c] = "idle"
        /\ pc' = [pc EXCEPT ![c] = "read"] /\ op' = [op EXCEPT ![c] = "add"]
    BY <1>7 DEF T!AddCronJob, T!Begin
  <2>2. meant[c] = T!NoLine /\ \A x \in Calls : meant[c] # T!Job(x)
    BY <1>2, <2>1, CroNames DEF CroMeant
  <2>3. \A d \in Calls \ {c} : (CroPending(d)' <=> CroPending(d)) /\ op'[d] = op[d]
    BY <1>1, <2>1 DEF CroPending
  <2>4. CroPending(c)' /\ ~ CroPending(c) /\ op'[c] = "add"
    BY <1>1, <2>1 DEF CroPending
  <2>5. ASSUME NEW x \in Calls
        PROVE  x \in kept' <=> CroAsked(x)'
    <3>1. (\A d \in Calls : CroPending(d)' => meant'[d] # T!Job(x))
            <=> (\A d \in Calls : CroPending(d) => meant[d] # T!Job(x))
      BY <1>1, <2>1, <2>2, <2>3, <2>4
    <3> QED
      BY <1>3, <2>1, <2>3, <2>4, <3>1 DEF CroAsked
  <2> QED
    BY <2>5
(* A deletion, or an update.                                               *)
<1>8. ASSUME NEW c \in Calls, NEW n \in 1 .. Len(page), NEW o \in {"delete", "update"},
             Fine, lines' = lines, meant' = [meant EXCEPT ![c] = page[n]], pc[c] = "idle",
             pc' = [pc EXCEPT ![c] = "read"], op' = [op EXCEPT ![c] = o],
             kept' = T!Without(n) \cup (IF o = "delete" THEN {} ELSE {c})
      PROVE  Goal
  <2>1. \A d \in Calls \ {c} : (CroPending(d)' <=> CroPending(d)) /\ op'[d] = op[d] /\ meant'[d] = meant[d]
    BY <1>1, <1>8 DEF CroPending
  <2>2. CroPending(c)' /\ ~ CroPending(c) /\ op'[c] = o /\ meant'[c] = page[n] /\ T!Job(c) \notin T!ToSet(lines)
    BY <1>1, <1>4, <1>8, CroNames DEF CroPending
  <2>3. page[n] # T!Job(c) /\ \A x \in Calls : page[n] = T!Job(x) => ~ CroPending(x)
    BY <1>5, <1>8, CroNames DEF CroPending
  <2>4. ASSUME NEW x \in Calls
        PROVE  x \in kept' <=> CroAsked(x)'
    <3>1. (\A d \in Calls : CroPending(d)' => meant'[d] # T!Job(x)) <=>
            (page[n] # T!Job(x) /\ \A d \in Calls : CroPending(d) => meant[d] # T!Job(x))
      BY <2>1, <2>2
    <3>2. x \in kept <=> CroAsked(x)
      BY <1>3, <1>8
    <3>3. CASE x = c
      BY <1>8, <2>2, <2>3, <3>2, <3>3 DEF CroAsked, T!Without
    <3>4. CASE x # c
      BY <1>8, <2>1, <2>3, <3>1, <3>2, <3>4 DEF CroAsked, T!Without
    <3> QED
      BY <3>3, <3>4
  <2> QED
    BY <2>4
<1>9. ASSUME NEW c \in Calls, NEW n \in 1 .. Len(page), T!DeleteCronJob(c, n)
      PROVE  Goal
  <2>1. /\ Fine /\ lines' = lines /\ meant' = [meant EXCEPT ![c] = page[n]] /\ pc[c] = "idle"
        /\ pc' = [pc EXCEPT ![c] = "read"] /\ op' = [op EXCEPT ![c] = "delete"]
        /\ kept' = T!Without(n)
    BY <1>9 DEF T!DeleteCronJob, T!Begin
  <2>2. kept' = T!Without(n) \cup (IF "delete" = "delete" THEN {} ELSE {c})
    BY <2>1
  <2> QED
    BY <1>8, <2>1, <2>2
<1>10. ASSUME NEW c \in Calls, NEW n \in 1 .. Len(page), NEW t \in T!UpdateTexts, T!UpdateCronJob(c, n, t)
       PROVE  Goal
  <2>1. /\ Fine /\ lines' = lines /\ meant' = [meant EXCEPT ![c] = page[n]] /\ pc[c] = "idle"
        /\ pc' = [pc EXCEPT ![c] = "read"] /\ op' = [op EXCEPT ![c] = "update"]
        /\ kept' = T!Without(n) \cup {c}
    BY <1>10 DEF T!UpdateCronJob, T!Begin
  <2>2. kept' = T!Without(n) \cup (IF "update" = "delete" THEN {} ELSE {c})
    BY <2>1
  <2> QED
    BY <1>8, <2>1, <2>2
<1>11. ASSUME NEW c \in Calls, T!Read(c)
       PROVE  Goal
  <2>1. ~ T!GoFailed(c, "read", "done")
    BY <1>1 DEF T!GoFailed
  <2>2. /\ Fine /\ UNCHANGED <<lines, kept, op, meant>>
        /\ pc[c] = "read" /\ pc' = [pc EXCEPT ![c] = "install"]
    BY <1>11, <2>1 DEF T!Read, T!Go
  <2>3. \A d \in Calls : CroPending(d)' <=> CroPending(d)
    BY <1>1, <2>2 DEF CroPending
  <2> QED
    BY <1>6, <2>2, <2>3
<1>12. ASSUME NEW c \in Calls, T!Install(c)
       PROVE  Goal
  <2>1. ~ T!GoFailed(c, "install", "done")
    BY <1>1 DEF T!GoFailed
  <2>2. /\ Fine /\ text[c] \notin {"slash", "ampersand"} /\ UNCHANGED <<kept, op, meant>> /\ lines' = T!Edited(c)
        /\ pc[c] = "install" /\ pc' = [pc EXCEPT ![c] = "done"]
    BY <1>1, <1>12, <2>1 DEF T!Install, T!Go
  <2>3. \A x \in Calls : T!Job(x) \in T!ToSet(lines') <=>
          \/ T!Job(x) \in T!ToSet(lines) /\ T!Job(x) # meant[c]
          \/ x = c /\ op[c] # "delete"
    BY <2>2, CroInstalled
  <2>4. \A d \in Calls \ {c} : CroPending(d)' <=> CroPending(d)
    BY <1>1, <2>2 DEF CroPending
  <2>5. /\ CroPending(c) /\ ~ CroPending(c)' /\ T!Job(c) \notin T!ToSet(lines)
        /\ meant[c] # T!Job(c) /\ op[c] \in {"add", "delete", "update"}
    BY <1>1, <1>2, <1>4, <2>2, CroNames DEF CroPending, CroMeant
  <2>6. \A d \in Calls : CroPending(d) => meant[d] # T!Job(c)
    BY <1>1, <1>2, <2>2, CroNames DEF CroMeant
  <2>7. ASSUME NEW x \in Calls
        PROVE  x \in kept' <=> CroAsked(x)'
    <3>1. x \in kept <=> CroAsked(x)
      BY <1>3, <2>2
    <3>2. (\A d \in Calls : CroPending(d) => meant[d] # T!Job(x)) <=>
            (meant[c] # T!Job(x) /\ \A d \in Calls : CroPending(d)' => meant'[d] # T!Job(x))
      BY <2>2, <2>4, <2>5
    <3>3. CASE x = c
      BY <2>2, <2>3, <2>4, <2>5, <2>6, <3>1, <3>3 DEF CroAsked
    <3>4. CASE x # c
      BY <2>2, <2>3, <2>4, <3>1, <3>2, <3>4 DEF CroAsked
    <3> QED
      BY <3>3, <3>4
  <2> QED
    BY <2>7
<1>13. ASSUME T!ListCronJobs
       PROVE  Goal
  <2>1. Fine /\ UNCHANGED <<lines, kept, op, pc, meant>>
    BY <1>13 DEF T!ListCronJobs, T!callVars
  <2> QED
    BY <1>6, <2>1 DEF CroPending
<1>14. ~ T!Crash
  BY <1>1 DEF T!Crash, T!CrashCalls
<1>15. ASSUME UNCHANGED T!vars
       PROVE  Goal
  <2>1. Fine /\ UNCHANGED <<lines, kept, op, pc, meant>>
    BY <1>15 DEF T!vars
  <2> QED
    BY <1>6, <2>1 DEF CroPending
<1> QED
  BY <1>7, <1>9, <1>10, <1>11, <1>12, <1>13, <1>14, <1>15 DEF T!Next, T!Start, T!Step

(* The invariant is inductive.                                             *)
LEMMA CroInvStep ==
  ASSUME CroInv, [T!Next]_(T!vars)
  PROVE  CroInv'
BY CroTypes, CroPipeStep, CroKeptStep DEF CroInv

(* With no call at work, what is asked for is what is there.               *)
LEMMA CroMeans ==
  ASSUME CroInv
  PROVE  T!CrontabTypeOK /\ T!JobsStay
<1> SUFFICES ASSUME T!Quiet, troubles = 0, {crossed, outdated, mangled} = {"no"}
             PROVE  {x \in Calls : T!Job(x) \in T!ToSet(lines)} = kept /\ T!IsInjective(lines)
  BY DEF CroInv, T!JobsStay
<1>1. crossed = "no" /\ outdated = "no" /\ mangled = "no"
  OBVIOUS
<1>2. \A c \in Calls : ~ CroPending(c)
  BY DEF T!Quiet, T!Live, CroPending
<1>3. \A x \in Calls : x \in kept <=> T!Job(x) \in T!ToSet(lines)
  BY <1>1, <1>2 DEF CroInv, CroKept, CroAsked
<1>4. kept \subseteq Calls
  BY DEF CroInv, T!CrontabTypeOK
<1>5. T!IsInjective(lines)
  BY DEF CroInv, CroSeqs, CroOld, CroLines
<1> QED
  BY <1>3, <1>4, <1>5

(* Module Crontab, for any number of requests: services/cron_service.go    *)
(* leaves the jobs that were asked for and no other, each once, as long as *)
(* no two pipelines cross, every number still names the line it named, and *)
(* no line that replaces another one has a character special to sed.       *)
THEOREM CrontabCorrect ==
  T!Spec => [](T!CrontabTypeOK /\ T!JobsStay)
<1>1. CroInv /\ [T!Next]_(T!vars) => CroInv'
  BY CroInvStep
<1>2. T!Spec => []CroInv
  BY CroInit, <1>1, PTL DEF T!Spec
<1> QED
  BY <1>2, CroMeans, PTL

(***************************************************************************)
(* The fifteen modules in one behaviour                                    *)
(***************************************************************************)
(* Each module's invariant, while that module moves.  The module that does *)
(* not has promised nothing: nothing is counted, no update was started, no *)
(* push keeps another one out, no backup is reported and no server listed. *)
PanelInv ==
  /\ part \in Parts
  /\ part = "sessions" => SesInv
  /\ part = "limits" => LimitsTypeOK /\ CountersExpire
  /\ part = "alerts" => AleInv
  /\ part = "billing" => BilInv
  /\ part = "update" => UpdInv
  /\ part = "servers" => SrvInv
  /\ part = "waf" => WafInv
  /\ part = "accounts" => AccInv
  /\ part = "deploys" => DepInv
  /\ part = "backups" => BacInv
  /\ part = "startup" => StaInv
  /\ part = "containers" => BoxInv
  /\ part = "kubernetes" => KubInv
  /\ part = "crontab" => CroInv
  /\ part = "mail" => MaiInv
  /\ part # "limits"  => count = 0 /\ fails = 0
  /\ part # "update"  => \A c \in Calls : told[c] = "nothing"
  /\ part # "servers" => servers = {}
  /\ part # "deploys" => inFlight = "no"
  /\ part # "backups" => \A c \in Calls : backup[c] = "none"

(* What is chosen at the start, and the module that moves, are one start of*)
(* every module.                                                           *)
LEMMA PanelInitial == PanelInit => PanelInv
<1> SUFFICES ASSUME PanelInit
             PROVE  PanelInv
  OBVIOUS
<1>1. /\ part \in Parts
      /\ S!Init
      /\ Init
      /\ A!Init
      /\ B!Init
      /\ U!Init
      /\ H!Init
      /\ W!Init
      /\ C!Init
      /\ D!Init
      /\ K!Init
      /\ M!Init
      /\ X!Init
      /\ Q!Init
      /\ T!Init
      /\ E!Init
  BY DEF PanelInit
<1>2. CountersExpire
  BY <1>1 DEF Init, CountersExpire
<1>3. LimitsTypeOK
  BY <1>1, LimitTypesInit
<1>4. /\ \A c \in Calls : told[c] = "nothing" /\ backup[c] = "none"
      /\ servers = {} /\ inFlight = "no" /\ count = 0 /\ fails = 0
  BY <1>1 DEF U!Init, H!Init, D!Init, K!Init, Init
<1>5. SesInv /\ AleInv /\ BilInv /\ UpdInv /\ SrvInv
  BY <1>1, SesInit, AleInit, BilInit, UpdInit, SrvInit
<1>6. WafInv /\ AccInv /\ DepInv /\ BacInv /\ StaInv
  BY <1>1, WafInit, AccInit, DepInit, BacInit, StaInit
<1>7. BoxInv /\ KubInv /\ CroInv /\ MaiInv
  BY <1>1, BoxInit, KubInit, CroInit, MaiInit
<1> QED
  BY <1>1, <1>2, <1>3, <1>4, <1>5, <1>6, <1>7 DEF PanelInv

(* A step is one of the module that moves, whose own next-state relation   *)
(* allows it: the order of calls and the bounds on billing only leave steps*)
(* out.                                                                    *)
LEMMA PanelSteps ==
  ASSUME PanelNext
  PROVE
    \/ Moves("sessions") /\ S!Next
    \/ Moves("limits") /\ Next
    \/ Moves("alerts") /\ A!Next
    \/ Moves("billing") /\ B!Next
    \/ Moves("update") /\ U!Next
    \/ Moves("servers") /\ H!Next
    \/ Moves("waf") /\ W!Next
    \/ Moves("accounts") /\ C!Next
    \/ Moves("deploys") /\ D!Next
    \/ Moves("backups") /\ K!Next
    \/ Moves("startup") /\ M!Next
    \/ Moves("containers") /\ X!Next
    \/ Moves("kubernetes") /\ Q!Next
    \/ Moves("crontab") /\ T!Next
    \/ Moves("mail") /\ E!Next
BY DEF PanelNext, S!Next, Next, A!Next, B!Next, U!Next, H!Next, W!Next, C!Next, D!Next, K!Next, M!Next, X!Next, Q!Next, T!Next, E!Next

(* So the module that moves takes a step of its own, or none, and what the *)
(* others have promised stays.                                             *)
LEMMA OnePartMoves ==
  ASSUME [PanelNext]_panelVars
  PROVE  /\ part' = part
         /\ part = "sessions" => [S!Next]_(S!vars)
         /\ part = "limits" => [Next]_vars
         /\ part = "alerts" => [A!Next]_(A!vars)
         /\ part = "billing" => [B!Next]_(B!vars)
         /\ part = "update" => [U!Next]_(U!vars)
         /\ part = "servers" => [H!Next]_(H!vars)
         /\ part = "waf" => [W!Next]_(W!vars)
         /\ part = "accounts" => [C!Next]_(C!vars)
         /\ part = "deploys" => [D!Next]_(D!vars)
         /\ part = "backups" => [K!Next]_(K!vars)
         /\ part = "startup" => [M!Next]_(M!vars)
         /\ part = "containers" => [X!Next]_(X!vars)
         /\ part = "kubernetes" => [Q!Next]_(Q!vars)
         /\ part = "crontab" => [T!Next]_(T!vars)
         /\ part = "mail" => [E!Next]_(E!vars)
         /\ part # "limits" => count' = count /\ fails' = fails
         /\ part # "update" => told' = told
         /\ part # "servers" => servers' = servers
         /\ part # "deploys" => inFlight' = inFlight
         /\ part # "backups" => backup' = backup
<1>1. CASE UNCHANGED panelVars
  <2> USE <1>1 DEF panelVars, callVars
  <2>1. UNCHANGED <<part, op, pc, clash, crashed, troubles, lost>>
    OBVIOUS
  <2>2. UNCHANGED S!vars /\ UNCHANGED vars /\ UNCHANGED A!vars /\ UNCHANGED B!vars
    BY DEF sessionVars, limitVars, alertVars, billingVars, S!vars, vars, A!vars, B!vars
  <2>3. UNCHANGED U!vars /\ UNCHANGED H!vars /\ UNCHANGED W!vars /\ UNCHANGED C!vars
    BY DEF updateVars, serverVars, wafVars, accountVars, U!vars, H!vars, W!vars, C!vars
  <2>4. UNCHANGED D!vars /\ UNCHANGED K!vars /\ UNCHANGED M!vars /\ UNCHANGED X!vars
    BY DEF deployVars, backupVars, startVars, boxVars, D!vars, K!vars, M!vars, M!startVars,
           X!vars, X!containerVars
  <2>5. UNCHANGED Q!vars /\ UNCHANGED T!vars /\ UNCHANGED E!vars
    BY DEF kubeVars, cronVars, mailVars, wafVars, Q!vars, T!vars, E!vars
  <2>6. UNCHANGED <<count, fails, told, servers, inFlight, backup>>
    BY DEF limitVars, updateVars, serverVars, deployVars, backupVars
  <2> HIDE <1>1 DEF panelVars, callVars
  <2> QED
    BY <2>1, <2>2, <2>3, <2>4, <2>5, <2>6
<1>2. CASE PanelNext
  <2>1. \E p \in Parts : Moves(p)
    BY <1>2, PanelSteps DEF Parts
  <2>2. PICK p \in Parts : Moves(p)
    BY <2>1
  <2>3. part = p /\ part' = part
    BY <2>2 DEF Moves
  <2>4. /\ part # "limits" => count' = count /\ fails' = fails
        /\ part # "update" => told' = told
        /\ part # "servers" => servers' = servers
        /\ part # "deploys" => inFlight' = inFlight
        /\ part # "backups" => backup' = backup
    BY <2>2, <2>3 DEF Moves, limitVars, updateVars, serverVars, deployVars, backupVars
  <2>5. \A q : Moves(q) => q = part
    BY DEF Moves
  <2> QED
    BY <1>2, <2>3, <2>4, <2>5, PanelSteps
<1> QED
  BY <1>1, <1>2

(* Every module keeps its own invariant, the others what they promised.    *)
LEMMA PanelInvStep ==
  ASSUME PanelInv, [PanelNext]_panelVars
  PROVE  PanelInv'
<1>1. part' = part
  BY OnePartMoves
<1>2. part = "sessions" => SesInv'
  BY OnePartMoves, SesInvStep DEF PanelInv
<1>3. part = "limits" => LimitsTypeOK' /\ CountersExpire'
  BY OnePartMoves, LimitTypesStep, CountersStep DEF PanelInv
<1>4. part = "alerts" => AleInv'
  BY OnePartMoves, AleInvStep DEF PanelInv
<1>5. part = "billing" => BilInv'
  BY OnePartMoves, BilInvStep DEF PanelInv
<1>6. part = "update" => UpdInv'
  BY OnePartMoves, UpdInvStep DEF PanelInv
<1>7. part = "servers" => SrvInv'
  BY OnePartMoves, SrvInvStep DEF PanelInv
<1>8. part = "waf" => WafInv'
  BY OnePartMoves, WafInvStep DEF PanelInv
<1>9. part = "accounts" => AccInv'
  BY OnePartMoves, AccInvStep DEF PanelInv
<1>10. part = "deploys" => DepInv'
  BY OnePartMoves, DepInvStep DEF PanelInv
<1>11. part = "backups" => BacInv'
  BY OnePartMoves, BacInvStep DEF PanelInv
<1>12. part = "startup" => StaInv'
  BY OnePartMoves, StaInvStep DEF PanelInv
<1>13. part = "containers" => BoxInv'
  BY OnePartMoves, BoxInvStep DEF PanelInv
<1>14. part = "kubernetes" => KubInv'
  BY OnePartMoves, KubInvStep DEF PanelInv
<1>15. part = "crontab" => CroInv'
  BY OnePartMoves, CroInvStep DEF PanelInv
<1>16. part = "mail" => MaiInv'
  BY OnePartMoves, MaiInvStep DEF PanelInv
<1>17. /\ part # "limits" => count' = count /\ fails' = fails
       /\ part # "update" => told' = told
       /\ part # "servers" => servers' = servers
       /\ part # "deploys" => inFlight' = inFlight
       /\ part # "backups" => backup' = backup
  BY OnePartMoves
<1> QED
  BY <1>1, <1>2, <1>3, <1>4, <1>5, <1>6, <1>7, <1>8, <1>9, <1>10, <1>11, <1>12, <1>13, <1>14, <1>15, <1>16, <1>17 DEF PanelInv

(* It holds in every reachable state.                                      *)
LEMMA AlwaysPanel == PanelSpec => []PanelInv
<1>1. PanelInv /\ [PanelNext]_panelVars => PanelInv'
  BY PanelInvStep
<1> QED
  BY <1>1, PanelInitial, PTL DEF PanelSpec

(***************************************************************************)
(* What it shows                                                           *)
(***************************************************************************)
(* Calls, rows, memory and what is on the servers have their types.        *)
THEOREM PanelTypeCorrect == PanelSpec => []TypeOK
<1>1. PanelInv => TypeOK
  BY DEF PanelInv, TypeOK, SesInv, AleInv, BilInv, UpdInv, SrvInv, WafInv, AccInv, DepInv,
         BacInv, StaInv, BoxInv, KubInv, CroInv, MaiInv
<1> QED
  BY <1>1, AlwaysPanel, PTL

(* The list of sessions shows the tokens that are accepted, in any order of*)
(* the calls, unless a row came between the SELECT and the DELETE of a     *)
(* revocation or something failed; and a backup code that let somebody in  *)
(* is gone, unless two calls overlapped or the UPDATE that removes it      *)
(* failed.                                                                 *)
THEOREM ListIsAlwaysTruth == PanelSpec => []ListIsTruth
<1>1. PanelInv => ListIsTruth
  BY SesMeans DEF PanelInv, ListIsTruth
<1> QED
  BY <1>1, AlwaysPanel, PTL

(* A pass over the alert rules leaves the incidents that the latest sample *)
(* calls for, for any rules and any changes of them, whatever earlier      *)
(* passes broke off at or failed to write.                                 *)
THEOREM IncidentsAlwaysCurrent == PanelSpec => []IncidentsAreCurrent
<1>1. PanelInv => IncidentsAreCurrent
  BY AleMeans DEF PanelInv, IncidentsAreCurrent
<1> QED
  BY <1>1, AlwaysPanel, PTL

(* The user has the plan it pays for once Stripe's events have been applied*)
(* in whatever order they came and however often, unless a checkout was    *)
(* applied after later events, or an UPDATE failed.                        *)
THEOREM AlwaysBilledRight == PanelSpec => []BilledRight
<1>1. PanelInv => BilledRight
  BY BilMeans DEF PanelInv, BilledRight
<1> QED
  BY <1>1, AlwaysPanel, PTL

(* The counters of requests and of failed logins always expire, unless a   *)
(* restart or a lost EXPIRE came between the two commands.                 *)
THEOREM CountersAlwaysExpire == PanelSpec => []CountersExpire
<1>1. PanelInv => CountersExpire
  BY DEF PanelInv, Parts, CountersExpire
<1> QED
  BY <1>1, AlwaysPanel, PTL

(* No call is at the labels of an update, or of a push that keeps others   *)
(* out, in a module other than theirs.                                     *)
LEMMA LabelsAtRest ==
  ASSUME PanelInv, NEW c \in Calls
  PROVE  /\ part # "update" => pc[c] \notin U!AtWork
         /\ part # "deploys" => ~ (op[c] = "push" /\ pc[c] \in {"insert", "release"})
<1> DEFINE NoUpdate == pc[c] \notin U!AtWork
           NoPush == ~ (op[c] = "push" /\ pc[c] \in {"insert", "release"})
<1>1. part \in Parts
  BY DEF PanelInv
<1>2. part = "sessions" => NoUpdate /\ NoPush
  BY DEF PanelInv, SesInv, S!SessionsTypeOK, S!CallsTypeOK, S!Ops, S!Issuers, S!Revokers, S!Labels, U!AtWork
<1>3. part = "limits" => NoUpdate /\ NoPush
  BY DEF PanelInv, LimitsTypeOK, CallsTypeOK, Ops, Labels, U!AtWork
<1>4. part = "alerts" => NoUpdate /\ NoPush
  BY DEF PanelInv, AleInv, A!AlertsTypeOK, A!CallsTypeOK, A!Ops, A!Labels, U!AtWork
<1>5. part = "billing" => NoUpdate /\ NoPush
  BY DEF PanelInv, BilInv, B!BillingTypeOK, B!CallsTypeOK, B!Ops, B!Labels, U!AtWork
<1>6. part = "update" => NoPush
  BY DEF PanelInv, UpdInv, U!UpdateTypeOK, U!CallsTypeOK, U!Ops, U!Labels, U!Saves, U!AtWork
<1>7. part = "servers" => NoUpdate /\ NoPush
  BY DEF PanelInv, SrvInv, H!ServersTypeOK, H!CallsTypeOK, H!Ops, H!Labels, U!AtWork
<1>8. part = "waf" => NoUpdate /\ NoPush
  BY DEF PanelInv, WafInv, W!WafTypeOK, W!CallsTypeOK, W!Ops, W!Labels, U!AtWork
<1>9. part = "accounts" => NoUpdate /\ NoPush
  BY DEF PanelInv, AccInv, C!AccountsTypeOK, C!CallsTypeOK, C!Ops, C!Labels, U!AtWork
<1>10. part = "deploys" => NoUpdate
  BY DEF PanelInv, DepInv, D!DeploymentsTypeOK, D!CallsTypeOK, D!Ops, D!Labels, U!AtWork
<1>11. part = "backups" => NoUpdate /\ NoPush
  BY DEF PanelInv, BacInv, K!BackupsTypeOK, K!CallsTypeOK, K!Ops, K!Labels, U!AtWork
<1>12. part = "startup" => NoUpdate /\ NoPush
  BY DEF PanelInv, StaInv, M!StartupTypeOK, M!CallsTypeOK, M!Ops, M!Labels, U!AtWork
<1>13. part = "containers" => NoUpdate /\ NoPush
  BY DEF PanelInv, BoxInv, X!ContainersTypeOK, X!CallsTypeOK, X!Ops, X!Labels, U!AtWork
<1>14. part = "kubernetes" => NoUpdate /\ NoPush
  BY DEF PanelInv, KubInv, Q!KubernetesTypeOK, Q!CallsTypeOK, Q!Ops, Q!Labels, U!AtWork
<1>15. part = "crontab" => NoUpdate /\ NoPush
  BY DEF PanelInv, CroInv, T!CrontabTypeOK, T!CallsTypeOK, U!AtWork
<1>16. part = "mail" => NoUpdate /\ NoPush
  BY DEF PanelInv, MaiInv, E!MailTypeOK, E!CallsTypeOK, U!AtWork
<1> QED
  BY <1>1, <1>2, <1>3, <1>4, <1>5, <1>6, <1>7, <1>8, <1>9, <1>10, <1>11, <1>12, <1>13, <1>14, <1>15, <1>16 DEF Parts

(* Nothing is done twice: an update while one is at work, a push of an     *)
(* application while one is deployed, a client under two resellers, a      *)
(* migration, or the registration of the master and of what is on it.      *)
THEOREM AlwaysOnceOnly == PanelSpec => []OnceOnly
<1>1. ASSUME PanelInv
      PROVE  OnceOnly
  <2>1. U!OneUpdate
    BY <1>1, UpdMeans, LabelsAtRest DEF PanelInv, U!OneUpdate
  <2>2. D!OnePush
    BY <1>1, DepMeans, LabelsAtRest DEF PanelInv, D!OnePush
  <2>3. part = "accounts" => C!OneReseller
    BY <1>1, AccMeans DEF PanelInv
  <2>4. part = "startup" => M!MigratedOnce /\ M!RegisteredOnce
    BY <1>1, StaMeans DEF PanelInv
  <2> QED
    BY <2>1, <2>2, <2>3, <2>4 DEF OnceOnly
<1> QED
  BY <1>1, AlwaysPanel, PTL

(* What was reported as done was done and stays so: complete updates have  *)
(* pulled both images, started containers have run, completed backups have *)
(* their file, no change of a cluster's object undoes another one, the     *)
(* crontab has the jobs asked for, and mail goes out with the saved        *)
(* settings.                                                               *)
THEOREM SaidIsAlwaysDone == PanelSpec => []SaidIsDone
<1>1. ASSUME PanelInv
      PROVE  SaidIsDone
  <2>1. U!CompleteMeansPulled
    BY <1>1, UpdMeans DEF PanelInv, U!CompleteMeansPulled
  <2>2. K!CompletedHasFile
    BY <1>1 DEF PanelInv, BacInv, BacFiles, Has, Untouched, K!CompletedHasFile
  <2>3. part = "containers" => X!CreatedRuns
    BY <1>1, BoxMeans DEF PanelInv
  <2>4. part = "kubernetes" => Q!ChangeSticks
    BY <1>1 DEF PanelInv, KubInv
  <2>5. part = "crontab" => T!JobsStay
    BY <1>1, CroMeans DEF PanelInv
  <2>6. part = "mail" => E!SettingsAreLive
    BY <1>1, MaiMeans DEF PanelInv
  <2> QED
    BY <2>1, <2>2, <2>3, <2>4, <2>5, <2>6 DEF SaidIsDone
<1> QED
  BY <1>1, AlwaysPanel, PTL

(* What the rows say is so on the servers: the panel's key, or the         *)
(* credential of the master's row, opens the row's host, and nginx runs the*)
(* engine of the row.                                                      *)
THEOREM ServerAlwaysFollowsRows == PanelSpec => []ServerFollowsRows
<1>1. ASSUME PanelInv
      PROVE  ServerFollowsRows
  <2>1. H!KeyWorks
    BY <1>1, SrvMeans DEF PanelInv, H!KeyWorks
  <2>2. part = "startup" => M!MasterOpens
    BY <1>1, StaMeans DEF PanelInv
  <2>3. part = "waf" => W!EngineFollowsRow
    BY <1>1, WafMeans DEF PanelInv
  <2> QED
    BY <2>1, <2>2, <2>3 DEF ServerFollowsRows
<1> QED
  BY <1>1, AlwaysPanel, PTL
=============================================================================
