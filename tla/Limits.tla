------------------------------- MODULE Limits -------------------------------
(***************************************************************************)
(* The two counters in Redis that hold back one IP address:                *)
(* RateLimitMiddleware (backend/internal/middleware/ratelimit.go) and      *)
(* LoginLimiter (login_limiter.go).  Each command to Redis is a step of    *)
(* its own; a key goes away when its time has run out, if it has one.      *)
(***************************************************************************)
EXTENDS Background

CONSTANT
  MaxFails      \* failed logins that lock

ASSUME LimitsAssumption == MaxFails \in Nat \ {0, 1}

VARIABLES
  count, countTtl,    \* ratelimit:<ip>, and whether it will expire
  fails, failsTtl,    \* login_fail:<ip>
  lock                \* login_lock:<ip>, always set with its duration

rateVars  == <<count, countTtl>>
loginVars == <<fails, failsTtl, lock>>
limitVars == <<count, countTtl, fails, failsTtl, lock>>
vars == <<op, pc, clash, crashed, troubles, lost, count, countTtl, fails, failsTtl, lock>>

Ops    == {"request", "login"}
Labels == {"expire", "get", "ttl", "handler", "incr", "expireFails", "lock", "unlock"}

Init ==
  /\ CallsInit
  /\ count = 0 /\ countTtl = "none"
  /\ fails = 0 /\ failsTtl = "none"
  /\ lock = "none"

(***************************************************************************)
(* RateLimitMiddleware: only the request that made the counter dates it.   *)
(* A failed INCR lets the request through; the answer 429 changes nothing. *)
(***************************************************************************)
Request(c) ==
  /\ Begin(c, "request", IF count = 0 THEN "expire" ELSE "done")
  /\ count' = count + 1
  /\ UNCHANGED <<countTtl, loginVars>>

Expire(c) ==
  /\ \/ Go(c, "expire", "done") /\ countTtl' = IF count > 0 THEN "set" ELSE countTtl
     \/ GoFailed(c, "expire", "done") /\ UNCHANGED countTtl
  /\ UNCHANGED <<count, loginVars>>

(***************************************************************************)
(* LoginLimiter around the login handler                                   *)
(***************************************************************************)
LoginArrives(c) ==
  /\ Begin(c, "login", "get")
  /\ UNCHANGED limitVars

(* The middleware asks for the lock only if the counter says so.  A command*)
(* that fails keeps nobody out.                                            *)
ReadFailures(c) ==
  /\ \/ Go(c, "get", IF fails >= MaxFails THEN "ttl" ELSE "handler")
     \/ GoFailed(c, "get", "handler")
  /\ UNCHANGED limitVars

AskLock(c) ==
  /\ Go(c, "ttl", IF lock = "set" THEN "done" ELSE "handler") \/ GoFailed(c, "ttl", "handler")
  /\ UNCHANGED limitVars

(* The password was right: RecordSuccess deletes the two keys.             *)
Succeed(c) ==
  /\ \/ Go(c, "handler", "unlock") /\ fails' = 0 /\ failsTtl' = "none"
     \/ GoFailed(c, "handler", "unlock") /\ UNCHANGED <<fails, failsTtl>>
  /\ UNCHANGED <<lock, rateVars>>

Unlock(c) ==
  /\ \/ Go(c, "unlock", "done") /\ lock' = "none"
     \/ GoFailed(c, "unlock", "done") /\ UNCHANGED lock
  /\ UNCHANGED <<fails, failsTtl, rateVars>>

(* It was wrong, or a second factor is due: RecordFailure.                 *)
Fail(c) ==
  /\ Go(c, "handler", "incr")
  /\ UNCHANGED limitVars

(* Mutant of AfterIncr: the lock branch returns before EXPIRE is reached.  *)
AfterIncrNoExpiry(n) == IF n >= MaxFails THEN "lock" ELSE "done"

AfterIncr(n) == IF n = 1 THEN "expireFails" ELSE IF n >= MaxFails THEN "lock" ELSE "done"

CountFailure(c) ==
  /\ \/ Go(c, "incr", AfterIncr(fails + 1)) /\ fails' = fails + 1
     \/ GoFailed(c, "incr", "done") /\ UNCHANGED fails
  /\ UNCHANGED <<failsTtl, lock, rateVars>>

(* EXPIRE of a key that a RecordSuccess has deleted meanwhile does nothing.*)
ExpireFails(c) ==
  /\ \/ Go(c, "expireFails", "done") /\ failsTtl' = IF fails > 0 THEN "set" ELSE failsTtl
     \/ GoFailed(c, "expireFails", "done") /\ UNCHANGED failsTtl
  /\ UNCHANGED <<fails, lock, rateVars>>

SetLock(c) ==
  /\ \/ Go(c, "lock", "done") /\ lock' = "set"
     \/ GoFailed(c, "lock", "done") /\ UNCHANGED lock
  /\ UNCHANGED <<fails, failsTtl, rateVars>>

(***************************************************************************)
(* Redis                                                                   *)
(***************************************************************************)
WindowEnds ==
  /\ countTtl = "set"
  /\ count' = 0 /\ countTtl' = "none"
  /\ UNCHANGED <<callVars, loginVars>>

FailuresExpire ==
  /\ failsTtl = "set"
  /\ fails' = 0 /\ failsTtl' = "none"
  /\ UNCHANGED <<callVars, rateVars, lock>>

LockEnds ==
  /\ lock = "set"
  /\ lock' = "none"
  /\ UNCHANGED <<callVars, rateVars, fails, failsTtl>>

Start(c) == Request(c) \/ LoginArrives(c)

Step(c) ==
  \/ Expire(c) \/ ReadFailures(c) \/ AskLock(c) \/ Succeed(c) \/ Unlock(c) \/ Fail(c)
  \/ CountFailure(c) \/ ExpireFails(c) \/ SetLock(c)

Time == WindowEnds \/ FailuresExpire \/ LockEnds

Crash == CrashCalls /\ UNCHANGED limitVars

Next == (\E c \in Calls : Start(c) \/ Step(c)) \/ Time \/ Crash

Spec == Init /\ [][Next]_vars

LimitsTypeOK ==
  /\ CallsTypeOK(Ops, Labels)
  /\ count \in Nat /\ fails \in Nat
  /\ countTtl \in {"none", "set"} /\ failsTtl \in {"none", "set"}
  /\ lock \in {"none", "set"}

(* No address is held back for ever: a counter that is not zero has an     *)
(* expiry, or the request that found it missing is still to set one.  The  *)
(* exception is the restart, or the lost EXPIRE, between the two commands: *)
(* INCR never answers 1 again, and the counter stays (troubles).           *)
CountersExpire ==
  \/ troubles > 0
  \/ /\ count > 0 /\ countTtl = "none" => \E c \in Calls : pc[c] = "expire"
     /\ fails > 0 /\ failsTtl = "none" => \E c \in Calls : pc[c] = "expireFails"
=============================================================================
