----------------------------- MODULE Background -----------------------------
(***************************************************************************)
(* The shape every hosting service of backend/internal/services shares: a  *)
(* request handler reads and writes one row, returns, and leaves a         *)
(* goroutine on context.Background() that runs a script on the server and  *)
(* perhaps writes the row again.  Nothing serialises two calls, nothing    *)
(* restarts a goroutine, and a script that fails is at most logged.        *)
(*                                                                         *)
(* Many statements are run without a look at their error, so that a call   *)
(* goes on as if its UPDATE had been made or its SELECT had found nothing. *)
(*                                                                         *)
(* A member of Calls is one request together with the goroutine it leaves. *)
(* clash, crashed and lost are history variables, no part of the code.     *)
(***************************************************************************)
EXTENDS Naturals

CONSTANTS
  Calls,        \* requests, each used once
  NoCall,       \* the creator of a row that does not exist
  MaxTroubles   \* bound: scripts and statements that fail, restarts of the API process

ASSUME CallsAssumption == NoCall \notin Calls /\ MaxTroubles \in Nat

VARIABLES
  op,           \* what each call does, "none" until it starts
  pc,           \* where it is: "idle", then the service's labels, then "done"
  clash,        \* history: a call started while another one was unfinished
  crashed,      \* history: the process died under an unfinished call
  troubles,     \* troubles used up, at most MaxTroubles
  lost          \* history: the calls that went on after a statement failed

callVars == <<op, pc, clash, crashed, troubles, lost>>

Live(c) == pc[c] \notin {"idle", "done"}

(* Every call has ended, goroutine included.                               *)
Quiet == \A c \in Calls : ~ Live(c)

(* Nothing out of the ordinary happened so far: one call at a time, every  *)
(* script ran to its end, no restart.                                      *)
Calm == clash = "no" /\ troubles = 0

Did(o) == \E c \in Calls : op[c] = o

CallsInit ==
  /\ op = [c \in Calls |-> "none"]
  /\ pc = [c \in Calls |-> "idle"]
  /\ clash = "no"
  /\ crashed = "no"
  /\ troubles = 0
  /\ lost = {}

(* Call c starts as operation o and continues at label.                    *)
Begin(c, o, label) ==
  /\ pc[c] = "idle"
  /\ op' = [op EXCEPT ![c] = o]
  /\ pc' = [pc EXCEPT ![c] = label]
  /\ clash' = IF Quiet THEN clash ELSE "yes"
  /\ UNCHANGED <<crashed, troubles, lost>>

(* Call c moves on from one label to the next.                             *)
Go(c, from, to) ==
  /\ pc[c] = from
  /\ pc' = [pc EXCEPT ![c] = to]
  /\ UNCHANGED <<op, clash, crashed, troubles, lost>>

(* The same after a script, or the lookup of its server, failed.           *)
GoFailed(c, from, to) ==
  /\ pc[c] = from
  /\ troubles < MaxTroubles
  /\ troubles' = troubles + 1
  /\ pc' = [pc EXCEPT ![c] = to]
  /\ UNCHANGED <<op, clash, crashed, lost>>

(* The same after a statement failed whose error is discarded.             *)
GoLost(c, from, to) ==
  /\ pc[c] = from
  /\ troubles < MaxTroubles
  /\ troubles' = troubles + 1
  /\ pc' = [pc EXCEPT ![c] = to]
  /\ lost' = lost \cup {c}
  /\ UNCHANGED <<op, clash, crashed>>

(* The API process restarts: every handler and goroutine is gone, the rows *)
(* and the servers stay as they are.                                       *)
CrashCalls ==
  /\ ~ Quiet
  /\ troubles < MaxTroubles
  /\ troubles' = troubles + 1
  /\ crashed' = "yes"
  /\ pc' = [c \in Calls |-> IF Live(c) THEN "done" ELSE pc[c]]
  /\ UNCHANGED <<op, clash, lost>>

CallsTypeOK(ops, labels) ==
  /\ op \in [Calls -> {"none"} \cup ops]
  /\ pc \in [Calls -> {"idle", "done"} \cup labels]
  /\ clash \in {"no", "yes"}
  /\ crashed \in {"no", "yes"}
  /\ troubles \in 0 .. MaxTroubles
  /\ lost \subseteq Calls
=============================================================================
