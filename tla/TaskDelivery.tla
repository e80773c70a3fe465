---------------------------- MODULE TaskDelivery ----------------------------
(***************************************************************************)
(* What the task queue promises to the code that enqueues and to the code  *)
(* that handles, without Redis, SQL or program counters: entries are       *)
(* handed out oldest first, each to one worker; a verdict on a task comes  *)
(* only from a worker that has it in hand; an entry may be lost, a worker  *)
(* may die with one, and nothing is ever handed out again by itself.       *)
(***************************************************************************)
EXTENDS Sequences

CONSTANTS Tasks, Workers, NoTask

VARIABLES
  waiting,  \* accepted entries, oldest first
  hand,     \* the task each worker has
  verdict   \* the last verdict on each task, "none" before there is one

vars == <<waiting, hand, verdict>>

Init ==
  /\ waiting = << >>
  /\ hand = [w \in Workers |-> NoTask]
  /\ verdict = [t \in Tasks |-> "none"]

Accept(t) == waiting' = Append(waiting, t) /\ UNCHANGED <<hand, verdict>>

Take(w) ==
  /\ hand[w] = NoTask
  /\ waiting # << >>
  /\ hand' = [hand EXCEPT ![w] = Head(waiting)]
  /\ waiting' = Tail(waiting)
  /\ UNCHANGED verdict

(* The worker starts on its task: an earlier verdict no longer stands.     *)
Begin(w) ==
  /\ hand[w] # NoTask
  /\ verdict' = [verdict EXCEPT ![hand[w]] = "none"]
  /\ UNCHANGED <<waiting, hand>>

(* The worker is done; its verdict may fail to be recorded.                *)
Settle(w) ==
  /\ hand[w] # NoTask
  /\ \/ \E v \in {"completed", "failed"} :
          verdict' = [verdict EXCEPT ![hand[w]] = v]
     \/ UNCHANGED verdict
  /\ hand' = [hand EXCEPT ![w] = NoTask]
  /\ UNCHANGED waiting

LoseOldest ==
  /\ waiting # << >>
  /\ waiting' = Tail(waiting)
  /\ UNCHANGED <<hand, verdict>>

WorkersDie ==
  /\ hand' = [w \in Workers |-> NoTask]
  /\ UNCHANGED <<waiting, verdict>>

Next ==
  \/ \E t \in Tasks : Accept(t)
  \/ \E w \in Workers : Take(w) \/ Begin(w) \/ Settle(w)
  \/ LoseOldest
  \/ WorkersDie

Spec == Init /\ [][Next]_vars
=============================================================================
