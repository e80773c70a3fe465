----------------------------- MODULE TaskQueue -----------------------------
(***************************************************************************)
(* The background task queue of the NovaPanel API process:                 *)
(*   backend/internal/queue/queue.go   Enqueue, Dequeue, Complete, Fail    *)
(*   backend/internal/queue/worker.go  the worker goroutines               *)
(*                                                                         *)
(* A task lives in two stores that no transaction joins: the Redis list    *)
(* "novapanel:tasks" (variable queue, oldest entry first: LPUSH adds at    *)
(* one end and BRPOP takes from the other) and the PostgreSQL table tasks  *)
(* (variable row).  Every Enqueue call makes a fresh uuid, so a member of  *)
(* Tasks stands for the call and for the task it creates.                  *)
(*                                                                         *)
(* The history variables ran, outcome and slips are no part of the code:   *)
(* they record what handlers did and which failures a task has met.        *)
(***************************************************************************)
EXTENDS Naturals, Sequences

CONSTANTS
  Tasks,       \* task ids, one per Enqueue call
  Workers,     \* worker goroutines (main.go starts three)
  Registered,  \* the tasks whose type has a handler (RegisterHandler)
  NoTask,      \* a worker's task while it has none
  MaxFaults,   \* bound: Redis errors, lost replies and failed SQL statements
  MaxCrashes   \* bound: times the process dies and is restarted

ASSUME ConstantsAssumption ==
  /\ Registered \subseteq Tasks
  /\ NoTask \notin Tasks
  /\ MaxFaults \in Nat
  /\ MaxCrashes \in Nat

VARIABLES
  call,     \* progress of each Enqueue call
  queue,    \* the Redis list, oldest entry first
  row,      \* tasks.status, "absent" when there is no such row
  pc,       \* where each worker is in process()
  cur,      \* the task each worker has dequeued
  stop,     \* the channel stop, "open" or "closed"
  ran,      \* history: times a handler was started for the task
  outcome,  \* history: what those handler calls returned
  slips,    \* history: the failures the task has met
  faults,   \* faults used up, at most MaxFaults
  crashes   \* restarts used up, at most MaxCrashes

history == <<ran, outcome, slips>>
vars == <<call, queue, row, pc, cur, stop, ran, outcome, slips, faults, crashes>>

CallStates == {"none", "resending", "pushed", "returned", "refused", "died"}
RowStates  == {"absent", "queued", "running", "completed", "failed"}
Terminal   == {"completed", "failed"}
WorkerPCs  == {"check", "brpop", "backoff", "popped", "dispatch", "handling",
               "complete", "fail", "stopped"}
Outcomes   == {"ok", "err"}
Slips      == {"resent", "dropped", "crashed", "norow", "dberror"}

(* The worker has a task in hand. *)
Busy == {"popped", "dispatch", "handling", "complete", "fail"}

InQueue(t) == \E i \in 1..Len(queue) : queue[i] = t

(***************************************************************************)
(* Helpers                                                                 *)
(***************************************************************************)
Fault == faults < MaxFaults /\ faults' = faults + 1

Mark(t, slip) == slips' = [slips EXCEPT ![t] = @ \cup {slip}]

(* UPDATE tasks SET status = s WHERE id = t, its error ignored: it changes  *)
(* nothing when the row is not there yet, or when the statement fails.     *)
UpdateRow(t, s) ==
  \/ /\ row[t] # "absent"
     /\ row' = [row EXCEPT ![t] = s]
     /\ UNCHANGED <<slips, faults>>
  \/ /\ row[t] = "absent"
     /\ Mark(t, "norow")
     /\ UNCHANGED <<row, faults>>
  \/ /\ Fault
     /\ Mark(t, "dberror")
     /\ UNCHANGED row

Init ==
  /\ call = [t \in Tasks |-> "none"]
  /\ queue = << >>
  /\ row = [t \in Tasks |-> "absent"]
  /\ pc = [w \in Workers |-> "check"]
  /\ cur = [w \in Workers |-> NoTask]
  /\ stop = "open"
  /\ ran = [t \in Tasks |-> 0]
  /\ outcome = [t \in Tasks |-> {}]
  /\ slips = [t \in Tasks |-> {}]
  /\ faults = 0
  /\ crashes = 0

(***************************************************************************)
(* Enqueue, run by an HTTP handler: first the LPUSH, then the INSERT.      *)
(***************************************************************************)
workerVars == <<pc, cur, stop>>

(* Mutant of LPush: the entry goes to the end BRPOP takes from.            *)
LPushAtTail(t) ==
  /\ call[t] \in {"none", "resending"}
  /\ call' = [call EXCEPT ![t] = "pushed"]
  /\ queue' = <<t>> \o queue
  /\ UNCHANGED <<row, workerVars, history, faults, crashes>>

LPush(t) ==
  /\ call[t] \in {"none", "resending"}
  /\ call' = [call EXCEPT ![t] = "pushed"]
  /\ queue' = Append(queue, t)
  /\ UNCHANGED <<row, workerVars, history, faults, crashes>>

(* Redis runs the LPUSH but its reply is lost: go-redis sends the command  *)
(* again (MaxRetries is left at its default by database/redis.go).         *)
LPushReplyLost(t) ==
  /\ call[t] \in {"none", "resending"}
  /\ Fault
  /\ call' = [call EXCEPT ![t] = "resending"]
  /\ queue' = Append(queue, t)
  /\ Mark(t, "resent")
  /\ UNCHANGED <<row, workerVars, ran, outcome, crashes>>

(* LPush(...).Err() # nil: Enqueue returns the error and no id.            *)
LPushFails(t) ==
  /\ call[t] \in {"none", "resending"}
  /\ Fault
  /\ call' = [call EXCEPT ![t] = "refused"]
  /\ UNCHANGED <<queue, row, workerVars, history, crashes>>

(* The INSERT, whose failure is only logged: Enqueue returns the id anyway. *)
Persist(t) ==
  /\ call[t] = "pushed"
  /\ call' = [call EXCEPT ![t] = "returned"]
  /\ \/ row' = [row EXCEPT ![t] = "queued"] /\ UNCHANGED faults
     \/ Fault /\ UNCHANGED row
  /\ UNCHANGED <<queue, workerVars, history, crashes>>

(***************************************************************************)
(* One iteration of Worker.process.                                        *)
(***************************************************************************)
Goto(w, label) == pc' = [pc EXCEPT ![w] = label]

Release(w) == cur' = [cur EXCEPT ![w] = NoTask]

(* select { case <-w.stop: return; default: ... }                          *)
Select(w) ==
  /\ pc[w] = "check"
  /\ Goto(w, IF stop = "closed" THEN "stopped" ELSE "brpop")
  /\ UNCHANGED <<call, queue, row, cur, stop, history, faults, crashes>>

(* Mutant of BRPop: the entry is read (LINDEX) and not removed.            *)
BRPopPeeks(w) ==
  /\ pc[w] = "brpop"
  /\ queue # << >>
  /\ cur' = [cur EXCEPT ![w] = Head(queue)]
  /\ Goto(w, "popped")
  /\ UNCHANGED <<call, queue, row, stop, history, faults, crashes>>

BRPop(w) ==
  /\ pc[w] = "brpop"
  /\ queue # << >>
  /\ queue' = Tail(queue)
  /\ cur' = [cur EXCEPT ![w] = Head(queue)]
  /\ Goto(w, "popped")
  /\ UNCHANGED <<call, row, stop, history, faults, crashes>>

(* Mutant of BRPopTimeout: return where the code has continue.             *)
BRPopTimeoutReturns(w) ==
  /\ pc[w] = "brpop"
  /\ queue = << >>
  /\ Goto(w, "stopped")
  /\ UNCHANGED <<call, queue, row, cur, stop, history, faults, crashes>>

(* Five seconds without an entry: redis.Nil, Dequeue returns nil, nil.     *)
BRPopTimeout(w) ==
  /\ pc[w] = "brpop"
  /\ queue = << >>
  /\ Goto(w, "check")
  /\ UNCHANGED <<call, queue, row, cur, stop, history, faults, crashes>>

(* The connection breaks after Redis has popped the entry and before the   *)
(* client has read it.                                                     *)
BRPopReplyLost(w) ==
  /\ pc[w] = "brpop"
  /\ queue # << >>
  /\ Fault
  /\ queue' = Tail(queue)
  /\ Mark(Head(queue), "dropped")
  /\ UNCHANGED <<call, row, workerVars, ran, outcome, crashes>>

(* Dequeue returns an error; the worker sleeps one second.                 *)
BRPopFails(w) ==
  /\ pc[w] = "brpop"
  /\ Fault
  /\ Goto(w, "backoff")
  /\ UNCHANGED <<call, queue, row, cur, stop, history, crashes>>

Wake(w) ==
  /\ pc[w] = "backoff"
  /\ Goto(w, "check")
  /\ UNCHANGED <<call, queue, row, cur, stop, history, faults, crashes>>

(* The UPDATE ... SET status = 'running' at the end of Dequeue.            *)
MarkRunning(w) ==
  /\ pc[w] = "popped"
  /\ UpdateRow(cur[w], "running")
  /\ Goto(w, "dispatch")
  /\ UNCHANGED <<call, queue, cur, stop, ran, outcome, crashes>>

(* Mutant of Dispatch: no Fail for a type without a handler.               *)
DispatchForgetsFail(w) ==
  /\ pc[w] = "dispatch"
  /\ IF cur[w] \in Registered
       THEN /\ Goto(w, "handling")
            /\ ran' = [ran EXCEPT ![cur[w]] = @ + 1]
            /\ UNCHANGED cur
       ELSE Goto(w, "check") /\ Release(w) /\ UNCHANGED ran
  /\ UNCHANGED <<call, queue, row, stop, outcome, slips, faults, crashes>>

(* handler, ok := w.handlers[task.Type]                                    *)
Dispatch(w) ==
  /\ pc[w] = "dispatch"
  /\ \/ /\ cur[w] \in Registered
        /\ Goto(w, "handling")
        /\ ran' = [ran EXCEPT ![cur[w]] = @ + 1]
     \/ /\ cur[w] \notin Registered
        /\ Goto(w, "fail")
        /\ UNCHANGED ran
  /\ UNCHANGED <<call, queue, row, cur, stop, outcome, slips, faults, crashes>>

(* Mutant of HandlerReturns: the error branch falls through to Complete.   *)
HandlerReturnsFallsThrough(w, o) ==
  /\ pc[w] = "handling"
  /\ outcome' = [outcome EXCEPT ![cur[w]] = @ \cup {o}]
  /\ Goto(w, "complete")
  /\ UNCHANGED <<call, queue, row, cur, stop, ran, slips, faults, crashes>>

HandlerReturns(w, o) ==
  /\ pc[w] = "handling"
  /\ outcome' = [outcome EXCEPT ![cur[w]] = @ \cup {o}]
  /\ Goto(w, IF o = "ok" THEN "complete" ELSE "fail")
  /\ UNCHANGED <<call, queue, row, cur, stop, ran, slips, faults, crashes>>

Complete(w) ==
  /\ pc[w] = "complete"
  /\ UpdateRow(cur[w], "completed")
  /\ Goto(w, "check")
  /\ Release(w)
  /\ UNCHANGED <<call, queue, stop, ran, outcome, crashes>>

Fail(w) ==
  /\ pc[w] = "fail"
  /\ UpdateRow(cur[w], "failed")
  /\ Goto(w, "check")
  /\ Release(w)
  /\ UNCHANGED <<call, queue, stop, ran, outcome, crashes>>

(***************************************************************************)
(* The process: Stop closes the channel; a handler's panic (process() has  *)
(* no recover), a kill or log.Fatalf ends every goroutine, Redis and       *)
(* PostgreSQL keep what they have, and main starts new workers.            *)
(***************************************************************************)
Stop ==
  /\ stop = "open"
  /\ stop' = "closed"
  /\ UNCHANGED <<call, queue, row, pc, cur, history, faults, crashes>>

CrashRestart ==
  /\ crashes < MaxCrashes
  /\ crashes' = crashes + 1
  /\ call' = [t \in Tasks |-> IF call[t] \in {"resending", "pushed"}
                                THEN "died" ELSE call[t]]
  /\ pc' = [w \in Workers |-> "check"]
  /\ cur' = [w \in Workers |-> NoTask]
  /\ stop' = "open"
  /\ slips' = [t \in Tasks |-> IF \E w \in Workers : cur[w] = t
                                 THEN slips[t] \cup {"crashed"} ELSE slips[t]]
  /\ UNCHANGED <<queue, row, ran, outcome, faults>>

Enqueue(t) == LPush(t) \/ LPushReplyLost(t) \/ LPushFails(t) \/ Persist(t)

(* The steps of a worker that depend on nothing but its scheduling.        *)
WorkerStep(w) ==
  \/ Select(w) \/ BRPop(w) \/ BRPopTimeout(w) \/ Wake(w) \/ MarkRunning(w)
  \/ Dispatch(w) \/ Complete(w) \/ Fail(w)

HandlerEnds(w) == \E o \in Outcomes : HandlerReturns(w, o)

Next ==
  \/ \E t \in Tasks : Enqueue(t)
  \/ \E w \in Workers : \/ WorkerStep(w) \/ HandlerEnds(w)
                        \/ BRPopReplyLost(w) \/ BRPopFails(w)
  \/ Stop
  \/ CrashRestart

Spec == Init /\ [][Next]_vars

(* Goroutines that can run are scheduled.  Nothing bounds the time a       *)
(* handler takes: session.Run in provisioner/pool.go has no deadline.      *)
FairSpec == Spec /\ \A w \in Workers : WF_vars(WorkerStep(w))

(* Every script a handler starts ends by itself; nothing enforces it.      *)
HandlersEnd == \A w \in Workers : WF_vars(HandlerEnds(w))

(***************************************************************************)
(* Properties                                                              *)
(***************************************************************************)

(* Types, and a worker has a task exactly from BRPOP to Complete or Fail.  *)
TypeOK ==
  /\ call \in [Tasks -> CallStates]
  /\ queue \in Seq(Tasks)
  /\ row \in [Tasks -> RowStates]
  /\ pc \in [Workers -> WorkerPCs]
  /\ cur \in [Workers -> Tasks \cup {NoTask}]
  /\ \A w \in Workers : cur[w] \in Tasks <=> pc[w] \in Busy
  /\ stop \in {"open", "closed"}
  /\ ran \in [Tasks -> Nat]
  /\ outcome \in [Tasks -> SUBSET Outcomes]
  /\ slips \in [Tasks -> SUBSET Slips]
  /\ faults \in 0..MaxFaults
  /\ crashes \in 0..MaxCrashes

(* A handler is started at most once for a task, however many workers poll *)
(* the list and wherever the process dies, unless the LPUSH itself was     *)
(* sent twice: provisioning scripts are not safe to run twice at a time.   *)
AtMostOnce == \A t \in Tasks : "resent" \notin slips[t] => ran[t] <= 1

(* The status shown to the user agrees with what the handler returned.     *)
HonestRow ==
  \A t \in Tasks :
    /\ row[t] = "completed" => "ok" \in outcome[t]
    /\ row[t] = "failed" => "err" \in outcome[t] \/ t \notin Registered

(* A row says 'running' only while a worker has the task, unless a fault   *)
(* or a crash took the worker's verdict away: a normal iteration, whatever *)
(* branch it takes, never leaves a row running behind it.                  *)
RunningHasOwner ==
  \A t \in Tasks :
    row[t] = "running" /\ slips[t] = {} =>
      \E w \in Workers : cur[w] = t /\ pc[w] \in Busy \ {"popped"}

(* The dashboard's count of pending tasks (server_service.go:216) never    *)
(* leaves out a task that still waits in Redis and has a row.              *)
WaitingIsCounted ==
  \A t \in Tasks :
    InQueue(t) /\ "resent" \notin slips[t] => row[t] \in {"absent", "queued"}

(* Once completed or failed, a task's row is final.                        *)
TerminalIsFinal ==
  [][\A t \in Tasks : row[t] \in Terminal /\ "resent" \notin slips[t]'
                        => row'[t] = row[t]]_vars

(* No entry waits while a worker could take it: sooner or later it leaves  *)
(* the list, unless Stop was called or every worker is inside a handler.   *)
WorkConserving ==
  \A t \in Tasks :
    InQueue(t) ~> \/ ~InQueue(t)
                  \/ stop = "closed"
                  \/ \A w \in Workers : pc[w] = "handling"

(* When handlers end, a row that says 'running' gets a verdict or the task *)
(* met a failure.                                                          *)
RunningSettles ==
  HandlersEnd =>
    \A t \in Tasks : row[t] = "running" ~> row[t] \in Terminal \/ slips[t] # {}

(* "Complete marks a task as completed" (queue.go:92): when a worker is    *)
(* done with a task that met no fault and no crash, and Enqueue has        *)
(* persisted it, the row is terminal.                                      *)
FinishedIsMarked ==
  \A t \in Tasks :
    /\ ran[t] = 1 /\ \A w \in Workers : cur[w] # t
    /\ call[t] = "returned" /\ row[t] # "absent"
    /\ slips[t] \subseteq {"norow"}
    => row[t] \in Terminal

(***************************************************************************)
(* The inductive invariant behind these properties                         *)
(***************************************************************************)

(* A task pushed once is in one place at a time: not pushed yet, once in   *)
(* the list, or with one worker; and its handler starts at that worker.    *)
SingleDelivery ==
  \A t \in Tasks : "resent" \notin slips[t] =>
    /\ \A i, j \in 1..Len(queue) : queue[i] = t /\ queue[j] = t => i = j
    /\ \A v, w \in Workers : cur[v] = t /\ cur[w] = t => v = w
    /\ \A w \in Workers : cur[w] = t => ~InQueue(t)
    /\ call[t] \in {"none", "resending"} =>
         ~InQueue(t) /\ ran[t] = 0 /\ \A w \in Workers : cur[w] # t
    /\ InQueue(t) => ran[t] = 0
    /\ \A w \in Workers :
         cur[w] = t /\ pc[w] \in {"popped", "dispatch"} => ran[t] = 0
    /\ ran[t] <= 1

(* Only Persist creates a row; a verdict waits for the worker to be done.  *)
RowFollowsTask ==
  \A t \in Tasks :
    /\ call[t] # "returned" => row[t] = "absent"
    /\ "resent" \notin slips[t] =>
         /\ InQueue(t) => row[t] \in {"absent", "queued"}
         /\ \A w \in Workers : cur[w] = t => row[t] \notin Terminal

(* A worker about to write a verdict has the handler's result for it.      *)
VerdictGrounded ==
  \A w \in Workers :
    /\ pc[w] = "complete" => "ok" \in outcome[cur[w]]
    /\ pc[w] = "fail" => "err" \in outcome[cur[w]] \/ cur[w] \notin Registered

(* What every step preserves, and what implies the properties above.       *)
InductiveInv ==
  SingleDelivery /\ RowFollowsTask /\ VerdictGrounded /\ HonestRow /\ RunningHasOwner

(* The queue implements the delivery promise of TaskDelivery: waiting is   *)
(* the Redis list, hand the workers' tasks, verdict the terminal rows.     *)
Delivery == INSTANCE TaskDelivery WITH
  waiting <- queue,
  hand <- cur,
  verdict <- [t \in Tasks |-> IF row[t] \in Terminal THEN row[t] ELSE "none"]

(* Every step of the code is a step, or no step, of that promise.          *)
ImplementsDelivery == Delivery!Spec
=============================================================================
