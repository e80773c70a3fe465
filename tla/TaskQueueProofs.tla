-------------------------- MODULE TaskQueueProofs --------------------------
(***************************************************************************)
(* Theorems about TaskQueue for every number of tasks, workers, faults and *)
(* restarts.                                                               *)
(***************************************************************************)
EXTENDS TaskQueue, TLAPS

(* The three ways UpdateRow can go, for a row map and slips of the right   *)
(* types: nothing but the row of t and the slips of t can change, the row  *)
(* only to s, and slips only grow.                                         *)
LEMMA UpdateRowEffect ==
  ASSUME TypeOK, NEW t \in Tasks, NEW s \in RowStates, UpdateRow(t, s)
  PROVE  /\ row' \in [Tasks -> RowStates]
         /\ slips' \in [Tasks -> SUBSET Slips]
         /\ faults' \in 0..MaxFaults
         /\ \A u \in Tasks : u # t => row'[u] = row[u] /\ slips'[u] = slips[u]
         /\ \/ row'[t] = s /\ slips'[t] = slips[t] /\ row[t] # "absent"
            \/ row'[t] = row[t] /\ slips'[t] # {} /\ slips[t] \subseteq slips'[t]
         /\ ("resent" \in slips'[t]) <=> ("resent" \in slips[t])
<1> USE ConstantsAssumption DEF TypeOK, UpdateRow, Fault, Mark, Slips
<1>1. CASE row[t] # "absent" /\ row' = [row EXCEPT ![t] = s] /\ UNCHANGED <<slips, faults>>
  BY <1>1
<1>2. CASE row[t] = "absent" /\ Mark(t, "norow") /\ UNCHANGED <<row, faults>>
  BY <1>2
<1>3. CASE Fault /\ Mark(t, "dberror") /\ UNCHANGED row
  BY <1>3
<1> QED BY <1>1, <1>2, <1>3

(* Types, and a worker has a task exactly while it is busy with it.       *)
THEOREM TypeCorrect == Spec => []TypeOK
<1>1. Init => TypeOK
  BY ConstantsAssumption
     DEF Init, TypeOK, CallStates, RowStates, WorkerPCs, Busy
<1>2. TypeOK /\ [Next]_vars => TypeOK'
  <2> SUFFICES ASSUME TypeOK, [Next]_vars PROVE TypeOK'
    OBVIOUS
  <2> USE ConstantsAssumption DEF TypeOK, CallStates, WorkerPCs, Busy, Goto,
        Release, history, workerVars
  <2>1. ASSUME NEW t \in Tasks, Enqueue(t) PROVE TypeOK'
    <3>1. CASE LPush(t)
      BY <3>1 DEF LPush
    <3>2. CASE LPushReplyLost(t)
      BY <3>2 DEF LPushReplyLost, Fault, Mark, Slips
    <3>3. CASE LPushFails(t)
      BY <3>3 DEF LPushFails, Fault
    <3>4. CASE Persist(t)
      BY <3>4 DEF Persist, Fault, RowStates
    <3> QED BY <2>1, <3>1, <3>2, <3>3, <3>4 DEF Enqueue
  <2>2. ASSUME NEW w \in Workers, WorkerStep(w) PROVE TypeOK'
    <3>1. CASE Select(w) \/ BRPopTimeout(w) \/ Wake(w)
      BY <3>1 DEF Select, BRPopTimeout, Wake
    <3>2. CASE BRPop(w)
      <4>1. Head(queue) \in Tasks /\ Tail(queue) \in Seq(Tasks)
        BY <3>2 DEF BRPop
      <4> QED BY <3>2, <4>1 DEF BRPop
    <3>3. CASE MarkRunning(w)
      <4>1. cur[w] \in Tasks /\ UpdateRow(cur[w], "running") /\ "running" \in RowStates
        BY <3>3 DEF MarkRunning, RowStates
      <4> HIDE DEF TypeOK
      <4>2. /\ row' \in [Tasks -> RowStates] /\ slips' \in [Tasks -> SUBSET Slips]
            /\ faults' \in 0..MaxFaults
        BY <4>1, UpdateRowEffect
      <4> QED BY <3>3, <4>2 DEF MarkRunning, TypeOK
    <3>4. CASE Dispatch(w)
      <4>1. cur[w] \in Tasks /\ ran[cur[w]] + 1 \in Nat
        BY <3>4 DEF Dispatch
      <4>2. CASE cur[w] \in Registered
        <5>1. /\ pc' = [pc EXCEPT ![w] = "handling"]
              /\ ran' = [ran EXCEPT ![cur[w]] = ran[cur[w]] + 1]
              /\ pc[w] = "dispatch"
              /\ UNCHANGED <<call, queue, row, cur, stop, outcome, slips, faults, crashes>>
          BY <3>4, <4>2 DEF Dispatch
        <5>2. ran' \in [Tasks -> Nat]
          BY <5>1, <4>1
        <5> QED BY <5>1, <5>2
      <4>3. CASE cur[w] \notin Registered
        BY <3>4, <4>1, <4>3 DEF Dispatch
      <4> QED BY <4>2, <4>3
    <3>5. CASE Complete(w)
      <4>1. cur[w] \in Tasks /\ UpdateRow(cur[w], "completed") /\ "completed" \in RowStates
        BY <3>5 DEF Complete, RowStates
      <4> HIDE DEF TypeOK
      <4>2. /\ row' \in [Tasks -> RowStates] /\ slips' \in [Tasks -> SUBSET Slips]
            /\ faults' \in 0..MaxFaults
        BY <4>1, UpdateRowEffect
      <4> QED BY <3>5, <4>2 DEF Complete, TypeOK
    <3>6. CASE Fail(w)
      <4>1. cur[w] \in Tasks /\ UpdateRow(cur[w], "failed") /\ "failed" \in RowStates
        BY <3>6 DEF Fail, RowStates
      <4> HIDE DEF TypeOK
      <4>2. /\ row' \in [Tasks -> RowStates] /\ slips' \in [Tasks -> SUBSET Slips]
            /\ faults' \in 0..MaxFaults
        BY <4>1, UpdateRowEffect
      <4> QED BY <3>6, <4>2 DEF Fail, TypeOK
    <3> QED BY <2>2, <3>1, <3>2, <3>3, <3>4, <3>5, <3>6 DEF WorkerStep
  <2>3. ASSUME NEW w \in Workers, HandlerEnds(w) PROVE TypeOK'
    BY <2>3 DEF HandlerEnds, HandlerReturns, Outcomes
  <2>4. ASSUME NEW w \in Workers, BRPopReplyLost(w) PROVE TypeOK'
    <3>1. Head(queue) \in Tasks /\ Tail(queue) \in Seq(Tasks)
      BY <2>4 DEF BRPopReplyLost
    <3> QED BY <2>4, <3>1 DEF BRPopReplyLost, Fault, Mark, Slips
  <2>5. ASSUME NEW w \in Workers, BRPopFails(w) PROVE TypeOK'
    BY <2>5 DEF BRPopFails, Fault
  <2>6. CASE Stop
    BY <2>6 DEF Stop
  <2>7. CASE CrashRestart
    BY <2>7 DEF CrashRestart, Slips
  <2>8. CASE UNCHANGED vars
    BY <2>8 DEF vars
  <2> QED BY <2>1, <2>2, <2>3, <2>4, <2>5, <2>6, <2>7, <2>8 DEF Next
<1> QED BY <1>1, <1>2, PTL DEF Spec

(* Where a task can be in the list after LPUSH and after BRPOP.            *)
LEMMA AppendPlaces ==
  ASSUME NEW q \in Seq(Tasks), NEW t \in Tasks
  PROVE  /\ Append(q, t) \in Seq(Tasks)
         /\ Len(Append(q, t)) = Len(q) + 1
         /\ \A i \in 1..Len(q) : Append(q, t)[i] = q[i]
         /\ Append(q, t)[Len(q) + 1] = t
  OBVIOUS

LEMMA TailPlaces ==
  ASSUME NEW q \in Seq(Tasks), q # << >>
  PROVE  /\ Tail(q) \in Seq(Tasks) /\ Head(q) \in Tasks
         /\ Len(q) \in Nat \ {0} /\ Len(Tail(q)) = Len(q) - 1
         /\ \A i \in 1..Len(Tail(q)) : Tail(q)[i] = q[i + 1]
         /\ Head(q) = q[1]
  OBVIOUS

(* No step takes a slip back.                                              *)
LEMMA SlipsGrow ==
  ASSUME TypeOK, [Next]_vars, NEW t \in Tasks
  PROVE  slips[t] \subseteq slips'[t]
<1> USE DEF TypeOK
<1>1. ASSUME NEW u \in Tasks, Enqueue(u) PROVE slips[t] \subseteq slips'[t]
  BY <1>1 DEF Enqueue, LPush, LPushReplyLost, LPushFails, Persist, Mark, history
<1>2. ASSUME NEW w \in Workers, WorkerStep(w) PROVE slips[t] \subseteq slips'[t]
  <2>1. CASE MarkRunning(w) \/ Complete(w) \/ Fail(w)
    <3>1. PICK s \in RowStates : UpdateRow(cur[w], s)
      BY <2>1 DEF MarkRunning, Complete, Fail, RowStates
    <3> QED BY <3>1 DEF UpdateRow, Mark
  <2>2. CASE UNCHANGED slips
    BY <2>2
  <2> QED
    BY <1>2, <2>1, <2>2 DEF WorkerStep, Select, BRPop, BRPopTimeout, Wake, Dispatch, history
<1>3. ASSUME NEW w \in Workers, HandlerEnds(w) PROVE slips[t] \subseteq slips'[t]
  BY <1>3 DEF HandlerEnds, HandlerReturns
<1>4. ASSUME NEW w \in Workers, BRPopReplyLost(w) \/ BRPopFails(w)
      PROVE slips[t] \subseteq slips'[t]
  BY <1>4 DEF BRPopReplyLost, BRPopFails, Mark, history
<1>5. CASE CrashRestart
  BY <1>5 DEF CrashRestart
<1>6. CASE Stop \/ UNCHANGED vars
  BY <1>6 DEF Stop, vars, history
<1> QED BY <1>1, <1>2, <1>3, <1>4, <1>5, <1>6 DEF Next

(* Every step keeps a task that was pushed once in one place.              *)
LEMMA SingleDeliveryStep ==
  ASSUME TypeOK, TypeOK', SingleDelivery, [Next]_vars
  PROVE  SingleDelivery'
<1> SUFFICES ASSUME NEW t \in Tasks, "resent" \notin slips'[t]
             PROVE  /\ \A i, j \in 1..Len(queue') : queue'[i] = t /\ queue'[j] = t => i = j
                    /\ \A v, w \in Workers : cur'[v] = t /\ cur'[w] = t => v = w
                    /\ \A w \in Workers : cur'[w] = t => ~InQueue(t)'
                    /\ call'[t] \in {"none", "resending"} =>
                         ~InQueue(t)' /\ ran'[t] = 0 /\ \A w \in Workers : cur'[w] # t
                    /\ InQueue(t)' => ran'[t] = 0
                    /\ \A w \in Workers :
                         cur'[w] = t /\ pc'[w] \in {"popped", "dispatch"} => ran'[t] = 0
                    /\ ran'[t] <= 1
  BY DEF SingleDelivery
<1> DEFINE Goal == /\ \A i, j \in 1..Len(queue') : queue'[i] = t /\ queue'[j] = t => i = j
                   /\ \A v, w \in Workers : cur'[v] = t /\ cur'[w] = t => v = w
                   /\ \A w \in Workers : cur'[w] = t => ~InQueue(t)'
                   /\ call'[t] \in {"none", "resending"} =>
                        ~InQueue(t)' /\ ran'[t] = 0 /\ \A w \in Workers : cur'[w] # t
                   /\ InQueue(t)' => ran'[t] = 0
                   /\ \A w \in Workers :
                        cur'[w] = t /\ pc'[w] \in {"popped", "dispatch"} => ran'[t] = 0
                   /\ ran'[t] <= 1
<1>0. "resent" \notin slips[t]
  BY SlipsGrow
<1>s. /\ \A i, j \in 1..Len(queue) : queue[i] = t /\ queue[j] = t => i = j
      /\ \A v, w \in Workers : cur[v] = t /\ cur[w] = t => v = w
      /\ \A w \in Workers : cur[w] = t => ~InQueue(t)
      /\ call[t] \in {"none", "resending"} =>
           ~InQueue(t) /\ ran[t] = 0 /\ \A w \in Workers : cur[w] # t
      /\ InQueue(t) => ran[t] = 0
      /\ \A w \in Workers :
           cur[w] = t /\ pc[w] \in {"popped", "dispatch"} => ran[t] = 0
      /\ ran[t] <= 1
  BY <1>0 DEF SingleDelivery
<1> USE ConstantsAssumption DEF InQueue, Goto, Release, history, workerVars
<1>1. ASSUME NEW u \in Tasks, Enqueue(u) PROVE Goal
  <2>1. CASE LPush(u)
    <3>1. queue' = Append(queue, u) /\ UNCHANGED <<ran, pc, cur, slips>>
          /\ call' = [call EXCEPT ![u] = "pushed"] /\ call[u] \in {"none", "resending"}
      BY <2>1 DEF LPush
    <3>2. /\ Len(queue') = Len(queue) + 1 /\ Len(queue) \in Nat
          /\ \A i \in 1..Len(queue) : queue'[i] = queue[i]
          /\ queue'[Len(queue) + 1] = u
      BY <3>1, AppendPlaces DEF TypeOK
    <3> QED BY <3>1, <3>2, <1>s DEF TypeOK
  <2>2. CASE LPushReplyLost(u)
    <3>1. u # t
      BY <2>2 DEF LPushReplyLost, Mark, TypeOK
    <3>2. queue' = Append(queue, u) /\ UNCHANGED <<ran, pc, cur>> /\ call'[t] = call[t]
      BY <2>2, <3>1 DEF LPushReplyLost, TypeOK
    <3>3. /\ Len(queue') = Len(queue) + 1 /\ Len(queue) \in Nat
          /\ \A i \in 1..Len(queue) : queue'[i] = queue[i]
          /\ queue'[Len(queue) + 1] = u
      BY <3>2, AppendPlaces DEF TypeOK
    <3> QED BY <3>1, <3>2, <3>3, <1>s DEF TypeOK
  <2>3. CASE LPushFails(u)
    BY <2>3, <1>s DEF LPushFails, TypeOK
  <2>4. CASE Persist(u)
    BY <2>4, <1>s DEF Persist, TypeOK
  <2> QED BY <1>1, <2>1, <2>2, <2>3, <2>4 DEF Enqueue
<1>2. ASSUME NEW w \in Workers, WorkerStep(w) PROVE Goal
  <2>1. CASE Select(w) \/ BRPopTimeout(w) \/ Wake(w)
    BY <2>1, <1>s DEF Select, BRPopTimeout, Wake, TypeOK
  <2>2. CASE BRPop(w)
    <3>1. /\ queue # << >> /\ queue' = Tail(queue) /\ UNCHANGED <<ran, call>>
          /\ cur' = [cur EXCEPT ![w] = Head(queue)]
          /\ pc' = [pc EXCEPT ![w] = "popped"]
      BY <2>2 DEF BRPop
    <3>2. /\ Len(queue) \in Nat \ {0} /\ Len(queue') = Len(queue) - 1
          /\ \A i \in 1..Len(queue') : queue'[i] = queue[i + 1]
          /\ Head(queue) = queue[1]
      BY <3>1, TailPlaces DEF TypeOK
    <3>3. \A i, j \in 1..Len(queue') : queue'[i] = t /\ queue'[j] = t => i = j
      BY <3>2, <1>s
    <3>4. InQueue(t)' => InQueue(t) /\ Head(queue) # t
      BY <3>2, <1>s
    <3>5. Head(queue) = t => InQueue(t)
      BY <3>2
    <3> QED BY <3>1, <3>3, <3>4, <3>5, <1>s DEF TypeOK
  <2>3. CASE MarkRunning(w)
    BY <2>3, <1>s DEF MarkRunning, TypeOK
  <2>4. CASE Dispatch(w)
    <3>1. cur[w] \in Tasks /\ pc[w] = "dispatch" /\ UNCHANGED <<call, queue, cur>>
      BY <2>4 DEF Dispatch, TypeOK, Busy
    <3>2. CASE cur[w] = t
      <4>1. ran[t] = 0 /\ ~InQueue(t) /\ call[t] \notin {"none", "resending"}
        BY <3>1, <3>2, <1>s
      <4>2. /\ ran'[t] = 0 \/ ran'[t] = 1
            /\ pc'[w] \notin {"popped", "dispatch"}
        BY <2>4, <3>2, <4>1 DEF Dispatch, TypeOK
      <4>3. \A v \in Workers : cur'[v] = t => v = w
        BY <3>1, <3>2, <1>s
      <4> QED BY <3>1, <4>1, <4>2, <4>3, <1>s
    <3>3. CASE cur[w] # t
      <4>1. ran'[t] = ran[t]
        BY <2>4, <3>1, <3>3 DEF Dispatch, TypeOK
      <4>2. \A v \in Workers : cur[v] = t => pc'[v] = pc[v]
        BY <2>4, <3>3 DEF Dispatch, TypeOK
      <4> QED BY <3>1, <4>1, <4>2, <1>s
    <3> QED BY <3>2, <3>3
  <2>5. CASE Complete(w)
    BY <2>5, <1>s DEF Complete, TypeOK
  <2>6. CASE Fail(w)
    BY <2>6, <1>s DEF Fail, TypeOK
  <2> QED BY <1>2, <2>1, <2>2, <2>3, <2>4, <2>5, <2>6 DEF WorkerStep
<1>3. ASSUME NEW w \in Workers, HandlerEnds(w) PROVE Goal
  BY <1>3, <1>s DEF HandlerEnds, HandlerReturns, TypeOK
<1>4. ASSUME NEW w \in Workers, BRPopReplyLost(w) PROVE Goal
  <2>1. queue # << >> /\ queue' = Tail(queue) /\ UNCHANGED <<ran, call, cur, pc>>
    BY <1>4 DEF BRPopReplyLost
  <2>2. /\ Len(queue) \in Nat \ {0} /\ Len(queue') = Len(queue) - 1
        /\ \A i \in 1..Len(queue') : queue'[i] = queue[i + 1]
    BY <2>1, TailPlaces DEF TypeOK
  <2>3. \A i, j \in 1..Len(queue') : queue'[i] = t /\ queue'[j] = t => i = j
    BY <2>2, <1>s
  <2>4. InQueue(t)' => InQueue(t)
    BY <2>2
  <2> QED BY <2>1, <2>3, <2>4, <1>s
<1>5. ASSUME NEW w \in Workers, BRPopFails(w) PROVE Goal
  BY <1>5, <1>s DEF BRPopFails, TypeOK
<1>6. CASE Stop
  BY <1>6, <1>s DEF Stop
<1>7. CASE CrashRestart
  <2>1. /\ UNCHANGED <<queue, ran>>
        /\ \A v \in Workers : cur'[v] # t
        /\ call'[t] \in {"none", "resending"} => call[t] \in {"none", "resending"}
    BY <1>7 DEF CrashRestart, TypeOK
  <2> QED BY <2>1, <1>s
<1>8. CASE UNCHANGED vars
  BY <1>8, <1>s DEF vars
<1> QED BY <1>1, <1>2, <1>3, <1>4, <1>5, <1>6, <1>7, <1>8 DEF Next

(* The only ways a row changes: its INSERT, or an UPDATE by its worker.    *)
LEMMA RowChange ==
  ASSUME TypeOK, [Next]_vars, NEW t \in Tasks, row'[t] # row[t]
  PROVE  \/ Persist(t) /\ row'[t] = "queued"
         \/ \E w \in Workers :
              /\ cur[w] = t
              /\ row[t] # "absent" /\ slips'[t] = slips[t]
              /\ \/ MarkRunning(w) /\ row'[t] = "running"
                 \/ Complete(w) /\ row'[t] = "completed"
                 \/ Fail(w) /\ row'[t] = "failed"
<1>1. ASSUME NEW u \in Tasks, Persist(u) PROVE u = t /\ row'[t] = "queued"
  BY <1>1 DEF Persist, TypeOK
<1>2. ASSUME NEW w \in Workers, NEW s \in RowStates, cur[w] \in Tasks,
             UpdateRow(cur[w], s)
      PROVE  cur[w] = t /\ row'[t] = s /\ row[t] # "absent" /\ slips'[t] = slips[t]
  BY <1>2, UpdateRowEffect
<1>3. ASSUME NEW w \in Workers, MarkRunning(w)
      PROVE  cur[w] = t /\ row'[t] = "running" /\ row[t] # "absent" /\ slips'[t] = slips[t]
  BY <1>2, <1>3 DEF MarkRunning, TypeOK, Busy, RowStates
<1>4. ASSUME NEW w \in Workers, Complete(w)
      PROVE  cur[w] = t /\ row'[t] = "completed" /\ row[t] # "absent" /\ slips'[t] = slips[t]
  BY <1>2, <1>4 DEF Complete, TypeOK, Busy, RowStates
<1>5. ASSUME NEW w \in Workers, Fail(w)
      PROVE  cur[w] = t /\ row'[t] = "failed" /\ row[t] # "absent" /\ slips'[t] = slips[t]
  BY <1>2, <1>5 DEF Fail, TypeOK, Busy, RowStates
<1>6. \/ \E u \in Tasks : Persist(u)
      \/ \E w \in Workers : MarkRunning(w) \/ Complete(w) \/ Fail(w)
      \/ UNCHANGED row
  BY DEF Next, vars, Enqueue, LPush, LPushReplyLost, LPushFails, WorkerStep, Select,
     BRPop, BRPopTimeout, Wake, Dispatch, HandlerEnds, HandlerReturns, BRPopReplyLost,
     BRPopFails, Stop, CrashRestart
<1> QED BY <1>1, <1>3, <1>4, <1>5, <1>6

(* The only ways a task gets into the list, or into a worker's hands.      *)
LEMMA TaskMoves ==
  ASSUME TypeOK, [Next]_vars, NEW t \in Tasks
  PROVE  /\ InQueue(t)' /\ ~InQueue(t) => call[t] \in {"none", "resending"}
         /\ \A w \in Workers : cur'[w] = t /\ cur[w] # t => InQueue(t)
<1> USE DEF InQueue
<1>1. ASSUME NEW u \in Tasks, LPush(u) \/ LPushReplyLost(u)
      PROVE  /\ InQueue(t)' /\ ~InQueue(t) => call[t] \in {"none", "resending"}
             /\ UNCHANGED cur
  <2>1. queue' = Append(queue, u) /\ call[u] \in {"none", "resending"} /\ UNCHANGED cur
    BY <1>1 DEF LPush, LPushReplyLost, workerVars
  <2>2. Len(queue) \in Nat /\ Len(queue') = Len(queue) + 1
        /\ (\A i \in 1..Len(queue) : queue'[i] = queue[i]) /\ queue'[Len(queue) + 1] = u
    BY <2>1, AppendPlaces DEF TypeOK
  <2> QED BY <2>1, <2>2
<1>2. ASSUME queue # << >>, queue' = Tail(queue)
      PROVE  (InQueue(t)' => InQueue(t)) /\ (Head(queue) = t => InQueue(t))
  <2>1. /\ Len(queue) \in Nat \ {0} /\ Len(queue') = Len(queue) - 1
        /\ \A i \in 1..Len(queue') : queue'[i] = queue[i + 1]
        /\ Head(queue) = queue[1]
    BY <1>2, TailPlaces DEF TypeOK
  <2> QED BY <2>1
<1>3. \/ \E u \in Tasks : LPush(u) \/ LPushReplyLost(u)
      \/ \E w \in Workers : /\ queue # << >> /\ queue' = Tail(queue)
                            /\ cur' = [cur EXCEPT ![w] = Head(queue)] \/ UNCHANGED cur
      \/ /\ UNCHANGED queue
         /\ UNCHANGED cur \/ \E w \in Workers : cur' = [cur EXCEPT ![w] = NoTask]
      \/ UNCHANGED queue /\ cur' = [w \in Workers |-> NoTask]
  BY DEF Next, vars, Enqueue, LPush, LPushReplyLost, LPushFails, Persist, WorkerStep,
     Select, BRPop, BRPopTimeout, Wake, MarkRunning, Dispatch, Complete, Fail, Release,
     HandlerEnds, HandlerReturns, BRPopReplyLost, BRPopFails, Stop, CrashRestart,
     workerVars
<1> QED BY <1>1, <1>2, <1>3, ConstantsAssumption DEF TypeOK

(* Rows appear only by Persist and get a verdict only at the end.          *)
LEMMA RowFollowsTaskStep ==
  ASSUME TypeOK, TypeOK', SingleDelivery, SingleDelivery', RowFollowsTask, [Next]_vars
  PROVE  RowFollowsTask'
<1> SUFFICES ASSUME NEW t \in Tasks
             PROVE  /\ call'[t] # "returned" => row'[t] = "absent"
                    /\ "resent" \notin slips'[t] =>
                         /\ InQueue(t)' => row'[t] \in {"absent", "queued"}
                         /\ \A w \in Workers : cur'[w] = t => row'[t] \notin Terminal
  BY DEF RowFollowsTask
<1>1. call'[t] # "returned" => row'[t] = "absent"
  <2>1. call[t] = "returned" => call'[t] = "returned"
    BY DEF Next, vars, Enqueue, LPush, LPushReplyLost, LPushFails, Persist, WorkerStep,
       Select, BRPop, BRPopTimeout, Wake, MarkRunning, Dispatch, Complete, Fail,
       HandlerEnds, HandlerReturns, BRPopReplyLost, BRPopFails, Stop, CrashRestart,
       TypeOK
  <2>2. ASSUME Persist(t) PROVE call'[t] = "returned"
    BY <2>2 DEF Persist, TypeOK
  <2> QED BY <2>1, <2>2, RowChange DEF RowFollowsTask
<1>2. ASSUME "resent" \notin slips'[t]
      PROVE  /\ InQueue(t)' => row'[t] \in {"absent", "queued"}
             /\ \A w \in Workers : cur'[w] = t => row'[t] \notin Terminal
  <2>1. "resent" \notin slips[t]
    BY <1>2, SlipsGrow
  <2>2. CASE row'[t] = row[t]
    BY <2>1, <2>2, TaskMoves DEF RowFollowsTask, Terminal
  <2>3. CASE Persist(t) /\ row'[t] = "queued"
    BY <2>3 DEF Terminal
  <2>4. ASSUME NEW w \in Workers, cur[w] = t, row[t] # "absent",
               \/ MarkRunning(w) /\ row'[t] = "running"
               \/ Complete(w) /\ row'[t] = "completed"
               \/ Fail(w) /\ row'[t] = "failed"
        PROVE  /\ InQueue(t)' => row'[t] \in {"absent", "queued"}
               /\ \A v \in Workers : cur'[v] = t => row'[t] \notin Terminal
    <3>1. ~InQueue(t) /\ UNCHANGED queue
      BY <2>1, <2>4 DEF SingleDelivery, MarkRunning, Complete, Fail
    <3>2. ~InQueue(t)'
      BY <3>1 DEF InQueue
    <3>3. CASE MarkRunning(w) /\ row'[t] = "running"
      BY <3>2, <3>3 DEF Terminal
    <3>4. CASE Complete(w) \/ Fail(w)
      <4>1. cur' = [cur EXCEPT ![w] = NoTask]
        BY <3>4 DEF Complete, Fail, Release
      <4>2. \A v \in Workers : cur[v] = t => v = w
        BY <2>1, <2>4 DEF SingleDelivery
      <4>3. \A v \in Workers : cur'[v] # t
        BY <4>1, <4>2, ConstantsAssumption DEF TypeOK
      <4> QED BY <3>2, <4>3
    <3> QED BY <2>4, <3>3, <3>4
  <2> QED BY <2>2, <2>3, <2>4, RowChange
<1> QED BY <1>1, <1>2

(* Results of handlers are only added.                                     *)
LEMMA OutcomeGrows ==
  ASSUME TypeOK, [Next]_vars, NEW t \in Tasks
  PROVE  outcome[t] \subseteq outcome'[t]
<1>1. ASSUME NEW w \in Workers, HandlerEnds(w) PROVE outcome[t] \subseteq outcome'[t]
  BY <1>1 DEF HandlerEnds, HandlerReturns, TypeOK
<1>2. (\E w \in Workers : HandlerEnds(w)) \/ UNCHANGED outcome
  BY DEF Next, vars, Enqueue, LPush, LPushReplyLost, LPushFails, Persist, WorkerStep,
     Select, BRPop, BRPopTimeout, Wake, MarkRunning, Dispatch, Complete, Fail,
     BRPopReplyLost, BRPopFails, Stop, CrashRestart, history
<1> QED BY <1>1, <1>2

(* A worker reaches Complete and Fail only with the result they record.    *)
LEMMA VerdictGroundedStep ==
  ASSUME TypeOK, TypeOK', VerdictGrounded, [Next]_vars
  PROVE  VerdictGrounded'
<1> SUFFICES ASSUME NEW w \in Workers
             PROVE  /\ pc'[w] = "complete" => "ok" \in outcome'[cur'[w]]
                    /\ pc'[w] = "fail" =>
                         "err" \in outcome'[cur'[w]] \/ cur'[w] \notin Registered
  BY DEF VerdictGrounded
<1>1. CASE pc'[w] = pc[w] /\ cur'[w] = cur[w]
  <2>1. pc[w] \in {"complete", "fail"} => cur[w] \in Tasks
    BY DEF TypeOK, Busy
  <2> QED BY <1>1, <2>1, OutcomeGrows DEF VerdictGrounded
<1>2. CASE Dispatch(w)
  BY <1>2 DEF Dispatch, Goto, TypeOK
<1>3. CASE HandlerEnds(w)
  <2>1. PICK o \in Outcomes : HandlerReturns(w, o)
    BY <1>3 DEF HandlerEnds
  <2>2. cur[w] \in Tasks /\ o \in outcome'[cur[w]] /\ cur' = cur
    BY <2>1 DEF HandlerReturns, TypeOK, Busy
  <2> QED BY <2>1, <2>2 DEF HandlerReturns, Goto, Outcomes, TypeOK
<1>4. CASE pc'[w] \notin {"complete", "fail"}
  BY <1>4
<1>5. (pc'[w] = pc[w] /\ cur'[w] = cur[w]) \/ Dispatch(w) \/ HandlerEnds(w)
      \/ pc'[w] \notin {"complete", "fail"}
  <2>1. ASSUME NEW v \in Workers, WorkerStep(v), v # w
        PROVE  pc'[w] = pc[w] /\ cur'[w] = cur[w]
    BY <2>1 DEF WorkerStep, Select, BRPop, BRPopTimeout, Wake, MarkRunning, Dispatch,
       Complete, Fail, Goto, Release, TypeOK
  <2>2. ASSUME WorkerStep(w), ~Dispatch(w) PROVE pc'[w] \notin {"complete", "fail"}
    BY <2>2 DEF WorkerStep, Select, BRPop, BRPopTimeout, Wake, MarkRunning,
       Complete, Fail, Goto, TypeOK
  <2>3. ASSUME NEW v \in Workers, HandlerEnds(v), v # w
        PROVE  pc'[w] = pc[w] /\ cur'[w] = cur[w]
    BY <2>3 DEF HandlerEnds, HandlerReturns, Goto, TypeOK
  <2>4. ASSUME NEW v \in Workers, BRPopReplyLost(v) \/ BRPopFails(v)
        PROVE  (pc'[w] = pc[w] /\ cur'[w] = cur[w]) \/ pc'[w] \notin {"complete", "fail"}
    BY <2>4 DEF BRPopReplyLost, BRPopFails, Goto, workerVars, TypeOK
  <2>5. ASSUME NEW t \in Tasks, Enqueue(t) PROVE pc'[w] = pc[w] /\ cur'[w] = cur[w]
    BY <2>5 DEF Enqueue, LPush, LPushReplyLost, LPushFails, Persist, workerVars
  <2>6. CASE Stop \/ CrashRestart \/ UNCHANGED vars
    BY <2>6 DEF Stop, CrashRestart, vars
  <2> QED BY <2>1, <2>2, <2>3, <2>4, <2>5, <2>6 DEF Next
<1> QED BY <1>1, <1>2, <1>3, <1>4, <1>5

(* A verdict is written only by a worker that has the matching result.     *)
LEMMA HonestRowStep ==
  ASSUME TypeOK, VerdictGrounded, HonestRow, [Next]_vars
  PROVE  HonestRow'
<1> SUFFICES ASSUME NEW t \in Tasks
             PROVE  /\ row'[t] = "completed" => "ok" \in outcome'[t]
                    /\ row'[t] = "failed" => "err" \in outcome'[t] \/ t \notin Registered
  BY DEF HonestRow
<1>1. CASE row'[t] = row[t]
  BY <1>1, OutcomeGrows DEF HonestRow
<1>2. CASE row'[t] \in {"queued", "running"}
  BY <1>2
<1>3. ASSUME NEW w \in Workers, cur[w] = t, Complete(w), row'[t] = "completed"
      PROVE  "ok" \in outcome'[t]
  BY <1>3, OutcomeGrows DEF VerdictGrounded, Complete
<1>4. ASSUME NEW w \in Workers, cur[w] = t, Fail(w), row'[t] = "failed"
      PROVE  "err" \in outcome'[t] \/ t \notin Registered
  BY <1>4, OutcomeGrows DEF VerdictGrounded, Fail
<1> QED BY <1>1, <1>2, <1>3, <1>4, RowChange

(* A running row keeps its worker until that worker writes the verdict.    *)
LEMMA RunningHasOwnerStep ==
  ASSUME TypeOK, TypeOK', RunningHasOwner, [Next]_vars
  PROVE  RunningHasOwner'
<1> SUFFICES ASSUME NEW t \in Tasks, row'[t] = "running", slips'[t] = {}
             PROVE  \E w \in Workers : cur'[w] = t /\ pc'[w] \in Busy \ {"popped"}
  BY DEF RunningHasOwner
<1>0. slips[t] = {}
  BY SlipsGrow
<1>1. CASE row[t] # "running"
  <2>1. PICK w \in Workers : cur[w] = t /\ MarkRunning(w)
    BY <1>1, RowChange
  <2> QED BY <2>1 DEF MarkRunning, Goto, Busy, TypeOK
<1>2. CASE row[t] = "running"
  <2>1. PICK w \in Workers : cur[w] = t /\ pc[w] \in Busy \ {"popped"}
    BY <1>0, <1>2 DEF RunningHasOwner
  <2>2. ASSUME Complete(w) \/ Fail(w) PROVE FALSE
    <3>1. PICK s \in Terminal : UpdateRow(t, s)
      BY <2>1, <2>2 DEF Complete, Fail, Terminal
    <3>2. row'[t] = s \/ slips'[t] # {}
      BY <3>1, UpdateRowEffect DEF Terminal, RowStates
    <3> QED BY <3>1, <3>2 DEF Terminal
  <2>3. ASSUME Dispatch(w) \/ HandlerEnds(w)
        PROVE  cur'[w] = t /\ pc'[w] \in Busy \ {"popped"}
    <3>1. CASE Dispatch(w)
      BY <2>1, <3>1 DEF Dispatch, Goto, Busy, TypeOK
    <3>2. CASE HandlerEnds(w)
      BY <2>1, <3>2 DEF HandlerEnds, HandlerReturns, Goto, Busy, TypeOK
    <3> QED BY <2>3, <3>1, <3>2
  <2>4. ASSUME CrashRestart PROVE FALSE
    BY <2>1, <2>4 DEF CrashRestart
  <2>5. (pc'[w] = pc[w] /\ cur'[w] = cur[w]) \/ Complete(w) \/ Fail(w) \/ Dispatch(w)
        \/ HandlerEnds(w) \/ CrashRestart
    <3>1. ASSUME NEW v \in Workers, WorkerStep(v), v # w
          PROVE  pc'[w] = pc[w] /\ cur'[w] = cur[w]
      BY <3>1 DEF WorkerStep, Select, BRPop, BRPopTimeout, Wake, MarkRunning, Dispatch,
         Complete, Fail, Goto, Release, TypeOK
    <3>2. ASSUME WorkerStep(w) PROVE Complete(w) \/ Fail(w) \/ Dispatch(w)
      BY <2>1, <3>2 DEF WorkerStep, Select, BRPop, BRPopTimeout, Wake, MarkRunning, Busy
    <3>3. ASSUME NEW v \in Workers, HandlerEnds(v), v # w
          PROVE  pc'[w] = pc[w] /\ cur'[w] = cur[w]
      BY <3>3 DEF HandlerEnds, HandlerReturns, Goto, TypeOK
    <3>4. ASSUME NEW v \in Workers, BRPopReplyLost(v) \/ BRPopFails(v)
          PROVE  pc'[w] = pc[w] /\ cur'[w] = cur[w]
      BY <2>1, <3>4 DEF BRPopReplyLost, BRPopFails, Goto, workerVars, TypeOK, Busy
    <3>5. ASSUME NEW u \in Tasks, Enqueue(u) PROVE pc'[w] = pc[w] /\ cur'[w] = cur[w]
      BY <3>5 DEF Enqueue, LPush, LPushReplyLost, LPushFails, Persist, workerVars
    <3>6. CASE Stop \/ UNCHANGED vars
      BY <3>6 DEF Stop, vars
    <3> QED BY <3>1, <3>2, <3>3, <3>4, <3>5, <3>6 DEF Next
  <2> QED BY <2>1, <2>2, <2>3, <2>4, <2>5
<1> QED BY <1>1, <1>2

(* The strengthening that every step preserves.                            *)
THEOREM Inductive == Spec => []InductiveInv
<1>1. Init => InductiveInv
  <2> SUFFICES ASSUME Init PROVE InductiveInv
    OBVIOUS
  <2>1. /\ Len(queue) = 0
        /\ \A t \in Tasks : ~InQueue(t) /\ ran[t] = 0 /\ row[t] = "absent"
        /\ \A w \in Workers : cur[w] = NoTask /\ pc[w] = "check"
    BY DEF Init, InQueue
  <2>2. SingleDelivery
    BY <2>1, ConstantsAssumption DEF SingleDelivery
  <2>3. RowFollowsTask
    BY <2>1, ConstantsAssumption DEF RowFollowsTask
  <2>4. VerdictGrounded /\ HonestRow /\ RunningHasOwner
    BY <2>1 DEF VerdictGrounded, HonestRow, RunningHasOwner
  <2> QED BY <2>2, <2>3, <2>4 DEF InductiveInv
<1>2. TypeOK /\ TypeOK' /\ InductiveInv /\ [Next]_vars => InductiveInv'
  <2> SUFFICES ASSUME TypeOK, TypeOK', InductiveInv, [Next]_vars PROVE InductiveInv'
    OBVIOUS
  <2>1. SingleDelivery'
    BY SingleDeliveryStep DEF InductiveInv
  <2> QED BY <2>1, RowFollowsTaskStep, VerdictGroundedStep, HonestRowStep,
             RunningHasOwnerStep DEF InductiveInv
<1> QED BY <1>1, <1>2, TypeCorrect, PTL DEF Spec

(* No task's handler is started twice, unless its LPUSH was sent twice.    *)
THEOREM HandledAtMostOnce == Spec => []AtMostOnce
<1>1. InductiveInv => AtMostOnce
  BY DEF InductiveInv, SingleDelivery, AtMostOnce
<1> QED BY <1>1, Inductive, PTL

(* The status agrees with the handler's result.                            *)
THEOREM StatusHonest == Spec => []HonestRow
<1>1. InductiveInv => HonestRow
  BY DEF InductiveInv
<1> QED BY <1>1, Inductive, PTL

(* A row says 'running' only while a worker has the task.                  *)
THEOREM RunningOwned == Spec => []RunningHasOwner
<1>1. InductiveInv => RunningHasOwner
  BY DEF InductiveInv
<1> QED BY <1>1, Inductive, PTL

(* The pending count covers what waits in Redis and has a row.             *)
THEOREM WaitingCounted == Spec => []WaitingIsCounted
<1>1. InductiveInv => WaitingIsCounted
  BY DEF InductiveInv, RowFollowsTask, WaitingIsCounted
<1> QED BY <1>1, Inductive, PTL

(* A verdict on a task pushed once is never overwritten.                   *)
THEOREM VerdictFinal == Spec => TerminalIsFinal
<1>1. TypeOK /\ InductiveInv /\ [Next]_vars =>
        [\A t \in Tasks : row[t] \in Terminal /\ "resent" \notin slips[t]'
                            => row'[t] = row[t]]_vars
  <2> SUFFICES ASSUME TypeOK, InductiveInv, [Next]_vars, NEW t \in Tasks,
                      row[t] \in Terminal, "resent" \notin slips'[t], row'[t] # row[t]
               PROVE  FALSE
    OBVIOUS
  <2>1. "resent" \notin slips[t]
    BY SlipsGrow
  <2>2. CASE Persist(t)
    BY <2>2 DEF Persist, InductiveInv, RowFollowsTask, Terminal
  <2>3. ASSUME NEW w \in Workers, cur[w] = t PROVE FALSE
    BY <2>1, <2>3 DEF InductiveInv, RowFollowsTask
  <2> QED BY <2>2, <2>3, RowChange
<1> QED BY <1>1, TypeCorrect, Inductive, PTL DEF Spec, TerminalIsFinal

(* The queue is a delivery service in the sense of TaskDelivery.           *)
THEOREM QueueImplementsDelivery == Spec => ImplementsDelivery
<1> DEFINE Verdict == [t \in Tasks |-> IF row[t] \in Terminal THEN row[t] ELSE "none"]
<1>1. Init => Delivery!Init
  BY DEF Init, Delivery!Init, Terminal
<1>2. TypeOK /\ InductiveInv /\ [Next]_vars => [Delivery!Next]_(Delivery!vars)
  <2> SUFFICES ASSUME TypeOK, InductiveInv, [Next]_vars
               PROVE  Delivery!Next \/ UNCHANGED <<queue, cur, Verdict>>
    BY DEF Delivery!vars
  <2>0. UNCHANGED row => UNCHANGED Verdict
    OBVIOUS
  <2>h. \A w \in Workers : pc[w] \in Busy <=> cur[w] # NoTask
    BY ConstantsAssumption DEF TypeOK
  <2>v. ASSUME NEW w \in Workers, cur[w] \in Tasks, NEW s \in RowStates,
               UpdateRow(cur[w], s)
        PROVE  \/ UNCHANGED Verdict
               \/ Verdict' = [Verdict EXCEPT ![cur[w]] =
                                IF s \in Terminal THEN s ELSE "none"]
    <3>1. \/ UNCHANGED row
          \/ row' = [row EXCEPT ![cur[w]] = s]
      BY <2>v DEF UpdateRow
    <3> QED BY <2>0, <2>v, <3>1 DEF TypeOK
  <2>1. ASSUME NEW t \in Tasks, Enqueue(t)
        PROVE  Delivery!Next \/ UNCHANGED <<queue, cur, Verdict>>
    <3>1. CASE LPush(t) \/ LPushReplyLost(t)
      <4>1. queue' = Append(queue, t) /\ UNCHANGED <<cur, Verdict>>
        BY <2>0, <3>1 DEF LPush, LPushReplyLost, workerVars
      <4> QED BY <4>1 DEF Delivery!Next, Delivery!Accept
    <3>2. CASE LPushFails(t)
      BY <2>0, <3>2 DEF LPushFails, workerVars
    <3>3. CASE Persist(t)
      <4>1. row[t] = "absent" /\ (UNCHANGED row \/ row' = [row EXCEPT ![t] = "queued"])
        BY <3>3 DEF Persist, InductiveInv, RowFollowsTask
      <4>2. UNCHANGED Verdict
        BY <2>0, <4>1 DEF TypeOK, Terminal
      <4> QED BY <3>3, <4>2 DEF Persist, workerVars
    <3> QED BY <2>1, <3>1, <3>2, <3>3 DEF Enqueue
  <2>2. ASSUME NEW w \in Workers, WorkerStep(w)
        PROVE  Delivery!Next \/ UNCHANGED <<queue, cur, Verdict>>
    <3>1. CASE Select(w) \/ BRPopTimeout(w) \/ Wake(w) \/ Dispatch(w)
      BY <2>0, <3>1 DEF Select, BRPopTimeout, Wake, Dispatch
    <3>2. CASE BRPop(w)
      <4>1. cur[w] = NoTask
        BY <2>h, <3>2 DEF BRPop, Busy
      <4>2. Delivery!Take(w)
        BY <2>0, <3>2, <4>1 DEF BRPop, Delivery!Take
      <4> QED BY <4>2 DEF Delivery!Next
    <3>3. CASE MarkRunning(w)
      <4>1. cur[w] \in Tasks /\ cur[w] # NoTask /\ UNCHANGED <<queue, cur>>
            /\ UpdateRow(cur[w], "running")
        BY <2>h, <3>3 DEF MarkRunning, Busy, TypeOK
      <4>2. UNCHANGED Verdict \/ Verdict' = [Verdict EXCEPT ![cur[w]] = "none"]
        BY <2>v, <4>1 DEF RowStates, Terminal
      <4>3. CASE Verdict' = [Verdict EXCEPT ![cur[w]] = "none"]
        <5>1. Delivery!Begin(w)
          BY <4>1, <4>3 DEF Delivery!Begin
        <5> QED BY <5>1 DEF Delivery!Next
      <4> QED BY <4>1, <4>2, <4>3
    <3>4. ASSUME NEW s \in Terminal, cur[w] \in Tasks, UpdateRow(cur[w], s),
                 UNCHANGED queue, cur' = [cur EXCEPT ![w] = NoTask]
          PROVE  Delivery!Next
      <4>1. UNCHANGED Verdict \/ Verdict' = [Verdict EXCEPT ![cur[w]] = s]
        BY <2>v, <3>4 DEF RowStates, Terminal
      <4>2. Delivery!Settle(w)
        BY <3>4, <4>1, ConstantsAssumption DEF Delivery!Settle, Terminal
      <4> QED BY <4>2 DEF Delivery!Next
    <3>5. CASE Complete(w)
      BY <3>4, <3>5 DEF Complete, Release, Terminal, TypeOK, Busy
    <3>6. CASE Fail(w)
      BY <3>4, <3>6 DEF Fail, Release, Terminal, TypeOK, Busy
    <3> QED BY <2>2, <3>1, <3>2, <3>3, <3>5, <3>6 DEF WorkerStep
  <2>3. ASSUME NEW w \in Workers, HandlerEnds(w) \/ BRPopFails(w)
        PROVE  UNCHANGED <<queue, cur, Verdict>>
    BY <2>0, <2>3 DEF HandlerEnds, HandlerReturns, BRPopFails
  <2>4. ASSUME NEW w \in Workers, BRPopReplyLost(w) PROVE Delivery!Next
    <3>1. Delivery!LoseOldest
      BY <2>0, <2>4 DEF BRPopReplyLost, Delivery!LoseOldest, workerVars
    <3> QED BY <3>1 DEF Delivery!Next
  <2>5. CASE CrashRestart
    <3>1. Delivery!WorkersDie
      BY <2>0, <2>5 DEF CrashRestart, Delivery!WorkersDie
    <3> QED BY <3>1 DEF Delivery!Next
  <2>6. CASE Stop \/ UNCHANGED vars
    BY <2>0, <2>6 DEF Stop, vars
  <2> QED BY <2>1, <2>2, <2>3, <2>4, <2>5, <2>6 DEF Next
<1> QED BY <1>1, <1>2, TypeCorrect, Inductive, PTL
       DEF Spec, ImplementsDelivery, Delivery!Spec
=============================================================================
