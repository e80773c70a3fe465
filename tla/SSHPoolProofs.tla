--------------------------- MODULE SSHPoolProofs ---------------------------
(***************************************************************************)
(* Theorems about SSHPool for every number of calls, connections, sessions *)
(* and troubles.                                                           *)
(***************************************************************************)
EXTENDS SSHPool, FiniteSetTheorems, TLAPS

(* The typed invariant the proof carries.                                  *)
IInv == TypeOK /\ InductiveInv

(* Releasing a mutex touches no other thread's lock.                       *)
LEMMA UnlockedLocks ==
  ASSUME TypeOK, NEW p \in Threads
  PROVE  /\ Unlocked(p) \in [Clients -> Threads \cup {None}]
         /\ \A c \in Clients : lock[c] # p => Unlocked(p)[c] = lock[c]
         /\ \A c \in Clients : Unlocked(p)[c] # None =>
              Unlocked(p)[c] = lock[c] /\ lock[c] # p
  BY ConstantsAssumption DEF TypeOK, Unlocked, Threads

(* Types hold initially and after every step of an inductive state.        *)
LEMMA TypeStep ==
  ASSUME IInv, [Next]_vars
  PROVE  TypeOK'
<1> USE ConstantsAssumption
    DEF IInv, TypeOK, Goto, Threads, CallPCs, CleanerPCs, Ended, Closed, Trouble,
        poolVars, callVars, Clients
<1>u. \A p \in Threads : Unlocked(p) \in [Clients -> Threads \cup {None}]
  BY UnlockedLocks
<1>1. ASSUME NEW g \in Calls, Start(g) PROVE TypeOK'
  BY <1>u, <1>1 DEF Start
<1>2. ASSUME NEW g \in Calls, Load(g) PROVE TypeOK'
  BY <1>u, <1>2 DEF Load
<1>3. ASSUME NEW g \in Calls, LockEntry(g) PROVE TypeOK'
  BY <1>u, <1>3 DEF LockEntry, Lock, InductiveInv, LocksHeld
<1>4. ASSUME NEW g \in Calls, ProbeAlive(g) PROVE TypeOK'
  BY <1>u, <1>4 DEF ProbeAlive, InductiveInv, LocksHeld
<1>5. ASSUME NEW g \in Calls, ProbeDead(g) PROVE TypeOK'
  BY <1>u, <1>5 DEF ProbeDead, InductiveInv, LocksHeld
<1>6. ASSUME NEW g \in Calls, DeleteDead(g) PROVE TypeOK'
  BY <1>u, <1>6 DEF DeleteDead
<1>7. ASSUME NEW g \in Calls, Dial(g) PROVE TypeOK'
  BY <1>u, <1>7 DEF Dial
<1>8. ASSUME NEW g \in Calls, DialFails(g) PROVE TypeOK'
  BY <1>u, <1>8 DEF DialFails
<1>9. ASSUME NEW g \in Calls, StoreOwn(g) PROVE TypeOK'
  BY <1>u, <1>9 DEF StoreOwn, InductiveInv, FreshIsPrivate
<1>10. ASSUME NEW g \in Calls, UseOther(g) PROVE TypeOK'
  BY <1>u, <1>10 DEF UseOther, InductiveInv, FreshIsPrivate
<1>11. ASSUME NEW g \in Calls, OpenSession(g) PROVE TypeOK'
  BY <1>u, <1>11 DEF OpenSession
<1>12. ASSUME NEW g \in Calls, SessionRefused(g) PROVE TypeOK'
  BY <1>u, <1>12 DEF SessionRefused
<1>13. ASSUME NEW g \in Calls, EvictDelete(g) PROVE TypeOK'
  BY <1>u, <1>13 DEF EvictDelete
<1>14. ASSUME NEW g \in Calls, EvictClose(g) PROVE TypeOK'
  <2>1. cli[g] \in Clients /\ tries[g] = 1
    BY <1>14 DEF EvictClose, InductiveInv, InHand
  <2> QED BY <1>14, <2>1 DEF EvictClose
<1>15. ASSUME NEW g \in Calls, ScriptEnds(g) PROVE TypeOK'
  BY <1>u, <1>15 DEF ScriptEnds
<1>16. CASE CleanRange
  BY <1>u, <1>16 DEF CleanRange
<1>17. CASE CleanLock
  BY <1>u, <1>17 DEF CleanLock, Lock, InductiveInv, LocksHeld
<1>18. CASE CleanKeep
  BY <1>u, <1>18 DEF CleanKeep
<1>19. CASE CleanClose
  BY <1>u, <1>19 DEF CleanClose, InductiveInv, LocksHeld
<1>20. CASE CleanDelete
  BY <1>u, <1>20 DEF CleanDelete
<1>21. ASSUME NEW c \in Clients, Break(c) PROVE TypeOK'
  BY <1>21 DEF Break
<1>22. ASSUME NEW c \in Clients, Age(c) PROVE TypeOK'
  BY <1>22 DEF Age
<1>23. CASE UNCHANGED vars
  BY <1>23 DEF vars
<1> QED BY <1>1, <1>2, <1>3, <1>4, <1>5, <1>6, <1>7, <1>8, <1>9, <1>10, <1>11, <1>12, <1>13, <1>14, <1>15, <1>16, <1>17, <1>18, <1>19, <1>20, <1>21, <1>22, <1>23 DEF Next, CallStep, CleanerStep

(* A fresh client stays unknown to other threads until it is stored.       *)
LEMMA FreshIsPrivateStep ==
  ASSUME IInv, TypeOK', [Next]_vars
  PROVE  FreshIsPrivate'
<1> USE ConstantsAssumption
    DEF IInv, InductiveInv, TypeOK, Goto, Threads, Closed, poolVars, callVars,
        FreshIsPrivate
<1>n. None \notin Clients
  BY DEF Clients
<1>1. ASSUME NEW g \in Calls, Start(g) PROVE FreshIsPrivate'
  BY <1>1 DEF Start
<1>2. ASSUME NEW g \in Calls, Load(g) PROVE FreshIsPrivate'
  BY <1>2 DEF Load
<1>3. ASSUME NEW g \in Calls, LockEntry(g) PROVE FreshIsPrivate'
  BY <1>3 DEF LockEntry, Lock
<1>4. ASSUME NEW g \in Calls, ProbeAlive(g) PROVE FreshIsPrivate'
  BY <1>4 DEF ProbeAlive
<1>5. ASSUME NEW g \in Calls, ProbeDead(g) PROVE FreshIsPrivate'
  BY <1>5 DEF ProbeDead
<1>6. ASSUME NEW g \in Calls, DeleteDead(g) PROVE FreshIsPrivate'
  BY <1>n, <1>6 DEF DeleteDead
<1>7. ASSUME NEW g \in Calls, Dial(g) PROVE FreshIsPrivate'
  BY <1>7 DEF Dial
<1>8. ASSUME NEW g \in Calls, DialFails(g) PROVE FreshIsPrivate'
  BY <1>8 DEF DialFails
<1>9. ASSUME NEW g \in Calls, StoreOwn(g) PROVE FreshIsPrivate'
  BY <1>9 DEF StoreOwn
<1>10. ASSUME NEW g \in Calls, UseOther(g) PROVE FreshIsPrivate'
  BY <1>10 DEF UseOther
<1>11. ASSUME NEW g \in Calls, OpenSession(g) PROVE FreshIsPrivate'
  BY <1>11 DEF OpenSession
<1>12. ASSUME NEW g \in Calls, SessionRefused(g) PROVE FreshIsPrivate'
  BY <1>12 DEF SessionRefused
<1>13. ASSUME NEW g \in Calls, EvictDelete(g) PROVE FreshIsPrivate'
  BY <1>n, <1>13 DEF EvictDelete
<1>14. ASSUME NEW g \in Calls, EvictClose(g) PROVE FreshIsPrivate'
  BY <1>14 DEF EvictClose
<1>15. ASSUME NEW g \in Calls, ScriptEnds(g) PROVE FreshIsPrivate'
  BY <1>15 DEF ScriptEnds
<1>16. CASE CleanRange
  BY <1>16 DEF CleanRange
<1>17. CASE CleanLock
  BY <1>17 DEF CleanLock, Lock
<1>18. CASE CleanKeep
  BY <1>18 DEF CleanKeep
<1>19. CASE CleanClose
  BY <1>19 DEF CleanClose
<1>20. CASE CleanDelete
  BY <1>n, <1>20 DEF CleanDelete
<1>21. ASSUME NEW c \in Clients, Break(c) \/ Age(c) PROVE FreshIsPrivate'
  BY <1>21 DEF Break, Age
<1>22. CASE UNCHANGED vars
  BY <1>22 DEF vars
<1> QED BY <1>1, <1>2, <1>3, <1>4, <1>5, <1>6, <1>7, <1>8, <1>9, <1>10, <1>11, <1>12, <1>13, <1>14, <1>15, <1>16, <1>17, <1>18, <1>19, <1>20, <1>21, <1>22
  DEF Next, CallStep, CleanerStep

(* A mutex is held from Lock to the return of getOrDial or the callback.   *)
LEMMA LocksHeldStep ==
  ASSUME IInv, TypeOK', [Next]_vars
  PROVE  LocksHeld'
<1> USE ConstantsAssumption
    DEF IInv, InductiveInv, TypeOK, Goto, Threads, Closed, poolVars, callVars,
        LocksHeld
<1>u. ASSUME NEW p \in Threads
      PROVE  /\ \A c \in Clients : lock[c] # p => Unlocked(p)[c] = lock[c]
             /\ \A c \in Clients : Unlocked(p)[c] # None =>
                  Unlocked(p)[c] = lock[c] /\ lock[c] # p
  BY UnlockedLocks
<1>1. ASSUME NEW g \in Calls, Start(g) PROVE LocksHeld'
  BY <1>u, <1>1 DEF Start
<1>2. ASSUME NEW g \in Calls, Load(g) PROVE LocksHeld'
  BY <1>u, <1>2 DEF Load
<1>3. ASSUME NEW g \in Calls, LockEntry(g) PROVE LocksHeld'
  BY <1>u, <1>3 DEF LockEntry, Lock
<1>4. ASSUME NEW g \in Calls, ProbeAlive(g) PROVE LocksHeld'
  BY <1>u, <1>4 DEF ProbeAlive
<1>5. ASSUME NEW g \in Calls, ProbeDead(g) PROVE LocksHeld'
  BY <1>u, <1>5 DEF ProbeDead
<1>6. ASSUME NEW g \in Calls, DeleteDead(g) PROVE LocksHeld'
  BY <1>u, <1>6 DEF DeleteDead
<1>7. ASSUME NEW g \in Calls, Dial(g) PROVE LocksHeld'
  BY <1>u, <1>7 DEF Dial
<1>8. ASSUME NEW g \in Calls, DialFails(g) PROVE LocksHeld'
  BY <1>u, <1>8 DEF DialFails
<1>9. ASSUME NEW g \in Calls, StoreOwn(g) PROVE LocksHeld'
  BY <1>u, <1>9 DEF StoreOwn
<1>10. ASSUME NEW g \in Calls, UseOther(g) PROVE LocksHeld'
  BY <1>u, <1>10 DEF UseOther
<1>11. ASSUME NEW g \in Calls, OpenSession(g) PROVE LocksHeld'
  BY <1>u, <1>11 DEF OpenSession
<1>12. ASSUME NEW g \in Calls, SessionRefused(g) PROVE LocksHeld'
  BY <1>u, <1>12 DEF SessionRefused
<1>13. ASSUME NEW g \in Calls, EvictDelete(g) PROVE LocksHeld'
  BY <1>u, <1>13 DEF EvictDelete
<1>14. ASSUME NEW g \in Calls, EvictClose(g) PROVE LocksHeld'
  BY <1>u, <1>14 DEF EvictClose
<1>15. ASSUME NEW g \in Calls, ScriptEnds(g) PROVE LocksHeld'
  BY <1>u, <1>15 DEF ScriptEnds
<1>16. CASE CleanRange
  BY <1>u, <1>16 DEF CleanRange
<1>17. CASE CleanLock
  BY <1>u, <1>17 DEF CleanLock, Lock
<1>18. CASE CleanKeep
  BY <1>u, <1>18 DEF CleanKeep
<1>19. CASE CleanClose
  BY <1>u, <1>19 DEF CleanClose
<1>20. CASE CleanDelete
  BY <1>u, <1>20 DEF CleanDelete
<1>21. ASSUME NEW c \in Clients, Break(c) \/ Age(c) PROVE LocksHeld'
  BY <1>21 DEF Break, Age
<1>22. CASE UNCHANGED vars
  BY <1>22 DEF vars
<1> QED BY <1>1, <1>2, <1>3, <1>4, <1>5, <1>6, <1>7, <1>8, <1>9, <1>10, <1>11, <1>12, <1>13, <1>14, <1>15, <1>16, <1>17, <1>18, <1>19, <1>20, <1>21, <1>22
  DEF Next, CallStep, CleanerStep

(* What a call is about to close has left the pool.                         *)
LEMMA InHandStep ==
  ASSUME IInv, TypeOK', [Next]_vars
  PROVE  InHand'
<1> USE ConstantsAssumption
    DEF IInv, InductiveInv, TypeOK, Goto, Threads, Closed, poolVars, callVars,
        InHand, FreshIsPrivate
<1>n. None \notin Clients
  BY DEF Clients
<1>1. ASSUME NEW g \in Calls, Start(g) PROVE InHand'
  BY <1>1 DEF Start
<1>2. ASSUME NEW g \in Calls, Load(g) PROVE InHand'
  BY <1>2 DEF Load
<1>3. ASSUME NEW g \in Calls, LockEntry(g) PROVE InHand'
  BY <1>3 DEF LockEntry, Lock
<1>4. ASSUME NEW g \in Calls, ProbeAlive(g) PROVE InHand'
  BY <1>4 DEF ProbeAlive, LocksHeld
<1>5. ASSUME NEW g \in Calls, ProbeDead(g) PROVE InHand'
  BY <1>5 DEF ProbeDead
<1>6. ASSUME NEW g \in Calls, DeleteDead(g) PROVE InHand'
  BY <1>n, <1>6 DEF DeleteDead
<1>7. ASSUME NEW g \in Calls, Dial(g) PROVE InHand'
  BY <1>7 DEF Dial
<1>8. ASSUME NEW g \in Calls, DialFails(g) PROVE InHand'
  BY <1>8 DEF DialFails
<1>9. ASSUME NEW g \in Calls, StoreOwn(g) PROVE InHand'
  BY <1>9 DEF StoreOwn
<1>10. ASSUME NEW g \in Calls, UseOther(g) PROVE InHand'
  BY <1>10 DEF UseOther
<1>11. ASSUME NEW g \in Calls, OpenSession(g) PROVE InHand'
  BY <1>11 DEF OpenSession
<1>12. ASSUME NEW g \in Calls, SessionRefused(g) PROVE InHand'
  BY <1>12 DEF SessionRefused
<1>13. ASSUME NEW g \in Calls, EvictDelete(g) PROVE InHand'
  BY <1>n, <1>13 DEF EvictDelete
<1>14. ASSUME NEW g \in Calls, EvictClose(g) PROVE InHand'
  BY <1>14 DEF EvictClose
<1>15. ASSUME NEW g \in Calls, ScriptEnds(g) PROVE InHand'
  BY <1>15 DEF ScriptEnds
<1>16. CASE CleanRange
  BY <1>16 DEF CleanRange
<1>17. CASE CleanLock
  BY <1>17 DEF CleanLock, Lock
<1>18. CASE CleanKeep
  BY <1>18 DEF CleanKeep
<1>19. CASE CleanClose
  BY <1>19 DEF CleanClose
<1>20. CASE CleanDelete
  BY <1>n, <1>20 DEF CleanDelete
<1>21. ASSUME NEW c \in Clients, Break(c) \/ Age(c) PROVE InHand'
  BY <1>21 DEF Break, Age
<1>22. CASE UNCHANGED vars
  BY <1>22 DEF vars
<1> QED BY <1>1, <1>2, <1>3, <1>4, <1>5, <1>6, <1>7, <1>8, <1>9, <1>10, <1>11, <1>12, <1>13, <1>14, <1>15, <1>16, <1>17, <1>18, <1>19, <1>20, <1>21, <1>22
  DEF Next, CallStep, CleanerStep

(* Only the holder of an entry's mutex closes the client in the pool.       *)
LEMMA ClosedLeavesPoolStep ==
  ASSUME IInv, TypeOK', [Next]_vars
  PROVE  ClosedLeavesPool'
<1> USE ConstantsAssumption
    DEF IInv, InductiveInv, TypeOK, Goto, Threads, Closed, poolVars, callVars,
        ClosedLeavesPool, FreshIsPrivate, LocksHeld, InHand
<1>u. ASSUME NEW p \in Threads
      PROVE  /\ \A c \in Clients : lock[c] # p => Unlocked(p)[c] = lock[c]
             /\ \A c \in Clients : Unlocked(p)[c] # None =>
                  Unlocked(p)[c] = lock[c] /\ lock[c] # p
  BY UnlockedLocks
<1>1. ASSUME NEW g \in Calls, Start(g) PROVE ClosedLeavesPool'
  BY <1>u, <1>1 DEF Start
<1>2. ASSUME NEW g \in Calls, Load(g) PROVE ClosedLeavesPool'
  BY <1>u, <1>2 DEF Load
<1>3. ASSUME NEW g \in Calls, LockEntry(g) PROVE ClosedLeavesPool'
  BY <1>u, <1>3 DEF LockEntry, Lock
<1>4. ASSUME NEW g \in Calls, ProbeAlive(g) PROVE ClosedLeavesPool'
  BY <1>u, <1>4 DEF ProbeAlive
<1>5. ASSUME NEW g \in Calls, ProbeDead(g) PROVE ClosedLeavesPool'
  BY <1>u, <1>5 DEF ProbeDead
<1>6. ASSUME NEW g \in Calls, DeleteDead(g) PROVE ClosedLeavesPool'
  BY <1>u, <1>6 DEF DeleteDead
<1>7. ASSUME NEW g \in Calls, Dial(g) PROVE ClosedLeavesPool'
  BY <1>u, <1>7 DEF Dial
<1>8. ASSUME NEW g \in Calls, DialFails(g) PROVE ClosedLeavesPool'
  BY <1>u, <1>8 DEF DialFails
<1>9. ASSUME NEW g \in Calls, StoreOwn(g) PROVE ClosedLeavesPool'
  BY <1>u, <1>9 DEF StoreOwn
<1>10. ASSUME NEW g \in Calls, UseOther(g) PROVE ClosedLeavesPool'
  BY <1>u, <1>10 DEF UseOther
<1>11. ASSUME NEW g \in Calls, OpenSession(g) PROVE ClosedLeavesPool'
  BY <1>u, <1>11 DEF OpenSession
<1>12. ASSUME NEW g \in Calls, SessionRefused(g) PROVE ClosedLeavesPool'
  BY <1>u, <1>12 DEF SessionRefused
<1>13. ASSUME NEW g \in Calls, EvictDelete(g) PROVE ClosedLeavesPool'
  BY <1>u, <1>13 DEF EvictDelete
<1>14. ASSUME NEW g \in Calls, EvictClose(g) PROVE ClosedLeavesPool'
  BY <1>u, <1>14 DEF EvictClose
<1>15. ASSUME NEW g \in Calls, ScriptEnds(g) PROVE ClosedLeavesPool'
  BY <1>u, <1>15 DEF ScriptEnds
<1>16. CASE CleanRange
  BY <1>u, <1>16 DEF CleanRange
<1>17. CASE CleanLock
  BY <1>u, <1>17 DEF CleanLock, Lock
<1>18. CASE CleanKeep
  BY <1>u, <1>18 DEF CleanKeep
<1>19. CASE CleanClose
  BY <1>u, <1>19 DEF CleanClose
<1>20. CASE CleanDelete
  BY <1>u, <1>20 DEF CleanDelete
<1>21. ASSUME NEW c \in Clients, Break(c) \/ Age(c) PROVE ClosedLeavesPool'
  BY <1>21 DEF Break, Age
<1>22. CASE UNCHANGED vars
  BY <1>22 DEF vars
<1> QED BY <1>1, <1>2, <1>3, <1>4, <1>5, <1>6, <1>7, <1>8, <1>9, <1>10, <1>11, <1>12, <1>13, <1>14, <1>15, <1>16, <1>17, <1>18, <1>19, <1>20, <1>21, <1>22
  DEF Next, CallStep, CleanerStep

(* The typed invariant holds in every reachable state.                     *)
THEOREM PoolInductive == Spec => []IInv
<1>1. Init => IInv
  <2> SUFFICES ASSUME Init PROVE IInv
    OBVIOUS
  <2>1. TypeOK
    BY ConstantsAssumption DEF Init, TypeOK, Threads, CallPCs, CleanerPCs, Ended
  <2>2. InductiveInv
    BY ConstantsAssumption DEF Init, InductiveInv, FreshIsPrivate, LocksHeld, InHand,
       ClosedLeavesPool, Threads, Clients
  <2> QED BY <2>1, <2>2 DEF IInv
<1>2. IInv /\ [Next]_vars => IInv'
  <2> SUFFICES ASSUME IInv, [Next]_vars PROVE IInv'
    OBVIOUS
  <2>1. TypeOK'
    BY TypeStep
  <2> QED BY <2>1, FreshIsPrivateStep, LocksHeldStep, InHandStep, ClosedLeavesPoolStep
          DEF IInv, InductiveInv
<1> QED BY <1>1, <1>2, PTL DEF Spec

(* Types, with every bound on retries and troubles.                        *)
THEOREM PoolTypeCorrect == Spec => []TypeOK
<1>1. IInv => TypeOK
  BY DEF IInv
<1> QED BY <1>1, PoolInductive, PTL

(* A connection closed by this process does not stay in the pool.          *)
THEOREM NoCorpseInPool == Spec => []ClosedLeavesPool
<1>1. IInv => ClosedLeavesPool
  BY DEF IInv, InductiveInv
<1> QED BY <1>1, PoolInductive, PTL

(***************************************************************************)
(* One connection                                                          *)
(***************************************************************************)
(* What went wrong once is remembered.                                     *)
LEMMA QuietWasQuiet ==
  ASSUME IInv, QuietPool, TypeOK', [Next]_vars, Quiet'
  PROVE  Quiet /\ troubles' = troubles
<1> USE DEF IInv, TypeOK, InductiveInv, QuietPool, Quiet, Goto, Threads, poolVars, callVars
<1>1. ASSUME NEW g \in Calls, Start(g) \/ CallStep(g)
      PROVE  troubles' = troubles
  BY <1>1 DEF Start, CallStep, Load, LockEntry, Lock, ProbeAlive, ProbeDead, DeleteDead, Dial,
              StoreOwn, UseOther, OpenSession, SessionRefused, EvictDelete, EvictClose,
              ScriptEnds
<1>2. CASE \E g \in Calls : Start(g) \/ CallStep(g)
  <2>1. PICK g \in Calls : Start(g) \/ CallStep(g)
    BY <1>2
  <2>2. \A h \in Calls : h # g => tries'[h] = tries[h] /\ pc'[h] = pc[h]
    BY <2>1 DEF Start, CallStep, Load, LockEntry, Lock, ProbeAlive, ProbeDead, DeleteDead,
                Dial, StoreOwn, UseOther, OpenSession, SessionRefused, EvictDelete,
                EvictClose, ScriptEnds
  <2>3. tries[g] <= 1 /\ pc[g] \notin {"evict", "evictclose"}
    <3>1. CASE EvictClose(g)
      BY <3>1 DEF EvictClose, InHand
    <3>2. CASE EvictDelete(g)
      BY <3>2 DEF EvictDelete
    <3>3. CASE Start(g)
      BY <3>3 DEF Start
    <3>4. CASE CallStep(g) /\ ~ EvictClose(g) /\ ~ EvictDelete(g)
      BY <3>4 DEF CallStep, Load, LockEntry, Lock, ProbeAlive, ProbeDead, DeleteDead, Dial,
                  StoreOwn, UseOther, OpenSession, SessionRefused, ScriptEnds
    <3> QED
      BY <2>1, <3>1, <3>2, <3>3, <3>4
  <2> QED
    BY <1>1, <2>1, <2>2, <2>3
<1>3. CASE (\E g \in Calls : DialFails(g)) \/ \E c \in Clients : Break(c) \/ Age(c)
  <2>1. troubles' = troubles + 1
    BY <1>3 DEF DialFails, Break, Age, Trouble
  <2>2. troubles \in Nat
    BY ConstantsAssumption
  <2> QED
    BY <2>1, <2>2
<1>4. CASE CleanerStep
  BY <1>4, ConstantsAssumption DEF CleanerStep, CleanRange, CleanLock, Lock, CleanKeep,
                                   CleanClose, CleanDelete
<1>5. CASE UNCHANGED vars
  BY <1>5 DEF vars
<1> QED
  BY <1>2, <1>3, <1>4, <1>5 DEF Next

(* A call that has not started has not tried.                              *)
LEMMA IdleUntried ==
  ASSUME IInv, QuietPool, [Next]_vars
  PROVE  \A g \in Calls : pc'[g] = "idle" => tries'[g] = 0
<1> USE DEF IInv, TypeOK, QuietPool, Goto, Threads, poolVars, callVars
<1>1. ASSUME NEW g \in Calls, Start(g) \/ CallStep(g) \/ DialFails(g)
      PROVE  \A h \in Calls : pc'[h] = "idle" => tries'[h] = 0
  BY <1>1 DEF Start, CallStep, Load, LockEntry, Lock, ProbeAlive, ProbeDead, DeleteDead, Dial,
              DialFails, StoreOwn, UseOther, OpenSession, SessionRefused, EvictDelete,
              EvictClose, ScriptEnds
<1>2. CASE CleanerStep
  BY <1>2, ConstantsAssumption DEF CleanerStep, CleanRange, CleanLock, Lock, CleanKeep,
                                   CleanClose, CleanDelete
<1>3. CASE \E c \in Clients : Break(c) \/ Age(c)
  BY <1>3 DEF Break, Age
<1>4. CASE UNCHANGED vars
  BY <1>4 DEF vars
<1> QED
  BY <1>1, <1>2, <1>3, <1>4 DEF Next

(* While nothing goes wrong, only the loser of a race to dial closes.      *)
LEMMA KeepOnlyOneStep ==
  ASSUME IInv, QuietPool, KeepOnlyOne, TypeOK', [Next]_vars
  PROVE  QuietPool' /\ KeepOnlyOne'
<1> SUFFICES ASSUME Quiet'
             PROVE  QuietPool' /\ KeepOnlyOne'
  BY IdleUntried DEF QuietPool, KeepOnlyOne
<1>q. Quiet /\ troubles' = troubles
  BY QuietWasQuiet
<1>i. \A g \in Calls : pc'[g] = "idle" => tries'[g] = 0
  BY IdleUntried
<1>t. troubles \in Nat /\ ~ Trouble /\ None \notin Clients
  BY <1>q, ConstantsAssumption DEF IInv, TypeOK, Trouble, Clients
<1>s. /\ aged = {}
      /\ \A c \in Clients : conn[c] # "broken"
      /\ slot # None => conn[slot] = "open"
      /\ \A p \in Threads : pc[p] # "delete"
      /\ \A p \in Threads : pc[p] \in {"lock", "probe", "check"} => ent[p] = slot
      /\ \A c \in Clients :
           conn[c] = "open" => slot = c \/ \E g \in Calls : pc[g] = "store" /\ cli[g] = c
  BY <1>q DEF QuietPool, KeepOnlyOne
<1>e. \A g \in Calls : pc[g] \notin {"evict", "evictclose"}
  BY <1>q DEF Quiet
<1> DEFINE Good == /\ aged = {}
                   /\ \A c \in Clients : conn[c] # "broken"
                   /\ slot # None => conn[slot] = "open"
                   /\ \A p \in Threads : pc[p] # "delete"
                   /\ \A p \in Threads :
                        pc[p] \in {"lock", "probe", "check"} => ent[p] = slot
                   /\ \A c \in Clients : conn[c] = "open" =>
                        slot = c \/ \E g \in Calls : pc[g] = "store" /\ cli[g] = c
<1> USE ConstantsAssumption
    DEF IInv, InductiveInv, TypeOK, Goto, Threads, Closed, poolVars, callVars,
        FreshIsPrivate, LocksHeld
<1>1. ASSUME NEW g \in Calls, Start(g) PROVE Good'
  BY <1>s, <1>e, <1>t, <1>1 DEF Start
<1>2. ASSUME NEW g \in Calls, Load(g) PROVE Good'
  BY <1>s, <1>e, <1>t, <1>2 DEF Load
<1>3. ASSUME NEW g \in Calls, LockEntry(g) PROVE Good'
  BY <1>s, <1>e, <1>t, <1>3 DEF LockEntry, Lock
<1>4. ASSUME NEW g \in Calls, ProbeAlive(g) PROVE Good'
  BY <1>s, <1>e, <1>t, <1>4 DEF ProbeAlive
<1>5. ASSUME NEW g \in Calls, ProbeDead(g) PROVE Good'
  BY <1>s, <1>e, <1>t, <1>5 DEF ProbeDead
<1>6. ASSUME NEW g \in Calls, DeleteDead(g) PROVE Good'
  BY <1>s, <1>e, <1>t, <1>6 DEF DeleteDead
<1>7. ASSUME NEW g \in Calls, Dial(g) PROVE Good'
  BY <1>s, <1>e, <1>t, <1>7 DEF Dial
<1>8. ASSUME NEW g \in Calls, StoreOwn(g) PROVE Good'
  <2>1. /\ slot = None /\ slot' = cli[g] /\ pc' = [pc EXCEPT ![g] = "session"]
        /\ conn' = conn /\ aged' = aged /\ ent' = ent /\ cli' = cli /\ pc[g] = "store"
    BY <1>8 DEF StoreOwn
  <2>2. cli[g] \in Clients /\ conn[cli[g]] = "open"
    BY <1>s, <2>1
  <2>3. \A p \in Threads : pc[p] \notin {"lock", "probe", "check", "delete"}
    BY <1>s, <1>t, <2>1
  <2>4. slot' # None => conn'[slot'] = "open"
    BY <2>1, <2>2
  <2>5. \A p \in Threads : pc'[p] \notin {"lock", "probe", "check", "delete"}
    BY <2>1, <2>3
  <2>6. \A c \in Clients : conn'[c] = "open" =>
          slot' = c \/ \E h \in Calls : pc'[h] = "store" /\ cli'[h] = c
    <3> SUFFICES ASSUME NEW c \in Clients, conn[c] = "open", c # cli[g]
                 PROVE  \E h \in Calls : pc'[h] = "store" /\ cli'[h] = c
      BY <2>1
    <3>1. PICK h \in Calls : pc[h] = "store" /\ cli[h] = c
      BY <1>s, <1>t, <2>1
    <3> QED
      BY <2>1, <3>1
  <2> QED
    BY <1>s, <2>1, <2>4, <2>5, <2>6
<1>9. ASSUME NEW g \in Calls, UseOther(g) PROVE Good'
  <2>1. /\ slot # None /\ slot' = slot /\ pc' = [pc EXCEPT ![g] = "session"]
        /\ conn' = [conn EXCEPT ![cli[g]] = "closed"] /\ aged' = aged /\ ent' = ent
        /\ cli' = [cli EXCEPT ![g] = slot] /\ pc[g] = "store"
    BY <1>9 DEF UseOther
  <2>2. cli[g] \in Clients /\ slot \in Clients /\ slot # cli[g]
    BY <2>1
  <2>3. slot' # None => conn'[slot'] = "open"
    BY <1>s, <2>1, <2>2
  <2>4. \A c \in Clients : conn'[c] # "broken"
    BY <1>s, <2>1
  <2>5. \A p \in Threads : /\ pc'[p] # "delete"
                          /\ pc'[p] \in {"lock", "probe", "check"} => ent'[p] = slot'
    BY <1>s, <2>1
  <2>6. \A c \in Clients : conn'[c] = "open" =>
          slot' = c \/ \E h \in Calls : pc'[h] = "store" /\ cli'[h] = c
    <3> SUFFICES ASSUME NEW c \in Clients, conn[c] = "open", c # cli[g], c # slot
                 PROVE  \E h \in Calls : pc'[h] = "store" /\ cli'[h] = c
      BY <2>1, <2>2
    <3>1. PICK h \in Calls : pc[h] = "store" /\ cli[h] = c
      BY <1>s
    <3> QED
      BY <2>1, <3>1
  <2> QED
    BY <1>s, <2>1, <2>3, <2>4, <2>5, <2>6
<1>10. ASSUME NEW g \in Calls, OpenSession(g) PROVE Good'
  BY <1>s, <1>e, <1>t, <1>10 DEF OpenSession
<1>11. ASSUME NEW g \in Calls, SessionRefused(g) PROVE Good'
  BY <1>s, <1>e, <1>t, <1>11 DEF SessionRefused
<1>12. ASSUME NEW g \in Calls, EvictDelete(g) PROVE Good'
  BY <1>s, <1>e, <1>t, <1>12 DEF EvictDelete
<1>13. ASSUME NEW g \in Calls, EvictClose(g) PROVE Good'
  BY <1>s, <1>e, <1>t, <1>13 DEF EvictClose
<1>14. ASSUME NEW g \in Calls, ScriptEnds(g) PROVE Good'
  BY <1>s, <1>e, <1>t, <1>14 DEF ScriptEnds
<1>15. ASSUME CleanRange PROVE Good'
  BY <1>s, <1>e, <1>t, <1>15 DEF CleanRange
<1>16. ASSUME CleanLock PROVE Good'
  BY <1>s, <1>e, <1>t, <1>16 DEF CleanLock, Lock
<1>17. ASSUME CleanKeep PROVE Good'
  BY <1>s, <1>e, <1>t, <1>17 DEF CleanKeep
<1>18. ASSUME CleanClose PROVE Good'
  BY <1>s, <1>e, <1>t, <1>18 DEF CleanClose
<1>19. ASSUME CleanDelete PROVE Good'
  BY <1>s, <1>e, <1>t, <1>19 DEF CleanDelete
<1>20. ASSUME NEW g \in Calls PROVE ~ DialFails(g)
  BY <1>t DEF DialFails
<1>21. ASSUME NEW c \in Clients PROVE ~ Break(c) /\ ~ Age(c)
  BY <1>t DEF Break, Age
<1>22. ASSUME UNCHANGED vars PROVE Good'
  <2>1. /\ slot' = slot /\ conn' = conn /\ aged' = aged
        /\ pc' = pc /\ ent' = ent /\ cli' = cli
    BY <1>22 DEF vars
  <2> QED
    BY <1>s, <2>1
<1> HIDE DEF Good
<1>23. Good'
  BY <1>1, <1>2, <1>3, <1>4, <1>5, <1>6, <1>7, <1>8, <1>9, <1>10, <1>11, <1>12, <1>13, <1>14,
     <1>15, <1>16, <1>17, <1>18, <1>19, <1>20, <1>21, <1>22
  DEF Next, CallStep, CleanerStep
<1> QED
  BY <1>i, <1>23 DEF Good, QuietPool, KeepOnlyOne

(* pool.go:82 for every number of racing calls: while no connection breaks *)
(* and no dial or session fails, one connection stays open.                *)
THEOREM PoolKeepsOnlyOne == Spec => []KeepOnlyOne
<1>1. Init => QuietPool /\ KeepOnlyOne
  BY ConstantsAssumption DEF Init, QuietPool, KeepOnlyOne, Threads
<1>2. IInv /\ QuietPool /\ KeepOnlyOne /\ [Next]_vars => QuietPool' /\ KeepOnlyOne'
  BY TypeStep, KeepOnlyOneStep
<1> QED
  BY <1>1, <1>2, PoolInductive, PTL DEF Spec

(***************************************************************************)
(* The retry                                                               *)
(***************************************************************************)
(* A client that somebody can still be handed: by the pool, or since it    *)
(* has the entry or the client at hand.                                    *)
Held(c) ==
  \/ slot = c
  \/ \E p \in Threads : ent[p] = c
  \/ \E g \in Calls : cli[g] = c

(* One that will refuse a session, now or when the cleaner has come by.    *)
Spoiled(c) == c \in aged \/ conn[c] = "broken" \/ (conn[c] = "closed" /\ Held(c))

(* What is aged was in the pool, and a call that has started has tried.    *)
AgedWasStored ==
  \A c \in aged : conn[c] # "unused" /\ \A g \in Calls : pc[g] = "store" => cli[g] # c

Tried == \A g \in Calls : pc[g] # "idle" => tries[g] \in {1, 2}

(* One trouble spoils one client.                                          *)
OneSpoiled ==
  /\ troubles = 0 => \A c \in Clients : ~ Spoiled(c)
  /\ \A c, d \in Clients : Spoiled(c) /\ Spoiled(d) => c = d

(* Who evicts had a spoiled client; after that none is in the pool or about*)
(* to come into it, so that a second try gets a good one.                  *)
SecondTry ==
  \A g \in Calls :
    /\ pc[g] \in {"evict", "evictclose"} => conn[cli[g]] # "open"
    /\ tries[g] = 2 \/ pc[g] = "evictclose" =>
         /\ troubles > 0
         /\ slot # None => ~ Spoiled(slot)
         /\ \A h \in Calls : pc[h] = "store" => ~ Spoiled(cli[h])
    /\ tries[g] = 2 /\ pc[g] = "session" => ~ Spoiled(cli[g])

OneTrouble == troubles <= 1 /\ Cardinality(Calls) <= MaxSessions

RetryInv ==
  /\ AgedWasStored /\ Tried
  /\ OneTrouble => OneSpoiled /\ SecondTry /\ RetryCovers

(* A call that runs no script leaves room for itself.                      *)
LEMMA RoomForAll ==
  ASSUME Cardinality(Calls) <= MaxSessions, NEW g \in Calls, pc[g] # "running", NEW c
  PROVE  ~ (Cardinality(Sessions(c)) >= MaxSessions)
<1>1. Sessions(c) \in SUBSET (Calls \ {g})
  BY DEF Sessions
<1>2. /\ IsFiniteSet(Calls \ {g}) /\ Cardinality(Calls) \in Nat
      /\ Cardinality(Calls \ {g}) = Cardinality(Calls) - 1
  BY ConstantsAssumption, FS_RemoveElement, FS_CardinalityType
<1>3. /\ Cardinality(Sessions(c)) <= Cardinality(Calls \ {g})
      /\ IsFiniteSet(Sessions(c))
  BY <1>1, <1>2, FS_Subset
<1>4. Cardinality(Sessions(c)) \in Nat
  BY <1>3, FS_CardinalityType
<1> QED
  BY <1>2, <1>3, <1>4, ConstantsAssumption

(* A client in hand that refuses is spoiled.                               *)
LEMMA RefusedIsSpoiled ==
  ASSUME IInv, NEW g \in Calls, pc[g] \in {"session", "evict", "evictclose"},
         conn[cli[g]] # "open"
  PROVE  cli[g] \in Clients /\ Spoiled(cli[g])
<1>1. cli[g] \in Clients
  BY DEF IInv, InductiveInv, InHand
<1>2. conn[cli[g]] \in {"broken", "closed"}
  BY <1>1 DEF IInv, InductiveInv, TypeOK, FreshIsPrivate
<1> QED
  BY <1>1, <1>2 DEF Spoiled, Held

(* No step but one that is a trouble spoils a client.                      *)
LEMMA NothingSpoils ==
  ASSUME IInv, RetryInv, OneTrouble, [Next]_vars, NEW c \in Clients, Spoiled(c)'
  PROVE  \/ Spoiled(c)
         \/ troubles' = troubles + 1 /\ (Break(c) \/ Age(c))
<1> DEFINE Goal == Spoiled(c) \/ (troubles' = troubles + 1 /\ (Break(c) \/ Age(c)))
<1> SUFFICES ASSUME ~ Goal
             PROVE  FALSE
  OBVIOUS
<1>s. ~ Spoiled(c)
  OBVIOUS
<1>n. None \notin Clients
  BY ConstantsAssumption DEF Clients
<1> USE DEF IInv, InductiveInv, TypeOK, Goto, Threads, Closed, poolVars, callVars, Held, Spoiled
<1>1. ASSUME NEW g \in Calls, Start(g) PROVE FALSE
  BY <1>s, <1>1 DEF Start
<1>2. ASSUME NEW g \in Calls, Load(g) PROVE FALSE
  BY <1>s, <1>2 DEF Load
<1>3. ASSUME NEW g \in Calls, LockEntry(g) PROVE FALSE
  BY <1>s, <1>3 DEF LockEntry, Lock
<1>4. ASSUME NEW g \in Calls, ProbeAlive(g) PROVE FALSE
  BY <1>s, <1>4 DEF ProbeAlive
<1>5. ASSUME NEW g \in Calls, ProbeDead(g) PROVE FALSE
  <2>1. ent[g] \in Clients /\ conn[ent[g]] \in {"broken", "closed"}
    BY <1>5 DEF ProbeDead, FreshIsPrivate, LocksHeld
  <2> QED
    BY <1>s, <1>5, <2>1 DEF ProbeDead
<1>6. ASSUME NEW g \in Calls, DeleteDead(g) PROVE FALSE
  BY <1>s, <1>n, <1>6 DEF DeleteDead
<1>7. ASSUME NEW g \in Calls, Dial(g) PROVE FALSE
  <2>1. PICK d \in Clients : /\ conn[d] = "unused" /\ conn' = [conn EXCEPT ![d] = "open"]
                             /\ cli' = [cli EXCEPT ![g] = d]
    BY <1>7 DEF Dial
  <2>2. d \notin aged
    BY <2>1 DEF RetryInv, AgedWasStored
  <2> QED
    BY <1>s, <1>7, <2>1, <2>2 DEF Dial
<1>8. ASSUME NEW g \in Calls, DialFails(g) PROVE FALSE
  BY <1>s, <1>8 DEF DialFails
<1>9. ASSUME NEW g \in Calls, StoreOwn(g) PROVE FALSE
  BY <1>s, <1>9 DEF StoreOwn
<1>10. ASSUME NEW g \in Calls, UseOther(g) PROVE FALSE
  <2>1. /\ cli[g] \in Clients /\ slot # cli[g] /\ \A p \in Threads : ent[p] # cli[g]
        /\ \A h \in Calls : h # g => cli[h] # cli[g]
    BY <1>10 DEF UseOther, FreshIsPrivate
  <2>2. ~ Held(cli[g])'
    BY <1>10, <2>1 DEF UseOther
  <2> QED
    BY <1>s, <1>10, <2>1, <2>2 DEF UseOther
<1>11. ASSUME NEW g \in Calls, OpenSession(g) PROVE FALSE
  BY <1>s, <1>11 DEF OpenSession
<1>12. ASSUME NEW g \in Calls, SessionRefused(g) PROVE FALSE
  BY <1>s, <1>12 DEF SessionRefused
<1>13. ASSUME NEW g \in Calls, EvictDelete(g) PROVE FALSE
  BY <1>s, <1>n, <1>13 DEF EvictDelete
<1>14. ASSUME NEW g \in Calls, EvictClose(g) PROVE FALSE
  <2>1. cli[g] \in Clients /\ Spoiled(cli[g])
    BY <1>14, RefusedIsSpoiled DEF EvictClose, RetryInv, SecondTry
  <2> QED
    BY <1>s, <1>14, <2>1 DEF EvictClose
<1>15. ASSUME NEW g \in Calls, ScriptEnds(g) PROVE FALSE
  BY <1>s, <1>15 DEF ScriptEnds
<1>16. CASE CleanRange
  BY <1>s, <1>16 DEF CleanRange
<1>17. CASE CleanLock
  BY <1>s, <1>17 DEF CleanLock, Lock
<1>18. CASE CleanKeep
  BY <1>s, <1>18 DEF CleanKeep
<1>19. CASE CleanClose
  BY <1>s, <1>19 DEF CleanClose
<1>20. CASE CleanDelete
  BY <1>s, <1>n, <1>20 DEF CleanDelete
<1>21. ASSUME NEW d \in Clients, Break(d) PROVE FALSE
  BY <1>s, <1>21 DEF Break, Trouble
<1>22. ASSUME NEW d \in Clients, Age(d) PROVE FALSE
  BY <1>s, <1>22 DEF Age, Trouble
<1>23. CASE UNCHANGED vars
  BY <1>s, <1>23 DEF vars
<1> HIDE DEF IInv, InductiveInv, TypeOK, Held, Spoiled
<1> QED
  BY <1>1, <1>2, <1>3, <1>4, <1>5, <1>6, <1>7, <1>8, <1>9, <1>10, <1>11, <1>12, <1>13, <1>14,
     <1>15, <1>16, <1>17, <1>18, <1>19, <1>20, <1>21, <1>22, <1>23
  DEF Next, CallStep, CleanerStep

(* Entries age in the pool, and calls try as they start.                   *)
LEMMA AgedTriedStep ==
  ASSUME IInv, AgedWasStored, Tried, [Next]_vars
  PROVE  AgedWasStored' /\ Tried'
<1> DEFINE Goal == AgedWasStored' /\ Tried'
<1> USE DEF IInv, InductiveInv, TypeOK, Goto, Threads, Closed, poolVars, callVars,
            AgedWasStored, Tried
<1>1. ASSUME NEW g \in Calls, Start(g) PROVE Goal
  BY <1>1 DEF Start
<1>2. ASSUME NEW g \in Calls, Load(g) PROVE Goal
  BY <1>2 DEF Load
<1>3. ASSUME NEW g \in Calls, LockEntry(g) PROVE Goal
  BY <1>3 DEF LockEntry, Lock
<1>4. ASSUME NEW g \in Calls, ProbeAlive(g) PROVE Goal
  BY <1>4 DEF ProbeAlive
<1>5. ASSUME NEW g \in Calls, ProbeDead(g) PROVE Goal
  BY <1>5 DEF ProbeDead
<1>6. ASSUME NEW g \in Calls, DeleteDead(g) PROVE Goal
  BY <1>6 DEF DeleteDead
<1>7. ASSUME NEW g \in Calls, Dial(g) PROVE Goal
  BY <1>7 DEF Dial
<1>8. ASSUME NEW g \in Calls, DialFails(g) PROVE Goal
  BY <1>8 DEF DialFails
<1>9. ASSUME NEW g \in Calls, StoreOwn(g) PROVE Goal
  BY <1>9 DEF StoreOwn
<1>10. ASSUME NEW g \in Calls, UseOther(g) PROVE Goal
  BY <1>10 DEF UseOther
<1>11. ASSUME NEW g \in Calls, OpenSession(g) PROVE Goal
  BY <1>11 DEF OpenSession
<1>12. ASSUME NEW g \in Calls, SessionRefused(g) PROVE Goal
  BY <1>12 DEF SessionRefused
<1>13. ASSUME NEW g \in Calls, EvictDelete(g) PROVE Goal
  BY <1>13 DEF EvictDelete
<1>14. ASSUME NEW g \in Calls, EvictClose(g) PROVE Goal
  BY <1>14 DEF EvictClose, InHand
<1>15. ASSUME NEW g \in Calls, ScriptEnds(g) PROVE Goal
  BY <1>15 DEF ScriptEnds
<1>16. CASE CleanerStep
  BY <1>16, ConstantsAssumption DEF CleanerStep, CleanRange, CleanLock, Lock, CleanKeep, CleanClose, CleanDelete
<1>17. ASSUME NEW c \in Clients, Break(c) PROVE Goal
  BY <1>17 DEF Break
<1>18. ASSUME NEW c \in Clients, Age(c) PROVE Goal
  BY <1>18 DEF Age, FreshIsPrivate
<1>19. CASE UNCHANGED vars
  BY <1>19 DEF vars
<1> HIDE DEF Goal
<1> QED
  BY <1>1, <1>2, <1>3, <1>4, <1>5, <1>6, <1>7, <1>8, <1>9, <1>10, <1>11, <1>12, <1>13, <1>14,
     <1>15, <1>16, <1>17, <1>18, <1>19 DEF Next, CallStep, Goal

(* Troubles only grow, one at a time.                                      *)
LEMMA TroublesGrow ==
  ASSUME IInv, [Next]_vars
  PROVE  /\ troubles \in Nat /\ troubles' \in {troubles, troubles + 1}
         /\ OneTrouble' => OneTrouble /\ (troubles' = troubles + 1 => troubles = 0)
<1>1. troubles \in Nat
  BY ConstantsAssumption DEF IInv, TypeOK
<1>2. troubles' \in {troubles, troubles + 1}
  BY DEF Next, CallStep, CleanerStep, Start, Load, LockEntry, Lock, ProbeAlive, ProbeDead,
         DeleteDead, Dial, DialFails, StoreOwn, UseOther, OpenSession, SessionRefused,
         EvictDelete, EvictClose, ScriptEnds, CleanRange, CleanLock, CleanKeep, CleanClose,
         CleanDelete, Break, Age, Trouble, vars, poolVars, callVars
<1> QED
  BY <1>1, <1>2 DEF OneTrouble

(* So one client is spoiled at most.                                       *)
LEMMA OneSpoiledStep ==
  ASSUME IInv, RetryInv, OneTrouble', [Next]_vars
  PROVE  OneSpoiled'
<1>1. OneTrouble /\ OneSpoiled /\ troubles \in Nat
  BY TroublesGrow DEF RetryInv
<1>2. CASE troubles' = troubles
  BY <1>1, <1>2, NothingSpoils DEF OneSpoiled
<1>3. CASE troubles' = troubles + 1
  <2>1. troubles = 0 /\ \A c \in Clients : ~ Spoiled(c)
    BY <1>1, <1>3, TroublesGrow DEF OneSpoiled
  <2>2. \A c \in Clients : Spoiled(c)' => Break(c) \/ Age(c)
    BY <1>1, <2>1, NothingSpoils
  <2>3. ASSUME NEW c \in Clients, NEW d \in Clients, Break(c) \/ Age(c), Break(d) \/ Age(d)
        PROVE  c = d
    BY <2>3 DEF Break, Age, IInv, TypeOK
  <2> QED
    BY <1>3, <2>1, <2>2, <2>3 DEF OneSpoiled
<1> QED
  BY <1>2, <1>3, TroublesGrow

(* A refused session, to which a call is sent back only once, was one on a *)
(* spoiled client; the call evicts that one and no other.                  *)
LEMMA SecondTryStep ==
  ASSUME IInv, RetryInv, OneTrouble', [Next]_vars
  PROVE  SecondTry' /\ RetryCovers'
<1> DEFINE Good == /\ SecondTry'
                   /\ \A g \in Calls : pc'[g] # "nosession"
<1>1. OneTrouble /\ OneSpoiled /\ SecondTry /\ Tried
  BY TroublesGrow DEF RetryInv
<1>2. \A g \in Calls : pc[g] # "nosession"
  BY <1>1 DEF RetryInv, RetryCovers, OneTrouble
<1>m. \A c \in Clients : troubles' = troubles /\ Spoiled(c)' => Spoiled(c)
  BY <1>1, NothingSpoils, TroublesGrow
<1>r. \A g \in Calls : pc[g] \in {"session", "evict", "evictclose"} /\ conn[cli[g]] # "open"
        => cli[g] \in Clients /\ Spoiled(cli[g])
  BY RefusedIsSpoiled
<1>n. None \notin Clients
  BY ConstantsAssumption DEF Clients
<1> USE DEF IInv, InductiveInv, TypeOK, Goto, Threads, Closed, poolVars, callVars, SecondTry,
            FreshIsPrivate, InHand
<1>3. ASSUME NEW g \in Calls, Start(g) PROVE Good
  BY <1>1, <1>2, <1>m, <1>3 DEF Start
<1>4. ASSUME NEW g \in Calls, Load(g) PROVE Good
  BY <1>1, <1>2, <1>m, <1>4 DEF Load
<1>5. ASSUME NEW g \in Calls, LockEntry(g) PROVE Good
  BY <1>1, <1>2, <1>m, <1>5 DEF LockEntry, Lock
<1>6. ASSUME NEW g \in Calls, ProbeAlive(g) PROVE Good
  <2>1. ~ Spoiled(ent[g])'
    BY <1>6 DEF ProbeAlive, Spoiled
  <2> QED
    BY <1>1, <1>2, <1>m, <1>6, <2>1 DEF ProbeAlive
<1>7. ASSUME NEW g \in Calls, ProbeDead(g) PROVE Good
  BY <1>1, <1>2, <1>m, <1>7 DEF ProbeDead
<1>8. ASSUME NEW g \in Calls, DeleteDead(g) PROVE Good
  BY <1>1, <1>2, <1>m, <1>n, <1>8 DEF DeleteDead
<1>9. ASSUME NEW g \in Calls, Dial(g) PROVE Good
  <2>1. PICK d \in Clients : /\ conn[d] = "unused" /\ conn' = [conn EXCEPT ![d] = "open"]
                             /\ cli' = [cli EXCEPT ![g] = d]
    BY <1>9 DEF Dial
  <2>2. /\ pc' = [pc EXCEPT ![g] = "store"] /\ pc[g] = "dial"
        /\ UNCHANGED <<slot, aged, tries, troubles>>
    BY <1>9 DEF Dial
  <2>3. d \notin aged
    BY <2>1 DEF RetryInv, AgedWasStored
  <2>4. ~ Spoiled(d)'
    BY <2>1, <2>2, <2>3 DEF Spoiled
  <2> QED
    BY <1>1, <1>2, <1>m, <2>1, <2>2, <2>4
<1>10. ASSUME NEW g \in Calls, DialFails(g) PROVE Good
  <2>1. troubles = 0 /\ troubles' = 1
    BY <1>10, TroublesGrow DEF DialFails, Trouble
  <2>2. \A h \in Calls : tries[h] # 2 /\ pc[h] # "evictclose"
    BY <1>1, <2>1
  <2>3. /\ pc' = [pc EXCEPT ![g] = "nodial"]
        /\ UNCHANGED <<slot, conn, cli, tries>>
    BY <1>10 DEF DialFails
  <2> QED
    BY <1>1, <1>2, <2>2, <2>3
<1>11. ASSUME NEW g \in Calls, StoreOwn(g) PROVE Good
  BY <1>1, <1>2, <1>m, <1>11 DEF StoreOwn
<1>12. ASSUME NEW g \in Calls, UseOther(g) PROVE Good
  BY <1>1, <1>2, <1>m, <1>12 DEF UseOther
<1>13. ASSUME NEW g \in Calls, OpenSession(g) PROVE Good
  BY <1>1, <1>2, <1>m, <1>13 DEF OpenSession
<1>14. ASSUME NEW g \in Calls, SessionRefused(g) PROVE Good
  <2>1. conn[cli[g]] # "open"
    BY <1>1, <1>14, RoomForAll DEF SessionRefused, OneTrouble
  <2>2. tries[g] = 1
    BY <1>1, <1>r, <1>14, <2>1 DEF SessionRefused, Tried
  <2> QED
    BY <1>1, <1>2, <1>m, <1>14, <2>1, <2>2 DEF SessionRefused
<1>15. ASSUME NEW g \in Calls, EvictDelete(g) PROVE Good
  <2>1. cli[g] \in Clients /\ Spoiled(cli[g]) /\ pc[g] = "evict"
    BY <1>1, <1>r, <1>15 DEF EvictDelete
  <2>2. \A h \in Calls : pc[h] = "store" => ~ Spoiled(cli[h])
    BY <1>1, <2>1 DEF OneSpoiled
  <2> QED
    BY <1>1, <1>2, <1>m, <1>15, <2>1, <2>2 DEF EvictDelete, OneSpoiled
<1>16. ASSUME NEW g \in Calls, EvictClose(g) PROVE Good
  BY <1>1, <1>2, <1>m, <1>16 DEF EvictClose
<1>17. ASSUME NEW g \in Calls, ScriptEnds(g) PROVE Good
  <2>1. \E l \in {"ok", "cut"} : pc' = [pc EXCEPT ![g] = l]
    BY <1>17 DEF ScriptEnds
  <2>2. pc[g] = "running" /\ UNCHANGED <<slot, conn, aged, ent, cli, tries, troubles>>
    BY <1>17 DEF ScriptEnds
  <2> QED
    BY <1>1, <1>2, <1>m, <2>1, <2>2
<1>18. ASSUME CleanerStep PROVE Good
  <2>1. \A h \in Calls : h # Cleaner
    BY ConstantsAssumption
  <2>2. ASSUME CleanRange PROVE Good
    BY <1>1, <1>2, <1>m, <2>1, <2>2 DEF CleanRange
  <2>3. ASSUME CleanLock PROVE Good
    BY <1>1, <1>2, <1>m, <2>1, <2>3 DEF CleanLock, Lock
  <2>4. ASSUME CleanKeep PROVE Good
    BY <1>1, <1>2, <1>m, <2>1, <2>4 DEF CleanKeep
  <2>5. ASSUME CleanClose PROVE Good
    BY <1>1, <1>2, <1>m, <2>1, <2>5 DEF CleanClose
  <2>6. ASSUME CleanDelete PROVE Good
    BY <1>1, <1>2, <1>m, <1>n, <2>1, <2>6 DEF CleanDelete
  <2> HIDE DEF Good
  <2> QED
    BY <1>18, <2>2, <2>3, <2>4, <2>5, <2>6 DEF CleanerStep
<1>19. ASSUME NEW c \in Clients, Break(c) \/ Age(c) PROVE Good
  <2>1. troubles = 0 /\ troubles' = 1
    BY <1>19, TroublesGrow DEF Break, Age, Trouble
  <2>2. \A h \in Calls : tries[h] # 2 /\ pc[h] # "evictclose"
    BY <1>1, <2>1
  <2>3. pc' = pc /\ tries' = tries /\ cli' = cli
    BY <1>19 DEF Break, Age
  <2>4. \A d \in Clients : conn[d] # "open" => conn'[d] # "open"
    BY <1>19 DEF Break, Age
  <2>5. \A h \in Calls : pc[h] = "evict" => conn'[cli[h]] # "open"
    BY <1>1, <2>4
  <2> QED
    BY <1>2, <2>2, <2>3, <2>5
<1>20. ASSUME UNCHANGED vars PROVE Good
  <2>1. UNCHANGED <<slot, conn, aged, pc, ent, cli, tries, troubles>>
    BY <1>20 DEF vars
  <2> QED
    BY <1>1, <1>2, <1>m, <2>1
<1> HIDE DEF Good, IInv, InductiveInv, TypeOK, SecondTry, FreshIsPrivate, InHand
<1>21. Good
  BY <1>3, <1>4, <1>5, <1>6, <1>7, <1>8, <1>9, <1>10, <1>11, <1>12, <1>13, <1>14,
     <1>15, <1>16, <1>17, <1>18, <1>19, <1>20 DEF Next, CallStep
<1> QED
  BY <1>21 DEF Good, RetryCovers

(* One trouble, however many calls race, is hidden from every call that has*)
(* not started its script: the second try gets a connection.               *)
THEOREM PoolRetryCovers == Spec => []RetryCovers
<1>1. Init => RetryInv
  <2> SUFFICES ASSUME Init
               PROVE  RetryInv
    OBVIOUS
  <2>1. \A c \in Clients : ~ Spoiled(c)
    BY DEF Init, Spoiled
  <2>2. \A g \in Calls : pc[g] = "idle" /\ tries[g] = 0
    BY DEF Init, Threads
  <2>3. aged = {}
    BY DEF Init
  <2> QED
    BY <2>1, <2>2, <2>3 DEF RetryInv, AgedWasStored, Tried, OneSpoiled, SecondTry, RetryCovers
<1>2. IInv /\ RetryInv /\ [Next]_vars => RetryInv'
  BY AgedTriedStep, OneSpoiledStep, SecondTryStep DEF RetryInv
<1>3. RetryInv => RetryCovers
  BY DEF RetryInv, OneTrouble, RetryCovers
<1> QED
  BY <1>1, <1>2, <1>3, PoolInductive, PTL DEF Spec
=============================================================================
