------------------------------ MODULE SSHPool ------------------------------
(***************************************************************************)
(* The process-wide pool of SSH connections,                               *)
(* backend/internal/provisioner/pool.go, seen from one key user@host:port  *)
(* (no step of a call concerns two keys).  Every HTTP handler, queue       *)
(* worker and scheduler that runs a script on the server is a call of      *)
(* runSSHPooled; calls race with each other and with the cleaner.          *)
(*                                                                         *)
(* A poolEntry is made for one client and never gets another, so a client  *)
(* stands for its entry too: lock[c] is entry.mu, aged says that           *)
(* entry.lastUsed is further back than poolIdleTTL.                        *)
(***************************************************************************)
EXTENDS Naturals, FiniteSets

CONSTANTS
  Calls,         \* concurrent calls of runSSHPooled
  Cleaner,       \* the goroutine started by init()
  None,          \* no client
  MaxClients,    \* bound: connections dialled; two per call are enough
  MaxSessions,   \* sessions the SSH server allows on one connection
  MaxTroubles    \* bound: connections that break, dials that fail, entries
                 \* whose lastUsed falls behind poolIdleTTL

ASSUME ConstantsAssumption ==
  /\ Cleaner \notin Calls
  /\ IsFiniteSet(Calls)
  /\ MaxClients \in Nat /\ MaxSessions \in Nat
  /\ MaxTroubles \in Nat
  /\ None \notin 1..MaxClients /\ None \notin Calls \cup {Cleaner}

Clients == 1..MaxClients
Threads == Calls \cup {Cleaner}

VARIABLES
  slot,     \* the client whose entry sshPool has, None when it has none
  conn,     \* each client: "unused", "open", "broken" (peer), "closed" (us)
  lock,     \* who has each entry's mutex
  aged,     \* the entries not used within poolIdleTTL
  pc,       \* where each thread is
  ent,      \* the entry a thread has loaded from the pool
  cli,      \* the client a call has in hand
  tries,    \* getOrDial calls of a call so far
  troubles  \* troubles met, at most MaxTroubles

poolVars == <<slot, conn, lock, aged>>
callVars == <<ent, cli, tries>>
vars == <<poolVars, pc, callVars, troubles>>

Ended   == {"ok", "cut", "nodial", "nosession"}
CallPCs == {"idle", "load", "lock", "probe", "delete", "dial", "store", "session",
            "evict", "evictclose", "running"} \cup Ended
CleanerPCs == {"idle", "lock", "check", "delete"}

(* The sessions open on client c.                                          *)
Sessions(c) == {g \in Calls : pc[g] = "running" /\ cli[g] = c}

Goto(p, label) == pc' = [pc EXCEPT ![p] = label]

(* getOrDial returns: the deferred entry.mu.Unlock(), if it locked.        *)
Unlocked(p) == [c \in Clients |-> IF lock[c] = p THEN None ELSE lock[c]]

Trouble == troubles < MaxTroubles /\ troubles' = troubles + 1

Closed(c) == [conn EXCEPT ![c] = "closed"]

Init ==
  /\ slot = None
  /\ conn = [c \in Clients |-> "unused"]
  /\ lock = [c \in Clients |-> None]
  /\ aged = {}
  /\ pc = [p \in Threads |-> "idle"]
  /\ ent = [p \in Threads |-> None]
  /\ cli = [g \in Calls |-> None]
  /\ tries = [g \in Calls |-> 0]
  /\ troubles = 0

(***************************************************************************)
(* getOrDial                                                               *)
(***************************************************************************)

Start(g) ==
  /\ pc[g] = "idle"
  /\ tries' = [tries EXCEPT ![g] = 1]
  /\ Goto(g, "load")
  /\ UNCHANGED <<poolVars, ent, cli, troubles>>

(* sshPool.Load(key)                                                       *)
Load(g) ==
  /\ pc[g] = "load"
  /\ ent' = [ent EXCEPT ![g] = slot]
  /\ Goto(g, IF slot = None THEN "dial" ELSE "lock")
  /\ UNCHANGED <<poolVars, cli, tries, troubles>>

Lock(p, next) ==
  /\ pc[p] = "lock"
  /\ lock[ent[p]] = None
  /\ lock' = [lock EXCEPT ![ent[p]] = p]
  /\ Goto(p, next)
  /\ UNCHANGED <<slot, conn, aged, callVars, troubles>>

LockEntry(g) == Lock(g, "probe")

(* The keepalive is answered: lastUsed is set and the client returned.     *)
ProbeAlive(g) ==
  /\ pc[g] = "probe"
  /\ conn[ent[g]] = "open"
  /\ aged' = aged \ {ent[g]}
  /\ cli' = [cli EXCEPT ![g] = ent[g]]
  /\ lock' = Unlocked(g)
  /\ Goto(g, "session")
  /\ UNCHANGED <<slot, conn, ent, tries, troubles>>

(* It is not: Close, then Delete below, then dial with the lock still held. *)
ProbeDead(g) ==
  /\ pc[g] = "probe"
  /\ conn[ent[g]] # "open"
  /\ conn' = Closed(ent[g])
  /\ Goto(g, "delete")
  /\ UNCHANGED <<slot, lock, aged, callVars, troubles>>

(* sshPool.Delete(key), whatever entry the key has by now.                 *)
DeleteDead(g) ==
  /\ pc[g] = "delete"
  /\ slot' = None
  /\ Goto(g, "dial")
  /\ UNCHANGED <<conn, lock, aged, callVars, troubles>>

(* A new connection; every ssh.Client is a fresh object.                   *)
Dial(g) ==
  /\ pc[g] = "dial"
  /\ \E c \in Clients :
       /\ conn[c] = "unused" /\ \A d \in 1..(c-1) : conn[d] # "unused"
       /\ conn' = [conn EXCEPT ![c] = "open"]
       /\ cli' = [cli EXCEPT ![g] = c]
  /\ Goto(g, "store")
  /\ UNCHANGED <<slot, lock, aged, ent, tries, troubles>>

(* Mutant of DialFails: the lock is not released on this return.           *)
DialFailsLocked(g) ==
  /\ pc[g] = "dial"
  /\ Trouble
  /\ Goto(g, "nodial")
  /\ UNCHANGED <<poolVars, callVars>>

(* buildSSHConfig or ssh.Dial returns an error.                            *)
DialFails(g) ==
  /\ pc[g] = "dial"
  /\ Trouble
  /\ lock' = Unlocked(g)
  /\ Goto(g, "nodial")
  /\ UNCHANGED <<slot, conn, aged, callVars>>

(* LoadOrStore finds no entry: ours is the pool's.                         *)
StoreOwn(g) ==
  /\ pc[g] = "store"
  /\ slot = None
  /\ slot' = cli[g]
  /\ lock' = Unlocked(g)
  /\ Goto(g, "session")
  /\ UNCHANGED <<conn, aged, callVars, troubles>>

(* Mutant of UseOther: the connection just dialled is not closed.          *)
UseOtherKeepsOwn(g) ==
  /\ pc[g] = "store"
  /\ slot # None
  /\ cli' = [cli EXCEPT ![g] = slot]
  /\ lock' = Unlocked(g)
  /\ Goto(g, "session")
  /\ UNCHANGED <<slot, conn, aged, ent, tries, troubles>>

(* LoadOrStore finds another's: close ours and take that, without a probe. *)
UseOther(g) ==
  /\ pc[g] = "store"
  /\ slot # None
  /\ conn' = Closed(cli[g])
  /\ cli' = [cli EXCEPT ![g] = slot]
  /\ lock' = Unlocked(g)
  /\ Goto(g, "session")
  /\ UNCHANGED <<slot, aged, ent, tries, troubles>>

(***************************************************************************)
(* runSSHPooled                                                            *)
(***************************************************************************)

(* NewSession succeeds; the script starts.                                 *)
OpenSession(g) ==
  /\ pc[g] = "session"
  /\ conn[cli[g]] = "open"
  /\ Cardinality(Sessions(cli[g])) < MaxSessions
  /\ Goto(g, "running")
  /\ UNCHANGED <<poolVars, callVars, troubles>>

(* Mutant of SessionRefused: no second try.                                *)
SessionRefusedAtOnce(g) ==
  /\ pc[g] = "session"
  /\ conn[cli[g]] # "open" \/ Cardinality(Sessions(cli[g])) >= MaxSessions
  /\ Goto(g, "nosession")
  /\ UNCHANGED <<poolVars, callVars, troubles>>

(* NewSession fails: the connection is gone, or the server allows no more  *)
(* sessions on it (sshd: MaxSessions).  The first time, evict and retry.   *)
SessionRefused(g) ==
  /\ pc[g] = "session"
  /\ conn[cli[g]] # "open" \/ Cardinality(Sessions(cli[g])) >= MaxSessions
  /\ Goto(g, IF tries[g] = 1 THEN "evict" ELSE "nosession")
  /\ UNCHANGED <<poolVars, callVars, troubles>>

(* sshPool.Delete(key), whatever entry the key has ...                     *)
EvictDelete(g) ==
  /\ pc[g] = "evict"
  /\ slot' = None
  /\ Goto(g, "evictclose")
  /\ UNCHANGED <<conn, lock, aged, callVars, troubles>>

(* ... and client.Close(), whoever else uses it; then getOrDial again.     *)
EvictClose(g) ==
  /\ pc[g] = "evictclose"
  /\ conn' = Closed(cli[g])
  /\ tries' = [tries EXCEPT ![g] = @ + 1]
  /\ Goto(g, "load")
  /\ UNCHANGED <<slot, lock, aged, ent, cli, troubles>>

(* session.Run returns, with an error when the connection went away.       *)
ScriptEnds(g) ==
  /\ pc[g] = "running"
  /\ Goto(g, IF conn[cli[g]] = "open" THEN "ok" ELSE "cut")
  /\ UNCHANGED <<poolVars, callVars, troubles>>

(***************************************************************************)
(* cleanPool, every poolCleanPeriod                                        *)
(***************************************************************************)
CleanRange ==
  /\ pc[Cleaner] = "idle"
  /\ slot # None
  /\ ent' = [ent EXCEPT ![Cleaner] = slot]
  /\ Goto(Cleaner, "lock")
  /\ UNCHANGED <<poolVars, cli, tries, troubles>>

CleanLock == Lock(Cleaner, "check")

CleanKeep ==
  /\ pc[Cleaner] = "check"
  /\ ent[Cleaner] \notin aged
  /\ lock' = Unlocked(Cleaner)
  /\ Goto(Cleaner, "idle")
  /\ UNCHANGED <<slot, conn, aged, callVars, troubles>>

CleanClose ==
  /\ pc[Cleaner] = "check"
  /\ ent[Cleaner] \in aged
  /\ conn' = Closed(ent[Cleaner])
  /\ Goto(Cleaner, "delete")
  /\ UNCHANGED <<slot, lock, aged, callVars, troubles>>

(* Mutant of CleanDelete: the entry is closed and left in the map.         *)
CleanForgetsDelete ==
  /\ pc[Cleaner] = "delete"
  /\ lock' = Unlocked(Cleaner)
  /\ Goto(Cleaner, "idle")
  /\ UNCHANGED <<slot, conn, aged, callVars, troubles>>

CleanDelete ==
  /\ pc[Cleaner] = "delete"
  /\ slot' = None
  /\ lock' = Unlocked(Cleaner)
  /\ Goto(Cleaner, "idle")
  /\ UNCHANGED <<conn, aged, callVars, troubles>>

(***************************************************************************)
(* The environment                                                         *)
(***************************************************************************)
Break(c) ==
  /\ conn[c] = "open"
  /\ Trouble
  /\ conn' = [conn EXCEPT ![c] = "broken"]
  /\ UNCHANGED <<slot, lock, aged, pc, callVars>>

(* More than poolIdleTTL since the entry was made or probed.  A script may *)
(* be running on the client all that time.                                 *)
Age(c) ==
  /\ slot = c
  /\ c \notin aged
  /\ Trouble
  /\ aged' = aged \cup {c}
  /\ UNCHANGED <<slot, conn, lock, pc, callVars>>

CallStep(g) ==
  \/ Load(g) \/ LockEntry(g) \/ ProbeAlive(g) \/ ProbeDead(g) \/ DeleteDead(g)
  \/ Dial(g) \/ StoreOwn(g) \/ UseOther(g)
  \/ OpenSession(g) \/ SessionRefused(g) \/ EvictDelete(g) \/ EvictClose(g)
  \/ ScriptEnds(g)

CleanerStep == CleanRange \/ CleanLock \/ CleanKeep \/ CleanClose \/ CleanDelete

Next ==
  \/ \E g \in Calls : Start(g) \/ CallStep(g) \/ DialFails(g)
  \/ CleanerStep
  \/ \E c \in Clients : Break(c) \/ Age(c)

Spec == Init /\ [][Next]_vars

(* Goroutines run, dials and keepalives return and scripts end.  Only the  *)
(* wait for a mutex can be unfair in the short term; sync.Mutex hands a    *)
(* starving waiter the lock after 1 ms, hence SF on LockEntry.             *)
FairSpec ==
  /\ Spec
  /\ \A g \in Calls : WF_vars(CallStep(g)) /\ SF_vars(LockEntry(g))
  /\ WF_vars(CleanLock \/ CleanKeep \/ CleanClose \/ CleanDelete)

(***************************************************************************)
(* Properties                                                              *)
(***************************************************************************)
TypeOK ==
  /\ slot \in Clients \cup {None}
  /\ conn \in [Clients -> {"unused", "open", "broken", "closed"}]
  /\ lock \in [Clients -> Threads \cup {None}]
  /\ aged \subseteq Clients
  /\ pc \in [Threads -> CallPCs \cup CleanerPCs]
  /\ \A g \in Calls : pc[g] \in CallPCs
  /\ pc[Cleaner] \in CleanerPCs
  /\ ent \in [Threads -> Clients \cup {None}]
  /\ cli \in [Calls -> Clients \cup {None}]
  /\ tries \in [Calls -> 0..2]
  /\ troubles \in 0..MaxTroubles

(* A connection this process has closed stays in the pool only until the   *)
(* thread that closed it, still holding the entry's mutex, deletes the     *)
(* key: no later call can be handed a corpse for good.                     *)
ClosedLeavesPool ==
  slot # None /\ conn[slot] = "closed" =>
    /\ lock[slot] # None
    /\ pc[lock[slot]] = "delete"
    /\ ent[lock[slot]] = slot

(* A client that nobody has dialled, or that its call is about to store,   *)
(* is known to nobody else.                                                *)
FreshIsPrivate ==
  /\ \A c \in Clients : conn[c] = "unused" =>
       slot # c /\ (\A p \in Threads : ent[p] # c) /\ \A g \in Calls : cli[g] # c
  /\ \A g \in Calls : pc[g] = "store" =>
       /\ cli[g] \in Clients /\ conn[cli[g]] \in {"open", "broken"}
       /\ slot # cli[g] /\ \A p \in Threads : ent[p] # cli[g]
       /\ \A h \in Calls : h # g => cli[h] # cli[g]

(* Who holds an entry's mutex, and where.                                  *)
LocksHeld ==
  /\ \A p \in Threads : pc[p] = "lock" => ent[p] \in Clients
  /\ \A p \in Threads : pc[p] \in {"probe", "check", "delete"} =>
       ent[p] \in Clients /\ lock[ent[p]] = p
  /\ \A c \in Clients : lock[c] # None =>
       pc[lock[c]] \in {"probe", "check", "delete", "dial", "store"}

(* A client in hand is one; what EvictClose closes has left the pool.      *)
InHand ==
  \A g \in Calls :
    /\ pc[g] \in {"session", "evict", "evictclose", "running"} => cli[g] \in Clients
    /\ pc[g] = "evictclose" => slot # cli[g]
    /\ pc[g] \in {"evict", "evictclose"} => tries[g] = 1

(* What every step preserves.                                              *)
InductiveInv == FreshIsPrivate /\ LocksHeld /\ InHand /\ ClosedLeavesPool

(* No connection has broken or aged, no dial failed, no session refused.   *)
Quiet ==
  troubles = 0 /\ \A g \in Calls : tries[g] <= 1 /\ pc[g] \notin {"evict", "evictclose"}

(* "If two goroutines race to create for the same key, keep only one"      *)
(* (pool.go:82): as long as nothing goes wrong, every open connection is   *)
(* the pool's or is being stored.                                          *)
KeepOnlyOne ==
  Quiet => \A c \in Clients :
    conn[c] = "open" => slot = c \/ \E g \in Calls : pc[g] = "store" /\ cli[g] = c

(* Why: nothing is closed or deleted but what a racing dial has lost, and  *)
(* an entry in hand is the pool's.  A call that never started has not      *)
(* tried yet.                                                              *)
QuietPool ==
  /\ \A g \in Calls : pc[g] = "idle" => tries[g] = 0
  /\ Quiet =>
       /\ aged = {}
       /\ \A c \in Clients : conn[c] # "broken"
       /\ slot # None => conn[slot] = "open"
       /\ \A p \in Threads : pc[p] # "delete"
       /\ \A p \in Threads : pc[p] \in {"lock", "probe", "check"} => ent[p] = slot

(* One broken connection, failed dial or idle eviction is hidden from the  *)
(* callers that have not started their script, if the server has sessions  *)
(* for all: the retry finds one, whatever the other calls evict meanwhile. *)
RetryCovers ==
  troubles <= 1 /\ Cardinality(Calls) <= MaxSessions =>
    \A g \in Calls : pc[g] # "nosession"

(* No call waits for ever for a mutex or a connection, nor does the        *)
(* cleaner, whatever fails while an entry is locked.                       *)
EveryCallEnds ==
  /\ \A g \in Calls : pc[g] = "load" ~> pc[g] \in Ended
  /\ pc[Cleaner] # "idle" ~> pc[Cleaner] = "idle"

=============================================================================
