------------------------------ MODULE HubProofs ------------------------------
(***************************************************************************)
(* Theorems about Hub for every number of clients and broadcasters and     *)
(* every capacity of the channels.                                         *)
(***************************************************************************)
EXTENDS Hub, TLAPS

(* The typed invariant the proof carries.                                  *)
IInv == TypeOK /\ InductiveInv

(* The hub starts without members and with every channel open.             *)
LEMMA InitIInv == Init => IInv
  BY ConstantsAssumption
  DEF Init, IInv, TypeOK, InductiveInv, MembersOpen, NeverPanics, NoGhostMember

(* Every step keeps the types and the channels within their capacity.      *)
LEMMA TypeStep ==
  ASSUME IInv, [Next]_vars
  PROVE  TypeOK'
<1> USE ConstantsAssumption DEF IInv, TypeOK, hubVars, pumpVars, netVars, callVars
<1>1. ASSUME NEW c \in Clients, Register(c) PROVE TypeOK'
  BY <1>1 DEF Register, Idle
<1>2. ASSUME NEW c \in Clients, Unregister(c) PROVE TypeOK'
  BY <1>2 DEF Unregister, CloseSend, Idle
<1>3. CASE TakeBroadcast
  BY <1>3 DEF TakeBroadcast, Idle
<1>4. ASSUME NEW c \in Clients, SendTo(c) PROVE TypeOK'
  <2>1. CASE chan[c] = "open"
    <3>1. buf[c] \in Seq(Nat) /\ Append(buf[c], msg) \in Seq(Nat)
      OBVIOUS
    <3>2. Len(Append(buf[c], msg)) = Len(buf[c]) + 1 /\ Len(buf[c]) \in Nat
      BY <3>1
    <3>3. buf' = [buf EXCEPT ![c] = Append(@, msg)]
      BY <1>4, <2>1 DEF SendTo
    <3>4. /\ buf' \in [Clients -> Seq(Nat)]
          /\ \A d \in Clients : Len(buf'[d]) <= SendCap
      BY <1>4, <3>1, <3>2, <3>3 DEF SendTo
    <3> QED BY <1>4, <2>1, <3>4 DEF SendTo
  <2>2. CASE chan[c] # "open"
    BY <1>4, <2>2 DEF SendTo
  <2> QED BY <2>1, <2>2
<1>5. ASSUME NEW c \in Clients, DropSlow(c) PROVE TypeOK'
  BY <1>5 DEF DropSlow, CloseSend
<1>6. CASE EndBroadcast
  BY <1>6 DEF EndBroadcast
<1>7. ASSUME NEW b \in Broadcasters, CallBroadcast(b) PROVE TypeOK'
  BY <1>7 DEF CallBroadcast
<1>8. ASSUME NEW b \in Broadcasters, Enqueue(b) PROVE TypeOK'
  BY <1>8 DEF Enqueue
<1>9. ASSUME NEW c \in Clients, Upgrade(c) PROVE TypeOK'
  BY <1>9 DEF Upgrade
<1>10. ASSUME NEW c \in Clients, StartPumps(c) PROVE TypeOK'
  BY <1>10 DEF StartPumps
<1>11. ASSUME NEW c \in Clients, WriterTakes(c) PROVE TypeOK'
  BY <1>11 DEF WriterTakes
<1>12. ASSUME NEW c \in Clients, WriterWrites(c) PROVE TypeOK'
  BY <1>12 DEF WriterWrites
<1>13. ASSUME NEW c \in Clients, WriterEnds(c) PROVE TypeOK'
  BY <1>13 DEF WriterEnds
<1>14. ASSUME NEW c \in Clients, ReaderFails(c) PROVE TypeOK'
  BY <1>14 DEF ReaderFails
<1>15. ASSUME NEW c \in Clients, ReaderEnds(c) PROVE TypeOK'
  BY <1>15 DEF ReaderEnds
<1>16. ASSUME NEW c \in Clients, PeerStalls(c) PROVE TypeOK'
  BY <1>16 DEF PeerStalls, PeerMoves
<1>17. ASSUME NEW c \in Clients, PeerGoes(c) PROVE TypeOK'
  BY <1>17 DEF PeerGoes, PeerMoves
<1>18. CASE UNCHANGED vars
  BY <1>18 DEF vars
<1> QED BY <1>1, <1>2, <1>3, <1>4, <1>5, <1>6, <1>7, <1>8, <1>9, <1>10, <1>11,
       <1>12, <1>13, <1>14, <1>15, <1>16, <1>17, <1>18
  DEF Next, HubStep, WriterStep, ReaderStep

(* Every step leaves all members, and the rest of a running broadcast,     *)
(* with open channels: whoever closes a channel removes its client too.    *)
LEMMA OpenStep ==
  ASSUME IInv, [Next]_vars
  PROVE  MembersOpen'
<1> USE DEF IInv, TypeOK, InductiveInv, MembersOpen, NoGhostMember, hubVars, pumpVars,
            netVars, callVars
<1>1. ASSUME NEW c \in Clients, Register(c) PROVE MembersOpen'
  BY <1>1 DEF Register, Idle
<1>2. ASSUME NEW c \in Clients, Unregister(c) PROVE MembersOpen'
  <2>1. UNCHANGED <<todo, handler>> /\ reader' = [reader EXCEPT ![c] = "close"]
    BY <1>2 DEF Unregister
  <2>2. CASE c \in members
    BY <1>2, <2>1, <2>2 DEF Unregister, CloseSend, Idle
  <2>3. CASE c \notin members
    BY <1>2, <2>1, <2>3 DEF Unregister
  <2> QED BY <2>2, <2>3
<1>3. CASE TakeBroadcast
  <2>1. Head(queue) \in Nat \ {0}
    BY <1>3 DEF TakeBroadcast
  <2> QED BY <1>3, <2>1 DEF TakeBroadcast, Idle
<1>4. ASSUME NEW c \in Clients, SendTo(c) PROVE MembersOpen'
  BY <1>4 DEF SendTo
<1>5. ASSUME NEW c \in Clients, DropSlow(c) PROVE MembersOpen'
  BY <1>5 DEF DropSlow, CloseSend
<1>6. CASE EndBroadcast
  BY <1>6 DEF EndBroadcast
<1>7. ASSUME NEW b \in Broadcasters, CallBroadcast(b) PROVE MembersOpen'
  BY <1>7 DEF CallBroadcast
<1>8. ASSUME NEW b \in Broadcasters, Enqueue(b) PROVE MembersOpen'
  BY <1>8 DEF Enqueue
<1>9. ASSUME NEW c \in Clients, Upgrade(c) PROVE MembersOpen'
  BY <1>9 DEF Upgrade
<1>10. ASSUME NEW c \in Clients, StartPumps(c) PROVE MembersOpen'
  BY <1>10 DEF StartPumps
<1>11. ASSUME NEW c \in Clients, WriterTakes(c) PROVE MembersOpen'
  BY <1>11 DEF WriterTakes
<1>12. ASSUME NEW c \in Clients, WriterWrites(c) PROVE MembersOpen'
  BY <1>12 DEF WriterWrites
<1>13. ASSUME NEW c \in Clients, WriterEnds(c) PROVE MembersOpen'
  BY <1>13 DEF WriterEnds
<1>14. ASSUME NEW c \in Clients, ReaderFails(c) PROVE MembersOpen'
  BY <1>14 DEF ReaderFails
<1>15. ASSUME NEW c \in Clients, ReaderEnds(c) PROVE MembersOpen'
  BY <1>15 DEF ReaderEnds
<1>16. ASSUME NEW c \in Clients, PeerStalls(c) PROVE MembersOpen'
  BY <1>16 DEF PeerStalls, PeerMoves
<1>17. ASSUME NEW c \in Clients, PeerGoes(c) PROVE MembersOpen'
  BY <1>17 DEF PeerGoes, PeerMoves
<1>18. CASE UNCHANGED vars
  BY <1>18 DEF vars
<1> QED BY <1>1, <1>2, <1>3, <1>4, <1>5, <1>6, <1>7, <1>8, <1>9, <1>10, <1>11,
       <1>12, <1>13, <1>14, <1>15, <1>16, <1>17, <1>18
  DEF Next, HubStep, WriterStep, ReaderStep

(* Every channel that is closed or sent to is a member's, hence open; and  *)
(* a readPump goes past unregister only when its client has been removed.  *)
LEMMA SafeStep ==
  ASSUME IInv, [Next]_vars
  PROVE  NeverPanics' /\ NoGhostMember'
<1> USE DEF IInv, TypeOK, InductiveInv, MembersOpen, NeverPanics, NoGhostMember, hubVars,
            pumpVars, netVars, callVars
<1>1. ASSUME NEW c \in Clients, Register(c) PROVE NeverPanics' /\ NoGhostMember'
  BY <1>1 DEF Register, Idle
<1>2. ASSUME NEW c \in Clients, Unregister(c) PROVE NeverPanics' /\ NoGhostMember'
  BY <1>2 DEF Unregister, CloseSend, Idle
<1>3. CASE TakeBroadcast
  BY <1>3 DEF TakeBroadcast, Idle
<1>4. ASSUME NEW c \in Clients, SendTo(c) PROVE NeverPanics' /\ NoGhostMember'
  BY <1>4 DEF SendTo
<1>5. ASSUME NEW c \in Clients, DropSlow(c) PROVE NeverPanics' /\ NoGhostMember'
  BY <1>5 DEF DropSlow, CloseSend
<1>6. CASE EndBroadcast
  BY <1>6 DEF EndBroadcast
<1>7. ASSUME NEW b \in Broadcasters, CallBroadcast(b) PROVE NeverPanics' /\ NoGhostMember'
  BY <1>7 DEF CallBroadcast
<1>8. ASSUME NEW b \in Broadcasters, Enqueue(b) PROVE NeverPanics' /\ NoGhostMember'
  BY <1>8 DEF Enqueue
<1>9. ASSUME NEW c \in Clients, Upgrade(c) PROVE NeverPanics' /\ NoGhostMember'
  BY <1>9 DEF Upgrade
<1>10. ASSUME NEW c \in Clients, StartPumps(c) PROVE NeverPanics' /\ NoGhostMember'
  BY <1>10 DEF StartPumps
<1>11. ASSUME NEW c \in Clients, WriterTakes(c) PROVE NeverPanics' /\ NoGhostMember'
  BY <1>11 DEF WriterTakes
<1>12. ASSUME NEW c \in Clients, WriterWrites(c) PROVE NeverPanics' /\ NoGhostMember'
  BY <1>12 DEF WriterWrites
<1>13. ASSUME NEW c \in Clients, WriterEnds(c) PROVE NeverPanics' /\ NoGhostMember'
  BY <1>13 DEF WriterEnds
<1>14. ASSUME NEW c \in Clients, ReaderFails(c) PROVE NeverPanics' /\ NoGhostMember'
  BY <1>14 DEF ReaderFails
<1>15. ASSUME NEW c \in Clients, ReaderEnds(c) PROVE NeverPanics' /\ NoGhostMember'
  BY <1>15 DEF ReaderEnds
<1>16. ASSUME NEW c \in Clients, PeerStalls(c) PROVE NeverPanics' /\ NoGhostMember'
  BY <1>16 DEF PeerStalls, PeerMoves
<1>17. ASSUME NEW c \in Clients, PeerGoes(c) PROVE NeverPanics' /\ NoGhostMember'
  BY <1>17 DEF PeerGoes, PeerMoves
<1>18. CASE UNCHANGED vars
  BY <1>18 DEF vars
<1> QED BY <1>1, <1>2, <1>3, <1>4, <1>5, <1>6, <1>7, <1>8, <1>9, <1>10, <1>11,
       <1>12, <1>13, <1>14, <1>15, <1>16, <1>17, <1>18
  DEF Next, HubStep, WriterStep, ReaderStep

(* The invariant holds in every reachable state.                           *)
THEOREM HubInductive == Spec => []IInv
<1>1. IInv /\ [Next]_vars => IInv'
  BY TypeStep, OpenStep, SafeStep DEF IInv, InductiveInv
<1> QED BY InitIInv, <1>1, PTL DEF Spec

(* Types, and no channel beyond its capacity.                              *)
THEOREM HubTypeCorrect == Spec => []TypeOK
<1>1. IInv => TypeOK
  BY DEF IInv
<1> QED BY HubInductive, <1>1, PTL

(* hub.go:71 and hub.go:82 close a channel at most once between them, and  *)
(* hub.go:80 never sends on a closed one.                                  *)
THEOREM HubNeverPanics == Spec => []NeverPanics
<1>1. IInv => NeverPanics
  BY DEF IInv, InductiveInv
<1> QED BY HubInductive, <1>1, PTL

(* No connection whose readPump is closing it is still a member.           *)
THEOREM HubNoGhost == Spec => []NoGhostMember
<1>1. IInv => NoGhostMember
  BY DEF IInv, InductiveInv
<1> QED BY HubInductive, <1>1, PTL

(***************************************************************************)
(* No gap.  Each client's numbers end at one t: a broadcast moves it by    *)
(* one, the writePump shifts the numbers and leaves it.                    *)
(***************************************************************************)
(* Who does not touch a client's channel and pump leaves its numbers.      *)
LEMMA EndStays ==
  ASSUME NEW c, NEW t, buf'[c] = buf[c], out'[c] = out[c], last'[c] = last[c], EndsAt(c, t)
  PROVE  EndsAt(c, t)'
BY DEF EndsAt

(* A run with the next number appended is one.                             *)
LEMMA AppendRuns ==
  ASSUME NEW s \in Seq(Nat), NEW t \in Nat, Runs(s, t)
  PROVE  /\ Runs(Append(s, t + 1), t + 1)
         /\ (t + 1) - Len(Append(s, t + 1)) = t - Len(s)
<1> DEFINE r == Append(s, t + 1)
<1>1. /\ Len(r) = Len(s) + 1 /\ Len(s) \in Nat
      /\ \A i \in 1..Len(s) : r[i] = s[i]
      /\ r[Len(s) + 1] = t + 1
  OBVIOUS
<1>2. \A i \in 1..Len(s) : s[i] = t - Len(s) + i
  BY DEF Runs
<1>3. Len(s) <= t
  BY DEF Runs
<1> HIDE DEF r
<1>4. ASSUME NEW i \in 1..Len(r)
      PROVE  r[i] = (t + 1) - Len(r) + i
  <2>1. CASE i = Len(s) + 1
    BY <1>1, <2>1
  <2>2. CASE i \in 1..Len(s)
    BY <1>1, <1>2, <2>2
  <2> QED
    BY <1>1, <2>1, <2>2
<1>5. Len(r) <= t + 1 /\ (t + 1) - Len(r) = t - Len(s)
  BY <1>1, <1>3
<1> QED
  BY <1>4, <1>5 DEF Runs, r

(* So is what is left when the first is taken, which is the one before it.*)
LEMMA TailRuns ==
  ASSUME NEW s \in Seq(Nat), s # << >>, NEW t \in Nat, Runs(s, t)
  PROVE  /\ Runs(Tail(s), t)
         /\ Head(s) = t - Len(Tail(s)) /\ Head(s) # 0
         /\ t - Len(Tail(s)) - 1 = t - Len(s)
<1> DEFINE r == Tail(s)
<1>1. /\ Len(s) \in Nat \ {0} /\ Len(r) = Len(s) - 1
      /\ \A i \in 1..Len(r) : r[i] = s[i + 1]
      /\ Head(s) = s[1]
  OBVIOUS
<1>2. \A i \in 1..Len(s) : s[i] = t - Len(s) + i
  BY DEF Runs
<1>3. Len(s) <= t
  BY DEF Runs
<1> HIDE DEF r
<1>4. ASSUME NEW i \in 1..Len(r)
      PROVE  r[i] = t - Len(r) + i
  <2>1. i + 1 \in 1..Len(s) /\ i \in Nat
    BY <1>1
  <2>2. s[i + 1] = t - Len(s) + (i + 1)
    BY <1>2, <2>1
  <2> QED
    BY <1>1, <2>1, <2>2
<1>5. Len(r) <= t /\ s[1] = t - Len(s) + 1
  BY <1>1, <1>2, <1>3
<1> QED
  BY <1>1, <1>3, <1>4, <1>5 DEF Runs, r

(* A broadcast that reaches the client appends the next number.            *)
LEMMA EndMoves ==
  ASSUME TypeOK, NEW c \in Clients, NEW t \in Nat, EndsAt(c, t),
         buf' = [buf EXCEPT ![c] = Append(@, t + 1)], UNCHANGED <<out, last>>
  PROVE  EndsAt(c, t + 1)'
<1>1. buf[c] \in Seq(Nat) /\ buf'[c] = Append(buf[c], t + 1)
  BY DEF TypeOK
<1>2. Runs(buf'[c], t + 1) /\ (t + 1) - Len(buf'[c]) = t - Len(buf[c])
  BY <1>1, AppendRuns DEF EndsAt
<1> QED
  BY <1>2 DEF EndsAt

(* The writePump takes a message: the first in the channel is now in hand. *)
LEMMA EndOfTaken ==
  ASSUME TypeOK, NEW c \in Clients, NEW t \in Nat, EndsAt(c, t), WriterTakes(c), out[c] = 0
  PROVE  EndsAt(c, t)'
<1>1. /\ buf[c] \in Seq(Nat) /\ buf[c] # << >>
      /\ buf'[c] = Tail(buf[c]) /\ out'[c] = Head(buf[c]) /\ last'[c] = last[c]
      /\ last[c] \in Nat
  BY DEF WriterTakes, TypeOK
<1>2. /\ Runs(buf'[c], t) /\ out'[c] = t - Len(buf'[c]) /\ out'[c] # 0
      /\ t - Len(buf'[c]) - 1 = t - Len(buf[c])
  BY <1>1, TailRuns DEF EndsAt
<1>3. last[c] # 0 => last[c] = t - Len(buf[c])
  BY <1>1 DEF EndsAt
<1> QED
  BY <1>1, <1>2, <1>3 DEF EndsAt

(* The message in hand was written: it is the last one now.                *)
LEMMA EndOfWritten ==
  ASSUME TypeOK, NEW c \in Clients, NEW t \in Nat, EndsAt(c, t), WriterWrites(c)
  PROVE  EndsAt(c, t)'
<1>1. buf'[c] = buf[c] /\ out'[c] = 0 /\ last'[c] = out[c] /\ Len(buf[c]) \in Nat
  BY DEF WriterWrites, TypeOK
<1> QED
  BY <1>1 DEF EndsAt

(* A client that is not c keeps its numbers when the pump of c moves.      *)
LEMMA OthersKeepEnd ==
  ASSUME TypeOK, NEW c \in Clients, NEW d \in Clients, c # d, NEW t, EndsAt(d, t),
         SendTo(c) \/ WriterTakes(c) \/ WriterWrites(c)
  PROVE  EndsAt(d, t)'
<1>1. buf'[d] = buf[d] /\ out'[d] = out[d] /\ last'[d] = last[d]
  BY DEF SendTo, WriterTakes, WriterWrites, TypeOK, pumpVars
<1> QED
  BY <1>1, EndStays

(* The numbers a client is owed, while it is a member.                     *)
Owed(c) == IF c \in todo THEN Taken - 1 ELSE Taken

(* What is owed is the number of a message.                                *)
LEMMA OwedIsSent ==
  ASSUME IInv, NumbersRun
  PROVE  /\ Taken \in 0..sent /\ (msg # 0 => Taken # 0)
         /\ \A c \in members : Owed(c) \in 0..sent
<1>1. Len(queue) \in Nat /\ sent \in Nat /\ Len(queue) <= sent
  BY DEF IInv, TypeOK, NumbersRun, Runs
<1>2. Taken \in 0..sent /\ (msg # 0 => Taken # 0)
  BY <1>1 DEF NumbersRun, Taken
<1>3. ASSUME NEW c \in todo
      PROVE  Taken # 0
  BY <1>2, <1>3 DEF IInv, InductiveInv, MembersOpen
<1> QED
  BY <1>1, <1>2, <1>3 DEF Owed

(* The four parts of NumbersRun.                                           *)
QueueRuns ==
  /\ Runs(queue, sent)
  /\ msg # 0 => msg = Taken

ClientsRun == \A c \in Clients : \E t \in 0..sent : EndsAt(c, t)

MembersRun == \A c \in members : EndsAt(c, Owed(c))

PumpsFresh ==
  \A c \in Clients :
    /\ writer[c] \in {"none", "waiting"} => out[c] = 0
    /\ handler[c] # "done" => writer[c] = "none"
    /\ handler[c] \in {"none", "registering"} => buf[c] = << >> /\ last[c] = 0

(* NumbersRun is their conjunction.                                        *)
LEMMA NumbersRunParts == NumbersRun <=> QueueRuns /\ ClientsRun /\ MembersRun /\ PumpsFresh
BY DEF NumbersRun, QueueRuns, ClientsRun, MembersRun, PumpsFresh, Owed
(* Steps that touch neither channels nor numbers of messages.              *)
LEMMA NumbersUntouched ==
  ASSUME IInv, NumbersRun,
         UNCHANGED <<buf, out, last, queue, sent>>, msg' \in {msg, 0},
         members' \subseteq Clients,
         \A c \in members' : c \in members /\ (c \in todo' <=> c \in todo)
  PROVE  QueueRuns' /\ ClientsRun' /\ MembersRun'
<1>1. Taken' = Taken
  BY DEF Taken
<1>2. QueueRuns' /\ ClientsRun'
  BY <1>1, NumbersRunParts, EndStays DEF QueueRuns, ClientsRun, Runs
<1>3. ASSUME NEW c \in members'
      PROVE  EndsAt(c, Owed(c))'
  <2>1. EndsAt(c, Owed(c)) /\ Owed(c)' = Owed(c)
    BY <1>1, <1>3, NumbersRunParts DEF MembersRun, Owed
  <2> QED
    BY <2>1 DEF EndsAt
<1> QED
  BY <1>2, <1>3 DEF MembersRun

(* The hub's own steps.                                                    *)
LEMMA HubStepRuns ==
  ASSUME IInv, NumbersRun, HubStep
  PROVE  NumbersRun'
<1> USE DEF IInv, TypeOK, InductiveInv, MembersOpen
<1>0. QueueRuns /\ ClientsRun /\ MembersRun /\ PumpsFresh
  BY NumbersRunParts
<1>1. ASSUME NEW c \in Clients, Register(c)
      PROVE  NumbersRun'
  <2>1. UNCHANGED <<buf, out, last, queue, sent, msg, todo, writer>> /\ todo = {}
    BY <1>1 DEF Register, Idle, pumpVars, callVars
  <2>2. Taken' = Taken /\ Taken \in 0..sent
    BY <2>1, OwedIsSent DEF Taken
  <2>3. QueueRuns' /\ ClientsRun'
    BY <1>0, <2>1, <2>2, EndStays DEF QueueRuns, ClientsRun, Runs
  <2>4. ASSUME NEW d \in members'
        PROVE  EndsAt(d, Owed(d))'
    <3>1. Owed(d)' = Taken /\ (d \in members => Owed(d) = Taken)
      BY <2>1, <2>2 DEF Owed
    <3>2. CASE d \in members
      <4>1. EndsAt(d, Taken)
        BY <1>0, <3>1, <3>2 DEF MembersRun
      <4> QED
        BY <2>1, <3>1, <4>1 DEF EndsAt
    <3>3. CASE d = c
      <4>1. buf[c] = << >> /\ last[c] = 0 /\ out[c] = 0
        BY <1>0, <1>1 DEF Register, PumpsFresh
      <4> QED
        BY <2>1, <2>2, <3>1, <3>3, <4>1 DEF EndsAt, Runs
    <3> QED
      BY <1>1, <3>2, <3>3 DEF Register
  <2>5. PumpsFresh'
    BY <1>0, <1>1, <2>1 DEF Register, PumpsFresh
  <2>6. MembersRun'
    BY <2>4 DEF MembersRun
  <2> QED
    BY <2>3, <2>5, <2>6, NumbersRunParts, PTL
<1>2. ASSUME NEW c \in Clients, Unregister(c) \/ DropSlow(c)
      PROVE  NumbersRun'
  <2>1. /\ UNCHANGED <<buf, out, last, queue, sent, msg, writer, handler>>
        /\ members' \subseteq members
        /\ \A d \in members' : d \in todo' <=> d \in todo
    BY <1>2 DEF Unregister, DropSlow, pumpVars, callVars
  <2>2. QueueRuns' /\ ClientsRun' /\ MembersRun'
    BY <2>1, NumbersUntouched
  <2>3. PumpsFresh'
    BY <1>0, <2>1 DEF PumpsFresh
  <2> QED
    BY <2>2, <2>3, NumbersRunParts, PTL
<1>3. CASE EndBroadcast
  <2>1. /\ UNCHANGED <<buf, out, last, queue, sent, writer, handler, members, todo>>
        /\ msg' = 0
    BY <1>3 DEF EndBroadcast, pumpVars, callVars
  <2>2. QueueRuns' /\ ClientsRun' /\ MembersRun'
    BY <2>1, NumbersUntouched
  <2>3. PumpsFresh'
    BY <1>0, <2>1 DEF PumpsFresh
  <2> QED
    BY <2>2, <2>3, NumbersRunParts, PTL
<1>4. CASE TakeBroadcast
  <2>1. /\ UNCHANGED <<buf, out, last, sent, writer, handler, members>>
        /\ queue # << >> /\ queue' = Tail(queue) /\ msg' = Head(queue) /\ todo' = members
        /\ todo = {}
    BY <1>4 DEF TakeBroadcast, Idle, pumpVars, callVars
  <2>2. Runs(queue', sent) /\ Head(queue) = sent - Len(queue') /\ sent - Len(queue') - 1 = Taken
    <3>1. queue \in Seq(Nat) /\ sent \in Nat /\ Runs(queue, sent)
      BY <1>0 DEF QueueRuns
    <3> QED
      BY <2>1, <3>1, TailRuns DEF Taken
  <2>3. QueueRuns' /\ Taken' - 1 = Taken
    BY <2>1, <2>2 DEF QueueRuns, Taken
  <2>4. ClientsRun'
    BY <1>0, <2>1, EndStays DEF ClientsRun
  <2>5. ASSUME NEW d \in members'
        PROVE  EndsAt(d, Owed(d))'
    <3>1. EndsAt(d, Taken) /\ Owed(d)' = Taken
      BY <1>0, <2>1, <2>3 DEF MembersRun, Owed
    <3> QED
      BY <2>1, <3>1 DEF EndsAt
  <2>6. PumpsFresh'
    BY <1>0, <2>1 DEF PumpsFresh
  <2>7. MembersRun'
    BY <2>5 DEF MembersRun
  <2> QED
    BY <2>3, <2>4, <2>6, <2>7, NumbersRunParts, PTL
<1>5. ASSUME NEW c \in Clients, SendTo(c)
      PROVE  NumbersRun'
  <2>1. /\ UNCHANGED <<out, last, queue, sent, msg, writer, handler, members>>
        /\ todo' = todo \ {c} /\ c \in members /\ c \in todo
        /\ buf' = [buf EXCEPT ![c] = Append(@, msg)]
    BY <1>5 DEF SendTo, pumpVars, callVars
  <2>2. Taken' = Taken /\ msg = Taken /\ Taken \in 0..sent /\ Taken # 0
    BY <1>0, <2>1, OwedIsSent DEF Taken, QueueRuns
  <2>3. EndsAt(c, Taken)'
    <3>1. PICK t \in Nat : t = Taken - 1
      BY <2>2
    <3>2. EndsAt(c, t) /\ msg = t + 1
      BY <1>0, <2>1, <2>2, <3>1 DEF MembersRun, Owed
    <3>3. EndsAt(c, t + 1)'
      BY <2>1, <3>2, EndMoves
    <3> QED
      BY <2>2, <3>2, <3>3
  <2>4. QueueRuns'
    BY <1>0, <2>1, <2>2 DEF QueueRuns, Runs
  <2>5. ClientsRun'
    <3> SUFFICES ASSUME NEW d \in Clients
                 PROVE  \E t \in 0..sent : EndsAt(d, t)'
      BY <2>1 DEF ClientsRun
    <3>1. CASE d = c
      BY <2>2, <2>3, <3>1
    <3>2. CASE d # c
      BY <1>0, <1>5, <3>2, OthersKeepEnd DEF ClientsRun
    <3> QED
      BY <3>1, <3>2
  <2>6. ASSUME NEW d \in members'
        PROVE  EndsAt(d, Owed(d))'
    <3>1. CASE d = c
      BY <2>1, <2>2, <2>3, <3>1 DEF Owed
    <3>2. CASE d # c
      <4>1. EndsAt(d, Owed(d)) /\ Owed(d)' = Owed(d)
        BY <1>0, <2>1, <2>2, <3>2 DEF MembersRun, Owed
      <4> QED
        BY <1>5, <2>1, <3>2, <4>1, OthersKeepEnd
    <3> QED
      BY <3>1, <3>2
  <2>7. PumpsFresh'
    BY <1>0, <2>1 DEF PumpsFresh
  <2>8. MembersRun'
    BY <2>6 DEF MembersRun
  <2> QED
    BY <2>4, <2>5, <2>7, <2>8, NumbersRunParts, PTL
<1> QED
  BY <1>1, <1>2, <1>3, <1>4, <1>5 DEF HubStep
(* The steps of callers, handlers, pumps and browsers.                     *)
LEMMA OtherStepRuns ==
  ASSUME IInv, NumbersRun, [Next]_vars, ~ HubStep
  PROVE  NumbersRun'
<1> USE DEF IInv, TypeOK, InductiveInv, MembersOpen
<1>0. QueueRuns /\ ClientsRun /\ MembersRun /\ PumpsFresh
  BY NumbersRunParts
<1>1. ASSUME UNCHANGED <<members, todo, msg, queue, sent, buf, out, last>>, PumpsFresh'
      PROVE  NumbersRun'
  <2>1. QueueRuns' /\ ClientsRun' /\ MembersRun'
    BY <1>1, NumbersUntouched
  <2> QED
    BY <1>1, <2>1, NumbersRunParts, PTL
<1>2. ASSUME NEW b \in Broadcasters, CallBroadcast(b)
      PROVE  NumbersRun'
  BY <1>0, <1>1, <1>2 DEF CallBroadcast, PumpsFresh, hubVars, pumpVars
<1>3. ASSUME NEW b \in Broadcasters, Enqueue(b)
      PROVE  NumbersRun'
  <2>1. /\ UNCHANGED <<buf, out, last, msg, writer, handler, members, todo>>
        /\ queue' = Append(queue, sent + 1) /\ sent' = sent + 1
    BY <1>3 DEF Enqueue, pumpVars
  <2>2. Runs(queue', sent') /\ Taken' = Taken
    <3>1. queue \in Seq(Nat) /\ sent \in Nat /\ Runs(queue, sent)
      BY <1>0 DEF QueueRuns
    <3> QED
      BY <2>1, <3>1, AppendRuns DEF Taken
  <2>3. QueueRuns'
    BY <1>0, <2>1, <2>2 DEF QueueRuns
  <2>4. ClientsRun'
    BY <1>0, <2>1, EndStays DEF ClientsRun
  <2>5. MembersRun'
    <3> SUFFICES ASSUME NEW d \in members'
                 PROVE  EndsAt(d, Owed(d))'
      BY DEF MembersRun
    <3>1. EndsAt(d, Owed(d)) /\ Owed(d)' = Owed(d)
      BY <1>0, <2>1, <2>2 DEF MembersRun, Owed
    <3> QED
      BY <2>1, <3>1 DEF EndsAt
  <2>6. PumpsFresh'
    BY <1>0, <2>1 DEF PumpsFresh
  <2> QED
    BY <2>3, <2>4, <2>5, <2>6, NumbersRunParts, PTL
<1>4. ASSUME NEW c \in Clients, WriterTakes(c) \/ WriterWrites(c)
      PROVE  NumbersRun'
  <2>1. UNCHANGED <<members, todo, msg, queue, sent, handler>> /\ Taken' = Taken
    BY <1>4 DEF WriterTakes, WriterWrites, hubVars, callVars, Taken
  <2>2. ASSUME NEW t \in Nat, NEW d \in Clients, EndsAt(d, t)
        PROVE  EndsAt(d, t)'
    <3>1. CASE d # c
      BY <1>4, <2>2, <3>1, OthersKeepEnd
    <3>2. CASE d = c /\ WriterTakes(c)
      <4>1. out[c] = 0
        BY <1>0, <3>2 DEF WriterTakes, PumpsFresh
      <4> QED
        BY <2>2, <3>2, <4>1, EndOfTaken
    <3>3. CASE d = c /\ WriterWrites(c)
      BY <2>2, <3>3, EndOfWritten
    <3> QED
      BY <1>4, <3>1, <3>2, <3>3
  <2>3. QueueRuns'
    BY <1>0, <2>1 DEF QueueRuns
  <2>4. ClientsRun'
    BY <1>0, <2>1, <2>2 DEF ClientsRun
  <2>5. MembersRun'
    <3> SUFFICES ASSUME NEW d \in members'
                 PROVE  EndsAt(d, Owed(d))'
      BY DEF MembersRun
    <3>1. d \in members /\ Owed(d)' = Owed(d)
      BY <2>1 DEF Owed
    <3>2. PICK t \in Nat : t = Owed(d)
      BY <3>1, OwedIsSent
    <3>3. EndsAt(d, t)'
      BY <1>0, <2>2, <3>1, <3>2 DEF MembersRun
    <3> QED
      BY <3>1, <3>2, <3>3
  <2>6. PumpsFresh'
    BY <1>0, <1>4, <2>1 DEF PumpsFresh, WriterTakes, WriterWrites
  <2> QED
    BY <2>3, <2>4, <2>5, <2>6, NumbersRunParts, PTL
<1>5. ASSUME NEW c \in Clients, Upgrade(c) \/ StartPumps(c) \/ WriterEnds(c)
      PROVE  NumbersRun'
  BY <1>0, <1>1, <1>5 DEF Upgrade, StartPumps, WriterEnds, PumpsFresh, hubVars, pumpVars,
                          callVars
<1>6. ASSUME NEW c \in Clients, ReaderStep(c) \/ PeerStalls(c) \/ PeerGoes(c)
      PROVE  NumbersRun'
  BY <1>0, <1>1, <1>6 DEF ReaderStep, ReaderFails, ReaderEnds, PeerStalls, PeerGoes,
                          PeerMoves, PumpsFresh, hubVars, pumpVars, callVars
<1>7. CASE UNCHANGED vars
  BY <1>0, <1>1, <1>7 DEF vars, PumpsFresh, hubVars, pumpVars, callVars
<1> QED
  BY <1>2, <1>3, <1>4, <1>5, <1>6, <1>7 DEF Next, WriterStep

(* The hub starts with nothing sent.                                       *)
LEMMA InitRuns == Init => NumbersRun
BY DEF Init, NumbersRun, Runs, EndsAt, Taken

(* The number before a run extends it.                                     *)
LEMMA PrependRuns ==
  ASSUME NEW s \in Seq(Nat), NEW t \in Nat, Runs(s, t), NEW z \in Nat \ {0}, z = t - Len(s)
  PROVE  /\ <<z>> \o s \in Seq(Nat) /\ Runs(<<z>> \o s, t)
         /\ t - Len(<<z>> \o s) = z - 1
<1> DEFINE r == <<z>> \o s
<1>1. /\ r \in Seq(Nat) /\ Len(r) = Len(s) + 1 /\ Len(s) \in Nat
      /\ r[1] = z /\ \A i \in 1..Len(r) : i # 1 => r[i] = s[i - 1]
  OBVIOUS
<1>2. Len(s) <= t /\ \A i \in 1..Len(s) : s[i] = t - Len(s) + i
  BY DEF Runs
<1> HIDE DEF r
<1>3. ASSUME NEW i \in 1..Len(r)
      PROVE  r[i] = t - Len(r) + i
  <2>1. CASE i = 1
    BY <1>1, <2>1
  <2>2. CASE i # 1
    <3>1. i - 1 \in 1..Len(s)
      BY <1>1, <2>2
    <3>2. s[i - 1] = t - Len(s) + (i - 1)
      BY <1>2, <3>1
    <3> QED
      BY <1>1, <2>2, <3>2
  <2> QED
    BY <2>1, <2>2
<1>4. Len(r) <= t /\ t - Len(r) = z - 1
  BY <1>1, <1>2
<1> QED
  BY <1>1, <1>3, <1>4 DEF Runs, r

(* Numbers that end at t follow one another.                               *)
LEMMA NoGapInRun ==
  ASSUME TypeOK, NEW c \in Clients, NEW t \in Nat, EndsAt(c, t)
  PROVE  \A i \in 1..(Len(Pending(c)) - 1) : Pending(c)[i + 1] = Pending(c)[i] + 1
<1>1. /\ buf[c] \in Seq(Nat) /\ Runs(buf[c], t) /\ out[c] \in Nat /\ last[c] \in Nat
  BY DEF TypeOK, EndsAt
<1> DEFINE s == IF out[c] = 0 THEN buf[c] ELSE <<out[c]>> \o buf[c]
<1>2. s \in Seq(Nat) /\ Runs(s, t) /\ (last[c] # 0 => last[c] = t - Len(s))
  <2>1. CASE out[c] = 0
    BY <1>1, <2>1 DEF EndsAt
  <2>2. CASE out[c] # 0
    <3>1. out[c] = t - Len(buf[c])
      BY <2>2 DEF EndsAt
    <3>2. s \in Seq(Nat) /\ Runs(s, t) /\ t - Len(s) = out[c] - 1
      BY <1>1, <2>2, <3>1, PrependRuns
    <3>3. last[c] # 0 => last[c] = out[c] - 1
      BY <2>2, <3>1 DEF EndsAt
    <3> QED
      BY <3>2, <3>3
  <2> QED
    BY <2>1, <2>2
<1>3. Pending(c) = IF last[c] = 0 THEN s ELSE <<last[c]>> \o s
  <2>1. \A r \in Seq(Nat) : << >> \o r = r
    OBVIOUS
  <2>2. (IF out[c] = 0 THEN << >> ELSE <<out[c]>>) \o buf[c] = s
    BY <1>1, <2>1
  <2>3. Pending(c) = (IF last[c] = 0 THEN << >> ELSE <<last[c]>>) \o s
    BY <2>2 DEF Pending
  <2> HIDE DEF s
  <2> QED
    BY <1>2, <2>1, <2>3
<1>4. Pending(c) \in Seq(Nat) /\ Runs(Pending(c), t)
  <2> HIDE DEF s
  <2>1. CASE last[c] = 0
    BY <1>2, <1>3, <2>1
  <2>2. CASE last[c] # 0
    BY <1>1, <1>2, <1>3, <2>2, PrependRuns
  <2> QED
    BY <2>1, <2>2
<1> QED
  <2> SUFFICES ASSUME NEW i \in 1..(Len(Pending(c)) - 1)
               PROVE  Pending(c)[i + 1] = Pending(c)[i] + 1
    OBVIOUS
  <2>1. Len(Pending(c)) \in Nat
    BY <1>4
  <2>2. i \in 1..Len(Pending(c)) /\ i + 1 \in 1..Len(Pending(c))
    BY <2>1
  <2>3. /\ Pending(c)[i] = t - Len(Pending(c)) + i
        /\ Pending(c)[i + 1] = t - Len(Pending(c)) + (i + 1)
    BY <1>4, <2>2 DEF Runs
  <2> QED
    BY <2>1, <2>2, <2>3

(* A browser sees the broadcasts without a gap until it is dropped, for    *)
(* any number of clients, capacities and messages: hub.go:80 appends to the*)
(* channel of every member, or hub.go:82 ends the membership.              *)
THEOREM HubNoGap == Spec => []NoGap
<1>1. IInv /\ NumbersRun /\ [Next]_vars => NumbersRun'
  BY HubStepRuns, OtherStepRuns
<1>2. IInv /\ NumbersRun => NoGap
  <2> SUFFICES ASSUME IInv, NumbersRun, NEW c \in Clients
               PROVE  \A i \in 1..(Len(Pending(c)) - 1) :
                        Pending(c)[i + 1] = Pending(c)[i] + 1
    BY DEF NoGap
  <2>1. PICK t \in 0..sent : EndsAt(c, t)
    BY DEF NumbersRun
  <2>2. TypeOK /\ t \in Nat
    BY DEF IInv, TypeOK
  <2> QED
    BY <2>1, <2>2, NoGapInRun
<1> QED
  BY InitRuns, HubInductive, <1>1, <1>2, PTL DEF Spec
=============================================================================
