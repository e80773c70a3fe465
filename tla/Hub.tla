-------------------------------- MODULE Hub --------------------------------
(***************************************************************************)
(* The WebSocket hub, backend/internal/websocket/hub.go: one goroutine     *)
(* (Run) owns the set of clients; each client has a handler goroutine that *)
(* registers it, a writePump and a readPump; BroadcastEvent is called by   *)
(* the metrics collector and the update service.                           *)
(*                                                                         *)
(* Messages are numbered in the order they enter the broadcast channel.    *)
(* What the browser does is the environment's: it reads, stalls or goes.   *)
(***************************************************************************)
EXTENDS Naturals, Sequences

CONSTANTS
  Clients,      \* connections, each served once
  Broadcasters, \* goroutines that call BroadcastEvent
  SendCap,      \* capacity of Client.send (256)
  QueueCap,     \* capacity of Hub.broadcast (256)
  MaxMessages   \* bound: calls of BroadcastEvent

ASSUME ConstantsAssumption ==
  SendCap \in Nat /\ QueueCap \in Nat /\ MaxMessages \in Nat

VARIABLES
  members,  \* h.clients
  chan,     \* each send channel: "open" or "closed"
  buf,      \* the messages in each send channel
  queue,    \* the messages in h.broadcast
  todo,     \* the clients the current broadcast has not reached
  msg,      \* the current broadcast, 0 between broadcasts
  handler,  \* HandleWebSocket of each client
  reader,   \* readPump of each client
  writer,   \* writePump of each client
  out,      \* the message a writePump is writing, 0 for none
  conn,     \* our end of the connection
  peer,     \* the browser's end
  last,     \* history: the last message written to the browser
  caller,   \* BroadcastEvent of each broadcaster: "idle" or "sending"
  calls,    \* calls of BroadcastEvent so far
  sent,     \* messages that have entered the broadcast channel
  panic     \* "yes" once a channel is closed twice or sent to when closed

hubVars  == <<members, queue, todo, msg>>
pumpVars == <<reader, writer, out, last>>
netVars  == <<conn, peer>>
callVars == <<caller, calls, sent>>
vars == <<hubVars, chan, buf, handler, pumpVars, netVars, callVars, panic>>

Init ==
  /\ members = {} /\ queue = << >> /\ todo = {} /\ msg = 0
  /\ chan = [c \in Clients |-> "open"]
  /\ buf = [c \in Clients |-> << >>]
  /\ handler = [c \in Clients |-> "none"]
  /\ reader = [c \in Clients |-> "none"]
  /\ writer = [c \in Clients |-> "none"]
  /\ out = [c \in Clients |-> 0]
  /\ conn = [c \in Clients |-> "none"]
  /\ peer = [c \in Clients |-> "reading"]
  /\ last = [c \in Clients |-> 0]
  /\ caller = [b \in Broadcasters |-> "idle"]
  /\ calls = 0 /\ sent = 0
  /\ panic = "no"

Idle == msg = 0 /\ panic = "no"

(* close(client.send): a second close panics.                              *)
CloseSend(c) ==
  /\ chan' = [chan EXCEPT ![c] = "closed"]
  /\ panic' = IF chan[c] = "open" THEN panic ELSE "yes"

(***************************************************************************)
(* Hub.Run                                                                 *)
(***************************************************************************)
Register(c) ==
  /\ Idle
  /\ handler[c] = "registering"
  /\ members' = members \cup {c}
  /\ handler' = [handler EXCEPT ![c] = "registered"]
  /\ UNCHANGED <<queue, todo, msg, chan, buf, pumpVars, netVars, callVars, panic>>

(* Mutant of Unregister: close without asking whether c is still a member. *)
UnregisterAlwaysCloses(c) ==
  /\ Idle
  /\ reader[c] = "unregister"
  /\ reader' = [reader EXCEPT ![c] = "close"]
  /\ members' = members \ {c}
  /\ CloseSend(c)
  /\ UNCHANGED <<queue, todo, msg, buf, handler, writer, out, last, netVars, callVars>>

(* Mutant of Unregister: the member goes, its channel stays open.          *)
UnregisterKeepsOpen(c) ==
  /\ Idle
  /\ reader[c] = "unregister"
  /\ reader' = [reader EXCEPT ![c] = "close"]
  /\ members' = members \ {c}
  /\ UNCHANGED <<queue, todo, msg, chan, buf, handler, writer, out, last, netVars,
                 callVars, panic>>

(* Received from the readPump, which then goes on.                         *)
Unregister(c) ==
  /\ Idle
  /\ reader[c] = "unregister"
  /\ reader' = [reader EXCEPT ![c] = "close"]
  /\ \/ c \in members /\ members' = members \ {c} /\ CloseSend(c)
     \/ c \notin members /\ UNCHANGED <<members, chan, panic>>
  /\ UNCHANGED <<queue, todo, msg, buf, handler, writer, out, last, netVars, callVars>>

TakeBroadcast ==
  /\ Idle
  /\ queue # << >>
  /\ msg' = Head(queue)
  /\ queue' = Tail(queue)
  /\ todo' = members
  /\ UNCHANGED <<members, chan, buf, handler, pumpVars, netVars, callVars, panic>>

(* One turn of the loop over h.clients: client.send <- message             *)
SendTo(c) ==
  /\ panic = "no" /\ c \in todo
  /\ Len(buf[c]) < SendCap
  /\ todo' = todo \ {c}
  /\ IF chan[c] = "open"
       THEN buf' = [buf EXCEPT ![c] = Append(@, msg)] /\ UNCHANGED panic
       ELSE panic' = "yes" /\ UNCHANGED buf
  /\ UNCHANGED <<members, queue, msg, chan, handler, pumpVars, netVars, callVars>>

(* Mutant of DropSlow: a plain send, which waits for room in the channel.  *)
DropSlowWaits(c) == FALSE /\ c \in todo /\ UNCHANGED vars

(* Mutant of DropSlow: the message is skipped and the client kept.         *)
DropSlowSkips(c) ==
  /\ panic = "no" /\ c \in todo
  /\ Len(buf[c]) >= SendCap
  /\ todo' = todo \ {c}
  /\ UNCHANGED <<members, queue, msg, chan, buf, handler, pumpVars, netVars, callVars, panic>>

(* default: the client does not keep up.                                   *)
DropSlow(c) ==
  /\ panic = "no" /\ c \in todo
  /\ Len(buf[c]) >= SendCap
  /\ todo' = todo \ {c}
  /\ members' = members \ {c}
  /\ CloseSend(c)
  /\ UNCHANGED <<queue, msg, buf, handler, pumpVars, netVars, callVars>>

EndBroadcast ==
  /\ msg # 0 /\ todo = {}
  /\ msg' = 0
  /\ UNCHANGED <<members, queue, todo, chan, buf, handler, pumpVars, netVars, callVars, panic>>

(***************************************************************************)
(* BroadcastEvent                                                          *)
(***************************************************************************)
CallBroadcast(b) ==
  /\ caller[b] = "idle"
  /\ calls < MaxMessages
  /\ calls' = calls + 1
  /\ caller' = [caller EXCEPT ![b] = "sending"]
  /\ UNCHANGED <<hubVars, chan, buf, handler, pumpVars, netVars, sent, panic>>

(* h.broadcast <- data, once there is room.                                *)
Enqueue(b) ==
  /\ caller[b] = "sending"
  /\ Len(queue) < QueueCap
  /\ queue' = Append(queue, sent + 1)
  /\ sent' = sent + 1
  /\ caller' = [caller EXCEPT ![b] = "idle"]
  /\ UNCHANGED <<members, todo, msg, chan, buf, handler, pumpVars, netVars, calls, panic>>

(***************************************************************************)
(* HandleWebSocket and the pumps                                           *)
(***************************************************************************)
Upgrade(c) ==
  /\ handler[c] = "none"
  /\ handler' = [handler EXCEPT ![c] = "registering"]
  /\ conn' = [conn EXCEPT ![c] = "open"]
  /\ UNCHANGED <<hubVars, chan, buf, pumpVars, peer, callVars, panic>>

StartPumps(c) ==
  /\ handler[c] = "registered"
  /\ handler' = [handler EXCEPT ![c] = "done"]
  /\ reader' = [reader EXCEPT ![c] = "reading"]
  /\ writer' = [writer EXCEPT ![c] = "waiting"]
  /\ UNCHANGED <<hubVars, chan, buf, out, last, netVars, callVars, panic>>

Dead(c) == conn[c] = "closed" \/ peer[c] = "gone"

(* for message := range c.send                                             *)
WriterTakes(c) ==
  /\ writer[c] = "waiting"
  /\ buf[c] # << >>
  /\ out' = [out EXCEPT ![c] = Head(buf[c])]
  /\ buf' = [buf EXCEPT ![c] = Tail(@)]
  /\ writer' = [writer EXCEPT ![c] = "writing"]
  /\ UNCHANGED <<hubVars, chan, handler, reader, last, netVars, callVars, panic>>

WriterWrites(c) ==
  /\ writer[c] = "writing"
  /\ ~Dead(c) /\ peer[c] = "reading"
  /\ last' = [last EXCEPT ![c] = out[c]]
  /\ out' = [out EXCEPT ![c] = 0]
  /\ writer' = [writer EXCEPT ![c] = "waiting"]
  /\ UNCHANGED <<hubVars, chan, buf, handler, reader, netVars, callVars, panic>>

(* The channel is closed and drained, or WriteMessage fails: conn.Close(). *)
WriterEnds(c) ==
  /\ \/ writer[c] = "waiting" /\ buf[c] = << >> /\ chan[c] = "closed"
     \/ writer[c] = "writing" /\ Dead(c)
  /\ conn' = [conn EXCEPT ![c] = "closed"]
  /\ writer' = [writer EXCEPT ![c] = "gone"]
  /\ UNCHANGED <<hubVars, chan, buf, handler, reader, out, last, peer, callVars, panic>>

(* Mutant of ReaderFails: the connection is closed without unregistering.  *)
ReaderFailsSilently(c) ==
  /\ reader[c] = "reading"
  /\ Dead(c)
  /\ reader' = [reader EXCEPT ![c] = "close"]
  /\ UNCHANGED <<hubVars, chan, buf, handler, writer, out, last, netVars, callVars, panic>>

(* ReadMessage fails; hub.unregister <- c comes before conn.Close().       *)
ReaderFails(c) ==
  /\ reader[c] = "reading"
  /\ Dead(c)
  /\ reader' = [reader EXCEPT ![c] = "unregister"]
  /\ UNCHANGED <<hubVars, chan, buf, handler, writer, out, last, netVars, callVars, panic>>

ReaderEnds(c) ==
  /\ reader[c] = "close"
  /\ conn' = [conn EXCEPT ![c] = "closed"]
  /\ reader' = [reader EXCEPT ![c] = "gone"]
  /\ UNCHANGED <<hubVars, chan, buf, handler, writer, out, last, peer, callVars, panic>>

(***************************************************************************)
(* The browser                                                             *)
(***************************************************************************)
PeerMoves(c, from, to) ==
  /\ peer[c] \in from /\ conn[c] # "none"
  /\ peer' = [peer EXCEPT ![c] = to]
  /\ UNCHANGED <<hubVars, chan, buf, handler, pumpVars, conn, callVars, panic>>

PeerStalls(c) == PeerMoves(c, {"reading"}, "stalled")
PeerGoes(c) == PeerMoves(c, {"reading", "stalled"}, "gone")

HubStep ==
  \/ \E c \in Clients : Register(c) \/ Unregister(c) \/ SendTo(c) \/ DropSlow(c)
  \/ TakeBroadcast \/ EndBroadcast

WriterStep(c) == WriterTakes(c) \/ WriterWrites(c) \/ WriterEnds(c)
ReaderStep(c) == ReaderFails(c) \/ ReaderEnds(c)

Next ==
  \/ HubStep
  \/ \E b \in Broadcasters : CallBroadcast(b) \/ Enqueue(b)
  \/ \E c \in Clients : \/ Upgrade(c) \/ StartPumps(c) \/ WriterStep(c) \/ ReaderStep(c)
                        \/ PeerStalls(c) \/ PeerGoes(c)

Spec == Init /\ [][Next]_vars

(* Goroutines that can run do; select picks among its ready cases at       *)
(* random, so no case that stays ready is passed over for ever.  A client  *)
(* registers before it can unregister, and its handler ends before its     *)
(* readPump starts, so each pair shares one condition.                     *)
FairSpec ==
  /\ Spec
  /\ WF_vars(HubStep)
  /\ \A c \in Clients : /\ SF_vars(Register(c) \/ Unregister(c))
                        /\ WF_vars(StartPumps(c) \/ ReaderStep(c))
                        /\ WF_vars(WriterStep(c))
  /\ \A b \in Broadcasters : WF_vars(Enqueue(b))

(***************************************************************************)
(* Properties                                                              *)
(***************************************************************************)
(* Types; both kinds of channel keep within their capacity.                *)
TypeOK ==
  /\ members \subseteq Clients /\ todo \subseteq Clients /\ msg \in Nat
  /\ chan \in [Clients -> {"open", "closed"}]
  /\ buf \in [Clients -> Seq(Nat)] /\ \A c \in Clients : Len(buf[c]) <= SendCap
  /\ queue \in Seq(Nat \ {0}) /\ Len(queue) <= QueueCap
  /\ handler \in [Clients -> {"none", "registering", "registered", "done"}]
  /\ reader \in [Clients -> {"none", "reading", "unregister", "close", "gone"}]
  /\ writer \in [Clients -> {"none", "waiting", "writing", "gone"}]
  /\ out \in [Clients -> Nat] /\ last \in [Clients -> Nat]
  /\ conn \in [Clients -> {"none", "open", "closed"}]
  /\ peer \in [Clients -> {"reading", "stalled", "gone"}]
  /\ caller \in [Broadcasters -> {"idle", "sending"}]
  /\ calls \in Nat /\ sent \in Nat
  /\ panic \in {"no", "yes"}

(* The hub goroutine never closes a send channel twice and never sends on  *)
(* a closed one, although both the broadcast loop and unregister close:    *)
(* either panic would end the whole API process.                           *)
NeverPanics == panic = "no"

(* A client whose readPump is past unregister is no member any more: the   *)
(* hub keeps no reference to a connection that is being closed.            *)
NoGhostMember ==
  \A c \in Clients : reader[c] \in {"close", "gone"} => c \notin members

(* A client reads the broadcasts in order and without a gap up to the      *)
(* point where it is dropped: nobody sees one and misses an earlier one.   *)
Pending(c) ==
  (IF last[c] = 0 THEN << >> ELSE <<last[c]>>) \o
  ((IF out[c] = 0 THEN << >> ELSE <<out[c]>>) \o buf[c])

NoGap ==
  \A c \in Clients : \A i \in 1..(Len(Pending(c)) - 1) :
    Pending(c)[i + 1] = Pending(c)[i] + 1

(* The hub gets through every broadcast and BroadcastEvent returns,        *)
(* however slow the browsers are: the metrics collector and the updater    *)
(* must not hang on one of them.                                           *)
BroadcastReturns ==
  /\ msg # 0 ~> msg = 0
  /\ \A b \in Broadcasters : caller[b] = "sending" ~> caller[b] = "idle"

(* A browser that goes away leaves nothing behind: no member, neither of   *)
(* the two pumps, no open connection.                                      *)
DisconnectCleans ==
  \A c \in Clients :
    peer[c] = "gone" ~> /\ c \notin members /\ conn[c] = "closed"
                         /\ reader[c] = "gone" /\ writer[c] = "gone"

(* Why the hub never panics.                                               *)
MembersOpen ==
  /\ todo \subseteq members /\ (msg = 0 => todo = {})
  /\ \A c \in members : chan[c] = "open" /\ handler[c] \in {"registered", "done"}
  /\ \A c \in Clients : handler[c] \in {"none", "registering"} => chan[c] = "open"
  /\ \A c \in Clients : reader[c] # "none" => handler[c] = "done"
InductiveInv == MembersOpen /\ NeverPanics /\ NoGhostMember

(* The number of the last message taken from the broadcast channel.        *)
Taken == sent - Len(queue)

(* The numbers in s follow one another and end at t.                       *)
Runs(s, t) == Len(s) <= t /\ \A i \in 1..Len(s) : s[i] = t - Len(s) + i

(* The messages in the channel of c, the one in its writePump's hand and   *)
(* the last one written are numbered without a gap and end at t.           *)
EndsAt(c, t) ==
  /\ Runs(buf[c], t)
  /\ out[c] # 0 => out[c] = t - Len(buf[c])
  /\ last[c] # 0 => last[c] = t - Len(buf[c]) - (IF out[c] = 0 THEN 0 ELSE 1)

(* Why there is no gap: the numbers of a client end at the last broadcast, *)
(* or before the current one until that has reached it; those of a client  *)
(* that was dropped end where it was.                                      *)
NumbersRun ==
  /\ Runs(queue, sent)
  /\ msg # 0 => msg = Taken
  /\ \A c \in Clients : \E t \in 0..sent : EndsAt(c, t)
  /\ \A c \in members : EndsAt(c, IF c \in todo THEN Taken - 1 ELSE Taken)
  /\ \A c \in Clients :
       /\ writer[c] \in {"none", "waiting"} => out[c] = 0
       /\ handler[c] # "done" => writer[c] = "none"
       /\ handler[c] \in {"none", "registering"} => buf[c] = << >> /\ last[c] = 0
=============================================================================
