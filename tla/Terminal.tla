------------------------------ MODULE Terminal ------------------------------
(***************************************************************************)
(* One terminal in the browser: HandleTerminal of                          *)
(* backend/internal/handlers/ssh_handler.go, which bridges a WebSocket and *)
(* a shell on a server, and HandleExec of docker_exec_handler.go, which    *)
(* does so for a shell in a container.                                     *)
(*                                                                         *)
(* HandleTerminal leaves three goroutines, out, err and in, and waits for  *)
(* the shell; HandleExec leaves out and is itself in.  A goroutine learns  *)
(* of the end from its own read or write, and tells the others by closing  *)
(* what they read from.                                                    *)
(***************************************************************************)
EXTENDS Naturals

CONSTANTS
  MaxBytes,     \* bound: what the user types and the shell prints
  Window        \* what the shell's side buffers before a write blocks

VARIABLES
  kind,         \* "ssh" or "exec"
  browser,      \* "here", "gone" (closed its end), "lost" (without a word)
  conn,         \* the WebSocket: "none", "open", "closed"
  peer,         \* SSH client and session, or the hijacked exec connection
  shell,        \* "none", "running", "exited"
  handler,      \* "dial", "setup", "wait", "done"
  out, err, in, \* "none", "read", "write", "close", "done"
  typed, unread,    \* sent by the user so far; written and not read by the shell
  printed, unsent   \* printed by the shell so far; not read by out

terminalVars ==
  <<kind, browser, conn, peer, shell, handler, out, err, in, typed, unread, printed, unsent>>

ends  == <<kind, browser>>
bytes == <<typed, unread, printed, unsent>>

Init ==
  /\ kind \in {"ssh", "exec"}
  /\ browser = "here"
  /\ conn = "none" /\ peer = "none" /\ shell = "none"
  /\ handler = "dial"
  /\ out = "none" /\ err = "none" /\ in = "none"
  /\ typed = 0 /\ unread = 0 /\ printed = 0 /\ unsent = 0

(***************************************************************************)
(* The handler.  The WebSocket comes first so that it can carry errors.    *)
(***************************************************************************)
Upgrade ==
  /\ handler = "dial" /\ conn = "none"
  /\ \/ conn' = "open" /\ UNCHANGED handler
     \/ handler' = "done" /\ UNCHANGED conn
  /\ UNCHANGED <<ends, peer, shell, out, err, in, bytes>>

(* ssh.Dial, or ContainerExecCreate.                                       *)
Dial ==
  /\ handler = "dial" /\ conn = "open"
  /\ \/ handler' = "setup" /\ peer' = "open" /\ UNCHANGED conn
     \/ handler' = "done" /\ conn' = "closed" /\ UNCHANGED peer
  /\ UNCHANGED <<ends, shell, out, err, in, bytes>>

(* Mutant of Setup: an error return closes the WebSocket only.             *)
SetupLeaky ==
  /\ handler = "setup"
  /\ \/ /\ handler' = "wait" /\ shell' = "running"
        /\ out' = "read" /\ in' = "read"
        /\ err' = IF kind = "ssh" THEN "read" ELSE "done"
        /\ UNCHANGED <<conn, peer>>
     \/ /\ handler' = "done" /\ conn' = "closed"
        /\ UNCHANGED <<peer, shell, out, err, in>>
  /\ UNCHANGED <<ends, bytes>>

(* Session, PTY, pipes and shell; each step that fails closes everything.  *)
Setup ==
  /\ handler = "setup"
  /\ \/ /\ handler' = "wait" /\ shell' = "running"
        /\ out' = "read" /\ in' = "read"
        /\ err' = IF kind = "ssh" THEN "read" ELSE "done"
        /\ UNCHANGED <<conn, peer>>
     \/ /\ handler' = "done" /\ conn' = "closed" /\ peer' = "closed"
        /\ UNCHANGED <<shell, out, err, in>>
  /\ UNCHANGED <<ends, bytes>>

Ended == shell = "exited" \/ peer = "closed"

(* session.Wait; HandleExec is in until it returns.                        *)
Return ==
  /\ handler = "wait"
  /\ IF kind = "ssh" THEN Ended ELSE in = "done"
  /\ handler' = "done"
  /\ UNCHANGED <<ends, conn, peer, shell, out, err, in, bytes>>

(***************************************************************************)
(* out: shell to WebSocket                                                 *)
(***************************************************************************)
OutRead ==
  /\ out = "read"
  /\ \/ /\ unsent > 0 /\ peer = "open"
        /\ out' = "write" /\ unsent' = 0
     \/ /\ Ended /\ (unsent = 0 \/ peer = "closed")
        /\ out' = "close" /\ UNCHANGED unsent
  /\ UNCHANGED <<ends, conn, peer, shell, handler, err, in, typed, unread, printed>>

(* To a browser that has gone the first writes may still succeed.          *)
OutWrite ==
  /\ out = "write"
  /\ \/ conn = "open" /\ out' = "read"
     \/ (conn = "closed" \/ browser # "here") /\ out' = "close"
  /\ UNCHANGED <<ends, conn, peer, shell, handler, err, in, bytes>>

(* Mutant of OutClose: the WebSocket is left to the other goroutine.       *)
OutReturns ==
  /\ out = "close"
  /\ out' = "done"
  /\ UNCHANGED <<ends, conn, peer, shell, handler, err, in, bytes>>

OutClose ==
  /\ out = "close"
  /\ out' = "done" /\ conn' = "closed"
  /\ UNCHANGED <<ends, peer, shell, handler, err, in, bytes>>

(* err has nothing to write: with a PTY there is one stream, stdout.       *)
ErrRead ==
  /\ err = "read" /\ Ended
  /\ err' = "done"
  /\ UNCHANGED <<ends, conn, peer, shell, handler, out, in, bytes>>

(***************************************************************************)
(* in: WebSocket to shell                                                  *)
(***************************************************************************)
InRead ==
  /\ in = "read"
  /\ \/ /\ conn = "open" /\ browser = "here" /\ typed < MaxBytes
        /\ in' = "write" /\ typed' = typed + 1
     \/ (conn = "closed" \/ browser = "gone") /\ in' = "close" /\ UNCHANGED typed
  /\ UNCHANGED <<ends, conn, peer, shell, handler, out, err, unread, printed, unsent>>

(* The write blocks while the shell does not read; its error is dropped.   *)
InWrite ==
  /\ in = "write"
  /\ \/ ~ Ended /\ unread < Window /\ unread' = unread + 1
     \/ Ended /\ UNCHANGED unread
  /\ in' = "read"
  /\ UNCHANGED <<ends, conn, peer, shell, handler, out, err, typed, printed, unsent>>

(* The deferred calls.                                                     *)
InClose ==
  /\ in = "close"
  /\ in' = "done" /\ conn' = "closed" /\ peer' = "closed"
  /\ UNCHANGED <<ends, shell, handler, out, err, bytes>>

(***************************************************************************)
(* The browser and the shell                                               *)
(***************************************************************************)
Leave ==
  /\ browser = "here"
  /\ browser' \in {"gone", "lost"}
  /\ UNCHANGED <<kind, conn, peer, shell, handler, out, err, in, bytes>>

ShellReads ==
  /\ shell = "running" /\ unread > 0
  /\ unread' = unread - 1
  /\ UNCHANGED <<ends, conn, peer, shell, handler, out, err, in, typed, printed, unsent>>

ShellPrints ==
  /\ shell = "running" /\ printed < MaxBytes
  /\ printed' = printed + 1 /\ unsent' = unsent + 1
  /\ UNCHANGED <<ends, conn, peer, shell, handler, out, err, in, typed, unread>>

ShellExits ==
  /\ shell = "running"
  /\ shell' = "exited"
  /\ UNCHANGED <<ends, conn, peer, handler, out, err, in, bytes>>

Handler    == Upgrade \/ Dial \/ Setup \/ Return
Out        == OutRead \/ OutWrite \/ OutClose
In         == InRead \/ InWrite \/ InClose
Goroutines == Handler \/ Out \/ ErrRead \/ In
Outside    == Leave \/ ShellReads \/ ShellPrints \/ ShellExits

Next == Goroutines \/ Outside

Spec == Init /\ [][Next]_terminalVars

FairSpec ==
  /\ Spec
  /\ WF_terminalVars(Handler) /\ WF_terminalVars(Out)
  /\ WF_terminalVars(ErrRead) /\ WF_terminalVars(In)

TerminalTypeOK ==
  /\ kind \in {"ssh", "exec"}
  /\ browser \in {"here", "gone", "lost"}
  /\ conn \in {"none", "open", "closed"} /\ peer \in {"none", "open", "closed"}
  /\ shell \in {"none", "running", "exited"}
  /\ handler \in {"dial", "setup", "wait", "done"}
  /\ {out, err, in} \subseteq {"none", "read", "write", "close", "done"}
  /\ typed \in 0 .. MaxBytes /\ printed \in 0 .. MaxBytes
  /\ unread \in 0 .. Window /\ unsent \in 0 .. printed

Over == handler = "done" /\ {out, err, in} \subseteq {"none", "done"}

(* Nothing is left open: when the handler and its goroutines have returned,*)
(* on whichever path, the WebSocket and the connection to the shell are    *)
(* closed.                                                                 *)
NothingLeftOpen == Over => conn # "open" /\ peer # "open"

(* Stuck in a write to a shell that does not read.                         *)
Blocked == in = "write" /\ unread = Window /\ shell = "running"

(* A terminal ends when the browser closes it or the shell exits: every    *)
(* goroutine returns, each woken by another one's Close.  What can hold it *)
(* is a shell that does not read what was typed, since in notices nothing  *)
(* while it writes.  A browser that is lost without a word is not covered: *)
(* there is neither ping nor deadline.                                     *)
TerminalEnds ==
  (conn # "none" /\ (browser = "gone" \/ shell = "exited")) ~> (Over \/ Blocked)
=============================================================================
