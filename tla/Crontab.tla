------------------------------ MODULE Crontab ------------------------------
(***************************************************************************)
(* The crontab of one user on one server: CronService of                   *)
(* backend/internal/services/cron_service.go and its handler in            *)
(* handlers/system.go.                                                     *)
(*                                                                         *)
(* The panel keeps nothing of it.  Each change is one pipeline on the      *)
(* server, crontab -l | edit | crontab -, that reads all lines and later   *)
(* installs what became of them; lines are named by their number in the    *)
(* list the operator looked at.  A line is named by the call that brought  *)
(* it and by what it is: a job as it was asked for, the comment of a job,  *)
(* which is a line of its own, or what sed made of a job.                  *)
(***************************************************************************)
EXTENDS Background, SequencesExt

VARIABLES
  lines,      \* the crontab
  page,       \* the list the operator looks at
  number,     \* per call: the line number it names
  meant,      \* per call: the line it names on the page, NoLine for none
  text,       \* per call: what is special about its job
  read,       \* per call: what its crontab -l printed
  wanted,     \* history: the jobs the operator asked for
  crossed,    \* history: a pipeline began while another one was on its way
  outdated,   \* history: a number named another line than on the page
  mangled     \* history: sed got a slash or an ampersand in the new line

crontabVars == <<lines, page, number, meant, text, read, wanted, crossed, outdated, mangled>>
vars == <<op, pc, clash, crashed, troubles, lost, lines, page, number, meant, text, read,
          wanted, crossed, outdated, mangled>>

(* A job may come with a comment; the line that replaces another one may   *)
(* have a slash in it, or an ampersand or backslash, as in 2>&1.           *)
AddTexts    == {"plain", "commented"}
UpdateTexts == {"plain", "slash", "ampersand"}

Line   == Calls \X {"job", "comment", "garbled"}
NoLine == <<NoCall, "none">>

Job(c)     == <<c, "job">>
Comment(c) == <<c, "comment">>
Garbled(c) == <<c, "garbled">>

Init ==
  /\ CallsInit
  /\ lines = <<>> /\ page = <<>>
  /\ number = [c \in Calls |-> 0]
  /\ meant = [c \in Calls |-> NoLine]
  /\ text = [c \in Calls |-> "plain"]
  /\ read = [c \in Calls |-> <<>>]
  /\ wanted = {}
  /\ crossed = "no" /\ outdated = "no" /\ mangled = "no"

(* The page: a request of its own that changes nothing on the server.      *)
ListCronJobs ==
  /\ page # lines
  /\ page' = lines
  /\ UNCHANGED <<callVars, lines, number, meant, text, read, wanted, crossed, outdated, mangled>>

AddCronJob(c, t) ==
  /\ Begin(c, "add", "read")
  /\ text' = [text EXCEPT ![c] = t]
  /\ wanted' = wanted \cup {c}
  /\ UNCHANGED <<lines, page, number, meant, read, crossed, outdated, mangled>>

(* Line n of the page is to go, whether it is a job or a comment.          *)
Without(n) == {x \in wanted : Job(x) # page[n]}

DeleteCronJob(c, n) ==
  /\ Begin(c, "delete", "read")
  /\ number' = [number EXCEPT ![c] = n]
  /\ meant' = [meant EXCEPT ![c] = page[n]]
  /\ wanted' = Without(n)
  /\ UNCHANGED <<lines, page, text, read, crossed, outdated, mangled>>

UpdateCronJob(c, n, t) ==
  /\ Begin(c, "update", "read")
  /\ number' = [number EXCEPT ![c] = n]
  /\ meant' = [meant EXCEPT ![c] = page[n]]
  /\ text' = [text EXCEPT ![c] = t]
  /\ wanted' = Without(n) \cup {c}
  /\ UNCHANGED <<lines, page, read, crossed, outdated, mangled>>

(***************************************************************************)
(* The pipeline                                                            *)
(***************************************************************************)
LineNamed(c, list) == IF number[c] \in 1 .. Len(list) THEN list[number[c]] ELSE NoLine

(* crontab -l, or no server or connection for the script.                  *)
Read(c) ==
  \/ /\ Go(c, "read", "install")
     /\ read' = [read EXCEPT ![c] = lines]
     /\ crossed' = IF \E d \in Calls : pc[d] = "install" THEN "yes" ELSE crossed
     /\ outdated' = IF LineNamed(c, lines) # meant[c] THEN "yes" ELSE outdated
     /\ UNCHANGED <<lines, page, number, meant, text, wanted, mangled>>
  \/ GoFailed(c, "read", "done") /\ UNCHANGED crontabVars

(* Mutant of Added: the old lines are not part of the pipe.                *)
AddedAlone(c) == <<Job(c)>>

Added(c) ==
  Append(IF text[c] = "commented" THEN Append(read[c], Comment(c)) ELSE read[c], Job(c))

(* One line goes: the comment of a deleted job stays.                      *)
Deleted(c) == IF LineNamed(c, read[c]) = NoLine THEN read[c] ELSE RemoveAt(read[c], number[c])

(* The new line stands in the sed command as it is.  With a slash in it    *)
(* sed prints an error and no line, the pipe goes on, crontab - installs   *)
(* the empty crontab, and the script succeeds.  For an ampersand sed puts  *)
(* the old line, for a backslash what follows it.                          *)
Updated(c) ==
  CASE text[c] = "slash" -> <<>>
    [] text[c] # "slash" /\ LineNamed(c, read[c]) = NoLine -> read[c]
    [] OTHER -> [read[c] EXCEPT ![number[c]] = IF text[c] = "plain" THEN Job(c) ELSE Garbled(c)]

Edited(c) ==
  CASE op[c] = "add" -> Added(c) [] op[c] = "delete" -> Deleted(c) [] OTHER -> Updated(c)

(* crontab -, or the connection is lost before or after it.                *)
Install(c) ==
  /\ \/ Go(c, "install", "done") /\ lines' = Edited(c)
     \/ GoFailed(c, "install", "done") /\ lines' \in {lines, Edited(c)}
  /\ mangled' = IF text[c] \in {"slash", "ampersand"} THEN "yes" ELSE mangled
  /\ UNCHANGED <<page, number, meant, text, read, wanted, crossed, outdated>>

Start(c) ==
  \/ \E t \in AddTexts : AddCronJob(c, t)
  \/ \E n \in 1 .. Len(page) : DeleteCronJob(c, n) \/ \E t \in UpdateTexts : UpdateCronJob(c, n, t)

Step(c) == Read(c) \/ Install(c)

Crash == CrashCalls /\ UNCHANGED crontabVars

Next == (\E c \in Calls : Start(c) \/ Step(c)) \/ ListCronJobs \/ Crash

Spec == Init /\ [][Next]_vars

CrontabTypeOK ==
  /\ CallsTypeOK({"add", "delete", "update"}, {"read", "install"})
  /\ lines \in Seq(Line) /\ page \in Seq(Line)
  /\ number \in [Calls -> Nat]
  /\ meant \in [Calls -> Line \cup {NoLine}]
  /\ text \in [Calls -> AddTexts \cup UpdateTexts]
  /\ read \in [Calls -> Seq(Line)]
  /\ wanted \subseteq Calls
  /\ {crossed, outdated, mangled} \subseteq {"no", "yes"}

(* The crontab has the jobs that were asked for and no other, each once,   *)
(* whatever calls are at work at the same time, as long as no pipeline     *)
(* reads while another one is about to install, every number still names   *)
(* the line it named on the page, and no new line has a character that sed *)
(* takes for its own: each of these loses or changes jobs that nobody      *)
(* deleted, and the call reports success.                                  *)
JobsStay ==
  Quiet /\ troubles = 0 /\ {crossed, outdated, mangled} = {"no"} =>
    /\ {x \in Calls : Job(x) \in ToSet(lines)} = wanted
    /\ IsInjective(lines)
=============================================================================
