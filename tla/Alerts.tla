------------------------------- MODULE Alerts -------------------------------
(***************************************************************************)
(* Alert rules and their incidents: AlertService of                        *)
(* backend/internal/services/alert_service.go, its handler, and the        *)
(* tickers of main.go that store samples and evaluate the rules.           *)
(*                                                                         *)
(* A call is one pass of EvaluateRules.  A pass reads the active rules and *)
(* the latest sample in one SELECT and then works through the rows, while  *)
(* users change the rules and samples arrive.                              *)
(***************************************************************************)
EXTENDS Background

CONSTANTS
  Rules,        \* alert rules, none of them NoCall; all watch one metric of
                \* one server
  MaxChanges    \* bound: rules and samples written

VARIABLES
  rules,        \* per rule: "none", "paused", or the side it fires on
  sample,       \* the latest row of server_metrics: "none", "low", "high"
  open,         \* per rule: incidents not resolved
  mails,        \* goroutines of notify at work
  todo, hits,   \* rows of the pass still to come, and those that are breached
  row, found,   \* the row at hand, and the open incident looked up for it
  current,      \* history: rules unchanged since the pass that read them
  misread,      \* history: the lookup of an open incident failed
  changes       \* writes used up, at most MaxChanges

alertVars == <<rules, sample, open, mails, todo, hits, row, found, current, misread, changes>>
passVars  == <<todo, hits, row, found>>
vars == <<op, pc, clash, crashed, troubles, lost, rules, sample, open, mails, todo, hits, row, found,
          current, misread, changes>>

Ops    == {"pass"}
Labels == {"next", "look", "act"}
NoRow  == NoCall

(* compare: the threshold lies between the two values of a sample.         *)
Breached(r) == \/ rules[r] = "above" /\ sample = "high"
               \/ rules[r] = "below" /\ sample = "low"

Active == {r \in Rules : rules[r] \in {"above", "below"}}

Init ==
  /\ CallsInit
  /\ rules = [r \in Rules |-> "none"] /\ sample = "none"
  /\ open = [r \in Rules |-> 0] /\ mails = 0
  /\ todo = {} /\ hits = {} /\ row = NoRow /\ found = "none"
  /\ current = {} /\ misread = "no"
  /\ changes = 0

(***************************************************************************)
(* One pass.  The ticker waits for it to end before it starts another.     *)
(***************************************************************************)
EvaluateRules(c) ==
  /\ Quiet
  /\ Begin(c, "pass", "next")
  /\ todo' = IF sample = "none" THEN {} ELSE Active
  /\ hits' = {r \in Active : Breached(r)}
  /\ current' = IF sample = "none" THEN {} ELSE Active
  /\ row' = NoRow /\ found' = "none"
  /\ UNCHANGED <<rules, sample, open, mails, misread, changes>>

NextRow(c, r) ==
  /\ r \in todo
  /\ Go(c, "next", "look")
  /\ row' = r
  /\ todo' = todo \ {r}
  /\ UNCHANGED <<rules, sample, open, mails, hits, found, current, misread, changes>>

NoMoreRows(c) ==
  /\ todo = {}
  /\ Go(c, "next", "done")
  /\ UNCHANGED alertVars

(* The error of the lookup is not looked at and reads as no incident.      *)
Look(c) ==
  /\ \/ /\ Go(c, "look", "act")
        /\ found' = IF open[row] > 0 THEN "open" ELSE "none"
        /\ UNCHANGED misread
     \/ /\ GoFailed(c, "look", "act")
        /\ found' = "none"
        /\ misread' = "yes"
  /\ UNCHANGED <<rules, sample, open, mails, todo, hits, row, current, changes>>

Fires    == row \in hits /\ found = "none"
Resolves == row \notin hits /\ found = "open"

(* Mutant of Opened: it does not ask whether an incident is open.          *)
OpenedAgain ==
  CASE row \in hits /\ rules[row] # "none" -> [open EXCEPT ![row] = @ + 1]
    [] Resolves /\ open[row] > 0 -> [open EXCEPT ![row] = @ - 1]
    [] OTHER -> open

(* A rule that was deleted takes its incidents with it and gets no new one.*)
Opened ==
  CASE Fires /\ rules[row] # "none" -> [open EXCEPT ![row] = @ + 1]
    [] Resolves /\ open[row] > 0 -> [open EXCEPT ![row] = @ - 1]
    [] OTHER -> open

(* The mail goes out whether or not the INSERT succeeded.                  *)
Act(c) ==
  /\ \/ Go(c, "act", "next") /\ open' = Opened /\ UNCHANGED current
     \/ GoFailed(c, "act", "next") /\ UNCHANGED open /\ current' = current \ {row}
  /\ mails' = IF Fires THEN mails + 1 ELSE mails
  /\ UNCHANGED <<rules, sample, todo, hits, row, found, misread, changes>>

(* The goroutine ends; a mail that fails is logged and forgotten.          *)
Notify ==
  /\ mails > 0
  /\ mails' = mails - 1
  /\ UNCHANGED <<callVars, rules, sample, open, passVars, current, misread, changes>>

(***************************************************************************)
(* Users, samples and restarts                                             *)
(***************************************************************************)
(* CreateRule.                                                             *)
CreateRule(r, side) ==
  /\ rules[r] = "none"
  /\ rules' = [rules EXCEPT ![r] = side]
  /\ UNCHANGED open

(* UpdateRule rewrites the row; the incidents are left as they are.        *)
UpdateRule(r, side) ==
  /\ rules[r] # "none"
  /\ rules' = [rules EXCEPT ![r] = side]
  /\ UNCHANGED open

(* DeleteRule; alert_incidents references the rule ON DELETE CASCADE.      *)
DeleteRule(r) ==
  /\ rules[r] # "none"
  /\ rules' = [rules EXCEPT ![r] = "none"]
  /\ open' = [open EXCEPT ![r] = 0]

ChangeRule(r) ==
  /\ changes < MaxChanges
  /\ changes' = changes + 1
  /\ \/ \E side \in {"above", "below", "paused"} : UpdateRule(r, side)
     \/ \E side \in {"above", "below"} : CreateRule(r, side)
     \/ DeleteRule(r)
  /\ current' = current \ {r}
  /\ UNCHANGED <<callVars, sample, mails, passVars, misread>>

(* The collector's ticker, or a heartbeat, stores a sample.                *)
SaveMetrics(s) ==
  /\ changes < MaxChanges
  /\ changes' = changes + 1
  /\ sample' = s
  /\ current' = IF s = sample THEN current ELSE {}
  /\ UNCHANGED <<callVars, rules, open, mails, passVars, misread>>

Start(c) == EvaluateRules(c)

Step(c) == (\E r \in Rules : NextRow(c, r)) \/ NoMoreRows(c) \/ Look(c) \/ Act(c)

Environment ==
  \/ Notify
  \/ \E r \in Rules : ChangeRule(r)
  \/ \E s \in {"low", "high"} : SaveMetrics(s)

Crash ==
  /\ CrashCalls
  /\ mails' = 0
  /\ current' = {}
  /\ UNCHANGED <<rules, sample, open, passVars, misread, changes>>

Next == (\E c \in Calls : Start(c) \/ Step(c)) \/ Environment \/ Crash

Spec == Init /\ [][Next]_vars

AlertsTypeOK ==
  /\ CallsTypeOK(Ops, Labels)
  /\ rules \in [Rules -> {"none", "paused", "above", "below"}]
  /\ sample \in {"none", "low", "high"}
  /\ open \in [Rules -> Nat] /\ mails \in Nat
  /\ todo \subseteq Rules /\ hits \subseteq Rules
  /\ row \in Rules \cup {NoRow} /\ found \in {"none", "open"}
  /\ current \subseteq Rules
  /\ misread \in {"no", "yes"}
  /\ changes \in 0 .. MaxChanges

(* One pass puts every incident right: once it has ended, a rule that was  *)
(* not changed since its row was read, with no new sample, has an open     *)
(* incident exactly when its threshold is exceeded, whatever earlier passes*)
(* broke off at, decided on outdated rows or failed to write.  It has only *)
(* one, unless a lookup failed: then an incident is opened a second time   *)
(* and a pass resolves one of the two.                                     *)
IncidentsAreCurrent ==
  Quiet => \A r \in current :
    /\ Breached(r) => open[r] > 0
    /\ misread = "no" => open[r] = IF Breached(r) THEN 1 ELSE 0
=============================================================================
