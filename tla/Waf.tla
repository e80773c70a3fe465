-------------------------------- MODULE Waf --------------------------------
(***************************************************************************)
(* The web application firewall of one server: WAFService of               *)
(* backend/internal/services/waf_service.go and its handler.               *)
(*                                                                         *)
(* UpdateConfig changes the row and leaves a goroutine that writes         *)
(* ModSecurity's configuration from the row as it was returned to this     *)
(* call, and reloads nginx if nginx accepts it.                            *)
(***************************************************************************)
EXTENDS Background

VARIABLES
  row,          \* waf_configs: NoRow or [enabled, mode]
  snap,         \* per call: the row its UPDATE returned
  file,         \* SecRuleEngine in main.conf on the server
  running,      \* SecRuleEngine nginx has loaded
  disabled,     \* rows of waf_rules, a rule disabled: "none", "one"
  whitelist,    \* rows of waf_whitelist: "none", "one"
  crossed       \* history: two goroutines wrote main.conf at the same time

wafVars == <<row, snap, file, running, disabled, whitelist, crossed>>
vars == <<op, pc, clash, crashed, troubles, lost, row, snap, file, running, disabled, whitelist, crossed>>

Modes   == {"detection_only", "blocking"}
Configs == [enabled : {"yes", "no"}, mode : Modes]
NoRow   == [enabled |-> "none", mode |-> "none"]
Default == [enabled |-> "no", mode |-> "detection_only"]

Ops    == {"get", "update"}
Labels == {"select", "insert", "update", "apply"}

Init ==
  /\ CallsInit
  /\ row = NoRow
  /\ snap = [c \in Calls |-> NoRow]
  /\ file = "Off" /\ running = "Off"
  /\ disabled = "none" /\ whitelist = "none"
  /\ crossed = "no"

(***************************************************************************)
(* Rows                                                                    *)
(***************************************************************************)
GetConfig(c) ==
  /\ Begin(c, "get", "select")
  /\ UNCHANGED wafVars

(* UpdateConfig begins with a GetConfig of its own.                        *)
UpdateConfig(c) ==
  /\ Begin(c, "update", "select")
  /\ UNCHANGED wafVars

AfterGet(c) == IF op[c] = "update" THEN "update" ELSE "done"

(* Whatever the error of the SELECT, a default row is tried.               *)
Select(c) ==
  /\ \/ Go(c, "select", IF row = NoRow THEN "insert" ELSE AfterGet(c))
     \/ GoFailed(c, "select", "insert")
  /\ UNCHANGED wafVars

(* The INSERT that conflicts does nothing and returns no row: the call     *)
(* fails, although the configuration is there.                             *)
InsertDefault(c) ==
  /\ \/ row = NoRow /\ Go(c, "insert", AfterGet(c)) /\ row' = Default
     \/ row # NoRow /\ Go(c, "insert", "done") /\ UNCHANGED row
  /\ UNCHANGED <<snap, file, running, disabled, whitelist, crossed>>

(* Mutant of Update: the goroutine is given the row GetConfig returned.    *)
UpdateOld(c) ==
  /\ Go(c, "update", "apply")
  /\ row' \in Configs
  /\ snap' = [snap EXCEPT ![c] = row]
  /\ crossed' = IF \E d \in Calls : pc[d] = "apply" THEN "yes" ELSE crossed
  /\ UNCHANGED <<file, running, disabled, whitelist>>

(* A request names the columns it changes, one or both of these; the others*)
(* keep their value in the UPDATE itself.                                  *)
Update(c) ==
  /\ Go(c, "update", "apply")
  /\ \E cfg \in Configs :
       /\ row' = cfg
       /\ snap' = [snap EXCEPT ![c] = cfg]
  /\ crossed' = IF \E d \in Calls : pc[d] = "apply" THEN "yes" ELSE crossed
  /\ UNCHANGED <<file, running, disabled, whitelist>>

(***************************************************************************)
(* applyWAFConfig                                                          *)
(***************************************************************************)
Engine(cfg) ==
  CASE cfg.enabled # "yes"   -> "Off"
    [] cfg.mode = "blocking" -> "On"
    [] OTHER                 -> "DetectionOnly"

(* The script may fail before it writes the file, or when nginx refuses    *)
(* the file: then the file is there and nginx goes on with the old one.    *)
Apply(c) ==
  LET e == Engine(snap[c]) IN
  /\ \/ Go(c, "apply", "done") /\ file' = e /\ running' = e
     \/ GoFailed(c, "apply", "done") /\ file' \in {file, e} /\ UNCHANGED running
  /\ UNCHANGED <<row, snap, disabled, whitelist, crossed>>

(***************************************************************************)
(* Disabled rules and the whitelist are rows only: no script reads them.   *)
(***************************************************************************)
DisableRule == disabled = "none" /\ disabled' = "one" /\ UNCHANGED whitelist

EnableRule == disabled = "one" /\ disabled' = "none" /\ UNCHANGED whitelist

AddWhitelist == whitelist = "none" /\ whitelist' = "one" /\ UNCHANGED disabled

RemoveWhitelist == whitelist = "one" /\ whitelist' = "none" /\ UNCHANGED disabled

Start(c) == GetConfig(c) \/ UpdateConfig(c)

Step(c) == Select(c) \/ InsertDefault(c) \/ Update(c) \/ Apply(c)

Lists ==
  /\ DisableRule \/ EnableRule \/ AddWhitelist \/ RemoveWhitelist
  /\ UNCHANGED <<callVars, row, snap, file, running, crossed>>

Crash == CrashCalls /\ UNCHANGED wafVars

Next == (\E c \in Calls : Start(c) \/ Step(c)) \/ Lists \/ Crash

Spec == Init /\ [][Next]_vars

WafTypeOK ==
  /\ CallsTypeOK(Ops, Labels)
  /\ row \in Configs \cup {NoRow}
  /\ snap \in [Calls -> Configs \cup {NoRow}]
  /\ {file, running} \subseteq {"Off", "DetectionOnly", "On"}
  /\ {disabled, whitelist} \subseteq {"none", "one"}
  /\ crossed \in {"no", "yes"}

(* nginx runs the firewall the panel shows, once every call has ended.     *)
(* Calls may overlap, as long as no two goroutines are on the server at    *)
(* the same time: their scripts may land in the other order than their     *)
(* UPDATEs (crossed).  A script that fails, or a restart before it has     *)
(* run, is not made up for (troubles).                                     *)
EngineFollowsRow ==
  Quiet /\ crossed = "no" /\ troubles = 0 => running = Engine(row) /\ file = running
=============================================================================
