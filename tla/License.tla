------------------------------ MODULE License ------------------------------
(***************************************************************************)
(* The licence of an installation, backend/internal/services/              *)
(* license_service.go: Verify chooses a key, asks the licence server about *)
(* it, stores the answer in the field status and copies that field, one    *)
(* setting at a time, to the table system_settings.                        *)
(*                                                                         *)
(* Verify runs in the background every six hours and in the HTTP handlers  *)
(* Activate and Refresh.  No lock is held, so calls overlap: status is     *)
(* written in two steps here (its plan, then its features), which are      *)
(* outcomes of the data race the code has.  Of the eight settings persist  *)
(* writes, license_plan_type, read when its turn comes, and                *)
(* license_features, marshalled before the first upsert, stand for all.    *)
(*                                                                         *)
(* LICENSE_KEY is taken to be unset.  overlap is a history variable.       *)
(***************************************************************************)
EXTENDS Naturals

CONSTANTS
  Keys,        \* licence keys an administrator may enter
  Trial,       \* the trial key the server gives this installation
  NoKey,       \* the empty key
  Background,  \* the goroutine of RunBackgroundChecker
  Handlers,    \* HTTP requests that can run at a time
  MaxSaves,    \* bound: keys entered
  MaxChanges,  \* bound: times the server changes its mind about a key
  MaxTroubles  \* bound: failed statements and requests, cancelled requests, restarts

Calls == Handlers \cup {Background}

ASSUME ConstantsAssumption ==
  /\ Trial \notin Keys /\ NoKey \notin Keys \cup {Trial}
  /\ Background \notin Handlers
  /\ MaxSaves \in Nat /\ MaxChanges \in Nat /\ MaxTroubles \in Nat

VARIABLES
  mem,      \* LicenseService.status: its plan and its features
  db,       \* the same two in system_settings
  paid,     \* the setting license_paid_key
  trial,    \* the setting license_trial_key
  grant,    \* what the licence server answers for each key, "none" for invalid
  pc,       \* where each call of Verify is
  hand,     \* the key it asks about, the plan it stores or writes
  json,     \* the features its persist has marshalled
  ctx,      \* its context, "live" or "cancelled"
  overlap,  \* history: "yes" once the last writer of mem was not alone
  saves, changes, troubles

settings == <<db, paid, trial>>
bounds == <<saves, changes, troubles>>
vars == <<mem, db, paid, trial, grant, pc, hand, json, ctx, overlap, saves, changes,
          troubles>>

PaidPlans == {"enterprise", "reseller"}
Plans     == {"", "community", "trial"} \cup PaidPlans
Features  == {"", "community"} \cup PaidPlans
CallPCs   == {"idle", "paid", "trial", "request", "save", "ask", "plan", "features",
              "marshal", "read", "writePlan", "writeFeatures"}
Blank     == [plan |-> "", features |-> ""]

(* The call has stored a plan and has not yet written all of its settings. *)
Writing(v) == pc[v] \in {"features", "marshal", "read", "writePlan", "writeFeatures"}

(***************************************************************************)
(* Helpers                                                                 *)
(***************************************************************************)
Trouble == troubles < MaxTroubles /\ troubles' = troubles + 1

(* A statement or an HTTP request of the call does what it should, or      *)
(* fails, as all do once the browser has gone and the context with it.     *)
Works(v) == ctx[v] = "live" /\ UNCHANGED troubles
Fails(v) == \/ ctx[v] = "cancelled" /\ UNCHANGED troubles
            \/ ctx[v] = "live" /\ Trouble

Goto(v, label, value) ==
  /\ pc' = [pc EXCEPT ![v] = label]
  /\ hand' = [hand EXCEPT ![v] = value]
  /\ UNCHANGED json

(* mapFeatures: trial has the features of enterprise.                      *)
FeaturesOf(plan) == IF plan = "trial" THEN "enterprise" ELSE plan

(* The plan of a valid key.                                                *)
PlanOf(k) == IF k = Trial THEN "trial" ELSE grant[k]

(* resolveKey's order of preference.                                       *)
BestKey == IF paid # NoKey THEN paid ELSE trial

Init ==
  /\ mem = Blank
  /\ db = Blank
  /\ paid = NoKey
  /\ trial = NoKey
  /\ grant \in [Keys \cup {Trial} -> PaidPlans \cup {"none"}]
  /\ grant[Trial] # "reseller"
  /\ pc = [v \in Calls |-> "idle"]
  /\ hand = [v \in Calls |-> ""]
  /\ json = [v \in Calls |-> ""]
  /\ ctx = [v \in Calls |-> "live"]
  /\ overlap = "no"
  /\ saves = 0 /\ changes = 0 /\ troubles = 0

(***************************************************************************)
(* What starts a Verify                                                    *)
(***************************************************************************)

(* Mutant of Tick: the goroutine verifies once, without its ticker.        *)
TickOnce ==
  /\ pc[Background] = "idle"
  /\ mem.plan = ""
  /\ Goto(Background, "paid", "")
  /\ UNCHANGED <<mem, settings, grant, ctx, overlap, bounds>>

(* Five seconds after the start, then every six hours.                     *)
Tick ==
  /\ pc[Background] = "idle"
  /\ Goto(Background, "paid", "")
  /\ UNCHANGED <<mem, settings, grant, ctx, overlap, bounds>>

Refresh(v) ==
  /\ pc[v] = "idle"
  /\ Goto(v, "paid", "")
  /\ ctx' = [ctx EXCEPT ![v] = "live"]
  /\ UNCHANGED <<mem, settings, grant, overlap, bounds>>

(* SaveLicenseKey; a key of blanks only passes the binding and is saved as *)
(* the empty key.                                                          *)
Activate(v, k) ==
  /\ pc[v] = "idle"
  /\ saves < MaxSaves
  /\ saves' = saves + 1
  /\ paid' = k
  /\ Goto(v, "paid", "")
  /\ ctx' = [ctx EXCEPT ![v] = "live"]
  /\ UNCHANGED <<mem, db, trial, grant, overlap, changes, troubles>>

(***************************************************************************)
(* resolveKey and requestTrial                                             *)
(***************************************************************************)

(* A SELECT that fails is taken for a setting that is not there.           *)
ReadPaid(v) ==
  /\ pc[v] = "paid"
  /\ \/ Works(v) /\ paid # NoKey /\ Goto(v, "ask", paid)
     \/ Works(v) /\ paid = NoKey /\ Goto(v, "trial", "")
     \/ Fails(v) /\ Goto(v, "trial", "")
  /\ UNCHANGED <<mem, settings, grant, ctx, overlap, saves, changes>>

ReadTrial(v) ==
  /\ pc[v] = "trial"
  /\ \/ Works(v) /\ trial # NoKey /\ Goto(v, "ask", trial)
     \/ Works(v) /\ trial = NoKey /\ Goto(v, "request", "")
     \/ Fails(v) /\ Goto(v, "request", "")
  /\ UNCHANGED <<mem, settings, grant, ctx, overlap, saves, changes>>

(* The server grants a trial, refuses it, or does not answer: without a    *)
(* key the installation becomes a community one.                           *)
RequestTrial(v) ==
  /\ pc[v] = "request"
  /\ \/ Works(v) /\ grant[Trial] # "none" /\ Goto(v, "save", Trial)
     \/ Works(v) /\ grant[Trial] = "none" /\ Goto(v, "plan", "community")
     \/ Fails(v) /\ Goto(v, "plan", "community")
  /\ UNCHANGED <<mem, settings, grant, ctx, overlap, saves, changes>>

SaveTrial(v) ==
  /\ pc[v] = "save"
  /\ \/ Works(v) /\ trial' = hand[v]
     \/ Fails(v) /\ UNCHANGED trial
  /\ Goto(v, "ask", hand[v])
  /\ UNCHANGED <<mem, db, paid, grant, ctx, overlap, saves, changes>>

(***************************************************************************)
(* The rest of Verify                                                      *)
(***************************************************************************)

(* Mutant of Ask: an outage is taken for a refusal.                        *)
AskDowngrades(v) ==
  /\ pc[v] = "ask"
  /\ \/ Works(v) /\ grant[hand[v]] # "none" /\ Goto(v, "plan", PlanOf(hand[v]))
     \/ Works(v) /\ grant[hand[v]] = "none" /\ Goto(v, "plan", "community")
     \/ Fails(v) /\ Goto(v, "plan", "community")
  /\ UNCHANGED <<mem, settings, grant, ctx, overlap, saves, changes>>

(* The server's answer, or none: keepLastOrCommunity.                      *)
Ask(v) ==
  /\ pc[v] = "ask"
  /\ \/ Works(v) /\ grant[hand[v]] # "none" /\ Goto(v, "plan", PlanOf(hand[v]))
     \/ Works(v) /\ grant[hand[v]] = "none" /\ Goto(v, "plan", "community")
     \/ Fails(v) /\ mem.plan = "" /\ Goto(v, "plan", "community")
     \/ Fails(v) /\ mem.plan # "" /\ Goto(v, "idle", "")
  /\ UNCHANGED <<mem, settings, grant, ctx, overlap, saves, changes>>

StorePlan(v) ==
  /\ pc[v] = "plan"
  /\ mem' = [mem EXCEPT !.plan = hand[v]]
  /\ overlap' = IF \E u \in Calls \ {v} : Writing(u) THEN "yes" ELSE "no"
  /\ Goto(v, "features", hand[v])
  /\ UNCHANGED <<settings, grant, ctx, bounds>>

(* The other half of the assignment.                                       *)
StoreFeatures(v) ==
  /\ pc[v] = "features"
  /\ mem' = [mem EXCEPT !.features = FeaturesOf(hand[v])]
  /\ Goto(v, "marshal", "")
  /\ UNCHANGED <<settings, grant, ctx, overlap, bounds>>

(* persist begins with json.Marshal(s.status.Features).                    *)
Marshal(v) ==
  /\ pc[v] = "marshal"
  /\ pc' = [pc EXCEPT ![v] = "read"]
  /\ json' = [json EXCEPT ![v] = mem.features]
  /\ UNCHANGED <<mem, settings, grant, hand, ctx, overlap, bounds>>

(* The upsert of license_valid has returned; status.PlanType is read for   *)
(* the next.                                                               *)
ReadPlan(v) ==
  /\ pc[v] = "read"
  /\ Goto(v, "writePlan", mem.plan)
  /\ UNCHANGED <<mem, settings, grant, ctx, overlap, bounds>>

(* Mutant of WritePlan: persist ends here.                                 *)
WritePlanOnly(v) ==
  /\ pc[v] = "writePlan"
  /\ \/ Works(v) /\ db' = [db EXCEPT !.plan = hand[v]] /\ UNCHANGED overlap
     \/ Fails(v) /\ UNCHANGED db /\ overlap' = "yes"
  /\ Goto(v, "idle", "")
  /\ UNCHANGED <<mem, paid, trial, grant, ctx, saves, changes>>

(* One upsert of persist.                                                  *)
WritePlan(v) ==
  /\ pc[v] = "writePlan"
  /\ \/ Works(v) /\ db' = [db EXCEPT !.plan = hand[v]] /\ UNCHANGED overlap
     \/ Fails(v) /\ UNCHANGED db /\ overlap' = "yes"
  /\ Goto(v, "writeFeatures", "")
  /\ UNCHANGED <<mem, paid, trial, grant, ctx, saves, changes>>

WriteFeatures(v) ==
  /\ pc[v] = "writeFeatures"
  /\ \/ Works(v) /\ db' = [db EXCEPT !.features = json[v]] /\ UNCHANGED overlap
     \/ Fails(v) /\ UNCHANGED db /\ overlap' = "yes"
  /\ Goto(v, "idle", "")
  /\ UNCHANGED <<mem, paid, trial, grant, ctx, saves, changes>>

(***************************************************************************)
(* Surroundings                                                            *)
(***************************************************************************)

(* The browser of an Activate or a Refresh goes away.                      *)
Disconnect(v) ==
  /\ pc[v] # "idle"
  /\ ctx[v] = "live"
  /\ Trouble
  /\ ctx' = [ctx EXCEPT ![v] = "cancelled"]
  /\ UNCHANGED <<mem, settings, grant, pc, hand, json, overlap, saves, changes>>

(* A key is sold, upgraded, revoked or expires.                            *)
GrantChanges(k) ==
  /\ changes < MaxChanges
  /\ changes' = changes + 1
  /\ \E g \in (IF k = Trial THEN {"enterprise"} ELSE PaidPlans) \cup {"none"} :
       g # grant[k] /\ grant' = [grant EXCEPT ![k] = g]
  /\ UNCHANGED <<mem, settings, pc, hand, json, ctx, overlap, saves, troubles>>

(* The process starts again; loadPersisted reads the settings or fails.    *)
Restart ==
  /\ Trouble
  /\ pc' = [v \in Calls |-> "idle"]
  /\ hand' = [v \in Calls |-> ""]
  /\ json' = [v \in Calls |-> ""]
  /\ ctx' = [v \in Calls |-> "live"]
  /\ \/ /\ mem' = IF db.plan = "" THEN Blank ELSE db
        /\ overlap' = IF \E v \in Calls : Writing(v) THEN "yes" ELSE overlap
     \/ /\ mem' = Blank
        /\ overlap' = "yes"
  /\ UNCHANGED <<settings, grant, saves, changes>>

(* A call of Verify that has begun goes on.                                *)
VerifyStep(v) ==
  \/ ReadPaid(v) \/ ReadTrial(v) \/ RequestTrial(v) \/ SaveTrial(v) \/ Ask(v)
  \/ StorePlan(v) \/ StoreFeatures(v)
  \/ Marshal(v) \/ ReadPlan(v) \/ WritePlan(v) \/ WriteFeatures(v)

Next ==
  \/ Tick
  \/ \E v \in Handlers : Refresh(v) \/ Disconnect(v)
  \/ \E v \in Handlers, k \in Keys \cup {NoKey} : Activate(v, k)
  \/ \E v \in Calls : VerifyStep(v)
  \/ \E k \in Keys \cup {Trial} : GrantChanges(k)
  \/ Restart

Spec == Init /\ [][Next]_vars

(* The ticker fires, and every statement and request comes to an end: the  *)
(* HTTP client has a timeout of 15 seconds.                                *)
FairSpec == Spec /\ WF_vars(Tick) /\ \A v \in Calls : WF_vars(VerifyStep(v))

(***************************************************************************)
(* Properties                                                              *)
(***************************************************************************)

(* What a call can have in hand at each place.                             *)
HandFits(place, value) ==
  /\ place = "save" => value = Trial
  /\ place = "ask" => value \in Keys \cup {Trial}
  /\ place \in {"plan", "features"} => value \in Plans \ {""}
  /\ place = "writePlan" => value \in Plans

CallsTyped ==
  /\ pc \in [Calls -> CallPCs]
  /\ hand \in [Calls -> Keys \cup {Trial, NoKey} \cup Plans]
  /\ json \in [Calls -> Features]
  /\ \A v \in Calls : HandFits(pc[v], hand[v])

(* Types, and every call has in hand what its next step needs.             *)
TypeOK ==
  /\ mem \in [plan : Plans, features : Features]
  /\ db \in [plan : Plans, features : Features]
  /\ paid \in Keys \cup {NoKey}
  /\ trial \in {Trial, NoKey}
  /\ grant \in [Keys \cup {Trial} -> PaidPlans \cup {"none"}]
  /\ CallsTyped
  /\ ctx \in [Calls -> {"live", "cancelled"}]
  /\ overlap \in {"yes", "no"}
  /\ saves \in 0..MaxSaves
  /\ changes \in 0..MaxChanges
  /\ troubles \in 0..MaxTroubles

(* After a Verify that ran alone and whose upserts succeeded, status is in *)
(* one piece and a restart gets it back from the settings whole, whatever  *)
(* earlier calls, outages and restarts have left in either.                *)
PersistedIsCurrent ==
  overlap = "no" /\ (\A v \in Calls : ~Writing(v)) =>
    db = mem /\ mem.features = FeaturesOf(mem.plan)

(* The plan of the valid paid key is in force and in the settings, and no  *)
(* Verify on its way has read anything else.                               *)
Settled ==
  /\ paid # NoKey /\ grant[paid] # "none"
  /\ mem.plan = grant[paid] /\ db.plan = grant[paid]
  /\ \A v \in Calls :
       /\ pc[v] \notin {"trial", "request", "save"}
       /\ pc[v] = "ask" => hand[v] = paid
       /\ pc[v] \in {"plan", "features", "writePlan"} => hand[v] = grant[paid]

(* "This avoids punishing users for temporary network issues" (line 323):  *)
(* once a paid plan is settled, no outage, restart or overlap of calls     *)
(* takes it away, as long as the SELECTs of the key and of loadPersisted   *)
(* succeed and neither the key nor the server's answer changes.            *)
OutageKeepsPlan ==
  [][Settled /\ paid' = paid /\ grant' = grant /\ mem'.plan # ""
       /\ (\A v \in Calls : pc'[v] # "trial")
     => Settled']_vars

(* What status should say.                                                 *)
Wanted ==
  IF BestKey = NoKey \/ grant[BestKey] = "none" THEN "community" ELSE PlanOf(BestKey)

(* When keys, answers and troubles stop changing, status and the settings  *)
(* become the plan of the best key and stay so: calls that overlap or come *)
(* late do damage only until the next tick.                                *)
Converges ==
  <>[](/\ mem.plan = Wanted /\ mem.features = FeaturesOf(Wanted)
       /\ db = mem)

(***************************************************************************)
(* The inductive invariant behind PersistedIsCurrent                       *)
(***************************************************************************)

(* The last writer of mem, if alone, has written what it says it has.      *)
WriterAlone ==
  overlap = "no" =>
    /\ \A u, v \in Calls : Writing(u) /\ Writing(v) => u = v
    /\ \A v \in Calls :
         /\ pc[v] = "features" => mem.plan = hand[v]
         /\ pc[v] \in {"marshal", "read", "writePlan", "writeFeatures"} =>
              mem.features = FeaturesOf(mem.plan)
         /\ pc[v] \in {"read", "writePlan", "writeFeatures"} => json[v] = mem.features
         /\ pc[v] = "writePlan" => mem.plan = hand[v]
         /\ pc[v] = "writeFeatures" => db.plan = mem.plan

InductiveInv == WriterAlone /\ PersistedIsCurrent
=============================================================================
