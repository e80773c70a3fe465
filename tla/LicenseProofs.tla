---------------------------- MODULE LicenseProofs ----------------------------
(***************************************************************************)
(* Theorems about License for every number of keys and of HTTP requests    *)
(* that run at a time, and every number of troubles.                       *)
(***************************************************************************)
EXTENDS License, TLAPS

(* The typed invariant the proof carries.                                  *)
IInv == TypeOK /\ InductiveInv

(* A fresh installation: nothing stored, nothing running.                  *)
LEMMA InitIInv == Init => IInv
<1> SUFFICES ASSUME Init PROVE IInv
  OBVIOUS
<1>1. CallsTyped
  BY DEF Init, CallsTyped, HandFits, Plans, Features, CallPCs
<1>2. Blank \in [plan : Plans, features : Features]
  BY DEF Blank, Plans, Features
<1>3. saves \in 0..MaxSaves /\ changes \in 0..MaxChanges /\ troubles \in 0..MaxTroubles
  <2>1. saves = 0 /\ changes = 0 /\ troubles = 0
    BY DEF Init
  <2> QED BY <2>1, ConstantsAssumption
<1>4. ctx \in [Calls -> {"live", "cancelled"}] /\ mem = Blank /\ db = Blank
  BY DEF Init
<1>5. grant \in [Keys \cup {Trial} -> PaidPlans \cup {"none"}] /\ overlap = "no"
  BY DEF Init
<1>6. paid \in Keys \cup {NoKey} /\ trial \in {Trial, NoKey}
  BY DEF Init
<1>7. TypeOK
  BY <1>1, <1>2, <1>3, <1>4, <1>5, <1>6 DEF TypeOK
<1>8. InductiveInv
  BY DEF Init, InductiveInv, WriterAlone, PersistedIsCurrent, Writing, Blank, FeaturesOf
<1> QED BY <1>7, <1>8 DEF IInv

(* Whether statements work or fail, troubles stay within their bound.      *)
LEMMA TroubleBound ==
  ASSUME NEW v \in Calls, troubles \in 0..MaxTroubles, Works(v) \/ Fails(v) \/ Trouble
  PROVE  troubles' \in 0..MaxTroubles
  BY ConstantsAssumption DEF Works, Fails, Trouble

(* A call that goes to a place with something that fits it.                *)
LEMMA GotoTyped ==
  ASSUME TypeOK, NEW v \in Calls, NEW label \in CallPCs,
         NEW value \in Keys \cup {Trial, NoKey} \cup Plans,
         Goto(v, label, value), HandFits(label, value)
  PROVE  CallsTyped'
<1>1. \A u \in Calls : \/ u = v /\ pc'[u] = label /\ hand'[u] = value
                       \/ u # v /\ pc'[u] = pc[u] /\ hand'[u] = hand[u]
  BY DEF Goto, TypeOK, CallsTyped
<1>2. \A u \in Calls : HandFits(pc'[u], hand'[u])
  BY <1>1 DEF TypeOK, CallsTyped
<1> QED BY <1>2 DEF Goto, TypeOK, CallsTyped

(* Every step keeps the types.                                             *)
LEMMA TypeStep ==
  ASSUME IInv, [Next]_vars
  PROVE  TypeOK'
<1> USE ConstantsAssumption DEF IInv
<1>1. CASE Tick
  <2>1. Goto(Background, "paid", "")
    BY <1>1 DEF Tick, TypeOK, CallsTyped, HandFits, PaidPlans
  <2>2. CallsTyped'
    BY <2>1, GotoTyped
    DEF HandFits, CallPCs, Plans, PaidPlans, Features, Calls, TypeOK
  <2> QED BY <1>1, <2>2 DEF Tick, TypeOK, settings, bounds
<1>2. ASSUME NEW v \in Handlers, Refresh(v) PROVE TypeOK'
  <2>1. Goto(v, "paid", "")
    BY <1>2 DEF Refresh, TypeOK, CallsTyped, HandFits, PaidPlans
  <2>2. CallsTyped'
    BY <2>1, GotoTyped
    DEF HandFits, CallPCs, Plans, PaidPlans, Features, Calls, TypeOK
  <2> QED BY <1>2, <2>2 DEF Refresh, TypeOK, settings, bounds
<1>3. ASSUME NEW v \in Handlers, Disconnect(v) PROVE TypeOK'
  <2>1. troubles' \in 0..MaxTroubles
    BY <1>3, TroubleBound DEF Disconnect, TypeOK, Calls
  <2>2. ctx' \in [Calls -> {"live", "cancelled"}]
    BY <1>3 DEF Disconnect, TypeOK
  <2>3. CallsTyped'
    BY <1>3 DEF Disconnect, TypeOK, CallsTyped
  <2> QED BY <1>3, <2>1, <2>2, <2>3 DEF Disconnect, TypeOK, settings
<1>4. ASSUME NEW v \in Handlers, NEW k \in Keys \cup {NoKey}, Activate(v, k) PROVE TypeOK'
  <2>1. Goto(v, "paid", "")
    BY <1>4 DEF Activate, TypeOK, CallsTyped, HandFits, PaidPlans
  <2>2. CallsTyped'
    BY <2>1, GotoTyped
    DEF HandFits, CallPCs, Plans, PaidPlans, Features, Calls, TypeOK
  <2>3. saves' \in 0..MaxSaves
    <3>1. saves < MaxSaves /\ saves' = saves + 1 /\ saves \in 0..MaxSaves
      BY <1>4 DEF Activate, TypeOK
    <3> QED BY <3>1
  <2>4. ctx' \in [Calls -> {"live", "cancelled"}]
    BY <1>4 DEF Activate, TypeOK
  <2> QED BY <1>4, <2>2, <2>3, <2>4 DEF Activate, TypeOK
<1>5. ASSUME NEW v \in Calls, ReadPaid(v) PROVE TypeOK'
  <2>1. \/ Goto(v, "ask", paid) /\ paid \in Keys
        \/ Goto(v, "trial", "")
    BY <1>5 DEF ReadPaid, TypeOK, CallsTyped, HandFits, PaidPlans
  <2>2. CallsTyped'
    BY <2>1, GotoTyped
    DEF HandFits, CallPCs, Plans, PaidPlans, Features, Calls, TypeOK
  <2>4. troubles' \in 0..MaxTroubles
    BY <1>5, TroubleBound DEF ReadPaid, TypeOK
  <2>5. UNCHANGED <<saves, changes>>
    BY <1>5 DEF ReadPaid
  <2> QED BY <1>5, <2>2, <2>4, <2>5 DEF ReadPaid, TypeOK, settings
<1>6. ASSUME NEW v \in Calls, ReadTrial(v) PROVE TypeOK'
  <2>1. \/ Goto(v, "ask", trial) /\ trial = Trial
        \/ Goto(v, "request", "")
    BY <1>6 DEF ReadTrial, TypeOK, CallsTyped, HandFits, PaidPlans
  <2>2. CallsTyped'
    BY <2>1, GotoTyped
    DEF HandFits, CallPCs, Plans, PaidPlans, Features, Calls, TypeOK
  <2>4. troubles' \in 0..MaxTroubles
    BY <1>6, TroubleBound DEF ReadTrial, TypeOK
  <2>5. UNCHANGED <<saves, changes>>
    BY <1>6 DEF ReadTrial
  <2> QED BY <1>6, <2>2, <2>4, <2>5 DEF ReadTrial, TypeOK, settings
<1>7. ASSUME NEW v \in Calls, RequestTrial(v) PROVE TypeOK'
  <2>1. \/ Goto(v, "save", Trial)
        \/ Goto(v, "plan", "community")
    BY <1>7 DEF RequestTrial, TypeOK, CallsTyped, HandFits, PaidPlans
  <2>2. CallsTyped'
    BY <2>1, GotoTyped
    DEF HandFits, CallPCs, Plans, PaidPlans, Features, Calls, TypeOK
  <2>4. troubles' \in 0..MaxTroubles
    BY <1>7, TroubleBound DEF RequestTrial, TypeOK
  <2>5. UNCHANGED <<saves, changes>>
    BY <1>7 DEF RequestTrial
  <2> QED BY <1>7, <2>2, <2>4, <2>5 DEF RequestTrial, TypeOK, settings
<1>8. ASSUME NEW v \in Calls, SaveTrial(v) PROVE TypeOK'
  <2>1. Goto(v, "ask", hand[v]) /\ hand[v] = Trial
    BY <1>8 DEF SaveTrial, TypeOK, CallsTyped, HandFits, PaidPlans
  <2>2. CallsTyped'
    BY <2>1, GotoTyped
    DEF HandFits, CallPCs, Plans, PaidPlans, Features, Calls, TypeOK
  <2>4. troubles' \in 0..MaxTroubles
    BY <1>8, TroubleBound DEF SaveTrial, TypeOK
  <2>5. UNCHANGED <<saves, changes>>
    BY <1>8 DEF SaveTrial
  <2>6. trial' \in {Trial, NoKey}
    BY <1>8, <2>1 DEF SaveTrial, TypeOK
  <2> QED BY <1>8, <2>2, <2>4, <2>5, <2>6 DEF SaveTrial, TypeOK
<1>9. ASSUME NEW v \in Calls, Ask(v) PROVE TypeOK'
  <2>1. \/ Goto(v, "plan", PlanOf(hand[v])) /\ PlanOf(hand[v]) \in PaidPlans \cup {"trial"}
        \/ Goto(v, "plan", "community")
        \/ Goto(v, "idle", "")
    BY <1>9 DEF Ask, TypeOK, CallsTyped, HandFits, PaidPlans, PlanOf
  <2>2. CallsTyped'
    BY <2>1, GotoTyped
    DEF HandFits, CallPCs, Plans, PaidPlans, Features, Calls, TypeOK
  <2>4. troubles' \in 0..MaxTroubles
    BY <1>9, TroubleBound DEF Ask, TypeOK
  <2>5. UNCHANGED <<saves, changes>>
    BY <1>9 DEF Ask
  <2> QED BY <1>9, <2>2, <2>4, <2>5 DEF Ask, TypeOK, settings
<1>10. ASSUME NEW v \in Calls, StorePlan(v) PROVE TypeOK'
  <2>1. Goto(v, "features", hand[v]) /\ hand[v] \in Plans \ {""}
    BY <1>10 DEF StorePlan, TypeOK, CallsTyped, HandFits, PaidPlans
  <2>2. CallsTyped'
    BY <2>1, GotoTyped
    DEF HandFits, CallPCs, Plans, PaidPlans, Features, Calls, TypeOK
  <2>3. hand[v] \in Plans
    BY <1>10 DEF StorePlan, TypeOK, CallsTyped, HandFits
  <2> QED BY <1>10, <2>2, <2>3 DEF StorePlan, TypeOK, settings, bounds
<1>11. ASSUME NEW v \in Calls, StoreFeatures(v) PROVE TypeOK'
  <2>1. Goto(v, "marshal", "")
    BY <1>11 DEF StoreFeatures, TypeOK, CallsTyped, HandFits, PaidPlans
  <2>2. CallsTyped'
    BY <2>1, GotoTyped
    DEF HandFits, CallPCs, Plans, PaidPlans, Features, Calls, TypeOK
  <2>3. FeaturesOf(hand[v]) \in Features
    BY <1>11 DEF StoreFeatures, TypeOK, CallsTyped, HandFits, FeaturesOf, Plans, Features,
         PaidPlans
  <2> QED BY <1>11, <2>2, <2>3 DEF StoreFeatures, TypeOK, settings, bounds
<1>12. ASSUME NEW v \in Calls, WritePlan(v) PROVE TypeOK'
  <2>1. Goto(v, "writeFeatures", "")
    BY <1>12 DEF WritePlan, TypeOK, CallsTyped, HandFits, PaidPlans
  <2>2. CallsTyped'
    BY <2>1, GotoTyped
    DEF HandFits, CallPCs, Plans, PaidPlans, Features, Calls, TypeOK
  <2>3. hand[v] \in Plans
    BY <1>12 DEF WritePlan, TypeOK, CallsTyped, HandFits
  <2>4. troubles' \in 0..MaxTroubles
    BY <1>12, TroubleBound DEF WritePlan, TypeOK
  <2>5. UNCHANGED <<saves, changes>>
    BY <1>12 DEF WritePlan
  <2> QED BY <1>12, <2>2, <2>3, <2>4, <2>5 DEF WritePlan, TypeOK, settings
<1>13. ASSUME NEW v \in Calls, WriteFeatures(v) PROVE TypeOK'
  <2>1. Goto(v, "idle", "")
    BY <1>13 DEF WriteFeatures, TypeOK, CallsTyped, HandFits, PaidPlans
  <2>2. CallsTyped'
    BY <2>1, GotoTyped
    DEF HandFits, CallPCs, Plans, PaidPlans, Features, Calls, TypeOK
  <2>3. json[v] \in Features
    BY <1>13 DEF WriteFeatures, TypeOK, CallsTyped
  <2>4. troubles' \in 0..MaxTroubles
    BY <1>13, TroubleBound DEF WriteFeatures, TypeOK
  <2>5. UNCHANGED <<saves, changes>>
    BY <1>13 DEF WriteFeatures
  <2> QED BY <1>13, <2>2, <2>3, <2>4, <2>5 DEF WriteFeatures, TypeOK, settings
<1>14. ASSUME NEW k \in Keys \cup {Trial}, GrantChanges(k) PROVE TypeOK'
  <2>1. grant' \in [Keys \cup {Trial} -> PaidPlans \cup {"none"}]
    BY <1>14 DEF GrantChanges, TypeOK, PaidPlans
  <2>2. changes' \in 0..MaxChanges
    BY <1>14 DEF GrantChanges, TypeOK
  <2>3. CallsTyped'
    BY <1>14 DEF GrantChanges, TypeOK, CallsTyped
  <2> QED BY <1>14, <2>1, <2>2, <2>3 DEF GrantChanges, TypeOK, settings
<1>15. CASE Restart
  <2>1. CallsTyped'
    BY <1>15 DEF Restart, CallsTyped, CallPCs, HandFits, Plans, Features
  <2>2. mem' \in [plan : Plans, features : Features]
    <3>1. Blank \in [plan : Plans, features : Features]
      BY DEF Blank, Plans, Features
    <3>2. mem' = Blank \/ mem' = db
      BY <1>15 DEF Restart
    <3> QED BY <3>1, <3>2 DEF TypeOK
  <2>3. troubles' \in 0..MaxTroubles
    BY <1>15, TroubleBound DEF Restart, TypeOK, Calls
  <2>4. overlap' \in {"yes", "no"}
    BY <1>15 DEF Restart, TypeOK
  <2>5. ctx' \in [Calls -> {"live", "cancelled"}]
    BY <1>15 DEF Restart
  <2> QED BY <1>15, <2>1, <2>2, <2>3, <2>4, <2>5 DEF Restart, TypeOK, settings
<1>16. CASE UNCHANGED vars
  <2>1. CallsTyped'
    BY <1>16 DEF vars, TypeOK, CallsTyped
  <2> QED BY <1>16, <2>1 DEF vars, TypeOK, settings
<1>17. ASSUME NEW v \in Calls, Marshal(v) PROVE TypeOK'
  <2>1. json' \in [Calls -> Features]
    BY <1>17 DEF Marshal, TypeOK, CallsTyped
  <2>2. pc' \in [Calls -> CallPCs]
    BY <1>17 DEF Marshal, TypeOK, CallsTyped, CallPCs
  <2>3. \A u \in Calls : HandFits(pc'[u], hand'[u])
    BY <1>17 DEF Marshal, TypeOK, CallsTyped, HandFits
  <2>4. CallsTyped'
    BY <1>17, <2>1, <2>2, <2>3 DEF Marshal, TypeOK, CallsTyped
  <2> QED BY <1>17, <2>4 DEF Marshal, TypeOK, settings, bounds
<1>18. ASSUME NEW v \in Calls, ReadPlan(v) PROVE TypeOK'
  <2>1. Goto(v, "writePlan", mem.plan)
    BY <1>18 DEF ReadPlan, TypeOK, CallsTyped
  <2>2. CallsTyped'
    BY <2>1, GotoTyped
    DEF HandFits, CallPCs, Plans, PaidPlans, Features, Calls, TypeOK
  <2> QED BY <1>18, <2>2 DEF ReadPlan, TypeOK, settings, bounds
<1> QED BY <1>1, <1>2, <1>3, <1>4, <1>5, <1>6, <1>7, <1>8, <1>9, <1>10, <1>11,
       <1>12, <1>13, <1>14, <1>15, <1>16, <1>17, <1>18
  DEF Next, VerifyStep, Calls

(* A step of a call outside StorePlan to WriteFeatures disturbs no writer. *)
LEMMA Bystander ==
  ASSUME TypeOK, InductiveInv, NEW v \in Calls, ~Writing(v),
         NEW label \in {"idle", "paid", "trial", "request", "save", "ask", "plan"},
         NEW value,
         Goto(v, label, value), UNCHANGED <<mem, db, overlap>>
  PROVE  InductiveInv'
<1>1. \A u \in Calls :
        \/ u = v /\ pc'[u] = label
        \/ u # v /\ pc'[u] = pc[u] /\ hand'[u] = hand[u] /\ json'[u] = json[u]
  BY DEF Goto, TypeOK, CallsTyped
<1>2. \A u \in Calls : Writing(u)' <=> Writing(u)
  BY <1>1 DEF Writing
<1>3. WriterAlone'
  BY <1>1, <1>2 DEF InductiveInv, WriterAlone, Writing
<1>4. PersistedIsCurrent'
  BY <1>2 DEF InductiveInv, PersistedIsCurrent
<1> QED BY <1>3, <1>4 DEF InductiveInv

(* While nobody else is inside, the writer's half-written status and       *)
(* settings are what its place in the code says, and its last upsert       *)
(* completes them.                                                         *)
LEMMA InvStep ==
  ASSUME IInv, [Next]_vars
  PROVE  InductiveInv'
<1> USE ConstantsAssumption DEF IInv, CallPCs
<1>1. CASE Tick
  <2>1. Goto(Background, "paid", "")
    BY <1>1 DEF Tick, TypeOK, CallsTyped, HandFits, PaidPlans
  <2>2. ~Writing(Background) /\ UNCHANGED <<mem, db, overlap>>
    BY <1>1 DEF Tick, Writing, settings
  <2> QED BY <2>1, <2>2, Bystander DEF Calls
<1>2. ASSUME NEW v \in Handlers, Refresh(v) PROVE InductiveInv'
  <2>1. Goto(v, "paid", "")
    BY <1>2 DEF Refresh, TypeOK, CallsTyped, HandFits, PaidPlans
  <2>2. ~Writing(v) /\ UNCHANGED <<mem, db, overlap>>
    BY <1>2 DEF Refresh, Writing, settings
  <2> QED BY <2>1, <2>2, Bystander DEF Calls
<1>3. ASSUME NEW v \in Handlers, Disconnect(v) PROVE InductiveInv'
  BY <1>3
  DEF Disconnect, InductiveInv, WriterAlone, PersistedIsCurrent, Writing, settings
<1>4. ASSUME NEW v \in Handlers, NEW k \in Keys \cup {NoKey}, Activate(v, k) PROVE InductiveInv'
  <2>1. Goto(v, "paid", "")
    BY <1>4 DEF Activate, TypeOK, CallsTyped, HandFits, PaidPlans
  <2>2. ~Writing(v) /\ UNCHANGED <<mem, db, overlap>>
    BY <1>4 DEF Activate, Writing, settings
  <2> QED BY <2>1, <2>2, Bystander DEF Calls
<1>5. ASSUME NEW v \in Calls, ReadPaid(v) PROVE InductiveInv'
  <2>1. \/ Goto(v, "ask", paid) /\ paid \in Keys
        \/ Goto(v, "trial", "")
    BY <1>5 DEF ReadPaid, TypeOK, CallsTyped, HandFits, PaidPlans
  <2>2. ~Writing(v) /\ UNCHANGED <<mem, db, overlap>>
    BY <1>5 DEF ReadPaid, Writing, settings
  <2> QED BY <2>1, <2>2, Bystander DEF Calls
<1>6. ASSUME NEW v \in Calls, ReadTrial(v) PROVE InductiveInv'
  <2>1. \/ Goto(v, "ask", trial) /\ trial = Trial
        \/ Goto(v, "request", "")
    BY <1>6 DEF ReadTrial, TypeOK, CallsTyped, HandFits, PaidPlans
  <2>2. ~Writing(v) /\ UNCHANGED <<mem, db, overlap>>
    BY <1>6 DEF ReadTrial, Writing, settings
  <2> QED BY <2>1, <2>2, Bystander DEF Calls
<1>7. ASSUME NEW v \in Calls, RequestTrial(v) PROVE InductiveInv'
  <2>1. \/ Goto(v, "save", Trial)
        \/ Goto(v, "plan", "community")
    BY <1>7 DEF RequestTrial, TypeOK, CallsTyped, HandFits, PaidPlans
  <2>2. ~Writing(v) /\ UNCHANGED <<mem, db, overlap>>
    BY <1>7 DEF RequestTrial, Writing, settings
  <2> QED BY <2>1, <2>2, Bystander DEF Calls
<1>8. ASSUME NEW v \in Calls, SaveTrial(v) PROVE InductiveInv'
  <2>1. Goto(v, "ask", hand[v]) /\ hand[v] = Trial
    BY <1>8 DEF SaveTrial, TypeOK, CallsTyped, HandFits, PaidPlans
  <2>2. ~Writing(v) /\ UNCHANGED <<mem, db, overlap>>
    BY <1>8 DEF SaveTrial, Writing, settings
  <2> QED BY <2>1, <2>2, Bystander DEF Calls
<1>9. ASSUME NEW v \in Calls, Ask(v) PROVE InductiveInv'
  <2>1. \/ Goto(v, "plan", PlanOf(hand[v])) /\ PlanOf(hand[v]) \in PaidPlans \cup {"trial"}
        \/ Goto(v, "plan", "community")
        \/ Goto(v, "idle", "")
    BY <1>9 DEF Ask, TypeOK, CallsTyped, HandFits, PaidPlans, PlanOf
  <2>2. ~Writing(v) /\ UNCHANGED <<mem, db, overlap>>
    BY <1>9 DEF Ask, Writing, settings
  <2> QED BY <2>1, <2>2, Bystander DEF Calls
<1>10. ASSUME NEW v \in Calls, StorePlan(v) PROVE InductiveInv'
  <2>1. \A u \in Calls : \/ u = v /\ pc'[u] = "features" /\ hand'[u] = hand[v]
                         \/ u # v /\ pc'[u] = pc[u] /\ hand'[u] = hand[u]
    BY <1>10 DEF StorePlan, Goto, TypeOK, CallsTyped
  <2>2. mem'.plan = hand[v]
    BY <1>10 DEF StorePlan, TypeOK, CallsTyped
  <2>3. overlap' = "no" => \A u \in Calls \ {v} : ~Writing(u)
    BY <1>10 DEF StorePlan
  <2>4. WriterAlone'
    BY <2>1, <2>2, <2>3 DEF WriterAlone, Writing
  <2>5. PersistedIsCurrent'
    BY <2>1 DEF PersistedIsCurrent, Writing
  <2> QED BY <2>4, <2>5 DEF InductiveInv
<1>11. ASSUME NEW v \in Calls, StoreFeatures(v) PROVE InductiveInv'
  <2>1. \A u \in Calls : \/ u = v /\ pc'[u] = "marshal"
                         \/ u # v /\ pc'[u] = pc[u] /\ hand'[u] = hand[u]
    BY <1>11 DEF StoreFeatures, Goto, TypeOK, CallsTyped
  <2>2. /\ pc[v] = "features" /\ overlap' = overlap
        /\ mem'.plan = mem.plan /\ mem'.features = FeaturesOf(hand[v])
    BY <1>11 DEF StoreFeatures, TypeOK, CallsTyped
  <2>3. WriterAlone'
    BY <2>1, <2>2 DEF InductiveInv, WriterAlone, Writing
  <2>4. PersistedIsCurrent'
    BY <2>1 DEF PersistedIsCurrent, Writing
  <2> QED BY <2>3, <2>4 DEF InductiveInv
<1>12. ASSUME NEW v \in Calls, WritePlan(v) PROVE InductiveInv'
  <2>1. \A u \in Calls : \/ u = v /\ pc'[u] = "writeFeatures" /\ json'[u] = json[u]
                         \/ u # v /\ pc'[u] = pc[u] /\ hand'[u] = hand[u]
    BY <1>12 DEF WritePlan, Goto, TypeOK, CallsTyped
  <2>2. /\ pc[v] = "writePlan" /\ mem' = mem
        /\ overlap' = "no" => overlap = "no" /\ db'.plan = hand[v]
    BY <1>12 DEF WritePlan, TypeOK, CallsTyped
  <2>3. WriterAlone'
    BY <2>1, <2>2 DEF InductiveInv, WriterAlone, Writing
  <2>4. PersistedIsCurrent'
    BY <2>1 DEF PersistedIsCurrent, Writing
  <2> QED BY <2>3, <2>4 DEF InductiveInv
<1>13. ASSUME NEW v \in Calls, WriteFeatures(v) PROVE InductiveInv'
  <2>1. \A u \in Calls : \/ u = v /\ pc'[u] = "idle"
                         \/ u # v /\ pc'[u] = pc[u] /\ hand'[u] = hand[u]
    BY <1>13 DEF WriteFeatures, Goto, TypeOK, CallsTyped
  <2>2. /\ pc[v] = "writeFeatures" /\ mem' = mem
        /\ overlap' = "no" =>
             /\ overlap = "no"
             /\ db' \in [plan : Plans, features : Features]
             /\ db'.plan = db.plan /\ db'.features = json[v]
    BY <1>13 DEF WriteFeatures, TypeOK, CallsTyped, HandFits
  <2>3. overlap' = "no" =>
          db'.plan = mem.plan /\ db'.features = mem.features
            /\ mem.features = FeaturesOf(mem.plan)
            /\ \A u \in Calls \ {v} : ~Writing(u)
    BY <2>2 DEF InductiveInv, WriterAlone, Writing
  <2>4. overlap' = "no" => db' = mem
    BY <2>2, <2>3 DEF TypeOK, CallsTyped
  <2>5. WriterAlone'
    BY <2>1, <2>3 DEF WriterAlone, Writing
  <2>6. PersistedIsCurrent'
    BY <2>2, <2>3, <2>4 DEF PersistedIsCurrent
  <2> QED BY <2>5, <2>6 DEF InductiveInv
<1>14. ASSUME NEW k \in Keys \cup {Trial}, GrantChanges(k) PROVE InductiveInv'
  BY <1>14
  DEF GrantChanges, InductiveInv, WriterAlone, PersistedIsCurrent, Writing, settings
<1>15. CASE Restart
  <2>1. \A v \in Calls : pc'[v] = "idle"
    BY <1>15 DEF Restart
  <2>2. WriterAlone'
    BY <2>1 DEF WriterAlone, Writing
  <2>3. ASSUME overlap' = "no"
        PROVE  /\ overlap = "no" /\ \A v \in Calls : ~Writing(v)
               /\ mem' = IF db.plan = "" THEN Blank ELSE db
               /\ db' = db
    BY <1>15, <2>3 DEF Restart, settings
  <2>4. overlap' = "no" => db = mem /\ mem.features = FeaturesOf(mem.plan)
    BY <2>3 DEF InductiveInv, PersistedIsCurrent
  <2>5. overlap' = "no" => mem' = mem
    <3> SUFFICES ASSUME overlap' = "no" PROVE mem' = mem
      OBVIOUS
    <3>1. CASE db.plan # ""
      BY <2>3, <2>4, <3>1
    <3>2. CASE db.plan = ""
      <4>1. mem.plan = "" /\ mem.features = "" /\ Blank.plan = "" /\ Blank.features = ""
        BY <2>4, <3>2 DEF FeaturesOf, Blank
      <4>2. mem = Blank
        BY <4>1 DEF TypeOK, Blank
      <4> QED BY <2>3, <3>2, <4>2
    <3> QED BY <3>1, <3>2
  <2>6. PersistedIsCurrent'
    BY <2>3, <2>4, <2>5 DEF PersistedIsCurrent
  <2> QED BY <2>2, <2>6 DEF InductiveInv
<1>16. CASE UNCHANGED vars
  BY <1>16 DEF vars, bounds, InductiveInv, WriterAlone, PersistedIsCurrent,
     Writing, settings
<1>17. ASSUME NEW v \in Calls, Marshal(v) PROVE InductiveInv'
  <2>1. \A u \in Calls : \/ u = v /\ pc'[u] = "read" /\ json'[u] = mem.features
                         \/ u # v /\ pc'[u] = pc[u] /\ hand'[u] = hand[u]
    BY <1>17 DEF Marshal, TypeOK, CallsTyped
  <2>2. pc[v] = "marshal" /\ mem' = mem /\ overlap' = overlap
    BY <1>17 DEF Marshal
  <2>3. WriterAlone'
    BY <2>1, <2>2 DEF InductiveInv, WriterAlone, Writing
  <2>4. PersistedIsCurrent'
    BY <2>1 DEF PersistedIsCurrent, Writing
  <2> QED BY <2>3, <2>4 DEF InductiveInv
<1>18. ASSUME NEW v \in Calls, ReadPlan(v) PROVE InductiveInv'
  <2>1. \A u \in Calls :
           \/ u = v /\ pc'[u] = "writePlan" /\ hand'[u] = mem.plan /\ json'[u] = json[u]
           \/ u # v /\ pc'[u] = pc[u] /\ hand'[u] = hand[u]
    BY <1>18 DEF ReadPlan, Goto, TypeOK, CallsTyped
  <2>2. pc[v] = "read" /\ mem' = mem /\ overlap' = overlap
    BY <1>18 DEF ReadPlan
  <2>3. WriterAlone'
    BY <2>1, <2>2 DEF InductiveInv, WriterAlone, Writing
  <2>4. PersistedIsCurrent'
    BY <2>1 DEF PersistedIsCurrent, Writing
  <2> QED BY <2>3, <2>4 DEF InductiveInv
<1> QED BY <1>1, <1>2, <1>3, <1>4, <1>5, <1>6, <1>7, <1>8, <1>9, <1>10, <1>11,
       <1>12, <1>13, <1>14, <1>15, <1>16, <1>17, <1>18
  DEF Next, VerifyStep, Calls

(* The invariant holds in every reachable state.                           *)
LEMMA Invariance == Spec => []IInv
<1>1. IInv /\ [Next]_vars => IInv'
  BY TypeStep, InvStep DEF IInv
<1> QED BY InitIInv, <1>1, PTL DEF Spec

(* Types hold in every reachable state.                                    *)
THEOREM LicenseTypeCorrect == Spec => []TypeOK
<1>1. IInv => TypeOK
  BY DEF IInv
<1> QED BY Invariance, <1>1, PTL

(* After a Verify that ran alone, status and settings agree.               *)
THEOREM LicensePersistedIsCurrent == Spec => []PersistedIsCurrent
<1>1. IInv => PersistedIsCurrent
  BY DEF IInv, InductiveInv
<1> QED BY Invariance, <1>1, PTL

(* The conditions under which a settled plan must stay settled.            *)
Undisturbed ==
  /\ Settled /\ paid' = paid /\ grant' = grant /\ mem'.plan # ""
  /\ \A v \in Calls : pc'[v] # "trial"

(* A step of a call to a place where it has the settled plan in hand.      *)
LEMMA SettledGoto ==
  ASSUME TypeOK, Settled, NEW v \in Calls, NEW label, NEW value, Goto(v, label, value),
         label \notin {"trial", "request", "save"},
         label = "ask" => value = paid,
         label \in {"plan", "features", "writePlan"} => value = grant[paid],
         paid' = paid, grant' = grant, mem'.plan = grant[paid], db'.plan = grant[paid]
  PROVE  Settled'
<1>1. \A u \in Calls : \/ u = v /\ pc'[u] = label /\ hand'[u] = value
                       \/ u # v /\ pc'[u] = pc[u] /\ hand'[u] = hand[u]
  BY DEF Goto, TypeOK, CallsTyped
<1> QED BY <1>1 DEF Settled

(* No step of any call, and no restart, unsettles a settled plan.          *)
LEMMA SettledStep ==
  ASSUME IInv, [Next]_vars, Undisturbed
  PROVE  Settled'
<1> USE DEF IInv
<1>1. CASE Tick
  <2>1. Goto(Background, "paid", "")
    BY <1>1, ConstantsAssumption DEF Tick, TypeOK, CallsTyped, Undisturbed, Settled
  <2>2. mem'.plan = grant[paid] /\ db'.plan = grant[paid]
    BY <1>1 DEF Tick, settings, TypeOK, CallsTyped, HandFits, Undisturbed, Settled
  <2> QED BY <2>1, <2>2, SettledGoto DEF Calls, Undisturbed
<1>2. ASSUME NEW v \in Handlers, Refresh(v) PROVE Settled'
  <2>1. Goto(v, "paid", "")
    BY <1>2, ConstantsAssumption DEF Refresh, TypeOK, CallsTyped, Undisturbed, Settled
  <2>2. mem'.plan = grant[paid] /\ db'.plan = grant[paid]
    BY <1>2 DEF Refresh, settings, TypeOK, CallsTyped, HandFits, Undisturbed, Settled
  <2> QED BY <2>1, <2>2, SettledGoto DEF Calls, Undisturbed
<1>3. ASSUME NEW v \in Handlers, Disconnect(v) PROVE Settled'
  BY <1>3 DEF Disconnect, Trouble, TypeOK, CallsTyped, Undisturbed, Settled, settings, bounds
<1>4. ASSUME NEW v \in Handlers, NEW k \in Keys \cup {NoKey}, Activate(v, k) PROVE Settled'
  <2>1. Goto(v, "paid", "")
    BY <1>4, ConstantsAssumption DEF Activate, TypeOK, CallsTyped, Undisturbed, Settled
  <2>2. mem'.plan = grant[paid] /\ db'.plan = grant[paid]
    BY <1>4 DEF Activate, settings, TypeOK, CallsTyped, HandFits, Undisturbed, Settled
  <2> QED BY <2>1, <2>2, SettledGoto DEF Calls, Undisturbed
<1>5. ASSUME NEW v \in Calls, ReadPaid(v) PROVE Settled'
  <2>1. Goto(v, "ask", paid)
    BY <1>5, ConstantsAssumption
    DEF ReadPaid, TypeOK, CallsTyped, Undisturbed, Settled, Goto, Calls
  <2>2. mem'.plan = grant[paid] /\ db'.plan = grant[paid]
    BY <1>5 DEF ReadPaid, settings, TypeOK, CallsTyped, HandFits, Undisturbed, Settled
  <2> QED BY <2>1, <2>2, SettledGoto DEF Calls, Undisturbed
<1>6. ASSUME NEW v \in Calls, ReadTrial(v) PROVE Settled'
  BY <1>6 DEF ReadTrial, Undisturbed, Settled
<1>7. ASSUME NEW v \in Calls, RequestTrial(v) PROVE Settled'
  BY <1>7 DEF RequestTrial, Undisturbed, Settled
<1>8. ASSUME NEW v \in Calls, SaveTrial(v) PROVE Settled'
  BY <1>8 DEF SaveTrial, Undisturbed, Settled
<1>9. ASSUME NEW v \in Calls, Ask(v) PROVE Settled'
  <2>1. Goto(v, "plan", grant[paid]) \/ Goto(v, "idle", "")
    <3>1. pc[v] = "ask"
      BY <1>9 DEF Ask
    <3>2. hand[v] = paid /\ grant[paid] # "none" /\ mem.plan = grant[paid]
      BY <3>1 DEF Undisturbed, Settled
    <3>3. mem.plan # ""
      <4>1. mem' = mem
        BY <1>9 DEF Ask
      <4> QED BY <4>1 DEF Undisturbed
    <3>4. PlanOf(hand[v]) = grant[paid]
      <4>1. paid # NoKey /\ paid \in Keys \cup {NoKey}
        BY DEF Undisturbed, Settled, TypeOK
      <4>2. paid # Trial
        BY <4>1, ConstantsAssumption
      <4> QED BY <3>2, <4>2 DEF PlanOf
    <3> QED BY <1>9, <3>2, <3>3, <3>4 DEF Ask
  <2>2. mem'.plan = grant[paid] /\ db'.plan = grant[paid]
    BY <1>9 DEF Ask, settings, TypeOK, CallsTyped, HandFits, Undisturbed, Settled
  <2> QED BY <2>1, <2>2, SettledGoto DEF Calls, Undisturbed
<1>10. ASSUME NEW v \in Calls, StorePlan(v) PROVE Settled'
  <2>1. Goto(v, "features", grant[paid])
    BY <1>10, ConstantsAssumption DEF StorePlan, TypeOK, CallsTyped, Undisturbed, Settled
  <2>2. mem'.plan = grant[paid] /\ db'.plan = grant[paid]
    BY <1>10 DEF StorePlan, settings, TypeOK, CallsTyped, HandFits, Undisturbed, Settled
  <2> QED BY <2>1, <2>2, SettledGoto DEF Calls, Undisturbed
<1>11. ASSUME NEW v \in Calls, StoreFeatures(v) PROVE Settled'
  <2>1. Goto(v, "marshal", "")
    BY <1>11, ConstantsAssumption DEF StoreFeatures, TypeOK, CallsTyped, Undisturbed, Settled
  <2>2. mem'.plan = grant[paid] /\ db'.plan = grant[paid]
    BY <1>11 DEF StoreFeatures, settings, TypeOK, CallsTyped, HandFits, Undisturbed, Settled
  <2> QED BY <2>1, <2>2, SettledGoto DEF Calls, Undisturbed
<1>12. ASSUME NEW v \in Calls, WritePlan(v) PROVE Settled'
  <2>1. Goto(v, "writeFeatures", "")
    BY <1>12, ConstantsAssumption DEF WritePlan, TypeOK, CallsTyped, Undisturbed, Settled
  <2>2. mem'.plan = grant[paid] /\ db'.plan = grant[paid]
    BY <1>12 DEF WritePlan, settings, TypeOK, CallsTyped, HandFits, Undisturbed, Settled
  <2> QED BY <2>1, <2>2, SettledGoto DEF Calls, Undisturbed
<1>13. ASSUME NEW v \in Calls, WriteFeatures(v) PROVE Settled'
  <2>1. Goto(v, "idle", "")
    BY <1>13, ConstantsAssumption DEF WriteFeatures, TypeOK, CallsTyped, Undisturbed, Settled
  <2>2. mem'.plan = grant[paid] /\ db'.plan = grant[paid]
    BY <1>13 DEF WriteFeatures, settings, TypeOK, CallsTyped, HandFits, Undisturbed, Settled
  <2> QED BY <2>1, <2>2, SettledGoto DEF Calls, Undisturbed
<1>14. ASSUME NEW k \in Keys \cup {Trial}, GrantChanges(k) PROVE Settled'
  BY <1>14 DEF GrantChanges, TypeOK, CallsTyped, Undisturbed, Settled, settings, bounds
<1>15. CASE Restart
  <2>1. mem'.plan = db.plan
    <3>1. Blank.plan = ""
      BY DEF Blank
    <3>2. mem' = Blank \/ mem' = db
      BY <1>15 DEF Restart
    <3> QED BY <3>1, <3>2 DEF Undisturbed
  <2>2. \A v \in Calls : pc'[v] = "idle"
    BY <1>15 DEF Restart
  <2>3. db' = db /\ paid' = paid /\ grant' = grant
    BY <1>15 DEF Restart, settings
  <2> QED BY <2>1, <2>2, <2>3 DEF Undisturbed, Settled
<1>16. CASE UNCHANGED vars
  BY <1>16 DEF vars, settings, Undisturbed, Settled
<1>17. ASSUME NEW v \in Calls, Marshal(v) PROVE Settled'
  <2>1. \A u \in Calls : \/ u = v /\ pc'[u] = "read"
                         \/ u # v /\ pc'[u] = pc[u] /\ hand'[u] = hand[u]
    BY <1>17 DEF Marshal, TypeOK, CallsTyped
  <2> QED BY <1>17, <2>1 DEF Marshal, settings, bounds, Undisturbed, Settled
<1>18. ASSUME NEW v \in Calls, ReadPlan(v) PROVE Settled'
  <2>1. Goto(v, "writePlan", grant[paid])
    BY <1>18, ConstantsAssumption DEF ReadPlan, TypeOK, CallsTyped, Undisturbed, Settled
  <2>2. mem'.plan = grant[paid] /\ db'.plan = grant[paid]
    BY <1>18 DEF ReadPlan, settings, TypeOK, CallsTyped, HandFits, Undisturbed, Settled
  <2> QED BY <2>1, <2>2, SettledGoto DEF Calls, Undisturbed
<1> QED BY <1>1, <1>2, <1>3, <1>4, <1>5, <1>6, <1>7, <1>8, <1>9, <1>10, <1>11,
       <1>12, <1>13, <1>14, <1>15, <1>16, <1>17, <1>18
  DEF Next, VerifyStep, Calls

(* A settled paid plan survives outages, restarts and overlapping calls.   *)
THEOREM LicenseOutageKeepsPlan == Spec => OutageKeepsPlan
<1>1. IInv /\ [Next]_vars => [Undisturbed => Settled']_vars
  BY SettledStep
<1> QED BY Invariance, <1>1, PTL DEF Spec, OutageKeepsPlan, Undisturbed
=============================================================================
