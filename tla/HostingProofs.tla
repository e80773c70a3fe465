--------------------------- MODULE HostingProofs ---------------------------
(***************************************************************************)
(* Theorems about PhpVersions, Resources, ServerSetup and Terminal, each on*)
(* its own and in the composition MCHosting, for any calls, versions,      *)
(* modules, failing scripts, crashes, bytes and window sizes.              *)
(*                                                                         *)
(* Almost every property of these modules speaks of calls that did not     *)
(* overlap, once they have ended.  None of that is inductive: a call that  *)
(* is half done has broken what it will restore.  Each invariant therefore *)
(* says of every label what the call there has still to do (PhpAtWork,     *)
(* ResCalm, SetupAlone), under the condition that at most one call is at   *)
(* work, which is itself an invariant (OneLive) since clash records the    *)
(* first overlap.  The one of Terminal says which of handler and goroutines*)
(* will still close each connection.                                       *)
(***************************************************************************)
EXTENDS MCHosting, DomainsProofs

(***************************************************************************)
(* PHP versions                                                            *)
(***************************************************************************)
(* A row's creator has started, on the row's version; what is not installed*)
(* is no default; a statement that failed is a trouble.                    *)
PhpRows ==
  /\ \A v \in Versions :
       /\ reg[v].id \in Calls => pc[reg[v].id] # "idle" /\ ver[reg[v].id] = v
       /\ reg[v].status = "absent" => reg[v].default = "no"
  /\ troubles = 0 => lost = {}

(* Where the one call at work is, and what it has left to do.              *)
PhpAtWork ==
  \A c \in Calls :
    /\ pc[c] \in {"apt", "installed", "failed"} => reg[ver[c]].status = "installing"
    /\ pc[c] = "installed" => fpm[ver[c]] = "present"
    /\ pc[c] = "purge" => reg[ver[c]].status = "absent"
    /\ pc[c] \in {"clear", "mark", "point"} => reg[ver[c]].status = "active"
    /\ pc[c] = "mark" /\ lost = {} => \A v \in Versions : reg[v].default = "no"
    /\ pc[c] = "delete" /\ lost = {} => reg[ver[c]].default = "no"
    /\ pc[c] \in {"checkDefault", "delete"} /\ via = "switch" /\ lost = {} => using # ver[c]

PhpActive == \A v \in Versions : reg[v].status = "active" => fpm[v] = "present"

PhpOneDefault ==
  /\ lost = {} => \A v, w \in Versions :
                     reg[v].default = "yes" /\ reg[w].default = "yes" => v = w
  /\ troubles = 0 /\ (\E c \in Calls : op[c] = "setDefault") =>
       \/ \E c \in Calls : pc[c] \in {"clear", "mark"}
       \/ \E v \in Versions : reg[v].default = "yes"

PhpSwitched == lost = {} /\ via = "switch" => reg[using].status = "active"

PhpInv ==
  /\ P!PhpTypeOK /\ OneLive /\ PhpRows
  /\ clash = "no" => PhpAtWork /\ PhpActive /\ PhpOneDefault /\ PhpSwitched

(* Nothing is running, and nothing registered, at the start.               *)
LEMMA PhpInit ==
  ASSUME DefaultPhp \in Versions, P!Init
  PROVE  PhpInv
<1> USE CallsAssumption DEF P!Init, P!CallsInit, P!NoEntry
<1>1. P!PhpTypeOK
  BY DEF P!PhpTypeOK, P!CallsTypeOK, P!Entries, P!Statuses
<1>2. OneLive
  BY DEF OneLive, Live
<1> QED
  BY <1>1, <1>2 DEF PhpInv, PhpRows, PhpAtWork, PhpActive, PhpOneDefault, PhpSwitched

(* An entry stays one, whatever is written into it.                        *)
LEMMA PhpEntries ==
  /\ P!NoEntry \in P!Entries
  /\ \A c \in Calls : [id |-> c, status |-> "installing", default |-> "no"] \in P!Entries
  /\ \A e \in P!Entries : [e EXCEPT !.default = "no"] \in P!Entries
  /\ \A e \in P!Entries : [e EXCEPT !.default = "yes"] \in P!Entries
  /\ \A e \in P!Entries : [e EXCEPT !.status = "active"] \in P!Entries
  /\ \A e \in P!Entries : [e EXCEPT !.status = "error"] \in P!Entries
BY DEF P!Entries, P!Statuses, P!NoEntry

(* The types.                                                              *)
LEMMA PhpTypes ==
  ASSUME P!PhpTypeOK, [P!Next]_(P!vars)
  PROVE  P!PhpTypeOK'
<1> USE CallsAssumption, PhpEntries
    DEF P!PhpTypeOK, P!CallsTypeOK, P!Ops, P!Labels
<1>1. ASSUME NEW c \in Calls, NEW v \in Versions,
             P!Install(c, v) \/ P!SetDefault(c, v) \/ P!SwitchDomain(c, v) \/ P!Uninstall(c, v)
      PROVE  P!PhpTypeOK'
  BY <1>1 DEF P!Install, P!SetDefault, P!SwitchDomain, P!Uninstall, P!BeginOn, P!Begin
<1>2. ASSUME NEW c \in Calls, P!Apt(c)
      PROVE  P!PhpTypeOK'
  BY <1>2 DEF P!Apt, P!Go, P!GoFailed
<1>3. ASSUME NEW c \in Calls, P!Installed(c)
      PROVE  P!PhpTypeOK'
  BY <1>3 DEF P!Installed, P!Conclude, P!Go, P!GoLost
<1>4. ASSUME NEW c \in Calls, P!Failed(c)
      PROVE  P!PhpTypeOK'
  BY <1>4 DEF P!Failed, P!Conclude, P!Go, P!GoLost
<1>5. ASSUME NEW c \in Calls, P!Clear(c)
      PROVE  P!PhpTypeOK'
  BY <1>5 DEF P!Clear, P!Go, P!GoLost
<1>6. ASSUME NEW c \in Calls, P!Mark(c)
      PROVE  P!PhpTypeOK'
  BY <1>6 DEF P!Mark, P!Go, P!GoLost
<1>7. ASSUME NEW c \in Calls, \/ P!Alternatives(c) \/ P!Point(c) \/ P!CountDomains(c)
                              \/ P!CheckDefault(c) \/ P!DeleteRow(c)
      PROVE  P!PhpTypeOK'
  BY <1>7 DEF P!Alternatives, P!Point, P!CountDomains, P!CheckDefault, P!DeleteRow, P!Go,
              P!GoFailed, P!GoLost
<1>8. ASSUME NEW c \in Calls, P!Purge(c)
      PROVE  P!PhpTypeOK'
  BY <1>8 DEF P!Purge, P!Go, P!GoFailed
<1>9. ASSUME NEW v \in Versions, P!UpdateDomain(v)
      PROVE  P!PhpTypeOK'
  BY <1>9 DEF P!UpdateDomain, P!callVars
<1>10. CASE P!Crash
  BY <1>10 DEF P!Crash, P!CrashCalls
<1>11. CASE UNCHANGED P!vars
  BY <1>11 DEF P!vars
<1> QED
  BY <1>1, <1>2, <1>3, <1>4, <1>5, <1>6, <1>7, <1>8, <1>9, <1>10, <1>11 DEF P!Next, P!Start, P!Step

(* At most one call is at work here too.                                   *)
LEMMA PhpOneLive ==
  ASSUME P!PhpTypeOK, OneLive, [P!Next]_(P!vars)
  PROVE  OneLive'
<1> USE DEF OneLive, Live, P!PhpTypeOK, P!CallsTypeOK
<1>1. ASSUME NEW c \in Calls, P!Start(c)
      PROVE  OneLive'
  BY <1>1 DEF P!Start, P!Install, P!SetDefault, P!SwitchDomain, P!Uninstall, P!BeginOn, P!Begin,
              P!Quiet, P!Live
<1>2. ASSUME NEW c \in Calls, P!Step(c)
      PROVE  OneLive'
  BY <1>2 DEF P!Step, P!Apt, P!Installed, P!Failed, P!Conclude, P!Clear, P!Mark, P!Alternatives,
              P!Point, P!CountDomains, P!CheckDefault, P!DeleteRow, P!Purge, P!Go, P!GoFailed,
              P!GoLost
<1>3. CASE (\E v \in Versions : P!UpdateDomain(v)) \/ P!Crash \/ UNCHANGED P!vars
  BY <1>3 DEF P!UpdateDomain, P!Crash, P!CrashCalls, P!callVars, P!vars, P!Live
<1> QED
  BY <1>1, <1>2, <1>3 DEF P!Next

(* A call that starts finds the others at rest, or overlaps.               *)
LEMMA PhpStart ==
  ASSUME PhpInv, NEW c \in Calls, P!Start(c)
  PROVE  /\ PhpRows'
         /\ clash' = "no" => PhpAtWork' /\ PhpActive' /\ PhpOneDefault' /\ PhpSwitched'
<1> USE CallsAssumption DEF PhpInv, P!PhpTypeOK, P!CallsTypeOK, P!BeginOn, P!Begin, P!Quiet, P!Live
<1>1. PICK v \in Versions :
        P!Install(c, v) \/ P!SetDefault(c, v) \/ P!SwitchDomain(c, v) \/ P!Uninstall(c, v)
  BY DEF P!Start
<1>2. CASE P!Install(c, v)
  <2>1. PhpRows'
    BY <1>2 DEF P!Install, PhpRows, P!Entries
  <2>2. ASSUME clash' = "no" PROVE PhpAtWork' /\ PhpActive' /\ PhpOneDefault' /\ PhpSwitched'
    BY <1>2, <2>2 DEF P!Install, PhpRows, PhpAtWork, PhpActive, PhpOneDefault, PhpSwitched, P!Entries
  <2> QED
    BY <2>1, <2>2
<1>3. CASE P!SetDefault(c, v)
  BY <1>3 DEF P!SetDefault, PhpRows, PhpAtWork, PhpActive, PhpOneDefault, PhpSwitched, P!Entries
<1>4. CASE P!SwitchDomain(c, v)
  BY <1>4 DEF P!SwitchDomain, PhpRows, PhpAtWork, PhpActive, PhpOneDefault, PhpSwitched, P!Entries
<1>5. CASE P!Uninstall(c, v)
  BY <1>5 DEF P!Uninstall, PhpRows, PhpAtWork, PhpActive, PhpOneDefault, PhpSwitched, P!Entries
<1> QED
  BY <1>1, <1>2, <1>3, <1>4, <1>5

(* Each step of a call that works alone.                                   *)
LEMMA PhpStep ==
  ASSUME PhpInv, NEW c \in Calls, P!Step(c)
  PROVE  /\ PhpRows'
         /\ clash' = "no" => PhpAtWork' /\ PhpActive' /\ PhpOneDefault' /\ PhpSwitched'
<1> DEFINE PhpGood ==
         /\ PhpRows'
         /\ clash' = "no" => PhpAtWork' /\ PhpActive' /\ PhpOneDefault' /\ PhpSwitched'
<1> USE CallsAssumption
    DEF PhpInv, P!PhpTypeOK, P!CallsTypeOK, P!Go, P!GoFailed, P!GoLost, OneLive, Live,
        PhpRows, PhpAtWork, PhpActive, PhpOneDefault, PhpSwitched, P!Entries
<1>1. CASE P!Apt(c)
  BY <1>1 DEF P!Apt
<1>2. ASSUME NEW from \in {"installed", "failed"}, NEW st \in {"active", "error"},
             from = "installed" <=> st = "active", P!Conclude(c, from, st)
      PROVE  PhpGood
  <2>1. \/ /\ \A v \in Versions :
                /\ reg'[v].id = reg[v].id /\ reg'[v].default = reg[v].default
                /\ reg'[v].status = IF reg[v].id = c THEN st ELSE reg[v].status
           /\ troubles' = troubles /\ lost' = lost
        \/ reg' = reg /\ troubles' = troubles + 1 /\ lost' = lost \cup {c}
    BY <1>2 DEF P!Conclude
  <2>2. /\ pc[c] = from /\ pc' = [pc EXCEPT ![c] = "done"]
        /\ UNCHANGED <<op, clash, crashed, fpm, using, via, ver>>
    BY <1>2 DEF P!Conclude
  <2>3. PhpRows'
    BY <2>1, <2>2
  <2>4. ASSUME clash = "no" PROVE PhpAtWork'
    BY <1>2, <2>1, <2>2, <2>4
  <2>5. ASSUME clash = "no" PROVE PhpActive'
    BY <1>2, <2>1, <2>2, <2>5
  <2>7. ASSUME clash = "no" PROVE PhpSwitched'
    <3>1. \A v \in Versions : reg[v].id = c => reg[v].status = "installing"
      BY <2>2, <2>7
    <3> QED
      BY <2>1, <2>2, <2>7, <3>1
  <2>6. ASSUME clash = "no" PROVE PhpOneDefault'
    BY <2>1, <2>2, <2>6
  <2> QED
    BY <2>2, <2>3, <2>4, <2>5, <2>6, <2>7
<1>3. ASSUME P!Installed(c) \/ P!Failed(c) PROVE PhpGood
  BY <1>2, <1>3 DEF P!Installed, P!Failed
<1>4. CASE P!Clear(c)
  <2>1. \/ /\ \A v \in Versions : /\ reg'[v].id = reg[v].id /\ reg'[v].default = "no"
                                 /\ reg'[v].status = reg[v].status
           /\ troubles' = troubles /\ lost' = lost
        \/ reg' = reg /\ troubles' = troubles + 1 /\ lost' = lost \cup {c}
    BY <1>4 DEF P!Clear
  <2>2. /\ pc[c] = "clear" /\ pc' = [pc EXCEPT ![c] = "mark"]
        /\ UNCHANGED <<op, clash, crashed, fpm, using, via, ver>>
    BY <1>4 DEF P!Clear
  <2>3. PhpRows'
    BY <2>1, <2>2
  <2>4. ASSUME clash = "no" PROVE PhpAtWork'
    <3>1. \A d \in Calls : pc'[d] = pc[d] \/ d = c
      BY <2>1, <2>2
    <3>2. \A d \in Calls \ {c} : pc[d] \in {"idle", "done"}
      BY <2>1, <2>2, <2>4
    <3>3. reg'[ver[c]].status = reg[ver[c]].status /\ reg[ver[c]].status = "active"
      BY <2>1, <2>2, <2>4
    <3> QED
      BY <2>1, <2>2, <3>1, <3>2, <3>3
  <2>5. ASSUME clash = "no" PROVE PhpActive' /\ PhpSwitched'
    BY <2>1, <2>2, <2>5
  <2>6. ASSUME clash = "no" PROVE PhpOneDefault'
    BY <2>1, <2>2, <2>6
  <2> QED
    BY <2>2, <2>3, <2>4, <2>5, <2>6
<1>5. CASE P!Mark(c)
  <2>1. \/ /\ \A v \in Versions :
                /\ reg'[v].id = reg[v].id /\ reg'[v].status = reg[v].status
                /\ reg'[v].default = IF v = ver[c] /\ reg[v].status # "absent" THEN "yes"
                                                                             ELSE reg[v].default
           /\ troubles' = troubles /\ lost' = lost
        \/ reg' = reg /\ troubles' = troubles + 1 /\ lost' = lost \cup {c}
    BY <1>5 DEF P!Mark
  <2>2. /\ pc[c] = "mark" /\ pc' = [pc EXCEPT ![c] = "alternatives"]
        /\ UNCHANGED <<op, clash, crashed, fpm, using, via, ver>>
    BY <1>5 DEF P!Mark
  <2>3. PhpRows'
    BY <2>1, <2>2
  <2>4. ASSUME clash = "no" PROVE PhpAtWork'
    BY <2>1, <2>2, <2>4
  <2>5. ASSUME clash = "no" PROVE PhpActive' /\ PhpSwitched'
    BY <2>1, <2>2, <2>5
  <2>6. ASSUME clash = "no" PROVE PhpOneDefault'
    BY <2>1, <2>2, <2>6
  <2> QED
    BY <2>2, <2>3, <2>4, <2>5, <2>6
<1>6. CASE P!Alternatives(c)
  BY <1>6 DEF P!Alternatives
<1>7. CASE P!Point(c)
  <2>1. /\ pc[c] = "point" /\ pc' = [pc EXCEPT ![c] = "done"]
        /\ \/ using' = ver[c] /\ via' = "switch" /\ troubles' = troubles
           \/ using' = using /\ via' = via /\ troubles' = troubles + 1
        /\ UNCHANGED <<op, clash, crashed, lost, reg, fpm, ver>>
    BY <1>7 DEF P!Point
  <2>2. PhpRows'
    BY <2>1
  <2>3. ASSUME clash = "no" PROVE PhpAtWork' /\ PhpActive'
    BY <2>1, <2>3
  <2>4. ASSUME clash = "no" PROVE PhpOneDefault'
    BY <2>1, <2>4
  <2>5. ASSUME clash = "no" PROVE PhpSwitched'
    BY <2>1, <2>5
  <2> QED
    BY <2>1, <2>2, <2>3, <2>4, <2>5
<1>8. ASSUME P!CountDomains(c) \/ P!CheckDefault(c) PROVE PhpGood
  <2>1. \/ /\ pc[c] = "count" /\ lost' = lost /\ troubles' = troubles
           /\ pc' = [pc EXCEPT ![c] = IF using = ver[c] THEN "done" ELSE "checkDefault"]
        \/ /\ pc[c] = "checkDefault" /\ lost' = lost /\ troubles' = troubles
           /\ pc' = [pc EXCEPT ![c] = IF reg[ver[c]].default = "yes" THEN "done" ELSE "delete"]
        \/ /\ pc[c] = "count" /\ pc' = [pc EXCEPT ![c] = "checkDefault"]
           /\ lost' = lost \cup {c} /\ troubles' = troubles + 1
        \/ /\ pc[c] = "checkDefault" /\ pc' = [pc EXCEPT ![c] = "delete"]
           /\ lost' = lost \cup {c} /\ troubles' = troubles + 1
    BY <1>8 DEF P!CountDomains, P!CheckDefault
  <2>2. UNCHANGED <<op, clash, crashed, reg, fpm, using, via, ver>>
    BY <1>8 DEF P!CountDomains, P!CheckDefault
  <2>3. PhpRows'
    BY <2>1, <2>2
  <2>4. ASSUME clash = "no" PROVE PhpAtWork'
    <3>1. \A d \in Calls : pc'[d] = pc[d] \/ d = c
      BY <2>1, <2>2
    <3>2. \A d \in Calls \ {c} : pc[d] \in {"idle", "done"}
      BY <2>1, <2>2, <2>4
    <3>3. /\ pc'[c] = "checkDefault" /\ via = "switch" /\ lost' = {} => using # ver[c]
          /\ pc'[c] = "delete" /\ lost' = {} =>
               reg[ver[c]].default = "no" /\ (via = "switch" => using # ver[c])
          /\ pc'[c] \in {"done", "checkDefault", "delete"}
      <4>1. reg[ver[c]].default \in {"no", "yes"} /\ c \in lost \cup {c}
        OBVIOUS
      <4>2. CASE pc[c] = "count" /\ pc' = [pc EXCEPT ![c] = IF using = ver[c] THEN "done"
                                                                          ELSE "checkDefault"]
        BY <2>2, <4>2
      <4>3. CASE /\ pc[c] = "checkDefault" /\ lost' = lost
                 /\ pc' = [pc EXCEPT ![c] = IF reg[ver[c]].default = "yes" THEN "done"
                                                                         ELSE "delete"]
        BY <2>2, <2>4, <4>1, <4>3
      <4>4. CASE pc'[c] \in {"checkDefault", "delete"} /\ lost' = lost \cup {c}
        BY <4>1, <4>4
      <4> QED
        BY <2>1, <4>2, <4>3, <4>4
    <3> QED
      BY <2>1, <2>2, <3>1, <3>2, <3>3
  <2>5. ASSUME clash = "no" PROVE PhpActive' /\ PhpSwitched'
    BY <2>1, <2>2, <2>5
  <2>6. ASSUME clash = "no" PROVE PhpOneDefault'
    BY <2>1, <2>2, <2>6
  <2> QED
    BY <2>2, <2>3, <2>4, <2>5, <2>6
<1>9. CASE P!DeleteRow(c)
  <2>1. \/ /\ \A v \in Versions : reg'[v] = IF v = ver[c] THEN P!NoEntry ELSE reg[v]
           /\ pc' = [pc EXCEPT ![c] = IF reg[ver[c]].status = "absent" THEN "done" ELSE "purge"]
           /\ troubles' = troubles
        \/ reg' = reg /\ troubles' = troubles + 1 /\ pc' = [pc EXCEPT ![c] = "done"]
    BY <1>9 DEF P!DeleteRow
  <2>2. /\ pc[c] = "delete"
        /\ UNCHANGED <<op, clash, crashed, lost, fpm, using, via, ver>>
    BY <1>9 DEF P!DeleteRow
  <2>3. PhpRows'
    BY <2>1, <2>2 DEF P!NoEntry
  <2>4. ASSUME clash = "no" PROVE PhpAtWork'
    BY <2>1, <2>2, <2>4 DEF P!NoEntry
  <2>5. ASSUME clash = "no" PROVE PhpActive' /\ PhpSwitched'
    BY <2>1, <2>2, <2>5 DEF P!NoEntry
  <2>6. ASSUME clash = "no" PROVE PhpOneDefault'
    BY <2>1, <2>2, <2>6 DEF P!NoEntry
  <2> QED
    BY <2>2, <2>3, <2>4, <2>5, <2>6
<1>10. CASE P!Purge(c)
  BY <1>10 DEF P!Purge
<1> QED
  BY <1>1, <1>3, <1>4, <1>5, <1>6, <1>7, <1>8, <1>9, <1>10 DEF P!Step

(* Nothing else starts or moves a call.                                    *)
LEMMA PhpInvStep ==
  ASSUME PhpInv, [P!Next]_(P!vars)
  PROVE  PhpInv'
<1>1. P!PhpTypeOK' /\ OneLive'
  BY PhpTypes, PhpOneLive DEF PhpInv
<1>2. CASE \E c \in Calls : P!Start(c) \/ P!Step(c)
  BY <1>1, <1>2, PhpStart, PhpStep DEF PhpInv
<1> USE DEF PhpInv, PhpRows, PhpAtWork, PhpActive, PhpOneDefault, PhpSwitched
<1>3. CASE \E v \in Versions : P!UpdateDomain(v)
  BY <1>1, <1>3 DEF P!UpdateDomain, P!callVars
<1>4. CASE P!Crash
  BY <1>1, <1>4 DEF P!Crash, P!CrashCalls, P!Live, P!PhpTypeOK, P!CallsTypeOK
<1>5. CASE UNCHANGED P!vars
  BY <1>1, <1>5 DEF P!vars
<1> QED
  BY <1>2, <1>3, <1>4, <1>5 DEF P!Next

(***************************************************************************)
(* Databases, FTP, SFTP, firewall and mail                                 *)
(***************************************************************************)
(* Which labels a service has, that a call which has not come is of no     *)
(* kind, and that a unique key has one row that is attached to a server.   *)
ResLabels ==
  /\ \A c \in Calls :
       /\ pc[c] \in {"settle", "giveUp", "unapplyFirst"} => svc = "database"
       /\ pc[c] = "both" => svc \in {"ftp", "firewall", "mail"}
       /\ pc[c] = "unapply" => svc # "database"
       /\ svc # "database" => status[c] = "none"
       /\ pc[c] = "idle" => op[c] = "none" /\ c \notin rows \cup bare
       /\ pc[c] \in {"unapplyFirst", "both", "drop", "unapply"} => op[c] = "delete"
  /\ svc # "database" => bare = {}
  /\ svc \in R!Unique => \A r, s \in R!Attached : r = s

(* An active database that has a server is there until its Delete has      *)
(* dropped it.                                                             *)
ResActive ==
  /\ \A c \in Calls : pc[c] = "settle" => remote # {} \/ c \in bare
  /\ \A c \in Calls : pc[c] = "unapplyFirst" => victim[c] \in R!Attached
  /\ \A r \in R!Attached : status[r] = "active" =>
       remote # {} \/ \E c \in Calls : op[c] = "delete" /\ victim[c] = r

(* ServerMatchesRows, and what is left of it inside a Create or a Delete.  *)
ResInStep ==
  /\ remote # {} => R!Attached # {}
  /\ svc \in R!Unique => remote = R!Attached
  /\ R!Did("delete") \/ R!Attached \subseteq remote \/ (svc = "firewall" /\ remote # {})

(* The DELETE of a database without a server, which changes none of this.  *)
ResBareDrop(c) == pc[c] = "drop" /\ victim[c] \in bare

ResCalm ==
  /\ \A c \in Calls : pc[c] = "apply" =>
       /\ c \in R!Attached
       /\ svc \in R!Unique => R!Attached = {c} /\ remote = {}
       /\ \/ R!Did("delete") \/ R!Attached \ {c} \subseteq remote
          \/ svc = "firewall" /\ remote # {}
  /\ \A c \in Calls :
       pc[c] \in {"unapplyFirst", "both", "drop", "unapply"} /\ ~ ResBareDrop(c) =>
         /\ svc \in R!Unique => R!Attached \subseteq {victim[c]}
         /\ pc[c] = "unapplyFirst" => victim[c] \notin bare
         /\ pc[c] = "drop" => svc = "sftp" \/ remote = {}
         /\ pc[c] = "unapply" /\ svc \in R!Unique => R!Attached = {}
  /\ (\A c \in Calls : pc[c] \notin {"apply", "both", "drop", "unapply"} \/ ResBareDrop(c)) =>
       ResInStep

ResInv ==
  /\ R!ResourcesTypeOK /\ OneLive /\ ResLabels
  /\ clash = "no" /\ crashed = "no" => ResActive
  /\ clash = "no" /\ troubles = 0 /\ parent = "there" => ResCalm

(* No rows and nothing on the server at the start.                         *)
LEMMA ResInit ==
  ASSUME R!Init
  PROVE  ResInv
<1> USE CallsAssumption DEF R!Init, R!CallsInit
<1>1. R!ResourcesTypeOK /\ OneLive
  BY DEF R!ResourcesTypeOK, R!CallsTypeOK, OneLive, Live
<1> QED
  BY <1>1 DEF ResInv, ResLabels, ResActive, ResCalm, ResInStep, R!Attached

(* The types.                                                              *)
LEMMA ResTypes ==
  ASSUME R!ResourcesTypeOK, [R!Next]_(R!vars)
  PROVE  R!ResourcesTypeOK'
<1> USE CallsAssumption DEF R!ResourcesTypeOK, R!CallsTypeOK, R!Ops, R!Labels
<1>1. ASSUME NEW c \in Calls, R!Create(c)
      PROVE  R!ResourcesTypeOK'
  BY <1>1 DEF R!Create, R!CreateDatabase, R!CreateFTP, R!AddSFTPKey, R!CreateRule,
              R!CreateForwarder, R!Insert, R!InsertBare, R!Begin
<1>2. ASSUME NEW c \in Calls, NEW r \in Calls, R!Delete(c, r)
      PROVE  R!ResourcesTypeOK'
  BY <1>2 DEF R!Delete, R!DeleteDatabase, R!DeleteSFTPKey, R!DeleteFTP, R!DeleteRule,
              R!DeleteForwarder, R!Deletes, R!Begin
<1>3. ASSUME NEW c \in Calls, R!Apply(c)
      PROVE  R!ResourcesTypeOK'
  <2>1. R!Added(c) \subseteq Calls
    BY DEF R!Added, R!ProvisionDatabase, R!ProvisionFTP, R!ProvisionSFTPKey, R!ApplyUFWRule,
           R!ApplyForwarder, R!Services
  <2> QED
    BY <1>3, <2>1 DEF R!Apply, R!AfterApply, R!AfterFailure, R!Go, R!GoFailed
<1>4. ASSUME NEW c \in Calls, R!Settle(c) \/ R!GiveUp(c)
      PROVE  R!ResourcesTypeOK'
  BY <1>4 DEF R!Settle, R!GiveUp, R!Conclude, R!Go, R!GoLost
<1>5. ASSUME NEW c \in Calls, R!Drop(c)
      PROVE  R!ResourcesTypeOK'
  BY <1>5 DEF R!Drop, R!Go, R!GoFailed
<1>6. ASSUME NEW c \in Calls, R!Unapply(c)
      PROVE  R!ResourcesTypeOK'
  BY <1>6 DEF R!Unapply, R!Go, R!GoFailed
<1>7. CASE R!DeleteParent
  BY <1>7 DEF R!DeleteParent, R!callVars
<1>8. CASE R!Crash
  BY <1>8 DEF R!Crash, R!CrashCalls, R!resVars
<1>9. CASE UNCHANGED R!vars
  BY <1>9 DEF R!vars, R!resVars
<1> QED
  BY <1>1, <1>2, <1>3, <1>4, <1>5, <1>6, <1>7, <1>8, <1>9 DEF R!Next, R!Start, R!Step

(* At most one call is at work here too.                                   *)
LEMMA ResOneLive ==
  ASSUME R!ResourcesTypeOK, OneLive, [R!Next]_(R!vars)
  PROVE  OneLive'
<1> USE DEF OneLive, Live, R!ResourcesTypeOK, R!CallsTypeOK
<1>1. ASSUME NEW c \in Calls, R!Start(c)
      PROVE  OneLive'
  BY <1>1 DEF R!Start, R!Create, R!CreateDatabase, R!CreateFTP, R!AddSFTPKey, R!CreateRule,
              R!CreateForwarder, R!Insert, R!InsertBare, R!Delete, R!DeleteDatabase, R!DeleteSFTPKey,
              R!DeleteFTP, R!DeleteRule, R!DeleteForwarder, R!Deletes, R!Begin, R!Quiet, R!Live
<1>2. ASSUME NEW c \in Calls, R!Step(c)
      PROVE  OneLive'
  BY <1>2 DEF R!Step, R!Apply, R!Settle, R!GiveUp, R!Conclude, R!Drop, R!Unapply, R!Go, R!GoFailed,
              R!GoLost
<1>3. CASE R!DeleteParent \/ R!Crash \/ UNCHANGED R!vars
  BY <1>3 DEF R!DeleteParent, R!Crash, R!CrashCalls, R!callVars, R!vars, R!Live
<1> QED
  BY <1>1, <1>2, <1>3 DEF R!Next

ResGood == /\ ResLabels
           /\ clash = "no" /\ crashed = "no" => ResActive
           /\ clash = "no" /\ troubles = 0 /\ parent = "there" => ResCalm

(* A call that starts finds the others at rest, or overlaps.               *)
LEMMA ResStart ==
  ASSUME ResInv, NEW c \in Calls, R!Start(c)
  PROVE  ResGood'
<1> USE DEF ResInv, ResGood, ResLabels, ResActive, ResCalm, ResInStep, R!ResourcesTypeOK,
            R!CallsTypeOK, R!Begin, R!Quiet, R!Live, R!Did, R!Unique, R!Services, R!Insert, R!Deletes
<1>1. ASSUME R!Insert(c), svc \in R!Unique => R!Attached = {},
             status' = IF svc = "database" THEN [status EXCEPT ![c] = "provisioning"] ELSE status
      PROVE  ResGood'
  <2>0. R!Attached' = R!Attached \cup {c}
    BY <1>1 DEF R!Attached
  <2>2. ResLabels'
    BY <1>1, <2>0
  <2>3. ASSUME clash' = "no", crashed' = "no"
        PROVE  ResActive'
    BY <1>1, <2>0, <2>3
  <2>4. ASSUME clash' = "no", troubles' = 0, parent' = "there"
        PROVE  ResCalm'
    <3>1. pc'[c] = "apply" /\ \A d \in Calls \ {c} : pc'[d] \in {"idle", "done"}
      BY <1>1, <2>4
    <3>2. /\ svc \in R!Unique => remote = {}
          /\ R!Did("delete") \/ R!Attached \subseteq remote \/ (svc = "firewall" /\ remote # {})
      BY <1>1, <2>4
    <3>3. R!Did("delete") => R!Did("delete")'
      BY <1>1
    <3>4. remote' = remote /\ svc' = svc
      BY <1>1
    <3>5. \A d \in Calls : pc'[d] = "apply" => d = c
      BY <3>1
    <3>6. \A d \in Calls : pc'[d] \notin {"unapplyFirst", "both", "drop", "unapply"}
      BY <3>1
    <3>7. /\ c \in R!Attached'
          /\ svc' \in R!Unique => R!Attached' = {c} /\ remote' = {}
          /\ \/ R!Did("delete")' \/ R!Attached' \ {c} \subseteq remote'
             \/ svc' = "firewall" /\ remote' # {}
      BY <1>1, <2>0, <3>2, <3>3, <3>4
    <3>8. ~ ResBareDrop(c)'
      BY <3>6 DEF ResBareDrop
    <3> QED
      BY <3>1, <3>5, <3>6, <3>7, <3>8
  <2> QED
    BY <2>2, <2>3, <2>4
<1>2. ASSUME svc = "database", R!InsertBare(c), status' = [status EXCEPT ![c] = "provisioning"]
      PROVE  ResGood'
  <2>1. /\ R!Attached' = R!Attached /\ svc' = svc /\ remote' = remote /\ bare' = bare \cup {c}
        /\ rows' = rows \cup {c} /\ victim' = victim
        /\ pc'[c] = "settle" /\ \A d \in Calls \ {c} : pc'[d] = pc[d] /\ op'[d] = op[d]
        /\ op[c] = "none" /\ op'[c] = "create" /\ pc[c] = "idle"
        /\ crashed' = crashed /\ troubles' = troubles
    BY <1>2 DEF R!InsertBare, R!Attached
  <2>2. ResLabels'
    BY <1>2, <2>1
  <2>3. ASSUME clash' = "no"
        PROVE  clash = "no" /\ \A d \in Calls \ {c} : pc'[d] \in {"idle", "done"}
    BY <1>2, <2>1, <2>3 DEF R!InsertBare
  <2>4. ASSUME clash' = "no", crashed' = "no"
        PROVE  ResActive'
    <3>1. \A d \in Calls : pc'[d] # "unapplyFirst" /\ (pc'[d] = "settle" => d = c)
      BY <2>1, <2>3, <2>4
    <3>2. \A r \in R!Attached : r # c /\ status'[r] = status[r]
      BY <1>2, <2>1 DEF R!Attached
    <3> QED
      BY <2>1, <2>3, <2>4, <3>1, <3>2
  <2>5. ASSUME clash' = "no", troubles' = 0, parent' = "there"
        PROVE  ResCalm'
    <3>1. \A d \in Calls : pc'[d] \notin {"apply", "unapplyFirst", "both", "drop", "unapply"}
      BY <2>1, <2>3, <2>5
    <3>2. \A d \in Calls : pc[d] \notin {"apply", "unapplyFirst", "both", "drop", "unapply"}
      BY <2>1, <2>3, <2>5
    <3>3. ResInStep
      BY <1>2, <2>1, <2>3, <2>5, <3>2 DEF R!InsertBare
    <3>4. R!Did("delete") => R!Did("delete")'
      BY <2>1
    <3>5. ResInStep'
      BY <2>1, <3>3, <3>4
    <3> QED
      BY <3>1, <3>5
  <2> QED
    BY <2>2, <2>4, <2>5
<1>3. CASE R!Create(c)
  BY <1>1, <1>2, <1>3 DEF R!Create, R!CreateDatabase, R!CreateFTP, R!AddSFTPKey, R!CreateRule,
                          R!CreateForwarder
<1>6. ASSUME NEW r \in Calls, R!DeleteDatabase(c, r) PROVE ResGood'
  BY <1>6 DEF R!DeleteDatabase, R!Attached, ResBareDrop
<1>7. ASSUME NEW r \in Calls, R!DeleteSFTPKey(c, r) PROVE ResGood'
  BY <1>7 DEF R!DeleteSFTPKey, R!Attached, ResBareDrop
<1>8. ASSUME NEW r \in Calls, R!DeleteFTP(c, r) PROVE ResGood'
  BY <1>8 DEF R!DeleteFTP, R!Attached, ResBareDrop
<1>9. ASSUME NEW r \in Calls, R!DeleteRule(c, r) \/ R!DeleteForwarder(c, r) PROVE ResGood'
  BY <1>9 DEF R!DeleteRule, R!DeleteForwarder, R!Attached, ResBareDrop
<1> QED
  BY <1>3, <1>6, <1>7, <1>8, <1>9 DEF R!Start, R!Delete

(* Each step of a call that works alone.                                   *)
LEMMA ResStep ==
  ASSUME ResInv, NEW c \in Calls, R!Step(c)
  PROVE  ResGood'
<1> USE DEF ResInv, ResGood, ResLabels, ResActive, ResCalm, ResInStep, R!ResourcesTypeOK,
            R!CallsTypeOK, R!Go, R!GoFailed, R!GoLost, OneLive, Live, R!Did, R!Unique, R!Services
<1>1. CASE R!Apply(c)
  <2>1. /\ pc[c] = "apply"
        /\ UNCHANGED <<op, clash, crashed, svc, rows, status, parent, victim, bare>>
        /\ \/ R!Skipped /\ pc' = [pc EXCEPT ![c] = "done"] /\ UNCHANGED <<remote, troubles>>
           \/ ~ R!Skipped /\ pc' = [pc EXCEPT ![c] = R!AfterApply]
                /\ remote' = R!Added(c) /\ UNCHANGED troubles
           \/ pc' = [pc EXCEPT ![c] = R!AfterFailure]
                /\ remote' \in {remote, R!Added(c)} /\ troubles' = troubles + 1
    BY <1>1 DEF R!Apply
  <2>2. /\ svc = "database" => R!AfterApply = "settle" /\ R!AfterFailure = "giveUp"
        /\ svc # "database" => R!AfterApply = "done" /\ R!AfterFailure = "done"
    BY DEF R!AfterApply, R!AfterFailure
  <2>3. /\ svc \in {"database", "firewall"} => R!Added(c) = IF remote = {} THEN {c} ELSE remote
        /\ svc = "ftp" => R!Added(c) = {c}
        /\ svc \in {"sftp", "mail"} => R!Added(c) = remote \cup {c}
    BY DEF R!Added, R!ProvisionDatabase, R!ProvisionFTP, R!ProvisionSFTPKey, R!ApplyUFWRule,
           R!ApplyForwarder
  <2>4. ResLabels'
    BY <2>1, <2>2 DEF R!Attached
  <2>5. ASSUME clash' = "no", crashed' = "no"
        PROVE  ResActive'
    BY <2>1, <2>2, <2>3, <2>5 DEF R!Attached
  <2>6. ASSUME clash' = "no", troubles' = 0, parent' = "there"
        PROVE  ResCalm'
    <3>1. \A d \in Calls : pc'[d] \in {"idle", "done", "settle"}
      BY <2>1, <2>2, <2>6
    <3>2. remote' = R!Added(c) /\ R!Attached' = R!Attached /\ svc' = svc
      BY <2>1, <2>6 DEF R!Skipped, R!Attached
    <3>3. R!Did("delete")' = R!Did("delete")
      BY <2>1
    <3>4. /\ c \in R!Attached
          /\ svc \in R!Unique => R!Attached = {c} /\ remote = {}
          /\ \/ R!Did("delete") \/ R!Attached \ {c} \subseteq remote
             \/ svc = "firewall" /\ remote # {}
      BY <2>1, <2>6
    <3>5. ResInStep'
      BY <2>3, <3>2, <3>3, <3>4
    <3> QED
      BY <3>1, <3>5
  <2> QED
    BY <2>4, <2>5, <2>6
<1>2. CASE R!Settle(c) \/ R!GiveUp(c)
  BY <1>2 DEF R!Settle, R!GiveUp, R!Conclude, R!Attached, ResBareDrop
<1>3. CASE R!Drop(c)
  BY <1>3 DEF R!Drop, R!Attached, ResBareDrop
<1>4. CASE R!Unapply(c)
  <2>1. PICK to \in {<<"unapplyFirst", "drop">>, <<"both", "drop">>, <<"unapply", "done">>} :
          /\ pc[c] = to[1] /\ pc' = [pc EXCEPT ![c] = to[2]]
          /\ UNCHANGED <<op, clash, crashed, svc, rows, status, parent, victim, bare>>
          /\ \/ R!Skipped /\ UNCHANGED <<remote, troubles>>
             \/ ~ R!Skipped /\ remote' = {} /\ UNCHANGED troubles
             \/ remote' \in {remote, {}} /\ troubles' = troubles + 1
    BY <1>4 DEF R!Unapply
  <2>2. ResLabels'
    BY <2>1 DEF R!Attached
  <2>3. ASSUME clash' = "no", crashed' = "no"
        PROVE  ResActive'
    BY <2>1, <2>3 DEF R!Attached
  <2>4. ASSUME clash' = "no", troubles' = 0, parent' = "there"
        PROVE  ResCalm'
    <3>1. remote' = {} /\ R!Did("delete")' /\ troubles = 0 /\ parent = "there" /\ clash = "no"
      BY <2>1, <2>4 DEF R!Skipped
    <3>2. \A d \in Calls \ {c} : pc'[d] \in {"idle", "done"}
      BY <2>1, <3>1
    <3>3. pc'[c] \in {"drop", "done"} /\ op'[c] = "delete"
      BY <2>1, <3>1
    <3>4. svc' \in R!Unique =>
            R!Attached' \subseteq {victim'[c]} /\ (pc'[c] = "done" => R!Attached' = {})
      BY <2>1, <3>1 DEF R!Attached, ResBareDrop
    <3>5. ResInStep' \/ pc'[c] = "drop"
      BY <3>1, <3>3, <3>4
    <3>6. pc'[c] = "drop" => ~ ResBareDrop(c)'
      BY <2>1, <2>4, <3>1 DEF ResBareDrop
    <3>7. \A d \in Calls :
            /\ pc'[d] # "apply"
            /\ pc'[d] \in {"unapplyFirst", "both", "drop", "unapply"} => d = c /\ pc'[d] = "drop"
      BY <3>2, <3>3
    <3> QED
      BY <3>1, <3>4, <3>5, <3>6, <3>7
  <2> QED
    BY <2>2, <2>3, <2>4
<1> QED
  BY <1>1, <1>2, <1>3, <1>4 DEF R!Step

(* Nothing else starts or moves a call.                                    *)
LEMMA ResInvStep ==
  ASSUME ResInv, [R!Next]_(R!vars)
  PROVE  ResInv'
<1>1. R!ResourcesTypeOK' /\ OneLive'
  BY ResTypes, ResOneLive DEF ResInv
<1>2. CASE \E c \in Calls : R!Start(c) \/ R!Step(c)
  BY <1>1, <1>2, ResStart, ResStep DEF ResInv, ResGood
<1> USE DEF ResInv, ResLabels, ResActive, ResCalm, ResInStep, R!Attached, ResBareDrop
<1>3. CASE R!DeleteParent
  BY <1>1, <1>3 DEF R!DeleteParent, R!callVars, R!Unique, R!Children
<1>4. CASE R!Crash
  BY <1>1, <1>4 DEF R!Crash, R!CrashCalls, R!Live, R!ResourcesTypeOK, R!CallsTypeOK, R!resVars
<1>5. CASE UNCHANGED R!vars
  BY <1>1, <1>5 DEF R!vars, R!resVars, R!Did
<1> QED
  BY <1>2, <1>3, <1>4, <1>5 DEF R!Next

(***************************************************************************)
(* Server setup                                                            *)
(***************************************************************************)
(* Between the end of a script and the writes that report it, its module   *)
(* is on the server; a request that has not come is of no kind.            *)
SetupInHand ==
  \A c \in Calls :
    /\ pc[c] \in {"succeeded", "enable"} => cur[c] \subseteq present
    /\ pc[c] = "idle" => op[c] = "none" /\ latest # c /\ verdict[c] = "completed"

SetupTask == {"lookup", "next", "script", "succeeded", "enable", "failed"}

(* The modules a task is done with.                                        *)
SetupBehind(c) ==
  asked[c] \ (todo[c] \cup IF pc[c] \in {"script", "succeeded", "failed"} THEN cur[c] ELSE {})

(* A task that works alone is the latest, and its verdict so far is that   *)
(* of the modules it is done with.                                         *)
SetupAlone ==
  /\ \A c \in Calls : pc[c] \in SetupTask =>
       /\ latest = c /\ setup = "running"
       /\ todo[c] \subseteq asked[c]
       /\ pc[c] = "lookup" => todo[c] = asked[c] /\ verdict[c] = "completed"
       /\ pc[c] \in {"script", "succeeded", "failed"} =>
            cur[c] # {} /\ cur[c] \subseteq asked[c] \ todo[c]
       /\ verdict[c] = "completed" <=> \A m \in SetupBehind(c) : log[m] = "completed"
  /\ latest # NoCall =>
       \/ pc[latest] \in SetupTask
       \/ ~ Live(latest) /\ (setup \in {"failed", S!SummaryOfLatest} \/ crashed = "yes")

SetupInv ==
  /\ S!SetupTypeOK /\ OneLive /\ SetupInHand /\ S!ReportedIsInstalled
  /\ clash = "no" => SetupAlone

(* Nothing is asked for, logged or installed at the start.                 *)
LEMMA SetupInit ==
  ASSUME S!Init
  PROVE  SetupInv
<1> USE CallsAssumption DEF S!Init, S!CallsInit
<1>1. S!SetupTypeOK /\ OneLive
  BY DEF S!SetupTypeOK, S!CallsTypeOK, OneLive, Live
<1> QED
  BY <1>1 DEF SetupInv, SetupInHand, SetupAlone, SetupTask, S!ReportedIsInstalled

(* The types.                                                              *)
LEMMA SetupTypes ==
  ASSUME S!SetupTypeOK, [S!Next]_(S!vars)
  PROVE  S!SetupTypeOK'
<1> USE CallsAssumption DEF S!SetupTypeOK, S!CallsTypeOK, S!Ops, S!Labels, S!jobVars, S!tables
<1>1. ASSUME NEW c \in Calls, NEW ms \in SUBSET Modules, S!Handle(c, ms) \/ S!SetModules(c, ms)
      PROVE  S!SetupTypeOK'
  BY <1>1 DEF S!Handle, S!SetModules, S!Request, S!Begin
<1>2. ASSUME NEW c \in Calls, NEW m \in Modules, S!EnableModule(c, m) \/ S!RemoveModule(c, m)
      PROVE  S!SetupTypeOK'
  BY <1>2 DEF S!EnableModule, S!RemoveModule, S!Request, S!Begin
<1>3. ASSUME NEW c \in Calls, S!Lookup(c)
      PROVE  S!SetupTypeOK'
  BY <1>3 DEF S!Lookup, S!Logged, S!Go, S!GoFailed
<1>4. ASSUME NEW c \in Calls, S!StartScript(c)
      PROVE  S!SetupTypeOK'
  BY <1>4 DEF S!StartScript, S!Logged, S!Go
<1>5. ASSUME NEW c \in Calls, S!NoScript(c)
      PROVE  S!SetupTypeOK'
  BY <1>5 DEF S!NoScript, S!Logged, S!Go
<1>6. ASSUME NEW c \in Calls, S!RunModule(c) \/ S!InstallModule(c)
      PROVE  S!SetupTypeOK'
  BY <1>6 DEF S!RunModule, S!InstallModule, S!Go, S!GoFailed
<1>7. ASSUME NEW c \in Calls, S!Succeeded(c) \/ S!Enable(c) \/ S!ModuleFailed(c) \/ S!Finish(c)
      PROVE  S!SetupTypeOK'
  BY <1>7 DEF S!Succeeded, S!Enable, S!ModuleFailed, S!Finish, S!Logged, S!Go
<1>8. CASE S!Crash
  BY <1>8 DEF S!Crash, S!CrashCalls
<1>9. CASE UNCHANGED S!vars
  BY <1>9 DEF S!vars
<1> QED
  BY <1>1, <1>2, <1>3, <1>4, <1>5, <1>6, <1>7, <1>8, <1>9 DEF S!Next, S!Start, S!Step

(* At most one call is at work here too.                                   *)
LEMMA SetupOneLive ==
  ASSUME S!SetupTypeOK, OneLive, [S!Next]_(S!vars)
  PROVE  OneLive'
<1> USE DEF OneLive, Live, S!SetupTypeOK, S!CallsTypeOK
<1>1. ASSUME NEW c \in Calls, S!Start(c)
      PROVE  OneLive'
  BY <1>1 DEF S!Start, S!Handle, S!SetModules, S!EnableModule, S!RemoveModule, S!Request,
              S!Begin, S!Quiet, S!Live
<1>2. ASSUME NEW c \in Calls, S!Step(c)
      PROVE  OneLive'
  <2>1. /\ Live(c) /\ clash' = clash
        /\ \A b \in Calls : b # c => pc'[b] = pc[b]
    BY <1>2 DEF S!Step, S!Lookup, S!StartScript, S!NoScript, S!RunModule, S!Succeeded, S!Enable,
                S!ModuleFailed, S!Finish, S!InstallModule, S!Go, S!GoFailed
  <2> QED
    BY <2>1
<1>3. CASE S!Crash \/ UNCHANGED S!vars
  BY <1>3 DEF S!Crash, S!CrashCalls, S!vars, S!Live
<1> QED
  BY <1>1, <1>2, <1>3 DEF S!Next

(* What is reported is installed, whatever overlaps.                       *)
LEMMA SetupReports ==
  ASSUME S!SetupTypeOK, SetupInHand, S!ReportedIsInstalled, [S!Next]_(S!vars)
  PROVE  SetupInHand' /\ S!ReportedIsInstalled'
<1> USE CallsAssumption DEF S!SetupTypeOK, S!CallsTypeOK, SetupInHand, S!ReportedIsInstalled,
        S!jobVars, S!tables
<1> DEFINE Good == SetupInHand /\ S!ReportedIsInstalled
<1>1. ASSUME NEW c \in Calls, NEW ms \in SUBSET Modules, S!Handle(c, ms) PROVE Good'
  BY <1>1 DEF S!Handle, S!Begin
<1>2. ASSUME NEW c \in Calls, NEW ms \in SUBSET Modules, S!SetModules(c, ms) PROVE Good'
  BY <1>2 DEF S!SetModules, S!Request, S!Begin
<1>3. ASSUME NEW c \in Calls, NEW m \in Modules, S!EnableModule(c, m) PROVE Good'
  BY <1>3 DEF S!EnableModule, S!Request, S!Begin
<1>4. ASSUME NEW c \in Calls, NEW m \in Modules, S!RemoveModule(c, m) PROVE Good'
  BY <1>4 DEF S!RemoveModule, S!Request, S!Begin
<1>5. ASSUME NEW c \in Calls, S!Lookup(c) PROVE Good'
  BY <1>5 DEF S!Lookup, S!Logged, S!Go, S!GoFailed
<1>6. ASSUME NEW c \in Calls, S!StartScript(c) PROVE Good'
  BY <1>6 DEF S!StartScript, S!Logged, S!Go
<1>7. ASSUME NEW c \in Calls, S!NoScript(c) PROVE Good'
  BY <1>7 DEF S!NoScript, S!Logged, S!Go
<1>8. ASSUME NEW c \in Calls, S!RunModule(c) PROVE Good'
  BY <1>8 DEF S!RunModule, S!Go, S!GoFailed
<1>9. ASSUME NEW c \in Calls, S!InstallModule(c) PROVE Good'
  BY <1>9 DEF S!InstallModule, S!Go, S!GoFailed
<1>10. ASSUME NEW c \in Calls, S!Succeeded(c) PROVE Good'
  BY <1>10 DEF S!Succeeded, S!Logged, S!Go
<1>11. ASSUME NEW c \in Calls, S!Enable(c) PROVE Good'
  BY <1>11 DEF S!Enable, S!Go
<1>12. ASSUME NEW c \in Calls, S!ModuleFailed(c) PROVE Good'
  BY <1>12 DEF S!ModuleFailed, S!Logged, S!Go
<1>13. ASSUME NEW c \in Calls, S!Finish(c) PROVE Good'
  BY <1>13 DEF S!Finish, S!Go
<1>14. CASE S!Crash
  BY <1>14 DEF S!Crash, S!CrashCalls, S!Live
<1>15. CASE UNCHANGED S!vars
  BY <1>15 DEF S!vars
<1> QED
  BY <1>1, <1>2, <1>3, <1>4, <1>5, <1>6, <1>7, <1>8, <1>9, <1>10, <1>11, <1>12, <1>13, <1>14, <1>15
  DEF S!Next, S!Start, S!Step

(* The verdict of a task that works alone.                                 *)
LEMMA SetupSums ==
  ASSUME SetupInv, [S!Next]_(S!vars), clash' = "no"
  PROVE  SetupAlone'
<1> USE CallsAssumption DEF SetupInv, S!SetupTypeOK, S!CallsTypeOK, SetupInHand, SetupAlone,
        SetupTask, SetupBehind, S!SummaryOfLatest, OneLive, Live, S!jobVars, S!tables
<1>1. ASSUME NEW c \in Calls, NEW ms \in SUBSET Modules, S!Handle(c, ms) PROVE SetupAlone'
  BY <1>1 DEF S!Handle, S!Begin, S!Quiet, S!Live
<1>2. ASSUME NEW c \in Calls, NEW ms \in SUBSET Modules, S!SetModules(c, ms) PROVE SetupAlone'
  BY <1>2 DEF S!SetModules, S!Request, S!Begin, S!Quiet, S!Live
<1>3. ASSUME NEW c \in Calls, NEW m \in Modules, S!EnableModule(c, m) PROVE SetupAlone'
  BY <1>3 DEF S!EnableModule, S!Request, S!Begin, S!Quiet, S!Live
<1>4. ASSUME NEW c \in Calls, NEW m \in Modules, S!RemoveModule(c, m) PROVE SetupAlone'
  BY <1>4 DEF S!RemoveModule, S!Request, S!Begin, S!Quiet, S!Live
<1>5. ASSUME NEW c \in Calls, S!Lookup(c) PROVE SetupAlone'
  <2>1. /\ pc[c] = "lookup" /\ pc'[c] \in {"next", "done"}
        /\ \A d \in Calls \ {c} : pc'[d] = pc[d] /\ pc[d] \notin SetupTask
        /\ latest = c /\ todo[c] = asked[c] /\ verdict[c] = "completed" /\ setup = "running"
        /\ pc'[c] = "next" => setup' = setup
        /\ pc'[c] = "done" => setup' = "failed"
        /\ UNCHANGED <<asked, todo, cur, verdict, latest>>
    BY <1>5 DEF S!Lookup, S!Go, S!GoFailed
  <2>2. SetupBehind(c)' = {}
    BY <2>1
  <2> QED
    BY <2>1, <2>2
<1>6. ASSUME NEW c \in Calls, S!StartScript(c) PROVE SetupAlone'
  <2>1. PICK m \in todo[c] \cap Scripted :
          /\ S!Go(c, "next", "script")
          /\ cur' = [cur EXCEPT ![c] = {m}]
          /\ todo' = [todo EXCEPT ![c] = @ \ {m}]
          /\ S!Logged({m}, "running")
          /\ UNCHANGED <<setup, asked, verdict, latest>>
    BY <1>6 DEF S!StartScript
  <2>2. /\ pc[c] = "next" /\ pc'[c] = "script" /\ m \in asked[c]
        /\ \A d \in Calls \ {c} : pc'[d] = pc[d] /\ pc[d] \notin SetupTask
        /\ latest = c /\ setup = "running" /\ todo[c] \subseteq asked[c]
        /\ cur'[c] = {m} /\ todo'[c] = todo[c] \ {m}
    BY <2>1 DEF S!Go
  <2>3. SetupBehind(c)' = asked[c] \ todo[c] /\ SetupBehind(c) = asked[c] \ todo[c]
    BY <2>1, <2>2
  <2>4. \A n \in asked[c] \ todo[c] : log'[n] = log[n]
    BY <2>1 DEF S!Logged
  <2>5. verdict'[c] = "completed" <=> \A n \in SetupBehind(c)' : log'[n] = "completed"
    <3>1. verdict[c] = "completed" <=> \A n \in SetupBehind(c) : log[n] = "completed"
      <4>1. clash = "no" /\ pc[c] \in SetupTask
        BY <2>1, <2>2 DEF S!Go
      <4> QED
        BY <4>1
    <3>2. verdict'[c] = verdict[c]
      BY <2>1
    <3> HIDE DEF SetupBehind
    <3> QED
      BY <2>3, <2>4, <3>1, <3>2
  <2>6. /\ latest' = c /\ setup' = "running" /\ todo'[c] \subseteq asked'[c]
        /\ cur'[c] # {} /\ cur'[c] \subseteq asked'[c] \ todo'[c]
    BY <2>1, <2>2
  <2> QED
    BY <2>2, <2>5, <2>6
<1>7. ASSUME NEW c \in Calls, S!NoScript(c) PROVE SetupAlone'
  <2>1. PICK m \in todo[c] \ Scripted :
          /\ S!Go(c, "next", "next")
          /\ todo' = [todo EXCEPT ![c] = @ \ {m}]
          /\ verdict' = [verdict EXCEPT ![c] = "partial"]
          /\ S!Logged({m}, "failed")
          /\ UNCHANGED <<setup, asked, cur, latest>>
    BY <1>7 DEF S!NoScript
  <2>2. /\ pc[c] = "next" /\ pc' = [pc EXCEPT ![c] = "next"]
        /\ UNCHANGED <<op, clash, crashed>>
        /\ m \in Modules /\ log'[m] = "failed"
    BY <2>1 DEF S!Go, S!Logged
  <2>3. \A b \in Calls : pc'[b] = pc[b] /\ (pc[b] \in SetupTask => b = c)
    BY <2>2
  <2>4. latest = c /\ setup = "running" /\ todo[c] \subseteq asked[c]
    BY <2>2
  <2>5. /\ todo'[c] \subseteq asked[c] /\ verdict'[c] = "partial"
        /\ m \in asked[c] \ todo'[c]
    BY <2>1, <2>4
  <2>6. SetupBehind(c)' = asked[c] \ todo'[c]
    BY <2>1, <2>2
  <2> QED
    BY <2>1, <2>2, <2>3, <2>4, <2>5, <2>6
<1>8. ASSUME NEW c \in Calls, S!RunModule(c) PROVE SetupAlone'
  BY <1>8 DEF S!RunModule, S!Go, S!GoFailed
<1>9. ASSUME NEW c \in Calls, S!InstallModule(c) PROVE SetupAlone'
  BY <1>9 DEF S!InstallModule, S!Go, S!GoFailed
<1>10. ASSUME NEW c \in Calls, S!Succeeded(c) PROVE SetupAlone'
  BY <1>10 DEF S!Succeeded, S!Logged, S!Go
<1>11. ASSUME NEW c \in Calls, S!Enable(c) PROVE SetupAlone'
  BY <1>11 DEF S!Enable, S!Go
<1>12. ASSUME NEW c \in Calls, S!ModuleFailed(c) PROVE SetupAlone'
  <2>1. /\ pc[c] = "failed" /\ pc' = [pc EXCEPT ![c] = "next"] /\ clash = "no"
        /\ log' = [m \in Modules |-> IF m \in cur[c] THEN "failed" ELSE log[m]]
        /\ verdict' = [verdict EXCEPT ![c] = "partial"]
        /\ UNCHANGED <<op, crashed, setup, asked, todo, cur, latest>>
    BY <1>12 DEF S!ModuleFailed, S!Logged, S!Go
  <2>2. latest = c /\ \A d \in Calls \ {c} : pc'[d] \notin SetupTask
    BY <2>1
  <2>3. PICK m \in cur[c] : m \in asked[c] \ todo[c] /\ log'[m] = "failed"
    BY <2>1
  <2>4. m \in SetupBehind(c)'
    BY <2>1, <2>3
  <2>5. verdict'[c] = "partial"
    BY <2>1
  <2>6. verdict'[c] = "completed" <=> \A n \in SetupBehind(c)' : log'[n] = "completed"
    BY <2>3, <2>4, <2>5
  <2>7. pc'[c] = "next" /\ setup' = "running" /\ todo'[c] \subseteq asked'[c] /\ latest' = c
    BY <2>1, <2>2
  <2> QED
    BY <2>2, <2>6, <2>7
<1>13. ASSUME NEW c \in Calls, S!Finish(c) PROVE SetupAlone'
  BY <1>13 DEF S!Finish, S!Go
<1>14. CASE S!Crash
  BY <1>14 DEF S!Crash, S!CrashCalls, S!Live
<1>15. CASE UNCHANGED S!vars
  BY <1>15 DEF S!vars
<1> QED
  BY <1>1, <1>2, <1>3, <1>4, <1>5, <1>6, <1>7, <1>8, <1>9, <1>10, <1>11, <1>12, <1>13, <1>14, <1>15
  DEF S!Next, S!Start, S!Step

(* Together.                                                               *)
LEMMA SetupInvStep ==
  ASSUME SetupInv, [S!Next]_(S!vars)
  PROVE  SetupInv'
BY SetupTypes, SetupOneLive, SetupReports, SetupSums DEF SetupInv

(***************************************************************************)
(* Terminals                                                               *)
(***************************************************************************)
(* A connection is open only while somebody is left who will close it: the *)
(* handler until it has started the goroutines, then out for the WebSocket *)
(* and in for both.                                                        *)
TermClosers ==
  /\ handler = "dial" => peer = "none" /\ out = "none"
  /\ handler = "setup" => out = "none"
  /\ handler = "wait" => out # "none"
  /\ out = "none" <=> in = "none"
  /\ out = "none" /\ handler = "done" => conn # "open" /\ peer # "open"
  /\ out = "done" \/ in = "done" => conn = "closed"
  /\ in = "done" => peer = "closed"

TermInv == T!TerminalTypeOK /\ TermClosers

(* Nothing is open at the start.                                           *)
LEMMA TermInit ==
  ASSUME T!Init
  PROVE  TermInv
BY HostingAssumption DEF T!Init, TermInv, TermClosers, T!TerminalTypeOK

(* The types.                                                              *)
LEMMA TermTypes ==
  ASSUME T!TerminalTypeOK, [T!Next]_(T!terminalVars)
  PROVE  T!TerminalTypeOK'
<1> USE HostingAssumption DEF T!TerminalTypeOK, T!ends, T!bytes
<1>1. CASE T!Handler
  BY <1>1 DEF T!Handler, T!Upgrade, T!Dial, T!Setup, T!Return
<1>2. CASE T!Out \/ T!ErrRead
  BY <1>2 DEF T!Out, T!OutRead, T!OutWrite, T!OutClose, T!ErrRead
<1>3. CASE T!In
  BY <1>3 DEF T!In, T!InRead, T!InWrite, T!InClose
<1>4. CASE T!Outside
  BY <1>4 DEF T!Outside, T!Leave, T!ShellReads, T!ShellPrints, T!ShellExits
<1>5. CASE UNCHANGED T!terminalVars
  BY <1>5 DEF T!terminalVars
<1> QED
  BY <1>1, <1>2, <1>3, <1>4, <1>5 DEF T!Next, T!Goroutines

(* Whoever ends closes what it alone could close.                          *)
LEMMA TermInvStep ==
  ASSUME TermInv, [T!Next]_(T!terminalVars)
  PROVE  TermInv'
<1>0. T!TerminalTypeOK'
  BY TermTypes DEF TermInv
<1> USE <1>0 DEF TermInv, TermClosers, T!TerminalTypeOK, T!ends, T!bytes
<1>1. CASE T!Handler
  BY <1>1 DEF T!Handler, T!Upgrade, T!Dial, T!Setup, T!Return, T!Ended
<1>2. CASE T!Out \/ T!ErrRead
  BY <1>2 DEF T!Out, T!OutRead, T!OutWrite, T!OutClose, T!ErrRead
<1>3. CASE T!In
  BY <1>3 DEF T!In, T!InRead, T!InWrite, T!InClose
<1>4. CASE T!Outside
  BY <1>4 DEF T!Outside, T!Leave, T!ShellReads, T!ShellPrints, T!ShellExits
<1>5. CASE UNCHANGED T!terminalVars
  BY <1>5 DEF T!terminalVars
<1> QED
  BY <1>1, <1>2, <1>3, <1>4, <1>5 DEF T!Next, T!Goroutines

(***************************************************************************)
(* What each module's invariant says, and that it holds of the module on   *)
(* its own, where calls start in any order and number.                     *)
(***************************************************************************)
(* The registry of PHP versions.                                           *)
LEMMA PhpMeans ==
  ASSUME PhpInv
  PROVE  P!ActiveIsInstalled /\ P!OneDefault /\ P!SwitchedVersionStays
<1>1. P!ActiveIsInstalled
  BY DEF PhpInv, PhpActive, P!ActiveIsInstalled
<1>2. P!SwitchedVersionStays
  BY DEF PhpInv, PhpSwitched, P!SwitchedVersionStays
<1>3. P!OneDefault
  BY DEF PhpInv, PhpOneDefault, P!OneDefault, P!Defaults, P!Quiet, P!Live, P!Calm, P!Did
<1> QED
  BY <1>1, <1>2, <1>3

(* An active version is on the server, SetDefault leaves one default, and  *)
(* no call takes away the version a domain was switched to, as long as     *)
(* calls do not overlap.                                                   *)
THEOREM PhpCorrect ==
  P!Spec => [](P!PhpTypeOK /\ P!ActiveIsInstalled /\ P!OneDefault /\ P!SwitchedVersionStays)
<1>1. P!Init => PhpInv
  BY PhpInit, HostingAssumption
<1>2. PhpInv /\ [P!Next]_(P!vars) => PhpInv'
  BY PhpInvStep
<1>3. PhpInv => P!PhpTypeOK /\ P!ActiveIsInstalled /\ P!OneDefault /\ P!SwitchedVersionStays
  BY PhpMeans DEF PhpInv
<1> QED
  BY <1>1, <1>2, <1>3, PTL DEF P!Spec

(* Databases, users, rules and forwarders.                                 *)
LEMMA ResMeans ==
  ASSUME ResInv
  PROVE  R!ServerMatchesRows /\ R!ActiveDatabaseIsThere
<1>1. R!Quiet => \A c \in Calls : pc[c] \notin {"apply", "both", "drop", "unapply"}
  BY DEF R!Quiet, R!Live
<1>2. R!ServerMatchesRows
  BY <1>1 DEF ResInv, ResCalm, ResInStep, ResBareDrop, R!ServerMatchesRows, R!Calm
<1>3. R!ActiveDatabaseIsThere
  BY <1>1 DEF ResInv, ResActive, R!ActiveDatabaseIsThere
<1> QED
  BY <1>2, <1>3

(* Calls that do not overlap and whose scripts run leave on the server what*)
(* the table says; an 'active' database exists even after scripts failed.  *)
THEOREM ResourcesCorrect ==
  R!Spec => [](R!ResourcesTypeOK /\ R!ServerMatchesRows /\ R!ActiveDatabaseIsThere)
<1>1. R!Init => ResInv
  BY ResInit
<1>2. ResInv /\ [R!Next]_(R!vars) => ResInv'
  BY ResInvStep
<1>3. ResInv => R!ResourcesTypeOK /\ R!ServerMatchesRows /\ R!ActiveDatabaseIsThere
  BY ResMeans DEF ResInv
<1> QED
  BY <1>1, <1>2, <1>3, PTL DEF R!Spec

(* The setup of a server.                                                  *)
LEMMA SetupMeans ==
  ASSUME SetupInv
  PROVE  S!ReportedIsInstalled /\ S!SetupSumsUp
<1>1. S!SetupSumsUp
  BY DEF SetupInv, SetupAlone, SetupTask, S!SetupTypeOK, S!SetupSumsUp, S!Live, Live
<1> QED
  BY <1>1 DEF SetupInv

(* Whatever tasks and requests overlap, fail or are killed, a module the   *)
(* progress page calls 'completed' is on the server, and so is an enabled  *)
(* one unless EnableModule or SetModules named it; setup_status sums up the*)
(* logs of the last setup as long as nothing overlaps.                     *)
THEOREM SetupCorrect ==
  S!Spec => [](S!SetupTypeOK /\ S!ReportedIsInstalled /\ S!SetupSumsUp)
<1>1. S!Init => SetupInv
  BY SetupInit
<1>2. SetupInv /\ [S!Next]_(S!vars) => SetupInv'
  BY SetupInvStep
<1>3. SetupInv => S!SetupTypeOK /\ S!ReportedIsInstalled /\ S!SetupSumsUp
  BY SetupMeans DEF SetupInv
<1> QED
  BY <1>1, <1>2, <1>3, PTL DEF S!Spec

(* The terminal.                                                           *)
LEMMA TermMeans ==
  ASSUME TermInv
  PROVE  T!NothingLeftOpen
BY DEF TermInv, TermClosers, T!TerminalTypeOK, T!NothingLeftOpen, T!Over

(* However a terminal ends, when its handler and goroutines have returned  *)
(* neither the browser's connection nor the server's is left open.         *)
THEOREM TerminalCorrect ==
  T!Spec => [](T!TerminalTypeOK /\ T!NothingLeftOpen)
<1>1. T!Init => TermInv
  BY TermInit
<1>2. TermInv /\ [T!Next]_(T!terminalVars) => TermInv'
  BY TermInvStep
<1>3. TermInv => T!TerminalTypeOK /\ T!NothingLeftOpen
  BY TermMeans DEF TermInv
<1> QED
  BY <1>1, <1>2, <1>3, PTL DEF T!Spec

(***************************************************************************)
(* The composition                                                         *)
(***************************************************************************)
(* A module that is not the one that moves is as it was at the start.      *)
DomainAtRest ==
  row = NoRow /\ site = [w \in Webs |-> NoSite] /\ served = [w \in Webs |-> NoSite]
PhpAtRest    == \A v \in Versions : reg[v].status = "absent"
SetupAtRest  == (\A m \in Modules : log[m] = "absent") /\ enabled = {} /\ latest = NoCall

HostingInv ==
  /\ part \in {"domain", "php", "resource", "setup", "terminal"}
  /\ IF part = "domain" THEN SerialInv /\ InductiveInv ELSE DomainAtRest
  /\ IF part = "php" THEN PhpInv ELSE PhpAtRest
  /\ part = "resource" => ResInv
  /\ IF part = "setup" THEN SetupInv ELSE SetupAtRest
  /\ TermInv

(* It holds at the start.                                                  *)
LEMMA HostingInitial ==
  ASSUME HostingInit
  PROVE  HostingInv
<1>1. part \in {"domain", "php", "resource", "setup", "terminal"}
      /\ Init /\ P!Init /\ R!Init /\ S!Init /\ T!Init
  BY DEF HostingInit
<1>2. DefaultPhp \in Versions
  BY HostingAssumption
<1>3. SerialInv /\ InductiveInv /\ PhpInv /\ ResInv /\ SetupInv /\ TermInv
  BY <1>1, <1>2, SerialInit, InductiveInit, PhpInit, ResInit, SetupInit, TermInit
<1>4. DomainAtRest
  BY <1>1 DEF DomainAtRest, Init
<1>5. PhpAtRest
  BY <1>1 DEF PhpAtRest, P!Init, P!NoEntry
<1>6. SetupAtRest
  BY <1>1 DEF SetupAtRest, S!Init
<1> QED
  BY <1>1, <1>3, <1>4, <1>5, <1>6 DEF HostingInv

(* A step is a step of the module that moves, and of no other.             *)
LEMMA OneModuleMoves ==
  ASSUME HostingInv, [HostingNext]_hostingVars
  PROVE  /\ part' = part
         /\ part = "domain" => [Next]_vars
         /\ part = "php" => [P!Next]_(P!vars)
         /\ part = "resource" => [R!Next]_(R!vars)
         /\ part = "setup" => [S!Next]_(S!vars)
         /\ [T!Next]_(T!terminalVars)
         /\ part # "domain" => UNCHANGED <<row, site, served>>
         /\ part # "php" => UNCHANGED reg
         /\ part # "setup" => UNCHANGED <<log, enabled, latest>>
<1> DEFINE Goal ==
         /\ part' = part
         /\ part = "domain" => [Next]_vars
         /\ part = "php" => [P!Next]_(P!vars)
         /\ part = "resource" => [R!Next]_(R!vars)
         /\ part = "setup" => [S!Next]_(S!vars)
         /\ [T!Next]_(T!terminalVars)
         /\ part # "domain" => UNCHANGED <<row, site, served>>
         /\ part # "php" => UNCHANGED reg
         /\ part # "setup" => UNCHANGED <<log, enabled, latest>>
<1> USE DEF Moves, domainVars, worldVars, phpVars, resVars, setupVars, termVars
<1>0. ASSUME part # "terminal", UNCHANGED termVars
      PROVE  [T!Next]_(T!terminalVars)
  BY <1>0 DEF T!terminalVars, T!ends, T!bytes
<1>1. ASSUME Moves("domain"), Next
      PROVE  Goal
  BY <1>0, <1>1
<1>2. ASSUME Moves("php"), P!Next
      PROVE  Goal
  BY <1>0, <1>2
<1>3. ASSUME Moves("resource"), R!Next
      PROVE  Goal
  BY <1>0, <1>3
<1>4. ASSUME Moves("setup"), S!Next
      PROVE  Goal
  BY <1>0, <1>4
<1>5. ASSUME Moves("terminal"), T!Next
      PROVE  Goal
  BY <1>5
<1>6. CASE UNCHANGED hostingVars
  BY <1>6 DEF hostingVars, callVars, memVars, vars, P!vars, R!vars, S!vars, T!terminalVars,
              R!resVars, T!ends, T!bytes
<1>7. HostingNext =>
        \/ Moves("domain") /\ Next
        \/ Moves("php") /\ P!Next
        \/ Moves("resource") /\ R!Next
        \/ Moves("setup") /\ S!Next
        \/ Moves("terminal") /\ T!Next
  BY DEF HostingNext, HostingStep, TerminalMoves, Next, P!Next, R!Next, S!Next
<1> QED
  BY <1>1, <1>2, <1>3, <1>4, <1>5, <1>6, <1>7

(* The invariant is inductive.                                             *)
LEMMA HostingInvStep ==
  ASSUME HostingInv, [HostingNext]_hostingVars
  PROVE  HostingInv'
<1>1. DefaultPhp \in Versions
  BY HostingAssumption
<1>2. part = "domain" => SerialInv' /\ InductiveInv'
  BY <1>1, OneModuleMoves, SerialStep, InductiveStep DEF HostingInv
<1>3. part = "php" => PhpInv'
  BY OneModuleMoves, PhpInvStep DEF HostingInv
<1>4. part = "resource" => ResInv'
  BY OneModuleMoves, ResInvStep DEF HostingInv
<1>5. part = "setup" => SetupInv'
  BY OneModuleMoves, SetupInvStep DEF HostingInv
<1>6. TermInv'
  BY OneModuleMoves, TermInvStep DEF HostingInv
<1>7. /\ part # "domain" => DomainAtRest'
      /\ part # "php" => PhpAtRest'
      /\ part # "setup" => SetupAtRest'
  BY OneModuleMoves DEF HostingInv, DomainAtRest, PhpAtRest, SetupAtRest, NoRow, NoSite
<1>8. part' = part
  BY OneModuleMoves
<1> QED
  BY <1>2, <1>3, <1>4, <1>5, <1>6, <1>7, <1>8 DEF HostingInv

(* It holds in every reachable state.                                      *)
LEMMA AlwaysHosting == HostingSpec => []HostingInv
<1>1. HostingInit => HostingInv
  BY HostingInitial
<1>2. HostingInv /\ [HostingNext]_hostingVars => HostingInv'
  BY HostingInvStep
<1> QED
  BY <1>1, <1>2, PTL DEF HostingSpec

(***************************************************************************)
(* What it shows                                                           *)
(***************************************************************************)
(* Rows, registries, logs, connections and counters of the module that     *)
(* moves always have their types.                                          *)
THEOREM HostingTypeCorrect == HostingSpec => []TypeOK
<1>1. HostingInv => TypeOK
  BY DEF HostingInv, TypeOK, SerialInv, PhpInv, ResInv, SetupInv, TermInv
<1> QED
  BY <1>1, AlwaysHosting, PTL

(* What is reported as installed is on the server: the active PHP versions *)
(* as long as calls do not overlap, whatever scripts do; the modules of the*)
(* progress page and of the server's list always, unless a request to      *)
(* EnableModule or SetModules named them.                                  *)
THEOREM InstalledIsAlwaysThere == HostingSpec => []InstalledIsThere
<1>1. ASSUME HostingInv
      PROVE  InstalledIsThere
  <2>1. P!ActiveIsInstalled
    BY <1>1, PhpMeans DEF HostingInv, PhpAtRest, P!ActiveIsInstalled
  <2>2. S!ReportedIsInstalled
    BY <1>1, SetupMeans DEF HostingInv, SetupAtRest, S!ReportedIsInstalled
  <2> QED
    BY <2>1, <2>2 DEF InstalledIsThere
<1> QED
  BY <1>1, AlwaysHosting, PTL

(* SetDefault leaves one default version, never none and never two, and no *)
(* call takes away the version a domain was switched to, as long as calls  *)
(* do not overlap.                                                         *)
THEOREM AlwaysOneDefault == HostingSpec => []OneDefault
<1>1. HostingInv => OneDefault
  BY PhpMeans DEF HostingInv, OneDefault
<1> QED
  BY <1>1, AlwaysHosting, PTL

(* Calls that do not overlap and whose scripts run leave on the server what*)
(* the table says, for databases, FTP and SFTP users, firewall rules and   *)
(* forwarders; and a database that is 'active' exists, even after scripts  *)
(* that failed.                                                            *)
THEOREM ServerAlwaysMatchesRows == HostingSpec => []ServerMatchesRows
<1>1. HostingInv => ServerMatchesRows
  BY ResMeans DEF HostingInv, ServerMatchesRows
<1> QED
  BY <1>1, AlwaysHosting, PTL

(* A server's setup_status sums up the logs of its last setup, and is      *)
(* 'running' exactly while that runs, as long as calls do not overlap.     *)
THEOREM SetupAlwaysSumsUp == HostingSpec => []SetupSumsUp
<1>1. HostingInv => SetupSumsUp
  BY SetupMeans DEF HostingInv, SetupAtRest, SetupSumsUp, S!SetupSumsUp
<1> QED
  BY <1>1, AlwaysHosting, PTL

(* However a terminal ends, when its handler and goroutines have returned  *)
(* neither the browser's connection nor the server's is left open.         *)
THEOREM NothingEverLeftOpen == HostingSpec => []NothingLeftOpen
<1>1. HostingInv => NothingLeftOpen
  BY TermMeans DEF HostingInv, NothingLeftOpen
<1> QED
  BY <1>1, AlwaysHosting, PTL

(* The vhost on the server is the row's, after calls that did not overlap  *)
(* and whose scripts ran; and what a web server serves is its file.        *)
THEOREM HostedDomainAgrees == HostingSpec => [](ServerAgrees /\ ServesTheFile)
<1>1. HostingInv => ServerAgrees /\ ServesTheFile
  BY SerialMeans DEF HostingInv, DomainAtRest, NoRow, NoSite, Exists, ServerAgrees,
                     ServesTheFile
<1> QED
  BY <1>1, AlwaysHosting, PTL
=============================================================================
