--------------------------- MODULE DomainsProofs ---------------------------
(***************************************************************************)
(* Theorems about module Domains, for any number of calls, PHP versions,   *)
(* failing scripts and restarts.                                           *)
(*                                                                         *)
(* That a row in status 'provisioning' has a worker is not inductive: it   *)
(* does not say which steps the worker has left.  The invariant below adds *)
(* that the call which inserted the row is still between labels of Create, *)
(* and that a call at such a label writes under its own id, so that what   *)
(* it writes last goes to the row it inserted or nowhere.                  *)
(***************************************************************************)
EXTENDS Domains, TLAPS

(* The labels of a Create that has not written its verdict.                *)
Provisioner == {"unattended", "vhost", "certbot", "secure", "secured", "activate",
                "giveUp"}

WritesOwnRow == \A c \in Calls : pc[c] \in Provisioner => mem[c].id = c

RowHasProvisioner ==
  row.status = "provisioning" /\ crashed = "no" /\ ~ Abandoned =>
    row.id \in Calls /\ pc[row.id] \in Provisioner

IdleNamesNothing == \A c \in Calls : pc[c] = "idle" => named[c] = "none"

InductiveInv == DomainsTypeOK /\ WritesOwnRow /\ IdleNamesNothing /\ RowHasProvisioner

(***************************************************************************)
(* Types                                                                   *)
(***************************************************************************)
(* A call that starts, moves or is killed stays typed.                     *)
LEMMA CallsStayTyped ==
  ASSUME CallsTypeOK(Ops, Labels), NEW c \in Calls, NEW o \in Ops,
         NEW from, NEW to \in Labels \cup {"done"},
         \/ Begin(c, o, to) \/ Go(c, from, to) \/ GoFailed(c, from, to)
         \/ GoLost(c, from, to) \/ CrashCalls
  PROVE  CallsTypeOK(Ops, Labels)'
<1> USE CallsAssumption
<1>1. CASE Begin(c, o, to)
  BY <1>1 DEF Begin, CallsTypeOK
<1>2. CASE Go(c, from, to)
  BY <1>2 DEF Go, CallsTypeOK
<1>3. CASE GoFailed(c, from, to)
  BY <1>3 DEF GoFailed, CallsTypeOK
<1>4. CASE GoLost(c, from, to)
  BY <1>4 DEF GoLost, CallsTypeOK
<1>5. CASE CrashCalls
  BY <1>5 DEF CrashCalls, CallsTypeOK
<1> QED
  BY <1>1, <1>2, <1>3, <1>4, <1>5

(* What the actions write into rows and files is typed.                    *)
LEMMA WrittenDataTyped ==
  ASSUME DefaultPhp \in Versions
  PROVE  /\ NoRow \in Rows /\ NoSite \in Sites
         /\ \A r \in Rows : VhostOf(r) \in Sites
         /\ \A r \in Rows, s \in Statuses : [r EXCEPT !.status = s] \in Rows
         /\ \A r \in Rows, s \in Switch : [r EXCEPT !.ssl = s] \in Rows
         /\ \A r \in Rows, p \in Versions : [r EXCEPT !.php = p] \in Rows
         /\ \A t \in Sites, p \in Versions : [t EXCEPT !.php = p] \in Sites
<1>1. NoRow \in Rows /\ NoSite \in Sites
  BY DEF NoRow, NoSite, Rows, Sites, Hosts, Webs, Switch, Statuses
<1>2. \A r \in Rows : VhostOf(r) \in Sites
  BY DEF VhostOf, Rows, Sites, Webs
<1>3. \A r \in Rows, s \in Statuses : [r EXCEPT !.status = s] \in Rows
  BY DEF Rows
<1>4. \A r \in Rows, s \in Switch : [r EXCEPT !.ssl = s] \in Rows
  BY DEF Rows
<1>5. \A r \in Rows, p \in Versions : [r EXCEPT !.php = p] \in Rows
  BY DEF Rows
<1>6. \A t \in Sites, p \in Versions : [t EXCEPT !.php = p] \in Sites
  BY DEF Sites
<1> QED
  BY <1>1, <1>2, <1>3, <1>4, <1>5, <1>6

(* A script that installs a site, in full or not, keeps the types.         *)
LEMMA ScriptStaysTyped ==
  ASSUME DomainsTypeOK, NEW w \in Webs, NEW s \in Sites, Install(w, s) \/ Interrupted(w, s)
  PROVE  /\ row' \in Rows /\ site' \in [Webs -> Sites] /\ served' \in [Webs -> Sites]
         /\ cert' \in {"none", "issued"}
<1>1. CASE Install(w, s)
  BY <1>1 DEF Install, Loaded, DomainsTypeOK
<1>2. CASE Interrupted(w, s)
  BY <1>2 DEF Interrupted, DomainsTypeOK
<1> QED
  BY <1>1, <1>2

(* An UPDATE of the row keeps the types.                                   *)
LEMMA WriteStaysTyped ==
  ASSUME DomainsTypeOK, NEW c \in Calls, NEW r \in Rows, WriteRow(c, r)
  PROVE  /\ row' \in Rows /\ site' \in [Webs -> Sites] /\ served' \in [Webs -> Sites]
         /\ cert' \in {"none", "issued"}
BY DEF WriteRow, DomainsTypeOK

(* Every start of a call keeps the types.                                  *)
LEMMA StartStaysTyped ==
  ASSUME DefaultPhp \in Versions, DomainsTypeOK, NEW c \in Calls, Start(c)
  PROVE  DomainsTypeOK'
<1> USE WrittenDataTyped
<1>1. ASSUME NEW o \in Ops, NEW to \in Labels \cup {"done"}, Begin(c, o, to)
      PROVE  CallsTypeOK(Ops, Labels)'
  BY <1>1, CallsStayTyped DEF DomainsTypeOK
<1>2. ASSUME NEW host \in Hosts, NEW web \in Webs, NEW php \in Versions,
             Create(c, host, web, php)
      PROVE  DomainsTypeOK'
  <2>1. CallsTypeOK(Ops, Labels)'
    BY <1>1, <1>2 DEF Create, Ops, Labels
  <2>2. [id |-> c, host |-> host, web |-> web, php |-> php, ssl |-> "off",
         status |-> "provisioning"] \in Rows
    BY <1>2 DEF Rows, Switch, Statuses
  <2> QED
    BY <1>2, <2>1, <2>2 DEF Create, DomainsTypeOK
<1>3. ASSUME NEW web \in Webs, NEW php \in Versions, NEW ssl \in Switch, NEW status \in Named,
             Update(c, web, php, ssl, status)
      PROVE  DomainsTypeOK'
  <2>1. CallsTypeOK(Ops, Labels)'
    BY <1>1, <1>3 DEF Update, Ops, Labels
  <2>2. [row EXCEPT !.web = web, !.php = php, !.ssl = ssl,
                    !.status = IF status = "none" THEN @ ELSE status] \in Rows
    BY <1>3 DEF DomainsTypeOK, Rows, Named
  <2> QED
    BY <1>3, <2>1, <2>2 DEF Update, DomainsTypeOK
<1>4. ASSUME NEW php \in Versions, SwitchDomain(c, php)
      PROVE  DomainsTypeOK'
  <2>1. CallsTypeOK(Ops, Labels)'
    BY <1>1, <1>4 DEF SwitchDomain, Ops, Labels
  <2> QED
    BY <1>4, <2>1 DEF SwitchDomain, DomainsTypeOK, worldVars
<1>5. ASSUME Delete(c)
      PROVE  DomainsTypeOK'
  <2>1. CallsTypeOK(Ops, Labels)'
    BY <1>1, <1>5 DEF Delete, Ops, Labels
  <2> QED
    BY <1>5, <2>1 DEF Delete, DomainsTypeOK, worldVars
<1> QED
  BY <1>2, <1>3, <1>4, <1>5 DEF Start

(* Every further step of a call keeps the types.                           *)
LEMMA StepStaysTyped ==
  ASSUME DefaultPhp \in Versions, DomainsTypeOK, NEW c \in Calls, Step(c)
  PROVE  DomainsTypeOK'
<1> USE WrittenDataTyped
<1>1. ASSUME NEW from, NEW to \in Labels \cup {"done"},
             Go(c, from, to) \/ GoFailed(c, from, to) \/ GoLost(c, from, to)
      PROVE  CallsTypeOK(Ops, Labels)'
  <2>1. "create" \in Ops
    BY DEF Ops
  <2> QED
    BY <1>1, <2>1, CallsStayTyped DEF DomainsTypeOK
<1>2. ASSUME NEW w \in Webs, NEW s \in Sites, NEW from, NEW to \in Labels \cup {"done"},
             NEW fail \in Labels \cup {"done"},
             \/ Go(c, from, to) /\ Install(w, s)
             \/ GoFailed(c, from, fail) /\ Interrupted(w, s),
             UNCHANGED <<pinned, memVars>>
      PROVE  DomainsTypeOK'
  <2>1. CallsTypeOK(Ops, Labels)'
    BY <1>1, <1>2
  <2> QED
    BY <1>2, <2>1, ScriptStaysTyped DEF DomainsTypeOK, memVars
<1>3. ASSUME NEW r \in Rows, NEW from, NEW to \in Labels \cup {"done"},
             \/ Go(c, from, to) /\ WriteRow(c, r)
             \/ (GoFailed(c, from, "done") \/ GoLost(c, from, "done")) /\ UNCHANGED worldVars,
             UNCHANGED <<pinned, memVars>>
      PROVE  DomainsTypeOK'
  <2>1. CallsTypeOK(Ops, Labels)'
    BY <1>1, <1>3
  <2> QED
    BY <1>3, <2>1, WriteStaysTyped DEF DomainsTypeOK, memVars, worldVars
<1>4. /\ row \in Rows /\ mem[c] \in Rows /\ mem[c].web \in Webs
      /\ site[mem[c].web] \in Sites /\ target[c] \in Versions
  BY DEF DomainsTypeOK, Rows
<1>5. "on" \in Switch /\ "active" \in Statuses /\ "error" \in Statuses
  BY DEF Switch, Statuses
<1>6. {"certbot", "giveUp", "secure", "secured", "activate", "edit", "drop", "done"}
        \subseteq Labels \cup {"done"}
  BY DEF Labels
<1>7. ASSUME Unattended(c) \/ Activate(c) \/ GiveUp(c)
      PROVE  DomainsTypeOK'
  BY <1>3, <1>4, <1>5, <1>6, <1>7 DEF Unattended, Activate, GiveUp, Conclude, Verdict
<1>8. ASSUME Vhost(c)
      PROVE  DomainsTypeOK'
  BY <1>2, <1>4, <1>6, <1>8 DEF Vhost
<1>9. ASSUME Certbot(c)
      PROVE  DomainsTypeOK'
  <2>1. CallsTypeOK(Ops, Labels)'
    BY <1>1, <1>6, <1>9 DEF Certbot
  <2>2. [mem[c] EXCEPT !.ssl = "on"] \in Rows
    BY <1>4, <1>5
  <2> QED
    BY <1>9, <2>1, <2>2 DEF Certbot, DomainsTypeOK
<1>10. ASSUME Secure(c)
       PROVE  DomainsTypeOK'
  BY <1>2, <1>4, <1>6, <1>10 DEF Secure
<1>11. ASSUME Secured(c)
       PROVE  DomainsTypeOK'
  <2>1. [row EXCEPT !.ssl = "on", !.status = "active"] \in Rows
    BY <1>4, <1>5 DEF Rows
  <2> QED
    BY <1>3, <1>6, <1>11, <2>1 DEF Secured, Verdict
<1>12. ASSUME Reprovision(c)
       PROVE  DomainsTypeOK'
  BY <1>2, <1>4, <1>6, <1>12 DEF Reprovision
<1>13. ASSUME Repoint(c)
       PROVE  DomainsTypeOK'
  BY <1>3, <1>4, <1>6, <1>13 DEF Repoint
<1>14. ASSUME Edit(c)
       PROVE  DomainsTypeOK'
  <2>1. Edited(c) \in Sites
    BY <1>4 DEF Edited
  <2>2. CASE site[mem[c].web].scheme = "none"
    <3>1. CallsTypeOK(Ops, Labels)'
      BY <1>1, <1>6, <1>14, <2>2 DEF Edit
    <3> QED
      BY <1>14, <2>2, <3>1 DEF Edit, DomainsTypeOK, worldVars, memVars
  <2>3. CASE site[mem[c].web].scheme # "none"
    BY <1>2, <1>4, <1>6, <1>14, <2>1, <2>3 DEF Edit
  <2> QED
    BY <2>2, <2>3
<1>15. ASSUME Remove(c)
       PROVE  DomainsTypeOK'
  BY <1>2, <1>4, <1>6, <1>15 DEF Remove
<1>16. ASSUME Drop(c)
       PROVE  DomainsTypeOK'
  BY <1>3, <1>4, <1>6, <1>16 DEF Drop
<1> QED
  BY <1>7, <1>8, <1>9, <1>10, <1>11, <1>12, <1>13, <1>14, <1>15, <1>16 DEF Step

(* Every step of the specification keeps the types.                        *)
LEMMA NextStaysTyped ==
  ASSUME DefaultPhp \in Versions, DomainsTypeOK, [Next]_vars
  PROVE  DomainsTypeOK'
<1>1. CASE \E c \in Calls : Start(c) \/ Step(c)
  BY <1>1, StartStaysTyped, StepStaysTyped
<1>2. CASE AttachApp
  BY <1>2 DEF AttachApp, DomainsTypeOK, CallsTypeOK, callVars, worldVars, memVars
<1>3. CASE Crash
  <2>1. CallsTypeOK(Ops, Labels)'
    BY <1>3, CallsAssumption DEF Crash, CrashCalls, CallsTypeOK, DomainsTypeOK
  <2> QED
    BY <1>3, <2>1 DEF Crash, DomainsTypeOK, worldVars, memVars
<1>4. CASE UNCHANGED vars
  BY <1>4 DEF vars, DomainsTypeOK, CallsTypeOK
<1> QED
  BY <1>1, <1>2, <1>3, <1>4 DEF Next

(***************************************************************************)
(* Who decides a row                                                       *)
(***************************************************************************)
(* A new Create inserts its own row; no other start touches a row that is  *)
(* being provisioned, but for an Update that names the status, or a call   *)
(* that has started.                                                       *)
LEMMA StartKeepsProvisioners ==
  ASSUME InductiveInv, NEW c \in Calls, Start(c)
  PROVE  WritesOwnRow' /\ IdleNamesNothing' /\ RowHasProvisioner'
<1> USE DEF InductiveInv
<1> DEFINE Good == WritesOwnRow' /\ IdleNamesNothing' /\ RowHasProvisioner'
<1>1. ASSUME NEW host \in Hosts, NEW web \in Webs, NEW php \in Versions,
             Create(c, host, web, php)
      PROVE  Good
  <2>1. PICK to \in {"unattended", "giveUp", "vhost"} : Begin(c, "create", to)
    BY <1>1 DEF Create
  <2>2. pc'[c] \in Provisioner /\ \A d \in Calls \ {c} : pc'[d] = pc[d]
    BY <2>1 DEF Begin, DomainsTypeOK, CallsTypeOK, Provisioner
  <2>3. mem'[c].id = c /\ \A d \in Calls \ {c} : mem'[d] = mem[d]
    BY <1>1 DEF Create, DomainsTypeOK
  <2>4. WritesOwnRow'
    BY <2>2, <2>3 DEF WritesOwnRow
  <2>5. row'.id = c /\ named' = named
    BY <1>1 DEF Create
  <2>6. IdleNamesNothing'
    BY <2>2, <2>5 DEF IdleNamesNothing, Provisioner
  <2> QED
    BY <2>2, <2>4, <2>5, <2>6 DEF RowHasProvisioner
<1>2. ASSUME NEW o, NEW to \in {"reprovision", "done", "repoint", "remove", "drop"},
             Begin(c, o, to), mem' = [mem EXCEPT ![c] = mem'[c]],
             named' = [named EXCEPT ![c] = named'[c]],
             row'.id = row.id, mem'[c].id = row.id,
             row'.status = row.status \/ row'.status = named'[c]
      PROVE  Good
  <2>1. pc[c] = "idle" /\ pc'[c] \notin Provisioner /\ pc'[c] # "idle"
    BY <1>2 DEF Begin, DomainsTypeOK, CallsTypeOK, Provisioner
  <2>2. \A d \in Calls \ {c} : pc'[d] = pc[d] /\ mem'[d] = mem[d] /\ named'[d] = named[d]
    BY <1>2 DEF Begin, DomainsTypeOK, CallsTypeOK
  <2>3. WritesOwnRow' /\ IdleNamesNothing'
    BY <2>1, <2>2 DEF WritesOwnRow, IdleNamesNothing
  <2>4. crashed' = crashed /\ lost' = lost
    BY <1>2 DEF Begin
  <2>5. Abandoned => Abandoned'
    BY <1>2, <2>1, <2>2, <2>4 DEF Abandoned, IdleNamesNothing
  <2>6. row'.status = "provisioning" => row.status = "provisioning" \/ Abandoned'
    BY <1>2 DEF Abandoned
  <2>7. pc[c] \notin Provisioner
    BY <2>1 DEF Provisioner
  <2> QED
    BY <1>2, <2>2, <2>3, <2>4, <2>5, <2>6, <2>7 DEF RowHasProvisioner
<1>3. ASSUME NEW web \in Webs, NEW php \in Versions, NEW ssl \in Switch, NEW status \in Named,
             Update(c, web, php, ssl, status)
      PROVE  Good
  <2>1. PICK to \in {"reprovision", "done"} : Begin(c, "update", to)
    BY <1>3 DEF Update
  <2>2. /\ row'.id = row.id /\ row' \in Rows
        /\ row'.status = IF status = "none" THEN row.status ELSE status
    BY <1>3 DEF Update, DomainsTypeOK, Rows, Named
  <2>3. /\ mem' = [mem EXCEPT ![c] = mem'[c]] /\ mem'[c].id = row.id
        /\ named' = [named EXCEPT ![c] = named'[c]] /\ named'[c] = status
    BY <1>3, <2>2 DEF Update, DomainsTypeOK
  <2>4. row'.status = row.status \/ row'.status = named'[c]
    BY <2>2, <2>3
  <2> QED
    BY <1>2, <2>1, <2>2, <2>3, <2>4
<1>4. ASSUME NEW php \in Versions, SwitchDomain(c, php)
      PROVE  Good
  <2>1. Begin(c, "switch", "repoint") /\ row' = row
    BY <1>4 DEF SwitchDomain, worldVars
  <2>2. /\ mem' = [mem EXCEPT ![c] = mem'[c]] /\ mem'[c].id = row.id
        /\ named' = [named EXCEPT ![c] = named'[c]]
    BY <1>4 DEF SwitchDomain, DomainsTypeOK
  <2> QED
    BY <1>2, <2>1, <2>2
<1>5. ASSUME Delete(c)
      PROVE  Good
  <2>1. PICK to \in {"remove", "drop"} : Begin(c, "delete", to)
    BY <1>5 DEF Delete
  <2>2. /\ mem' = [mem EXCEPT ![c] = mem'[c]] /\ mem'[c].id = row.id /\ row' = row
        /\ named' = [named EXCEPT ![c] = named'[c]]
    BY <1>5 DEF Delete, DomainsTypeOK, worldVars
  <2> QED
    BY <1>2, <2>1, <2>2
<1> QED
  BY <1>1, <1>3, <1>4, <1>5 DEF Start

(* A step that stays a provisioner, or never was one, and leaves the row's *)
(* id and status alone (or deletes the row) keeps the invariant.           *)
LEMMA MoveKeepsProvisioners ==
  ASSUME InductiveInv, NEW c \in Calls, NEW from, NEW to,
         Go(c, from, to) \/ GoFailed(c, from, to), to # "idle",
         from \in Provisioner <=> to \in Provisioner,
         mem' = [mem EXCEPT ![c].ssl = "on"] \/ mem' = mem, named' = named,
         (row'.id = row.id /\ row'.status = row.status) \/ row'.status = "absent"
  PROVE  WritesOwnRow' /\ IdleNamesNothing' /\ RowHasProvisioner'
<1> USE DEF InductiveInv
<1>1. pc[c] = from /\ pc' = [pc EXCEPT ![c] = to] /\ crashed' = crashed /\ lost' = lost
  BY DEF Go, GoFailed
<1>2. \A d \in Calls : /\ pc'[d] \in Provisioner <=> pc[d] \in Provisioner
                       /\ pc'[d] = "idle" => pc[d] = "idle"
  BY <1>1 DEF DomainsTypeOK, CallsTypeOK
<1>3. \A d \in Calls : mem'[d].id = mem[d].id
  BY DEF DomainsTypeOK, Rows
<1>4. WritesOwnRow' /\ IdleNamesNothing'
  BY <1>2, <1>3 DEF WritesOwnRow, IdleNamesNothing
<1>5. row'.id = row.id /\ Abandoned => Abandoned'
  BY <1>1, <1>3 DEF Abandoned
<1>6. RowHasProvisioner'
  BY <1>1, <1>2, <1>5 DEF RowHasProvisioner
<1> QED
  BY <1>4, <1>6

(* The verdict: a provisioner ends, and if the row is its own, the row     *)
(* leaves 'provisioning' or the UPDATE failed.                             *)
LEMMA VerdictKeepsProvisioners ==
  ASSUME InductiveInv, NEW c \in Calls, NEW from \in Provisioner,
         NEW s \in {"active", "error"}, NEW r \in Rows, r.status = s, r.id = row.id,
         Verdict(c, from, r)
  PROVE  WritesOwnRow' /\ IdleNamesNothing' /\ RowHasProvisioner'
<1> USE DEF InductiveInv
<1>1. /\ pc[c] = from /\ pc' = [pc EXCEPT ![c] = "done"] /\ crashed' = crashed
      /\ mem' = mem /\ named' = named /\ lost \subseteq lost'
  BY DEF Verdict, Go, GoLost, memVars
<1>2. mem[c].id = c
  BY <1>1 DEF WritesOwnRow
<1>3. "done" \notin Provisioner
  BY DEF Provisioner
<1>4. pc'[c] = "done" /\ \A d \in Calls \ {c} : pc'[d] = pc[d]
  BY <1>1 DEF DomainsTypeOK, CallsTypeOK
<1>5. WritesOwnRow' /\ IdleNamesNothing'
  BY <1>1, <1>3, <1>4 DEF WritesOwnRow, IdleNamesNothing
<1>6. \/ row' = row /\ row.id # c
      \/ row' = row /\ c \in lost'
      \/ row'.status = s
      \/ row' = row /\ row.status = "absent"
  BY <1>2 DEF Verdict, WriteRow, GoLost, worldVars, Exists
<1>7. row' = row /\ Abandoned => Abandoned'
  BY <1>1 DEF Abandoned
<1>8. RowHasProvisioner'
  <2> SUFFICES ASSUME row'.status = "provisioning", crashed' = "no", ~ Abandoned'
               PROVE  row'.id \in Calls /\ pc'[row'.id] \in Provisioner
    BY DEF RowHasProvisioner
  <2>1. row' = row /\ row.id # c
    BY <1>6 DEF Abandoned
  <2>2. ~ Abandoned /\ row.status = "provisioning" /\ crashed = "no"
    BY <1>1, <1>7, <2>1
  <2> QED
    BY <1>4, <2>1, <2>2 DEF RowHasProvisioner
<1> QED
  BY <1>5, <1>8

(* Every further step of a call keeps the invariant.                       *)
LEMMA StepKeepsProvisioners ==
  ASSUME DefaultPhp \in Versions, InductiveInv, NEW c \in Calls, Step(c)
  PROVE  WritesOwnRow' /\ IdleNamesNothing' /\ RowHasProvisioner'
<1> USE DEF InductiveInv
<1>1. row \in Rows /\ \A w, s : Install(w, s) \/ Interrupted(w, s) => row' = row
  BY DEF Install, Interrupted, DomainsTypeOK
<1>2. \A s \in Statuses : [row EXCEPT !.status = s] \in Rows
        /\ [row EXCEPT !.status = s].id = row.id /\ [row EXCEPT !.status = s].status = s
  BY <1>1 DEF Rows
<1>3. ASSUME Unattended(c) \/ Activate(c) \/ GiveUp(c)
      PROVE  WritesOwnRow' /\ IdleNamesNothing' /\ RowHasProvisioner'
  <2>1. PICK from \in Provisioner, s \in {"active", "error"} : Conclude(c, from, s)
    BY <1>3 DEF Unattended, Activate, GiveUp, Provisioner
  <2> QED
    BY <1>2, <2>1, VerdictKeepsProvisioners DEF Conclude, Statuses
<1>4. ASSUME Secured(c)
      PROVE  WritesOwnRow' /\ IdleNamesNothing' /\ RowHasProvisioner'
  <2> DEFINE r == [row EXCEPT !.ssl = "on", !.status = "active"]
  <2>1. r \in Rows /\ r.id = row.id /\ r.status = "active"
    BY <1>1 DEF Rows, Switch, Statuses
  <2>2. "secured" \in Provisioner
    BY DEF Provisioner
  <2> QED
    BY <1>4, <2>1, <2>2, VerdictKeepsProvisioners DEF Secured
<1>5. ASSUME Vhost(c) \/ Secure(c)
      PROVE  WritesOwnRow' /\ IdleNamesNothing' /\ RowHasProvisioner'
  <2>1. \E from, to \in Provisioner : Go(c, from, to) \/ GoFailed(c, from, to)
    BY <1>5 DEF Vhost, Secure, Provisioner
  <2>2. row' = row /\ mem' = mem /\ named' = named
    BY <1>1, <1>5 DEF Vhost, Secure, memVars
  <2> QED
    BY <2>1, <2>2, MoveKeepsProvisioners DEF Provisioner
<1>6. ASSUME Certbot(c)
      PROVE  WritesOwnRow' /\ IdleNamesNothing' /\ RowHasProvisioner'
  <2>1. \E from, to \in Provisioner : Go(c, from, to)
    BY <1>6 DEF Certbot, Provisioner
  <2>2. /\ row' = row /\ named' = named
        /\ mem' = [mem EXCEPT ![c].ssl = "on"] \/ mem' = mem
    BY <1>6 DEF Certbot
  <2> QED
    BY <2>1, <2>2, MoveKeepsProvisioners DEF Provisioner
<1>7. ASSUME Reprovision(c) \/ Edit(c) \/ Remove(c)
      PROVE  WritesOwnRow' /\ IdleNamesNothing' /\ RowHasProvisioner'
  <2>1. PICK from \in {"reprovision", "edit", "remove"}, to \in {"done", "drop"} :
          Go(c, from, to) \/ GoFailed(c, from, to)
    BY <1>7 DEF Reprovision, Edit, Remove
  <2>2. row' = row /\ mem' = mem /\ named' = named
    BY <1>1, <1>7 DEF Reprovision, Edit, Remove, worldVars, memVars
  <2>3. from \notin Provisioner /\ to \notin Provisioner
    BY DEF Provisioner
  <2> QED
    BY <2>1, <2>2, <2>3, MoveKeepsProvisioners
<1>8. ASSUME Repoint(c)
      PROVE  WritesOwnRow' /\ IdleNamesNothing' /\ RowHasProvisioner'
  <2>1. PICK to \in {"edit", "done"} : Go(c, "repoint", to) \/ GoFailed(c, "repoint", to)
    BY <1>8 DEF Repoint
  <2>2. row'.id = row.id /\ row'.status = row.status /\ mem' = mem /\ named' = named
    BY <1>1, <1>8 DEF Repoint, WriteRow, Rows, worldVars, memVars
  <2>3. "repoint" \notin Provisioner /\ to \notin Provisioner
    BY DEF Provisioner
  <2> QED
    BY <2>1, <2>2, <2>3, MoveKeepsProvisioners
<1>9. ASSUME Drop(c)
      PROVE  WritesOwnRow' /\ IdleNamesNothing' /\ RowHasProvisioner'
  <2>1. (Go(c, "drop", "done") \/ GoFailed(c, "drop", "done")) /\ mem' = mem /\ named' = named
    BY <1>9 DEF Drop, memVars
  <2>2. row' = row \/ row'.status = "absent"
    BY <1>9 DEF Drop, WriteRow, NoRow, worldVars
  <2>3. "drop" \notin Provisioner /\ "done" \notin Provisioner
    BY DEF Provisioner
  <2> QED
    BY <2>1, <2>2, <2>3, MoveKeepsProvisioners
<1> QED
  BY <1>3, <1>4, <1>5, <1>6, <1>7, <1>8, <1>9 DEF Step

(* The invariant is inductive.                                             *)
LEMMA InductiveStep ==
  ASSUME DefaultPhp \in Versions, InductiveInv, [Next]_vars
  PROVE  InductiveInv'
<1>1. DomainsTypeOK'
  BY NextStaysTyped DEF InductiveInv
<1>2. CASE \E c \in Calls : Start(c) \/ Step(c)
  BY <1>1, <1>2, StartKeepsProvisioners, StepKeepsProvisioners DEF InductiveInv
<1>3. CASE AttachApp
  BY <1>1, <1>3 DEF AttachApp, InductiveInv, WritesOwnRow, IdleNamesNothing, RowHasProvisioner,
                    Abandoned, callVars, worldVars, memVars
<1>4. CASE Crash
  <2>1. \A d \in Calls : /\ pc'[d] \in Provisioner => pc[d] \in Provisioner
                         /\ pc'[d] = "idle" => pc[d] = "idle"
    BY <1>4 DEF Crash, CrashCalls, Provisioner
  <2>2. crashed' = "yes" /\ mem' = mem /\ named' = named
    BY <1>4 DEF Crash, CrashCalls, memVars
  <2> QED
    BY <1>1, <2>1, <2>2 DEF InductiveInv, WritesOwnRow, IdleNamesNothing, RowHasProvisioner
<1>5. CASE UNCHANGED vars
  BY <1>1, <1>5 DEF vars, InductiveInv, WritesOwnRow, IdleNamesNothing, RowHasProvisioner,
                    Abandoned
<1> QED
  BY <1>2, <1>3, <1>4, <1>5 DEF Next

(* It holds at the start.                                                  *)
LEMMA InductiveInit ==
  ASSUME DefaultPhp \in Versions, Init
  PROVE  InductiveInv
<1> USE WrittenDataTyped, CallsAssumption
<1>1. CallsTypeOK(Ops, Labels)
  BY DEF Init, CallsInit, CallsTypeOK
<1>2. DomainsTypeOK
  BY <1>1 DEF Init, DomainsTypeOK, Named
<1>3. WritesOwnRow /\ IdleNamesNothing
  BY DEF Init, CallsInit, WritesOwnRow, IdleNamesNothing, Provisioner
<1>4. RowHasProvisioner
  BY DEF Init, NoRow, RowHasProvisioner
<1> QED
  BY <1>2, <1>3, <1>4 DEF InductiveInv

(* The invariant holds in every reachable state.                           *)
LEMMA AlwaysInductive ==
  ASSUME DefaultPhp \in Versions
  PROVE  Spec => []InductiveInv
<1>1. Init => InductiveInv
  BY InductiveInit
<1>2. InductiveInv /\ [Next]_vars => InductiveInv'
  BY InductiveStep
<1> QED
  BY <1>1, <1>2, PTL DEF Spec

(* Rows, files, certificate and the calls' copies always have their types. *)
THEOREM DomainsTypeCorrect ==
  ASSUME DefaultPhp \in Versions
  PROVE  Spec => []DomainsTypeOK
<1>1. InductiveInv => DomainsTypeOK
  BY DEF InductiveInv
<1> QED
  BY <1>1, AlwaysInductive, PTL

(* No error path of Create leaves a row 'provisioning': whatever else is   *)
(* going on, the goroutine that inserted it is alive, or the process died, *)
(* or its last UPDATE failed, or a request named that status.              *)
THEOREM ProvisioningAlwaysHasWorker ==
  ASSUME DefaultPhp \in Versions
  PROVE  Spec => []ProvisioningHasWorker
<1>1. InductiveInv => ProvisioningHasWorker
  <2> SUFFICES ASSUME InductiveInv, row.status = "provisioning", crashed # "yes",
                      ~ Abandoned
               PROVE  Live(row.id)
    BY DEF ProvisioningHasWorker
  <2>1. crashed = "no"
    BY DEF InductiveInv, DomainsTypeOK, CallsTypeOK
  <2> QED
    BY <2>1 DEF InductiveInv, RowHasProvisioner, Provisioner, Live
<1> QED
  BY <1>1, AlwaysInductive, PTL

(* Only the goroutine that inserted a row moves it to 'active' or 'error', *)
(* and that is the last thing it does, or a request that names this status:*)
(* a goroutine left over from a deleted row of the same name, an Update    *)
(* that names another column or a Delete never do.                         *)
THEOREM OnlyOwnerDecides ==
  ASSUME DefaultPhp \in Versions
  PROVE  Spec => OwnerDecides
<1> DEFINE Decision == row'.id = row.id /\ row'.status # row.status
                       /\ row'.status \in {"active", "error"}
           Owner    == Live(row.id) /\ pc'[row.id] = "done"
           Request  == \E c \in Calls :
                         pc[c] = "idle" /\ pc'[c] # "idle" /\ named'[c] = row'.status
<1>1. ASSUME InductiveInv, [Next]_vars, Decision
      PROVE  Owner \/ Request
  <2> USE <1>1 DEF InductiveInv
  <2>1. row \in Rows
    BY DEF DomainsTypeOK
  <2>2. PICK c \in Calls : Start(c) \/ Step(c)
    BY <1>1 DEF Next, AttachApp, Crash, vars, worldVars
  <2>3. CASE Start(c)
    <3>1. ~ \E host \in Hosts, web \in Webs, php \in Versions : Create(c, host, web, php)
      BY <1>1 DEF Create
    <3>2. ~ (Delete(c) \/ \E php \in Versions : SwitchDomain(c, php))
      BY <1>1 DEF Delete, SwitchDomain, worldVars
    <3>3. PICK web \in Webs, php \in Versions, ssl \in Switch, status \in Named :
            Update(c, web, php, ssl, status)
      BY <2>3, <3>1, <3>2 DEF Start
    <3>4. row'.status = IF status = "none" THEN row.status ELSE status
      BY <2>1, <3>3 DEF Update, Rows
    <3>5. named'[c] = row'.status
      BY <1>1, <3>3, <3>4 DEF Update, DomainsTypeOK
    <3>6. pc[c] = "idle" /\ pc'[c] # "idle"
      BY <3>3 DEF Update, Begin, DomainsTypeOK, CallsTypeOK
    <3> QED
      BY <3>5, <3>6
  <2>4. CASE Step(c)
    <3>1. \A w, s : Install(w, s) \/ Interrupted(w, s) => row' = row
      BY DEF Install, Interrupted
    <3>2. ~ (Vhost(c) \/ Certbot(c) \/ Secure(c) \/ Reprovision(c) \/ Edit(c) \/ Remove(c))
      BY <1>1, <3>1 DEF Vhost, Certbot, Secure, Reprovision, Edit, Remove, worldVars
    <3>3. ~ Repoint(c)
      BY <1>1, <2>1 DEF Repoint, WriteRow, Rows, worldVars
    <3>4. ~ Drop(c)
      BY <1>1 DEF Drop, WriteRow, NoRow, worldVars
    <3>5. PICK from \in Provisioner : \E r : Verdict(c, from, r)
      BY <2>4, <3>2, <3>3, <3>4
         DEF Step, Unattended, Activate, GiveUp, Conclude, Secured, Provisioner
    <3>6. Go(c, from, "done") /\ \E r : WriteRow(c, r)
      BY <1>1, <3>5 DEF Verdict, worldVars
    <3>7. pc[c] = from /\ pc' = [pc EXCEPT ![c] = "done"]
      BY <3>6 DEF Go
    <3>8. row.id = mem[c].id
      BY <1>1, <3>6 DEF WriteRow
    <3>9. row.id = c
      BY <3>7, <3>8 DEF WritesOwnRow
    <3> QED
      BY <3>7, <3>9 DEF Live, Provisioner, DomainsTypeOK, CallsTypeOK
  <2> QED
    BY <2>2, <2>3, <2>4
<1>2. InductiveInv /\ [Next]_vars => [Decision => Owner \/ Request]_vars
  BY <1>1
<1> QED
  BY <1>2, AlwaysInductive, PTL DEF Spec, OwnerDecides

(***************************************************************************)
(* Server and row.  That they agree once everything is quiet says nothing  *)
(* of the steps between; the invariant says what the call at work has left *)
(* to do, as long as calls come one at a time and scripts succeed.         *)
(***************************************************************************)
(* As long as no call has started while another was unfinished, at most    *)
(* one call is at work.                                                    *)
OneLive == clash = "no" => \A b, c \in Calls : Live(b) /\ Live(c) => b = c

Untouched == \A c \in Calls : IF pc[c] = "idle" THEN op[c] = "none" /\ mem[c] = NoRow
                                                ELSE mem[c].id \in Calls

(* Some call saw the row under the web server it has now.                  *)
Seen == Exists => /\ row.id \in Calls
                  /\ \E b \in Calls : mem[b].id = row.id /\ mem[b].web = row.web

(* What ServerAgrees and ServesTheFile except.                             *)
Balanced == \E c \in Calls : mem[c].host = "balancer"
Excused  == pinned = "yes" /\ Did("delete")
SslAsked == \E c \in Calls : op[c] = "update" /\ mem[c].ssl = "on"

(* The call at work found its row, still has it, and knows how far it got. *)
AtWork ==
  \A c \in Calls : Live(c) =>
    /\ Exists /\ row.id = mem[c].id /\ row.host = mem[c].host /\ row.web = mem[c].web
    /\ pc[c] # "edit" => row.php = mem[c].php
    /\ pc[c] \notin {"secure", "secured"} => row.ssl = mem[c].ssl
    /\ pc[c] = "vhost" => row.host \in {"server", "balancer"}
    /\ pc[c] \in {"unattended", "giveUp"} => row.host # "server"
    /\ pc[c] \in {"certbot", "secure", "activate"} => site[row.web] = VhostOf(row)
    /\ pc[c] \in {"secure", "secured"} => mem[c].ssl = "on"
    /\ pc[c] = "secured" => site[row.web] = VhostOf(mem[c])
    /\ pc[c] \in {"reprovision", "repoint", "edit", "remove"} => row.host = "server"
    /\ pc[c] \in {"repoint", "edit"} => site[row.web] = VhostOf(mem[c]) \/ Excused
    /\ pc[c] = "edit" => row.php = target[c]
    /\ pc[c] \in {"remove", "drop"} => op[c] = "delete"
    /\ pc[c] = "drop" /\ row.host = "server" => site[row.web].scheme = "none"

Settled ==
  Quiet /\ Exists /\ row.host = "server" => site[row.web] = VhostOf(row) \/ Excused

Leftovers ==
  /\ row.host = "balancer" => Balanced
  /\ \A w \in Webs : site[w].scheme # "none" =>
       Balanced \/ Moved(w) \/ (Exists /\ row.host = "server" /\ row.web = w)

(* What a web server may refuse to load: an https vhost without a          *)
(* certificate.                                                            *)
Loadable ==
  /\ \A c \in Calls :
       /\ pc[c] = "vhost" => mem[c].ssl = "off"
       /\ pc[c] = "secure" => cert = "issued"
       /\ pc[c] = "reprovision" => op[c] = "update"
  /\ \A w \in Webs :
       /\ site[w].scheme = "https" /\ cert = "none" => SslAsked
       /\ served[w] # site[w] => site[w].scheme = "https" /\ SslAsked

SerialInv ==
  /\ DomainsTypeOK /\ OneLive /\ Untouched /\ Seen
  /\ Calm => AtWork /\ Settled /\ Leftovers
  /\ troubles = 0 => Loadable

(* Nothing is there at the start.                                          *)
LEMMA SerialInit ==
  ASSUME DefaultPhp \in Versions, Init
  PROVE  SerialInv
<1>1. DomainsTypeOK
  BY InductiveInit DEF InductiveInv
<1>2. OneLive /\ Untouched /\ Seen /\ AtWork /\ Settled
  BY DEF Init, CallsInit, NoRow, OneLive, Untouched, Seen, AtWork, Settled, Live, Exists
<1>3. Leftovers /\ Loadable
  BY DEF Init, CallsInit, NoRow, NoSite, Leftovers, Loadable
<1> QED
  BY <1>1, <1>2, <1>3 DEF SerialInv

(* A call that starts has seen the row, under a known id; one that goes on *)
(* changes no more than ssl in its copy.                                   *)
LEMMA StartSees ==
  ASSUME DomainsTypeOK, Untouched, Seen, NEW c \in Calls, Start(c)
  PROVE  /\ mem' = [mem EXCEPT ![c] = mem'[c]] /\ mem'[c].id \in Calls
         /\ Seen'
<1> USE DEF DomainsTypeOK, Exists
<1>1. ASSUME mem' = [mem EXCEPT ![c] = row'], row'.id = c \/ row'.id = row.id, Exists',
             row'.id = row.id => Exists, pc[c] = "idle"
      PROVE  mem' = [mem EXCEPT ![c] = mem'[c]] /\ mem'[c].id \in Calls /\ Seen'
  <2>1. mem'[c] = row'
    BY <1>1
  <2>2. row'.id \in Calls
    BY <1>1 DEF Seen
  <2> QED
    BY <1>1, <2>1, <2>2 DEF Seen
<1>2. ASSUME NEW host \in Hosts, NEW web \in Webs, NEW php \in Versions,
             Create(c, host, web, php)
      PROVE  mem' = [mem EXCEPT ![c] = mem'[c]] /\ mem'[c].id \in Calls /\ Seen'
  <2>1. /\ mem' = [mem EXCEPT ![c] = row'] /\ row'.id = c /\ row'.web = web
        /\ mem'[c] = row'
    BY <1>2 DEF Create
  <2> QED
    BY <2>1 DEF Seen
<1>3. ASSUME NEW web \in Webs, NEW php \in Versions, NEW ssl \in Switch, NEW status \in Named,
             Update(c, web, php, ssl, status)
      PROVE  mem' = [mem EXCEPT ![c] = mem'[c]] /\ mem'[c].id \in Calls /\ Seen'
  <2>1. row'.id = row.id /\ Exists /\ row'.status # "absent"
    BY <1>3 DEF Update, Rows, Named
  <2>2. mem' = [mem EXCEPT ![c] = row'] /\ pc[c] = "idle"
    BY <1>3 DEF Update, Begin
  <2> QED
    BY <1>1, <2>1, <2>2
<1>4. ASSUME Exists, row' = row, mem' = [mem EXCEPT ![c] = row], pc[c] = "idle"
      PROVE  mem' = [mem EXCEPT ![c] = mem'[c]] /\ mem'[c].id \in Calls /\ Seen'
  BY <1>1, <1>4
<1>5. ASSUME Delete(c) \/ \E php \in Versions : SwitchDomain(c, php)
      PROVE  mem' = [mem EXCEPT ![c] = mem'[c]] /\ mem'[c].id \in Calls /\ Seen'
  BY <1>4, <1>5 DEF Delete, SwitchDomain, Begin, worldVars
<1> QED
  BY <1>2, <1>3, <1>5 DEF Start

(* What a call that goes on leaves alone.                                  *)
LEMMA StepSees ==
  ASSUME DomainsTypeOK, Seen, NEW c \in Calls, Step(c)
  PROVE  /\ mem' = mem \/ mem' = [mem EXCEPT ![c].ssl = "on"]
         /\ op' = op /\ clash' = clash
         /\ \E from \in Labels, to \in Labels \cup {"done"} :
              pc[c] = from /\ pc' = [pc EXCEPT ![c] = to]
         /\ Seen'
<1> USE DEF DomainsTypeOK, Exists
<1>1. \A w, s : Install(w, s) \/ Interrupted(w, s) => row' = row
  BY DEF Install, Interrupted
<1>2. mem' = mem \/ (row' = row /\ mem' = [mem EXCEPT ![c].ssl = "on"])
  BY DEF Step, Unattended, Activate, GiveUp, Conclude, Verdict, Vhost, Certbot, Secure, Secured,
         Reprovision, Repoint, Edit, Remove, Drop, memVars
<1>3. \E from \in Labels, to \in Labels \cup {"done"} :
        Go(c, from, to) \/ GoFailed(c, from, to) \/ GoLost(c, from, to)
  BY DEF Step, Unattended, Activate, GiveUp, Conclude, Verdict, Vhost, Certbot, Secure, Secured,
         Reprovision, Repoint, Edit, Remove, Drop, Labels
<1>4. (row'.id = row.id /\ row'.web = row.web /\ (Exists' => Exists)) \/ row' = NoRow
  <2>1. \A r : WriteRow(c, r) => row' = row \/ (row' = r /\ Exists)
    BY DEF WriteRow
  <2>2. ASSUME Unattended(c) \/ Activate(c) \/ GiveUp(c) \/ Secured(c) \/ Repoint(c) \/ Drop(c)
        PROVE  (row'.id = row.id /\ row'.web = row.web /\ (Exists' => Exists)) \/ row' = NoRow
    <3>1. PICK r \in {[row EXCEPT !.status = "active"], [row EXCEPT !.status = "error"],
                      [row EXCEPT !.ssl = "on", !.status = "active"],
                      [row EXCEPT !.php = target[c]], row, NoRow} :
            row' = row \/ WriteRow(c, r)
      BY <2>2 DEF Unattended, Activate, GiveUp, Conclude, Verdict, Secured, Repoint, Drop,
                  worldVars
    <3>2. r = NoRow \/ (r.id = row.id /\ r.web = row.web)
      BY DEF Rows
    <3> QED
      BY <2>1, <3>1, <3>2
  <2>3. ASSUME Vhost(c) \/ Certbot(c) \/ Secure(c) \/ Reprovision(c) \/ Edit(c) \/ Remove(c)
        PROVE  row' = row
    BY <1>1, <2>3 DEF Vhost, Certbot, Secure, Reprovision, Edit, Remove, worldVars
  <2> QED
    BY <2>2, <2>3 DEF Step
<1>5. \A d \in Calls : mem'[d].id = mem[d].id /\ mem'[d].web = mem[d].web
  BY <1>2 DEF Rows
<1>6. Seen'
  BY <1>4, <1>5 DEF Seen, NoRow
<1> QED
  BY <1>2, <1>3, <1>6 DEF Go, GoFailed, GoLost

(* At most one call is at work, and one that has not started left no trace.*)
LEMMA OneLiveStep ==
  ASSUME DomainsTypeOK, OneLive, Untouched, Seen, [Next]_vars
  PROVE  OneLive' /\ Untouched' /\ Seen'
<1> USE DEF OneLive, Live, DomainsTypeOK, CallsTypeOK
<1>1. ASSUME NEW c \in Calls, Start(c)
      PROVE  OneLive' /\ Untouched' /\ Seen'
  <2>1. PICK o \in Ops, to \in Labels \cup {"done"} : Begin(c, o, to)
    BY <1>1 DEF Start, Create, Update, SwitchDomain, Delete, Ops, Labels
  <2>2. mem' = [mem EXCEPT ![c] = mem'[c]] /\ mem'[c].id \in Calls /\ Seen'
    BY <1>1, StartSees
  <2>3. OneLive'
    BY <2>1 DEF Begin, Quiet, Labels
  <2>4. /\ pc'[c] # "idle"
        /\ \A d \in Calls \ {c} : pc'[d] = pc[d] /\ op'[d] = op[d] /\ mem'[d] = mem[d]
    BY <2>1, <2>2 DEF Begin, Labels
  <2> QED
    BY <2>2, <2>3, <2>4 DEF Untouched
<1>2. ASSUME NEW c \in Calls, Step(c)
      PROVE  OneLive' /\ Untouched' /\ Seen'
  <2>1. /\ mem' = mem \/ mem' = [mem EXCEPT ![c].ssl = "on"]
        /\ op' = op /\ clash' = clash /\ Seen'
    BY <1>2, StepSees
  <2>2. PICK from \in Labels, to \in Labels \cup {"done"} :
          pc[c] = from /\ pc' = [pc EXCEPT ![c] = to]
    BY <1>2, StepSees
  <2>3. "idle" \notin Labels /\ "done" \notin Labels
    BY DEF Labels
  <2>4. OneLive'
    BY <2>1, <2>2, <2>3
  <2>5. /\ mem'[c].id = mem[c].id /\ pc[c] # "idle" /\ pc'[c] # "idle"
        /\ \A d \in Calls \ {c} : pc'[d] = pc[d] /\ mem'[d] = mem[d]
    BY <2>1, <2>2, <2>3 DEF Rows
  <2> QED
    BY <2>1, <2>4, <2>5 DEF Untouched
<1>3. CASE AttachApp \/ Crash \/ UNCHANGED vars
  <2>1. /\ \A d \in Calls : pc'[d] = pc[d] \/ (Live(d) /\ pc'[d] = "done")
        /\ mem' = mem /\ op' = op /\ row' = row /\ clash' = clash
    BY <1>3 DEF AttachApp, Crash, CrashCalls, vars, callVars, memVars, worldVars
  <2> QED
    BY <2>1 DEF Untouched, Seen, Exists
<1> QED
  BY <1>1, <1>2, <1>3 DEF Next

(* No step takes back a trouble or a clash.                                *)
LEMMA TroublesStand ==
  ASSUME [Next]_vars
  PROVE  /\ troubles' = troubles \/ troubles' = troubles + 1
         /\ clash' = clash \/ clash' = "yes"
<1>1. ASSUME NEW c \in Calls, Start(c)
      PROVE  troubles' = troubles /\ (clash' = clash \/ clash' = "yes")
  BY <1>1 DEF Start, Create, Update, SwitchDomain, Delete, Begin
<1>2. ASSUME NEW c \in Calls, Unattended(c) \/ Activate(c) \/ GiveUp(c) \/ Vhost(c)
      PROVE  clash' = clash /\ (troubles' = troubles \/ troubles' = troubles + 1)
  BY <1>2 DEF Unattended, Activate, GiveUp, Conclude, Verdict, Vhost, Go, GoFailed, GoLost
<1>3. ASSUME NEW c \in Calls, Certbot(c) \/ Secure(c) \/ Secured(c) \/ Reprovision(c)
      PROVE  clash' = clash /\ (troubles' = troubles \/ troubles' = troubles + 1)
  BY <1>3 DEF Certbot, Secure, Secured, Verdict, Reprovision, Go, GoFailed, GoLost
<1>4. ASSUME NEW c \in Calls, Repoint(c) \/ Edit(c) \/ Remove(c) \/ Drop(c)
      PROVE  clash' = clash /\ (troubles' = troubles \/ troubles' = troubles + 1)
  BY <1>4 DEF Repoint, Edit, Remove, Drop, Go, GoFailed
<1>5. CASE AttachApp \/ Crash \/ UNCHANGED vars
  BY <1>5 DEF AttachApp, Crash, CrashCalls, vars, callVars
<1> QED
  BY <1>1, <1>2, <1>3, <1>4, <1>5 DEF Next, Step

(* When nothing failed so far, what a web server refuses is what an Update *)
(* asked for.                                                              *)
LEMMA LoadableStep ==
  ASSUME DefaultPhp \in Versions, DomainsTypeOK, Untouched,
         troubles = 0 => Loadable, [Next]_vars, troubles' = 0
  PROVE  Loadable'
<1> USE DEF Loadable, Untouched, DomainsTypeOK, CallsTypeOK, SslAsked
<1>0. troubles = 0
  BY TroublesStand, CallsAssumption
<1>1. ASSUME NEW c \in Calls, Start(c)
      PROVE  Loadable'
  <2>1. UNCHANGED <<site, served, cert>> /\ \A d \in Calls \ {c} : mem'[d] = mem[d]
    BY <1>1 DEF Start, Create, Update, SwitchDomain, Delete, worldVars
  <2>2. PICK o \in Ops, to \in Labels \cup {"done"} :
          /\ Begin(c, o, to)
          /\ to # "secure"
          /\ to = "vhost" => mem'[c].ssl = "off"
          /\ to = "reprovision" => o = "update"
    <3>1. ASSUME NEW host \in Hosts, NEW web \in Webs, NEW php \in Versions,
                 Create(c, host, web, php)
          PROVE  /\ mem'[c].ssl = "off"
                 /\ \E to \in {"unattended", "giveUp", "vhost"} : Begin(c, "create", to)
      BY <3>1 DEF Create
    <3>2. ASSUME NEW web \in Webs, NEW php \in Versions, NEW ssl \in Switch,
                 NEW status \in Named, Update(c, web, php, ssl, status)
          PROVE  \E to \in {"reprovision", "done"} : Begin(c, "update", to)
      BY <3>2 DEF Update
    <3>3. ASSUME NEW php \in Versions, SwitchDomain(c, php)
          PROVE  Begin(c, "switch", "repoint")
      BY <3>3 DEF SwitchDomain
    <3>4. ASSUME Delete(c)
          PROVE  \E to \in {"remove", "drop"} : Begin(c, "delete", to)
      BY <3>4 DEF Delete
    <3> QED
      BY <1>1, <3>1, <3>2, <3>3, <3>4 DEF Start, Ops, Labels
  <2>3. pc[c] = "idle" /\ op' = [op EXCEPT ![c] = o] /\ pc' = [pc EXCEPT ![c] = to]
    BY <2>2 DEF Begin
  <2>4. SslAsked => SslAsked'
    BY <2>1, <2>3
  <2> QED
    BY <1>0, <2>1, <2>2, <2>3, <2>4
<1>2. ASSUME NEW c \in Calls, Certbot(c)
      PROVE  Loadable'
  BY <1>0, <1>2 DEF Certbot, Go, Rows
<1>3. ASSUME NEW c \in Calls,
             Unattended(c) \/ Activate(c) \/ GiveUp(c) \/ Secured(c) \/ Repoint(c) \/ Drop(c)
      PROVE  Loadable'
  BY <1>0, <1>3 DEF Unattended, Activate, GiveUp, Conclude, Verdict, Secured, Repoint, Drop,
                    WriteRow, Go, GoFailed, GoLost, memVars
<1>4. ASSUME NEW c \in Calls, NEW w \in Webs, NEW s \in Sites, NEW from,
             NEW to \in {"certbot", "secured", "done", "drop"},
             Go(c, from, to), Install(w, s), UNCHANGED memVars,
             s.scheme = "https" => cert = "issued" \/ SslAsked
      PROVE  Loadable'
  <2>1. SslAsked' <=> SslAsked
    BY <1>4 DEF Go, memVars
  <2>2. \A v \in Webs : /\ site'[v] = IF v = w THEN s ELSE site[v]
                        /\ served'[v] = IF v = w THEN Loaded(w, s) ELSE served[v]
    BY <1>4 DEF Install
  <2>3. cert' = cert
    BY <1>4 DEF Install
  <2>4. \A v \in Webs :
          /\ site'[v].scheme = "https" /\ cert' = "none" => SslAsked'
          /\ served'[v] # site'[v] => site'[v].scheme = "https" /\ SslAsked'
    BY <1>0, <1>4, <2>1, <2>2, <2>3 DEF Loaded
  <2> QED
    BY <1>0, <1>4, <2>3, <2>4 DEF Go, memVars
<1>5. ASSUME NEW c \in Calls, NEW from, NEW to, GoFailed(c, from, to)
      PROVE  Loadable'
  BY <1>0, <1>5 DEF GoFailed
<1>6. ASSUME NEW c \in Calls, Vhost(c) \/ Secure(c)
      PROVE  Loadable'
  <2>1. mem[c] \in Rows /\ mem[c].web \in Webs /\ VhostOf(mem[c]) \in Sites
    BY WrittenDataTyped DEF Rows
  <2> QED
    BY <1>0, <1>4, <1>5, <1>6, <2>1 DEF Vhost, Secure, Go, VhostOf
<1>7. ASSUME NEW c \in Calls, Reprovision(c)
      PROVE  Loadable'
  <2>1. mem[c] \in Rows /\ mem[c].web \in Webs /\ VhostOf(mem[c]) \in Sites
    BY WrittenDataTyped DEF Rows
  <2> QED
    BY <1>0, <1>4, <1>5, <1>7, <2>1 DEF Reprovision, Go, VhostOf
<1>8. ASSUME NEW c \in Calls, Remove(c)
      PROVE  Loadable'
  BY <1>0, <1>4, <1>5, <1>8, WrittenDataTyped DEF Remove, Go, NoSite, Rows
<1>9. ASSUME NEW c \in Calls, Edit(c)
      PROVE  Loadable'
  <2>1. mem[c].web \in Webs /\ Edited(c) \in Sites /\ Edited(c).scheme = site[mem[c].web].scheme
    BY WrittenDataTyped DEF Rows, Edited, Sites
  <2>2. CASE Go(c, "edit", "done") /\ Install(mem[c].web, Edited(c)) /\ UNCHANGED memVars
    BY <1>0, <1>4, <2>1, <2>2
  <2>3. CASE Go(c, "edit", "done") /\ UNCHANGED worldVars /\ UNCHANGED memVars
    BY <1>0, <2>3 DEF Go, worldVars, memVars
  <2> QED
    BY <1>5, <1>9, <2>2, <2>3 DEF Edit
<1>10. CASE AttachApp \/ Crash \/ UNCHANGED vars
  BY <1>0, <1>10 DEF AttachApp, Crash, CrashCalls, vars, callVars, worldVars, memVars
<1> QED
  BY <1>1, <1>2, <1>3, <1>6, <1>7, <1>8, <1>9, <1>10 DEF Next, Step

(* A file left over keeps its excuse: what the calls saw is not forgotten. *)
LEMMA MovedStands ==
  ASSUME DomainsTypeOK, Untouched, NEW c \in Calls,
         \/ pc[c] = "idle" /\ mem'[c].id \in Calls /\ mem' = [mem EXCEPT ![c] = mem'[c]]
         \/ mem' = mem \/ mem' = [mem EXCEPT ![c].ssl = "on"]
  PROVE  /\ \A w \in Webs : Moved(w) => Moved(w)'
         /\ Balanced => Balanced'
<1> USE DEF DomainsTypeOK
<1>1. CASE mem' = mem \/ mem' = [mem EXCEPT ![c].ssl = "on"]
  <2>1. \A d \in Calls : /\ mem'[d].id = mem[d].id /\ mem'[d].web = mem[d].web
                         /\ mem'[d].host = mem[d].host
    BY <1>1 DEF Rows
  <2> QED
    BY <2>1 DEF Moved, Balanced
<1>2. CASE pc[c] = "idle" /\ mem'[c].id \in Calls /\ mem' = [mem EXCEPT ![c] = mem'[c]]
  <2>1. mem[c] = NoRow /\ \A d \in Calls \ {c} : mem'[d] = mem[d]
    BY <1>2 DEF Untouched
  <2>2. \A d \in Calls : mem[d].id = NoCall => mem[d].web = "nginx"
    BY CallsAssumption DEF Untouched, NoRow
  <2>3. ASSUME NEW w \in Webs, NEW a \in Calls, NEW b \in Calls,
               mem[a].id = mem[b].id, mem[a].web = w, mem[b].web # w
        PROVE  a # c /\ b # c
    BY <2>1, <2>2, <2>3 DEF NoRow
  <2>4. \A w \in Webs : Moved(w) => Moved(w)'
    BY <2>1, <2>3 DEF Moved
  <2>5. Balanced => Balanced'
    BY <2>1 DEF Balanced, NoRow
  <2> QED
    BY <2>4, <2>5
<1> QED
  BY <1>1, <1>2

(* With one call at a time and no failure, the call at work knows what it  *)
(* leaves behind: what starts,                                             *)
LEMMA AtWorkStart ==
  ASSUME DomainsTypeOK, OneLive, Untouched, Seen, AtWork, Settled, Leftovers,
         NEW c \in Calls, Start(c), clash' = "no"
  PROVE  AtWork' /\ Settled' /\ Leftovers'
<1> USE DEF DomainsTypeOK, CallsTypeOK, Live, Exists
<1>1. ASSUME NEW o \in Ops, NEW to \in Labels \cup {"done"}, Begin(c, o, to)
      PROVE  /\ \A d \in Calls : ~ Live(d)
             /\ op'[c] = o /\ pc'[c] = to
             /\ \A d \in Calls \ {c} : op'[d] = op[d] /\ pc'[d] = pc[d]
             /\ op[c] = "none" /\ pc[c] = "idle"
  BY <1>1 DEF Begin, Quiet, Untouched
<1>0. mem' = [mem EXCEPT ![c] = mem'[c]] /\ mem'[c].id \in Calls /\ pc[c] = "idle"
  BY StartSees DEF Start, Create, Update, SwitchDomain, Delete, Begin
<1>7. (\A w \in Webs : Moved(w) => Moved(w)') /\ (Balanced => Balanced')
  BY <1>0, MovedStands
<1>2. ASSUME NEW host \in Hosts, NEW web \in Webs, NEW php \in Versions,
             Create(c, host, web, php)
      PROVE  AtWork' /\ Settled' /\ Leftovers'
  <2>1. PICK to \in {"unattended", "giveUp", "vhost"} :
          /\ Begin(c, "create", to)
          /\ to \in {"unattended", "giveUp"} => host \notin {"server", "balancer"}
          /\ to = "vhost" => host \in {"server", "balancer"}
    BY <1>2 DEF Create, Hosts
  <2>2. /\ row' = [id |-> c, host |-> host, web |-> web, php |-> php, ssl |-> "off",
                   status |-> "provisioning"]
        /\ mem'[c] = row' /\ \A d \in Calls \ {c} : mem'[d] = mem[d]
        /\ site' = site /\ ~ Exists
    BY <1>2 DEF Create
  <2>3. /\ \A d \in Calls : ~ Live(d)
        /\ op'[c] = "create" /\ pc'[c] = to
        /\ \A d \in Calls \ {c} : op'[d] = op[d] /\ pc'[d] = pc[d]
    BY <1>1, <2>1 DEF Ops, Labels
  <2>4. AtWork'
    BY <2>1, <2>2, <2>3 DEF AtWork
  <2>5. Settled'
    BY <2>1, <2>3 DEF Settled, Quiet
  <2>6. row'.host = "balancer" => Balanced'
    BY <2>2 DEF Balanced
  <2>7. Leftovers'
    BY <1>7, <2>2, <2>6 DEF Leftovers
  <2> QED
    BY <2>4, <2>5, <2>7
<1>3. ASSUME NEW web \in Webs, NEW php \in Versions, NEW ssl \in Switch, NEW status \in Named,
             Update(c, web, php, ssl, status)
      PROVE  AtWork' /\ Settled' /\ Leftovers'
  <2>1. /\ row'.id = row.id /\ row'.host = row.host /\ row'.status # "absent" /\ Exists
        /\ row'.php = php /\ row'.ssl = ssl /\ row'.web = web
        /\ mem'[c] = row' /\ \A d \in Calls \ {c} : mem'[d] = mem[d]
        /\ site' = site /\ pinned' = pinned
    BY <1>3 DEF Update, Rows, Named
  <2>2. PICK to \in {"reprovision", "done"} :
          /\ Begin(c, "update", to)
          /\ to = "reprovision" => row.host = "server"
          /\ to = "done" => \/ row.host # "server"
                            \/ php = row.php /\ ssl = row.ssl /\ web = row.web
    BY <1>3 DEF Update
  <2>3. /\ \A d \in Calls : ~ Live(d)
        /\ op'[c] = "update" /\ pc'[c] = to
        /\ \A d \in Calls \ {c} : op'[d] = op[d] /\ pc'[d] = pc[d]
        /\ op[c] = "none"
    BY <1>1, <2>2 DEF Ops, Labels
  <2>4. AtWork'
    BY <2>1, <2>2, <2>3 DEF AtWork
  <2>5. to = "done" /\ row.host = "server" => VhostOf(row') = VhostOf(row)
    BY <2>1, <2>2 DEF VhostOf
  <2>6. Settled'
    <3>1. Excused => Excused'
      BY <2>1, <2>3 DEF Excused, Did
    <3> QED
      BY <2>1, <2>2, <2>3, <2>5, <3>1 DEF Settled, Quiet
  <2>7. \A w \in Webs : row.web = w => row'.web = w \/ Moved(w)'
    <3>1. PICK b \in Calls : mem[b].id = row.id /\ mem[b].web = row.web
      BY <2>1 DEF Seen
    <3>2. row.id \in Calls /\ mem[c].id = NoCall
      BY <1>0, <2>1 DEF Seen, Untouched, NoRow
    <3>3. b # c
      BY <3>1, <3>2, CallsAssumption
    <3> QED
      BY <2>1, <3>1, <3>3 DEF Moved
  <2>8. Leftovers'
    BY <1>7, <2>1, <2>7 DEF Leftovers
  <2> QED
    BY <2>4, <2>6, <2>8
<1>4. ASSUME NEW o \in {"switch", "delete"}, NEW to \in {"repoint", "remove", "drop"},
             Begin(c, o, to), o = "switch" <=> to = "repoint",
             Exists, row' = row, site' = site, pinned' = pinned,
             mem' = [mem EXCEPT ![c] = row], to # "drop" => row.host = "server",
             to = "drop" => row.host # "server"
      PROVE  AtWork' /\ Settled' /\ Leftovers'
  <2>1. mem'[c] = row /\ \A d \in Calls \ {c} : mem'[d] = mem[d]
    BY <1>4
  <2>2. /\ \A d \in Calls : ~ Live(d)
        /\ op'[c] = o /\ pc'[c] = to
        /\ \A d \in Calls \ {c} : op'[d] = op[d] /\ pc'[d] = pc[d]
        /\ op[c] = "none"
    BY <1>1, <1>4 DEF Ops, Labels
  <2>3. Excused => Excused'
    BY <1>4, <2>2 DEF Excused, Did
  <2>4. to = "repoint" => site[row.web] = VhostOf(row) \/ Excused
    BY <1>4, <2>2 DEF Settled, Quiet
  <2>5. AtWork'
    BY <1>4, <2>1, <2>2, <2>3, <2>4 DEF AtWork
  <2>6. Settled'
    BY <1>4, <2>2 DEF Settled, Quiet
  <2>7. Leftovers'
    BY <1>4, <1>7 DEF Leftovers
  <2> QED
    BY <2>5, <2>6, <2>7
<1>5. ASSUME NEW php \in Versions, SwitchDomain(c, php)
      PROVE  AtWork' /\ Settled' /\ Leftovers'
  BY <1>4, <1>5 DEF SwitchDomain, worldVars
<1>6. ASSUME Delete(c)
      PROVE  AtWork' /\ Settled' /\ Leftovers'
  BY <1>4, <1>6 DEF Delete, worldVars
<1> QED
  BY <1>2, <1>3, <1>5, <1>6 DEF Start

(* and every further step.                                                 *)
LEMMA AtWorkStep ==
  ASSUME DomainsTypeOK, OneLive, Untouched, Seen, AtWork, Settled, Leftovers,
         clash = "no", troubles = 0, NEW c \in Calls, Step(c), troubles' = 0
  PROVE  AtWork' /\ Settled' /\ Leftovers'
<1> USE DEF DomainsTypeOK, CallsTypeOK, Live, Exists
<1>0. (\A w \in Webs : Moved(w) => Moved(w)') /\ (Balanced => Balanced')
  BY StepSees, MovedStands
<1>1. \A from, to : ~ GoFailed(c, from, to) /\ ~ GoLost(c, from, to)
  BY DEF GoFailed, GoLost
<1>2. ASSUME NEW from \in Labels, NEW to \in Labels \cup {"done"}, Go(c, from, to)
      PROVE  /\ pc[c] = from /\ pc'[c] = to
             /\ \A d \in Calls \ {c} : ~ Live(d) /\ pc'[d] = pc[d]
             /\ op' = op /\ (Quiet' <=> to = "done")
  BY <1>2 DEF Go, OneLive, Quiet, Labels
<1>3. Live(c)
  BY StepSees DEF Labels
<1>4. /\ row.id = mem[c].id /\ row.host = mem[c].host /\ row.web = mem[c].web /\ Exists
      /\ row \in Rows /\ row.web \in Webs
      /\ \A r : WriteRow(c, r) => row' = r /\ site' = site
  BY <1>3 DEF AtWork, WriteRow, Rows
<1>5. ASSUME NEW s, Install(mem[c].web, s)
      PROVE  /\ row' = row /\ site'[row.web] = s
             /\ \A w \in Webs \ {row.web} : site'[w] = site[w]
  BY <1>4, <1>5 DEF Install
<1>6. ASSUME NEW from \in {"unattended", "activate", "giveUp"}, NEW s \in {"active", "error"},
             Conclude(c, from, s)
      PROVE  AtWork' /\ Settled' /\ Leftovers'
  <2>1. /\ row'.id = row.id /\ row'.host = row.host /\ row'.status # "absent"
        /\ row'.php = row.php /\ row'.ssl = row.ssl /\ row'.web = row.web
        /\ UNCHANGED <<site, mem, pinned>>
    BY <1>1, <1>4, <1>6 DEF Conclude, Verdict, Rows, memVars
  <2>2. Go(c, from, "done")
    BY <1>1, <1>6 DEF Conclude, Verdict
  <2>3. AtWork'
    BY <1>2, <2>2 DEF Labels, AtWork
  <2>4. Settled'
    <3>1. row.host = "server" => site[row.web] = VhostOf(row)
      BY <1>2, <1>6, <2>2 DEF Labels, AtWork
    <3> QED
      BY <1>4, <2>1, <3>1 DEF Settled, VhostOf
  <2> QED
    BY <1>0, <1>4, <2>1, <2>3, <2>4 DEF Leftovers
<1>7. ASSUME Vhost(c)
      PROVE  AtWork' /\ Settled' /\ Leftovers'
  <2>1. Go(c, "vhost", "certbot") /\ Install(mem[c].web, VhostOf(mem[c])) /\ UNCHANGED <<pinned, mem>>
    BY <1>1, <1>7 DEF Vhost, memVars
  <2>2. row' = row /\ site'[row.web] = VhostOf(mem[c])
        /\ \A w \in Webs \ {row.web} : site'[w] = site[w]
    BY <1>5, <2>1
  <2>3. AtWork'
    BY <1>2, <2>1, <2>2 DEF Labels, AtWork, VhostOf
  <2>4. Settled'
    BY <1>2, <2>1 DEF Labels, Settled
  <2>5. row.host = "server" \/ Balanced
    BY <1>2, <1>3, <2>1 DEF Labels, AtWork, Leftovers
  <2> QED
    BY <1>0, <1>4, <2>2, <2>3, <2>4, <2>5 DEF Leftovers
<1>8. ASSUME Certbot(c)
      PROVE  AtWork' /\ Settled' /\ Leftovers'
  <2>1. PICK to \in {"secure", "activate"} :
          /\ Go(c, "certbot", to) /\ row' = row /\ site' = site
          /\ to = "secure" => mem'[c].ssl = "on"
          /\ to = "activate" => mem' = mem
          /\ mem'[c].id = mem[c].id /\ mem'[c].host = mem[c].host /\ mem'[c].php = mem[c].php
          /\ mem'[c].web = mem[c].web
          /\ \A d \in Calls \ {c} : mem'[d] = mem[d]
    BY <1>8 DEF Certbot, Rows
  <2>2. AtWork'
    BY <1>2, <1>4, <2>1 DEF Labels, AtWork
  <2>3. Settled'
    BY <1>2, <2>1 DEF Labels, Settled
  <2> QED
    BY <1>0, <2>1, <2>2, <2>3 DEF Leftovers
<1>9. ASSUME Secure(c)
      PROVE  AtWork' /\ Settled' /\ Leftovers'
  <2>1. Go(c, "secure", "secured") /\ Install(mem[c].web, VhostOf(mem[c])) /\ UNCHANGED <<pinned, mem>>
    BY <1>1, <1>9 DEF Secure, memVars
  <2>2. row' = row /\ site'[row.web] = VhostOf(mem[c])
        /\ \A w \in Webs \ {row.web} : site'[w] = site[w]
    BY <1>5, <2>1
  <2>3. AtWork'
    BY <1>2, <2>1, <2>2 DEF Labels, AtWork
  <2>4. Settled'
    BY <1>2, <2>1 DEF Labels, Settled
  <2>5. site[row.web].scheme # "none"
    <3>1. site[row.web] = VhostOf(row)
      BY <1>2, <2>1 DEF Labels, AtWork
    <3> QED
      BY <3>1 DEF VhostOf
  <2> QED
    BY <1>0, <1>4, <2>2, <2>3, <2>4, <2>5 DEF Leftovers
<1>10. ASSUME Secured(c)
       PROVE  AtWork' /\ Settled' /\ Leftovers'
  <2>1. row' = [row EXCEPT !.ssl = "on", !.status = "active"] /\ site' = site
    BY <1>1, <1>4, <1>10 DEF Secured, Verdict
  <2>2. /\ row'.id = row.id /\ row'.host = row.host /\ row'.status # "absent"
        /\ row'.php = row.php /\ row'.ssl = "on" /\ row'.web = row.web
        /\ UNCHANGED <<site, mem, pinned>>
    BY <1>1, <1>4, <1>10, <2>1 DEF Secured, Verdict, Rows, memVars
  <2>3. Go(c, "secured", "done")
    BY <1>1, <1>10 DEF Secured, Verdict
  <2>4. AtWork'
    BY <1>2, <2>3 DEF Labels, AtWork
  <2>5. Settled'
    <3>1. site[row.web] = VhostOf(mem[c]) /\ mem[c].ssl = "on" /\ row.php = mem[c].php
      BY <1>2, <2>3 DEF Labels, AtWork
    <3> QED
      BY <1>4, <2>2, <3>1 DEF Settled, VhostOf
  <2> QED
    BY <1>0, <1>4, <2>2, <2>4, <2>5 DEF Leftovers
<1>11. ASSUME Reprovision(c)
       PROVE  AtWork' /\ Settled' /\ Leftovers'
  <2>1. Go(c, "reprovision", "done") /\ Install(mem[c].web, VhostOf(mem[c])) /\ UNCHANGED <<pinned, mem>>
    BY <1>1, <1>11 DEF Reprovision, memVars
  <2>2. row' = row /\ site'[row.web] = VhostOf(mem[c])
        /\ \A w \in Webs \ {row.web} : site'[w] = site[w]
    BY <1>5, <2>1
  <2>3. AtWork'
    BY <1>2, <2>1 DEF Labels, AtWork
  <2>4. Settled'
    BY <1>2, <1>4, <2>1, <2>2 DEF Labels, AtWork, Settled, VhostOf
  <2>5. row.host = "server"
    BY <1>2, <2>1 DEF Labels, AtWork
  <2> QED
    BY <1>0, <1>4, <2>2, <2>3, <2>4, <2>5 DEF Leftovers
<1>12. ASSUME Repoint(c)
       PROVE  AtWork' /\ Settled' /\ Leftovers'
  <2>1. /\ row'.id = row.id /\ row'.host = row.host /\ row'.status # "absent"
        /\ row'.php = target[c] /\ row'.ssl = row.ssl /\ row'.web = row.web
        /\ UNCHANGED <<site, mem, pinned, target>> /\ Go(c, "repoint", "edit")
    BY <1>1, <1>4, <1>12 DEF Repoint, Rows, memVars
  <2>2. AtWork'
    BY <1>2, <1>4, <2>1 DEF Labels, AtWork, Excused, Did
  <2>3. Settled'
    BY <1>2, <2>1 DEF Labels, Settled
  <2> QED
    BY <1>0, <1>4, <2>1, <2>2, <2>3 DEF Leftovers
<1>13. ASSUME Edit(c)
       PROVE  AtWork' /\ Settled' /\ Leftovers'
  <2>1. Go(c, "edit", "done") /\ UNCHANGED <<pinned, mem>>
    BY <1>1, <1>13 DEF Edit, memVars
  <2>2. /\ row' = row
        /\ site'[row.web] = IF site[row.web].scheme = "none" THEN site[row.web] ELSE Edited(c)
        /\ \A w \in Webs \ {row.web} : site'[w] = site[w]
    BY <1>1, <1>4, <1>5, <1>13 DEF Edit, worldVars
  <2>3. /\ row.host = "server" /\ row.php = target[c] /\ row.ssl = mem[c].ssl
        /\ site[row.web] = VhostOf(mem[c]) \/ Excused
    BY <1>2, <2>1 DEF AtWork, Labels
  <2>4. site[row.web] = VhostOf(mem[c]) => site'[row.web] = VhostOf(row)
    BY <1>4, <2>2, <2>3 DEF Edited, VhostOf, Rows, Webs
  <2>5. AtWork'
    BY <1>2, <2>1 DEF Labels, AtWork
  <2>6. Settled'
    BY <1>2, <2>1, <2>2, <2>3, <2>4 DEF Labels, Settled, Excused, Did
  <2> QED
    BY <1>0, <1>4, <2>2, <2>3, <2>5, <2>6 DEF Leftovers
<1>14. ASSUME Remove(c)
       PROVE  AtWork' /\ Settled' /\ Leftovers'
  <2>1. Go(c, "remove", "drop") /\ Install(mem[c].web, NoSite) /\ UNCHANGED <<pinned, mem>>
    BY <1>1, <1>14 DEF Remove, memVars
  <2>2. row' = row /\ site'[row.web] = NoSite /\ \A w \in Webs \ {row.web} : site'[w] = site[w]
    BY <1>5, <2>1
  <2>3. AtWork'
    BY <1>2, <2>1, <2>2 DEF Labels, AtWork, NoSite
  <2>4. Settled'
    BY <1>2, <2>1 DEF Labels, Settled
  <2> QED
    BY <1>0, <1>4, <2>2, <2>3, <2>4 DEF Leftovers, NoSite
<1>15. ASSUME Drop(c)
       PROVE  AtWork' /\ Settled' /\ Leftovers'
  <2>1. /\ Go(c, "drop", "done") /\ site' = site
        /\ row' = IF pinned = "yes" THEN row ELSE NoRow
        /\ UNCHANGED <<pinned, mem>>
    BY <1>1, <1>4, <1>15 DEF Drop, memVars
  <2>2. op[c] = "delete" /\ (row.host = "server" => site[row.web].scheme = "none")
    BY <1>2, <2>1 DEF Labels, AtWork
  <2>3. AtWork'
    BY <1>2, <2>1 DEF Labels, AtWork
  <2>4. op' = op
    BY <1>2, <2>1 DEF Labels
  <2>5. Settled'
    BY <2>1, <2>2, <2>4 DEF Settled, NoRow, Excused, Did
  <2> QED
    BY <1>0, <1>4, <2>1, <2>2, <2>3, <2>5 DEF Leftovers, NoRow
<1> QED
  BY <1>6, <1>7, <1>8, <1>9, <1>10, <1>11, <1>12, <1>13, <1>14, <1>15
     DEF Step, Unattended, Activate, GiveUp

(* The invariant is inductive.                                             *)
LEMMA SerialStep ==
  ASSUME DefaultPhp \in Versions, SerialInv, [Next]_vars
  PROVE  SerialInv'
<1> USE DEF SerialInv
<1>1. DomainsTypeOK' /\ OneLive' /\ Untouched' /\ Seen'
  BY NextStaysTyped, OneLiveStep
<1>2. troubles' = 0 => Loadable'
  BY LoadableStep
<1>3. ASSUME Calm'
      PROVE  AtWork' /\ Settled' /\ Leftovers'
  <2>1. Calm
    BY <1>3, TroublesStand, CallsAssumption DEF Calm, DomainsTypeOK, CallsTypeOK
  <2>2. CASE \E c \in Calls : Start(c) \/ Step(c)
    BY <1>3, <2>1, <2>2, AtWorkStart, AtWorkStep DEF Calm
  <2>3. CASE AttachApp
    BY <2>1, <2>3 DEF AttachApp, AtWork, Settled, Leftovers, Balanced, Moved, Excused, Did, Live,
                      Quiet, Exists, callVars, worldVars, memVars
  <2>4. ~ Crash
    BY <1>3, <2>1 DEF Crash, CrashCalls, Calm
  <2>5. CASE UNCHANGED vars
    BY <2>1, <2>5 DEF vars, AtWork, Settled, Leftovers, Balanced, Moved, Excused, Did, Live, Quiet,
                      Exists
  <2> QED
    BY <2>2, <2>3, <2>4, <2>5 DEF Next
<1> QED
  BY <1>1, <1>2, <1>3

(* It says what the two properties say.                                    *)
LEMMA SerialMeans ==
  ASSUME SerialInv
  PROVE  ServerAgrees /\ ServesTheFile
<1>1. ServerAgrees
  BY DEF SerialInv, ServerAgrees, Settled, Leftovers, Excused, Balanced
<1>2. ServesTheFile
  BY DEF SerialInv, ServesTheFile, Loadable, SslAsked
<1> QED
  BY <1>1, <1>2

(* The invariant holds in every reachable state.                           *)
LEMMA AlwaysSerial ==
  ASSUME DefaultPhp \in Versions
  PROVE  Spec => []SerialInv
<1>1. Init => SerialInv
  BY SerialInit
<1>2. SerialInv /\ [Next]_vars => SerialInv'
  BY SerialStep
<1> QED
  BY <1>1, <1>2, PTL DEF Spec

(* After calls that did not overlap and whose scripts ran, the vhost on the*)
(* server is the row's, and there is none without a row; a load balancer's *)
(* vhost, the one of a web server the domain was moved away from and a     *)
(* Delete that an application blocks are the exceptions.                   *)
THEOREM ServerAlwaysAgrees ==
  ASSUME DefaultPhp \in Versions
  PROVE  Spec => []ServerAgrees
<1>1. SerialInv => ServerAgrees
  BY SerialMeans
<1> QED
  BY <1>1, AlwaysSerial, PTL

(* As long as scripts run, however calls interleave, each web server serves*)
(* what its file says, unless an Update switched SSL on.                   *)
THEOREM AlwaysServesTheFile ==
  ASSUME DefaultPhp \in Versions
  PROVE  Spec => []ServesTheFile
<1>1. SerialInv => ServesTheFile
  BY SerialMeans
<1> QED
  BY <1>1, AlwaysSerial, PTL
=============================================================================
