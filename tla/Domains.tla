------------------------------ MODULE Domains ------------------------------
(***************************************************************************)
(* One domain name of the panel, backend/internal/services/                *)
(* domain_service.go: its row of table domains (name is UNIQUE, so at most *)
(* one), the vhost files of that name on the server (nginx's and Apache's),*)
(* the configuration each web server has loaded, and the certificate.      *)
(* SwitchDomain of php_service.go edits the same row and file and is here  *)
(* too.  ProvisionWildcardSSL is not: its first SELECT joins               *)
(* cloudflare_integrations, a table no migration creates, so that the call *)
(* ends there.                                                             *)
(*                                                                         *)
(* A web server other than "apache" is treated as nginx.  The scripts of   *)
(* the two have the same shape: both end with "test && reload; echo", so   *)
(* that a configuration that does not pass the test is written, not loaded,*)
(* and reported as provisioned.                                            *)
(***************************************************************************)
EXTENDS Background

CONSTANTS
  Versions,     \* PHP versions
  DefaultPhp    \* "8.2", what Create puts when the request names none

VARIABLES
  row,          \* the row; status "absent" when there is none
  site,         \* per web server, the vhost file of the name
  served,       \* per web server, what it loaded last
  cert,         \* the Let's Encrypt certificate of the name
  pinned,       \* an application's row references the domain (no cascade)
  mem,          \* per call, the models.Domain in its memory
  target,       \* per SwitchDomain, the version asked for
  named         \* per Update, the status its request names, "none" without

worldVars == <<row, site, served, cert>>
memVars == <<mem, target, named>>
vars == <<op, pc, clash, crashed, troubles, lost, row, site, served, cert, pinned,
          mem, target, named>>

Switch == {"on", "off"}
Webs   == {"nginx", "apache"}
Hosts  == {"server", "balancer", "emptyBalancer", "none"}
Statuses == {"absent", "provisioning", "active", "error", "suspended"}
Named    == (Statuses \ {"absent"}) \cup {"none"}
Rows  == [id : Calls \cup {NoCall}, host : Hosts, web : Webs, php : Versions,
          ssl : Switch, status : Statuses]
Sites == [scheme : {"none", "http", "https"}, php : Versions]
Ops    == {"create", "update", "switch", "delete"}
Labels == {"unattended", "vhost", "certbot", "secure", "secured", "activate",
           "giveUp", "reprovision", "repoint", "edit", "remove", "drop"}

NoRow == [id |-> NoCall, host |-> "none", web |-> "nginx", php |-> DefaultPhp,
          ssl |-> "off", status |-> "absent"]
NoSite == [scheme |-> "none", php |-> DefaultPhp]

Exists == row.status # "absent"

Init ==
  /\ CallsInit
  /\ row = NoRow
  /\ site = [w \in Webs |-> NoSite]
  /\ served = [w \in Webs |-> NoSite]
  /\ cert = "none"
  /\ pinned = "no"
  /\ mem = [c \in Calls |-> NoRow]
  /\ target = [c \in Calls |-> DefaultPhp]
  /\ named = [c \in Calls |-> "none"]

(* The vhost for a row: generateApacheVhost does not use the PHP version.  *)
VhostOf(r) == [scheme |-> IF r.ssl = "on" THEN "https" ELSE "http",
               php |-> IF r.web = "nginx" THEN r.php ELSE DefaultPhp]

(* Mutant of Loaded: the script writes the file and does not reload.       *)
NeverLoaded(w, s) == IF s.scheme = "none" THEN s ELSE served[w]

(* "nginx -t && systemctl reload nginx", or Apache's, with s in            *)
(* sites-available: the test fails when s names a certificate that is not  *)
(* there.                                                                  *)
Loaded(w, s) == IF s.scheme = "https" /\ cert = "none" THEN served[w] ELSE s

(* The script that leaves s in w's sites-available ran to its end.         *)
Install(w, s) ==
  /\ site' = [site EXCEPT ![w] = s]
  /\ served' = [served EXCEPT ![w] = Loaded(w, s)]
  /\ UNCHANGED <<row, cert>>

(* It was cut short, before or after the file was written.                 *)
Interrupted(w, s) ==
  /\ site' \in {site, [site EXCEPT ![w] = s]}
  /\ UNCHANGED <<row, served, cert>>

(* Mutant of WriteRow: WHERE name, whichever row has it now.               *)
WriteRowByName(c, r) ==
  /\ row' = IF Exists THEN r ELSE row
  /\ UNCHANGED <<site, served, cert>>

(* UPDATE domains ... WHERE id = mem[c].id                                 *)
WriteRow(c, r) ==
  /\ row' = IF Exists /\ row.id = mem[c].id THEN r ELSE row
  /\ UNCHANGED <<site, served, cert>>

(***************************************************************************)
(* Create                                                                  *)
(***************************************************************************)
Create(c, host, web, php) ==
  /\ ~ Exists
  /\ Begin(c, "create", CASE host = "none"          -> "unattended"
                          [] host = "emptyBalancer" -> "giveUp"
                          [] OTHER                  -> "vhost")
  /\ row' = [id |-> c, host |-> host, web |-> web, php |-> php, ssl |-> "off",
             status |-> "provisioning"]
  /\ mem' = [mem EXCEPT ![c] = row']
  /\ UNCHANGED <<site, served, cert, pinned, target, named>>

(* The last thing a Create does is an UPDATE that leaves r in its row.  Its*)
(* error is ignored; the one of a domain without a server is on the        *)
(* request's context, which ends when the client goes away.                *)
Verdict(c, from, r) ==
  /\ \/ Go(c, from, "done") /\ WriteRow(c, r)
     \/ GoLost(c, from, "done") /\ UNCHANGED worldVars
  /\ UNCHANGED <<pinned, memVars>>

(* updateDomainStatus(s)                                                   *)
Conclude(c, from, s) == Verdict(c, from, [row EXCEPT !.status = s])

(* Mutant of Unattended: the branch without a server writes no status.     *)
UnattendedForgets(c) ==
  Go(c, "unattended", "done") /\ UNCHANGED <<worldVars, pinned, memVars>>

Unattended(c) == Conclude(c, "unattended", "active")

Activate(c) == Conclude(c, "activate", "active")

(* Mutant of GiveUp: a status the rest of the panel does not know.         *)
GiveUpFailed(c) == Conclude(c, "giveUp", "failed")

GiveUp(c) == Conclude(c, "giveUp", "error")

(* Mutant of Vhost: a failed script returns without updateDomainStatus.    *)
VhostReturns(c) ==
  /\ \/ Go(c, "vhost", "certbot") /\ Install(mem[c].web, VhostOf(mem[c]))
     \/ GoFailed(c, "vhost", "done") /\ Interrupted(mem[c].web, VhostOf(mem[c]))
  /\ UNCHANGED <<pinned, memVars>>

(* GetServerInfo, the system user and provisionDomain.                     *)
Vhost(c) ==
  /\ \/ Go(c, "vhost", "certbot") /\ Install(mem[c].web, VhostOf(mem[c]))
     \/ GoFailed(c, "vhost", "giveUp") /\ Interrupted(mem[c].web, VhostOf(mem[c]))
  /\ UNCHANGED <<pinned, memVars>>

(* provisionSSL; certbot may refuse, which is not fatal.                   *)
Certbot(c) ==
  /\ \/ /\ Go(c, "certbot", "secure")
        /\ cert' = "issued"
        /\ mem' = [mem EXCEPT ![c].ssl = "on"]
     \/ Go(c, "certbot", "activate") /\ UNCHANGED <<cert, mem>>
  /\ UNCHANGED <<row, site, served, pinned, target, named>>

Secure(c) ==
  /\ \/ Go(c, "secure", "secured") /\ Install(mem[c].web, VhostOf(mem[c]))
     \/ GoFailed(c, "secure", "secured") /\ Interrupted(mem[c].web, VhostOf(mem[c]))
  /\ UNCHANGED <<pinned, memVars>>

Secured(c) == Verdict(c, "secured", [row EXCEPT !.ssl = "on", !.status = "active"])

(***************************************************************************)
(* Update writes the columns the request names; the status is any string,  *)
(* and "none" is a request without one.  A request that names php, ssl or  *)
(* the web server leaves a goroutine, which writes the vhost of the web    *)
(* server the row has now: the file of the one it had stays.  The row      *)
(* RETURNING gives back already holds the new ssl_enabled, so              *)
(* "*req.SSLEnabled && !domain.SSLEnabled" (line 739) is false and the     *)
(* goroutine never calls provisionSSL.                                     *)
(***************************************************************************)
Update(c, web, php, ssl, status) ==
  /\ Exists
  /\ named' = [named EXCEPT ![c] = status]
  /\ row' = [row EXCEPT !.web = web, !.php = php, !.ssl = ssl,
                        !.status = IF status = "none" THEN @ ELSE status]
  /\ mem' = [mem EXCEPT ![c] = row']
  /\ \/ row.host = "server" /\ Begin(c, "update", "reprovision")
     \/ <<web, php, ssl>> = <<row.web, row.php, row.ssl>> /\ Begin(c, "update", "done")
     \/ row.host # "server" /\ Begin(c, "update", "done")
  /\ UNCHANGED <<site, served, cert, pinned, target>>

Reprovision(c) ==
  /\ \/ Go(c, "reprovision", "done") /\ Install(mem[c].web, VhostOf(mem[c]))
     \/ GoFailed(c, "reprovision", "done") /\ Interrupted(mem[c].web, VhostOf(mem[c]))
  /\ UNCHANGED <<pinned, memVars>>

(***************************************************************************)
(* SwitchDomain.  That the new version is active on the server was checked *)
(* against php_versions (module PhpVersions).                              *)
(***************************************************************************)
SwitchDomain(c, php) ==
  /\ Exists
  /\ row.host = "server"
  /\ row.php # php
  /\ Begin(c, "switch", "repoint")
  /\ mem' = [mem EXCEPT ![c] = row]
  /\ target' = [target EXCEPT ![c] = php]
  /\ UNCHANGED <<worldVars, pinned, named>>

Repoint(c) ==
  /\ \/ Go(c, "repoint", "edit") /\ WriteRow(c, [row EXCEPT !.php = target[c]])
     \/ GoFailed(c, "repoint", "done") /\ UNCHANGED worldVars
  /\ UNCHANGED <<pinned, memVars>>

(* sed 's|php<old>-fpm.sock|php<new>-fpm.sock|g' on the vhost file, where  *)
(* old is the version the handler read at its start.  Apache's file names  *)
(* no socket.                                                              *)
Edited(c) ==
  LET s == site[mem[c].web] IN
    IF mem[c].web = "nginx" /\ s.php = mem[c].php THEN [s EXCEPT !.php = target[c]] ELSE s

(* sed on a missing file ends the script before the reload.                *)
Edit(c) ==
  /\ IF site[mem[c].web].scheme = "none"
       THEN Go(c, "edit", "done") /\ UNCHANGED worldVars
       ELSE \/ Go(c, "edit", "done") /\ Install(mem[c].web, Edited(c))
            \/ GoFailed(c, "edit", "done") /\ Interrupted(mem[c].web, Edited(c))
  /\ UNCHANGED <<pinned, memVars>>

(* Mutant of Delete: the row goes, the vhost is left.                      *)
DeleteRowOnly(c) ==
  /\ Exists
  /\ Begin(c, "delete", "drop")
  /\ mem' = [mem EXCEPT ![c] = row]
  /\ UNCHANGED <<worldVars, pinned, target, named>>

(***************************************************************************)
(* Delete: deprovisionDomain first, which removes the vhost of the web     *)
(* server the row has now, the DELETE afterwards.  A load balancer's row   *)
(* has no server_id, so nothing is deprovisioned; the DELETE fails while   *)
(* an application references the row.                                      *)
(***************************************************************************)
Delete(c) ==
  /\ Exists
  /\ Begin(c, "delete", IF row.host = "server" THEN "remove" ELSE "drop")
  /\ mem' = [mem EXCEPT ![c] = row]
  /\ UNCHANGED <<worldVars, pinned, target, named>>

Remove(c) ==
  /\ \/ Go(c, "remove", "drop") /\ Install(mem[c].web, NoSite)
     \/ GoFailed(c, "remove", "drop") /\ Interrupted(mem[c].web, NoSite)
  /\ UNCHANGED <<pinned, memVars>>

Drop(c) ==
  /\ \/ Go(c, "drop", "done") /\ WriteRow(c, IF pinned = "yes" THEN row ELSE NoRow)
     \/ GoFailed(c, "drop", "done") /\ UNCHANGED worldVars
  /\ UNCHANGED <<pinned, memVars>>

(***************************************************************************)
(* Environment                                                             *)
(***************************************************************************)
(* AppService.Create with this domain_id.                                  *)
AttachApp == Exists /\ pinned = "no" /\ pinned' = "yes"
             /\ UNCHANGED <<callVars, worldVars, memVars>>

Crash == CrashCalls /\ UNCHANGED <<worldVars, pinned, memVars>>

Start(c) ==
  \/ \E host \in Hosts, web \in Webs, php \in Versions : Create(c, host, web, php)
  \/ \E web \in Webs, php \in Versions, ssl \in Switch, status \in Named :
       Update(c, web, php, ssl, status)
  \/ \E php \in Versions : SwitchDomain(c, php)
  \/ Delete(c)

Step(c) ==
  \/ Unattended(c) \/ Activate(c) \/ GiveUp(c)
  \/ Vhost(c) \/ Certbot(c) \/ Secure(c) \/ Secured(c)
  \/ Reprovision(c)
  \/ Repoint(c) \/ Edit(c)
  \/ Remove(c) \/ Drop(c)

Next == (\E c \in Calls : Start(c) \/ Step(c)) \/ AttachApp \/ Crash

Spec == Init /\ [][Next]_vars

(* The API process does not stand still: as long as some goroutine has a  *)
(* step to do, one of them does one (RunScript's SSH sessions have no      *)
(* deadline; that a script ends is assumed).                               *)
FairSpec == Spec /\ WF_vars(\E c \in Calls : Step(c))

(***************************************************************************)
(* Properties                                                              *)
(***************************************************************************)
DomainsTypeOK ==
  /\ CallsTypeOK(Ops, Labels)
  /\ row \in Rows
  /\ site \in [Webs -> Sites] /\ served \in [Webs -> Sites]
  /\ cert \in {"none", "issued"}
  /\ pinned \in {"no", "yes"}
  /\ mem \in [Calls -> Rows]
  /\ target \in [Calls -> Versions]
  /\ named \in [Calls -> Named]

(* The row is 'provisioning' because a request to Update said so, or its   *)
(* last UPDATE failed, which Create ignores (lines 533, 540).              *)
Abandoned ==
  row.id \in lost \/ \E c \in Calls : named[c] = "provisioning" /\ mem[c].id = row.id

(* A row in status 'provisioning' belongs to a goroutine that is still     *)
(* going to decide it, unless the process died, its UPDATE failed or a     *)
(* request put that status there: no error path of Create leaves the row   *)
(* behind (domain_service.go:456-534).                                     *)
ProvisioningHasWorker ==
  row.status = "provisioning" => Live(row.id) \/ crashed = "yes" \/ Abandoned

(* Two calls saw the same row, one of them under web server w: an Update   *)
(* moved the domain to w or away from it.                                  *)
Moved(w) ==
  \E b, c \in Calls : mem[b].id = mem[c].id /\ mem[b].web = w /\ mem[c].web # w

(* Calls that do not overlap, and whose scripts run, keep server and row   *)
(* in step: the vhost exists exactly for an existing row that has a server,*)
(* at the row's web server, with its PHP version and scheme.  The          *)
(* exceptions are what the code does even then: the vhost of a load        *)
(* balancer outlives its row (Delete finds no server_id), so does the file *)
(* of a web server the domain was moved away from (line 728 provisions the *)
(* new one only), and a Delete that an application's reference makes fail  *)
(* has already removed the vhost.                                          *)
ServerAgrees ==
  Quiet /\ Calm =>
    /\ Exists /\ row.host = "server" /\ ~ (pinned = "yes" /\ Did("delete"))
         => site[row.web] = VhostOf(row)
    /\ \A w \in Webs : site[w].scheme # "none" =>
         \/ Exists /\ row.host = "server" /\ row.web = w
         \/ \E c \in Calls : mem[c].host = "balancer"
         \/ Moved(w)

(* What a web server serves is what its file says, unless the file is the  *)
(* https vhost an Update that switched SSL on wrote for a certificate      *)
(* nobody asks for: the test then keeps every later reload from happening. *)
ServesTheFile ==
  Quiet /\ troubles = 0 => \A w \in Webs : served[w] # site[w] =>
    /\ site[w].scheme = "https"
    /\ \E c \in Calls : op[c] = "update" /\ mem[c].ssl = "on"

(* Only the goroutine of the Create that inserted this very row moves it to*)
(* 'active' or 'error', and it does so in its last step, or a request to   *)
(* Update that names this status: a goroutine left over from a deleted row *)
(* of the same name decides nothing.                                       *)
OwnerDecides ==
  [][row'.id = row.id /\ row'.status # row.status /\ row'.status \in {"active", "error"}
       => \/ Live(row.id) /\ pc'[row.id] = "done"
          \/ \E c \in Calls : pc[c] = "idle" /\ pc'[c] # "idle" /\ named'[c] = row'.status]_vars

(* The row waits for its goroutine's verdict; it must get one, unless the  *)
(* process dies.                                                           *)
Undecided == row.status = "provisioning" /\ ~ Abandoned
=============================================================================
