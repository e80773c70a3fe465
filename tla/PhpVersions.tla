---------------------------- MODULE PhpVersions ----------------------------
(***************************************************************************)
(* The PHP versions of one server, backend/internal/services/              *)
(* php_service.go: table php_versions (UNIQUE on server and version), the  *)
(* packages on the server, and a domain of that server, whose php_version  *)
(* column SwitchDomain and DomainService write and Uninstall counts.       *)
(* The vhost half of SwitchDomain is in module Domains.                    *)
(***************************************************************************)
EXTENDS Background

CONSTANTS
  Versions,     \* the supported versions
  DefaultPhp    \* the version the domain was created with

VARIABLES
  reg,          \* php_versions: per version [id, status, default]
  fpm,          \* per version, the packages: "absent" or "present"
  using,        \* php_version of the domain
  via,          \* history: who wrote using last, "domain" or "switch"
  ver           \* per call, its version

vars == <<op, pc, clash, crashed, troubles, lost, reg, fpm, using, via, ver>>

Statuses == {"absent", "installing", "active", "error"}
Entries  == [id : Calls \cup {NoCall}, status : Statuses, default : {"no", "yes"}]
Ops      == {"install", "setDefault", "switch", "uninstall"}
Labels   == {"apt", "installed", "failed", "clear", "mark", "alternatives",
             "point", "count", "checkDefault", "delete", "purge"}

NoEntry == [id |-> NoCall, status |-> "absent", default |-> "no"]

Init ==
  /\ CallsInit
  /\ reg = [v \in Versions |-> NoEntry]
  /\ fpm = [v \in Versions |-> "absent"]
  /\ using = DefaultPhp
  /\ via = "domain"
  /\ ver = [c \in Calls |-> DefaultPhp]

(* Call c starts as operation o on version v, at label.                    *)
BeginOn(c, o, v, label) == Begin(c, o, label) /\ ver' = [ver EXCEPT ![c] = v]

(***************************************************************************)
(* Install.  A row that exists in any status, 'error' included, refuses it.*)
(***************************************************************************)
Install(c, v) ==
  /\ reg[v].status = "absent"
  /\ BeginOn(c, "install", v, "apt")
  /\ reg' = [reg EXCEPT ![v] = [id |-> c, status |-> "installing", default |-> "no"]]
  /\ UNCHANGED <<fpm, using, via>>

(* Mutant of Apt: the output is not searched for PHP_INSTALL_OK.           *)
AptUnchecked(c) ==
  /\ \/ Go(c, "apt", "installed") /\ fpm' = [fpm EXCEPT ![ver[c]] = "present"]
     \/ GoFailed(c, "apt", "installed") /\ UNCHANGED fpm
  /\ UNCHANGED <<reg, using, via, ver>>

(* The script, or the lookup of the server before it; a script cut short   *)
(* may have installed the packages.                                        *)
Apt(c) ==
  /\ \/ Go(c, "apt", "installed") /\ fpm' = [fpm EXCEPT ![ver[c]] = "present"]
     \/ /\ GoFailed(c, "apt", "failed")
        /\ fpm' \in {fpm, [fpm EXCEPT ![ver[c]] = "present"]}
  /\ UNCHANGED <<reg, using, via, ver>>

(* UPDATE php_versions SET status = s WHERE id = pv.ID, error ignored.     *)
Conclude(c, from, s) ==
  /\ \/ /\ Go(c, from, "done")
        /\ reg' = [v \in Versions |->
                     IF reg[v].id = c THEN [reg[v] EXCEPT !.status = s] ELSE reg[v]]
     \/ GoLost(c, from, "done") /\ UNCHANGED reg
  /\ UNCHANGED <<fpm, using, via, ver>>

Installed(c) == Conclude(c, "installed", "active")

Failed(c) == Conclude(c, "failed", "error")

(***************************************************************************)
(* SetDefault: two UPDATEs that are no transaction, their errors ignored.  *)
(***************************************************************************)
SetDefault(c, v) ==
  /\ reg[v].status = "active"
  /\ BeginOn(c, "setDefault", v, "clear")
  /\ UNCHANGED <<reg, fpm, using, via>>

(* Mutant of Clear: the UPDATE misses the other versions.                  *)
ClearNothing(c) == Go(c, "clear", "mark") /\ UNCHANGED <<reg, fpm, using, via, ver>>

Clear(c) ==
  /\ \/ /\ Go(c, "clear", "mark")
        /\ reg' = [v \in Versions |-> [reg[v] EXCEPT !.default = "no"]]
     \/ GoLost(c, "clear", "mark") /\ UNCHANGED reg
  /\ UNCHANGED <<fpm, using, via, ver>>

Mark(c) ==
  /\ \/ /\ Go(c, "mark", "alternatives")
        /\ reg' = IF reg[ver[c]].status = "absent" THEN reg
                  ELSE [reg EXCEPT ![ver[c]].default = "yes"]
     \/ GoLost(c, "mark", "alternatives") /\ UNCHANGED reg
  /\ UNCHANGED <<fpm, using, via, ver>>

(* update-alternatives for the command line; "|| true" hides its outcome.  *)
Alternatives(c) == Go(c, "alternatives", "done") /\ UNCHANGED <<reg, fpm, using, via, ver>>

(***************************************************************************)
(* SwitchDomain: the version is checked, then the domain's row written.    *)
(***************************************************************************)
SwitchDomain(c, v) ==
  /\ using # v
  /\ reg[v].status = "active"
  /\ BeginOn(c, "switch", v, "point")
  /\ UNCHANGED <<reg, fpm, using, via>>

Point(c) ==
  /\ \/ Go(c, "point", "done") /\ using' = ver[c] /\ via' = "switch"
     \/ GoFailed(c, "point", "done") /\ UNCHANGED <<using, via>>
  /\ UNCHANGED <<reg, fpm, ver>>

(***************************************************************************)
(* Uninstall: count the domains, look at is_default, DELETE, purge.  The   *)
(* errors of the two SELECTs are ignored: a check that could not be made is*)
(* passed.                                                                 *)
(***************************************************************************)
Uninstall(c, v) ==
  /\ BeginOn(c, "uninstall", v, "count")
  /\ UNCHANGED <<reg, fpm, using, via>>

CountDomains(c) ==
  /\ \/ Go(c, "count", IF using = ver[c] THEN "done" ELSE "checkDefault")
     \/ GoLost(c, "count", "checkDefault")
  /\ UNCHANGED <<reg, fpm, using, via, ver>>

CheckDefault(c) ==
  /\ \/ Go(c, "checkDefault", IF reg[ver[c]].default = "yes" THEN "done" ELSE "delete")
     \/ GoLost(c, "checkDefault", "delete")
  /\ UNCHANGED <<reg, fpm, using, via, ver>>

(* No row, no purge.                                                       *)
DeleteRow(c) ==
  /\ \/ /\ Go(c, "delete", IF reg[ver[c]].status = "absent" THEN "done" ELSE "purge")
        /\ reg' = [reg EXCEPT ![ver[c]] = NoEntry]
     \/ GoFailed(c, "delete", "done") /\ UNCHANGED reg
  /\ UNCHANGED <<fpm, using, via, ver>>

Purge(c) ==
  /\ \/ Go(c, "purge", "done") /\ fpm' = [fpm EXCEPT ![ver[c]] = "absent"]
     \/ GoFailed(c, "purge", "done") /\ fpm' \in {fpm, [fpm EXCEPT ![ver[c]] = "absent"]}
  /\ UNCHANGED <<reg, using, via, ver>>

(***************************************************************************)
(* Environment: DomainService.Update writes php_version unchecked.         *)
(***************************************************************************)
UpdateDomain(v) ==
  /\ using # v
  /\ using' = v /\ via' = "domain"
  /\ UNCHANGED <<callVars, reg, fpm, ver>>

Crash == CrashCalls /\ UNCHANGED <<reg, fpm, using, via, ver>>

Start(c) == \E v \in Versions :
  Install(c, v) \/ SetDefault(c, v) \/ SwitchDomain(c, v) \/ Uninstall(c, v)

Step(c) ==
  \/ Apt(c) \/ Installed(c) \/ Failed(c)
  \/ Clear(c) \/ Mark(c) \/ Alternatives(c)
  \/ Point(c)
  \/ CountDomains(c) \/ CheckDefault(c) \/ DeleteRow(c) \/ Purge(c)

Next == (\E c \in Calls : Start(c) \/ Step(c)) \/ (\E v \in Versions : UpdateDomain(v)) \/ Crash

Spec == Init /\ [][Next]_vars

(* As in Domains: some goroutine that can move does.                       *)
FairSpec == Spec /\ WF_vars(\E c \in Calls : Step(c))

(***************************************************************************)
(* Properties                                                              *)
(***************************************************************************)
Defaults == {v \in Versions : reg[v].default = "yes"}

PhpTypeOK ==
  /\ CallsTypeOK(Ops, Labels)
  /\ reg \in [Versions -> Entries]
  /\ fpm \in [Versions -> {"absent", "present"}]
  /\ using \in Versions
  /\ via \in {"domain", "switch"}
  /\ ver \in [Calls -> Versions]

(* An 'active' version is on the server as long as no two calls overlap:   *)
(* with an overlap, the purge of an Uninstall that has returned may run    *)
(* after the apt of the next Install.                                      *)
ActiveIsInstalled ==
  clash = "no" => \A v \in Versions : reg[v].status = "active" => fpm[v] = "present"

(* At most one default, as long as no two calls overlap and the UPDATE that*)
(* clears the others succeeds; and none lost once there was one, unless    *)
(* something fails between the two UPDATEs: an Uninstall never takes the   *)
(* default away.                                                           *)
OneDefault ==
  /\ clash = "no" /\ lost = {} => \A v, w \in Defaults : v = w
  /\ Quiet /\ Calm /\ Did("setDefault") => Defaults # {}

(* A domain that SwitchDomain moved to a version keeps that version        *)
(* installed: Uninstall counts it.  Not so with an overlap, SwitchDomain   *)
(* and Uninstall both check first and write later, nor when the SELECT that*)
(* counts fails, which Uninstall takes for none.                           *)
SwitchedVersionStays ==
  clash = "no" /\ lost = {} /\ via = "switch" => reg[using].status = "active"

(* A version waits for its goroutine's verdict; it must get one or be      *)
(* uninstalled, unless the process dies or that UPDATE fails.              *)
Undecided == \E v \in Versions : reg[v].status = "installing" /\ reg[v].id \notin lost
=============================================================================
