----------------------------- MODULE MCHosting -----------------------------
(***************************************************************************)
(* Domains, PhpVersions, Resources, ServerSetup and Terminal for TLC, in   *)
(* one run.  They share no state but that of Background, so a behaviour    *)
(* follows one of them, chosen by part at the start: their state spaces add*)
(* up instead of multiplying.                                              *)
(***************************************************************************)
EXTENDS Domains

VARIABLES
  part,                                             \* the module that moves
  reg, fpm, using, via, ver,                        \* PhpVersions
  svc, rows, status, remote, parent, victim, bare,  \* Resources
  setup, log, enabled, present, asked, todo, cur, verdict, latest, \* ServerSetup
  kind, browser, conn, peer, shell, handler,        \* Terminal
  out, err, in, typed, unread, printed, unsent

CONSTANTS Modules, Scripted, MaxBytes, Window

ASSUME HostingAssumption == DefaultPhp \in Versions /\ MaxBytes \in Nat /\ Window \in Nat

P == INSTANCE PhpVersions
R == INSTANCE Resources
S == INSTANCE ServerSetup
T == INSTANCE Terminal

domainVars == <<worldVars, pinned, memVars>>
phpVars    == <<reg, fpm, using, via, ver>>
resVars    == <<svc, rows, status, remote, parent, victim, bare>>
setupVars  == <<setup, log, enabled, present, asked, todo, cur, verdict, latest>>
termVars   == <<kind, browser, conn, peer, shell, handler, out, err, in, typed, unread,
                printed, unsent>>
hostingVars == <<callVars, part, domainVars, phpVars, resVars, setupVars, termVars>>

HostingInit ==
  /\ part \in {"domain", "php", "resource", "setup", "terminal"}
  /\ Init /\ P!Init /\ R!Init /\ S!Init /\ T!Init
  /\ part # "resource" => svc = "ftp"
  /\ part # "terminal" => kind = "ssh"

(* Calls are 1 .. n and interchangeable, so that it is no loss to start    *)
(* them in that order.  In ServerSetup two requests overlap or three follow*)
(* one another; the fourth call is for two installs of PHP versions and two*)
(* SetDefaults, one after the other or side by side.                       *)
InOrder(c) ==
  /\ \A b \in 1 .. c - 1 : pc[b] # "idle"
  /\ c > 2 /\ part = "setup" => Quiet /\ clash = "no"
  /\ c > 3 => part = "php" /\ clash = "no"

(* Requests name one column at a time; of the statuses, 'active' stands for*)
(* all that are not 'provisioning'.  A Create that has no server to go to  *)
(* names nothing.                                                          *)
OneColumn(c) ==
  /\ op'[c] = "create" =>
       \/ row'.web = "nginx" /\ row'.php = DefaultPhp
       \/ (row'.web = "nginx" \/ row'.php = DefaultPhp) /\ row'.host = "server"
  /\ op'[c] = "update" =>
       \/ named'[c] = "none" /\ \E col \in {"web", "php", "ssl"} :
                                  row' = [row EXCEPT ![col] = row'[col]]
       \/ row' = [row EXCEPT !.status = named'[c]] /\ named'[c] \in {"provisioning", "active"}

Moves(p) ==
  /\ part = p
  /\ part' = part
  /\ p # "domain"   => UNCHANGED domainVars
  /\ p # "php"      => UNCHANGED phpVars
  /\ p # "resource" => UNCHANGED resVars
  /\ p # "setup"    => UNCHANGED setupVars
  /\ p # "terminal" => UNCHANGED termVars

HostingStep(c) ==
  \/ Moves("domain") /\ Step(c)
  \/ Moves("php") /\ P!Step(c)
  \/ Moves("resource") /\ R!Step(c)
  \/ Moves("setup") /\ S!Step(c)

TerminalMoves(Action) == Moves("terminal") /\ Action /\ UNCHANGED callVars

HostingNext ==
  \/ Moves("domain") /\ \E c \in Calls : InOrder(c) /\ Start(c) /\ OneColumn(c)
  \/ Moves("domain") /\ (AttachApp \/ Crash)
  \/ Moves("php") /\ \E c \in Calls : InOrder(c) /\ P!Start(c) /\ (c > 3 => op'[c] = "setDefault")
  \/ Moves("php") /\ ((\E v \in Versions : P!UpdateDomain(v)) \/ P!Crash)
  \/ Moves("resource") /\ \E c \in Calls : InOrder(c) /\ R!Start(c)
  \/ Moves("resource") /\ (R!DeleteParent \/ R!Crash)
  \/ Moves("setup") /\ \E c \in Calls : InOrder(c) /\ S!Start(c)
  \/ Moves("setup") /\ S!Crash
  \/ TerminalMoves(T!Next)
  \/ \E c \in Calls : HostingStep(c)

HostingSpec ==
  /\ HostingInit /\ [][HostingNext]_hostingVars
  /\ WF_hostingVars(\E c \in Calls : HostingStep(c))
  /\ WF_hostingVars(TerminalMoves(T!Handler)) /\ WF_hostingVars(TerminalMoves(T!Out))
  /\ WF_hostingVars(TerminalMoves(T!ErrRead)) /\ WF_hostingVars(TerminalMoves(T!In))

(***************************************************************************)
(* The properties of the other four modules, where they are explained;    *)
(* those of Domains come with EXTENDS.                                     *)
(***************************************************************************)
(* Each module's state has its type, while that module moves.              *)
TypeOK ==
  /\ part = "domain"   => DomainsTypeOK
  /\ part = "php"      => P!PhpTypeOK
  /\ part = "resource" => R!ResourcesTypeOK
  /\ part = "setup"    => S!SetupTypeOK
  /\ part = "terminal" => T!TerminalTypeOK

(* Modules PhpVersions and ServerSetup: what is reported as installed is   *)
(* on the server.                                                          *)
InstalledIsThere == P!ActiveIsInstalled /\ S!ReportedIsInstalled

(* Module PhpVersions: one default, and never lost; the version a domain   *)
(* was switched to stays.                                                  *)
OneDefault == part = "php" => P!OneDefault /\ P!SwitchedVersionStays

(* Module Resources: server and table agree after calls that did not       *)
(* overlap, and an active database exists.                                 *)
ServerMatchesRows ==
  part = "resource" => R!ServerMatchesRows /\ R!ActiveDatabaseIsThere

(* Module ServerSetup: setup_status sums up the logs of the last setup.    *)
SetupSumsUp == S!SetupSumsUp

(* No row of these four modules stays undecided, unless the process dies or*)
(* the UPDATE that decides it fails (see Undecided in each).               *)
SomeRowUndecided == Undecided \/ P!Undecided \/ R!Undecided \/ S!Undecided

RowsAreDecided == SomeRowUndecided ~> (~ SomeRowUndecided \/ crashed = "yes")

(* Module Terminal: when its handler and goroutines have returned, both    *)
(* connections are closed.                                                 *)
NothingLeftOpen == T!NothingLeftOpen

(* Module Terminal: it ends once either side does.                         *)
TerminalEnds == T!TerminalEnds
=============================================================================
