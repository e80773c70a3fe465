---------------------------- MODULE MailSettings ----------------------------
(***************************************************************************)
(* The settings of outgoing mail: UpdateSystemSettings of                  *)
(* backend/internal/handlers/settings.go and SMTPService of                *)
(* services/smtp_service.go.                                               *)
(*                                                                         *)
(* A request stores its keys in system_settings one by one, in the order   *)
(* of a Go map, and reloads the live service, which starts from the        *)
(* environment and is never reloaded elsewhere.  A mail copies the live    *)
(* fields under their lock, so it goes out with what live is.              *)
(*                                                                         *)
(* Of the keys host stands for the four that are ignored when empty,       *)
(* password for the one that is not; another key, such as Stripe's, is     *)
(* stored and not looked at: a request that keeps both.                    *)
(***************************************************************************)
EXTENDS Background

CONSTANT Values   \* what an administrator enters, neither "", "env" nor "kept"

VARIABLES
  asked,     \* per call: what its request has for each key, "kept" for none
  left,      \* per call: keys its loop has still to store
  stored,    \* system_settings
  seen,      \* per call: the rows its reload has read
  live,      \* the fields of SMTPService
  behind,    \* history: a save failed, or the process restarted, since live was loaded
  crossed    \* history: two reloads were between their SELECT and their lock

mailVars == <<asked, left, stored, seen, live, behind, crossed>>
vars == <<op, pc, clash, crashed, troubles, lost, asked, left, stored, seen, live, behind, crossed>>

Keys   == {"host", "password"}
Rows   == [Keys -> Values \cup {""}]
Asked  == [Keys -> Values \cup {"", "kept"}]
Fields == [Keys -> Values \cup {"", "env"}]
FromEnv == [k \in Keys |-> "env"]
Kept    == [k \in Keys |-> "kept"]

(* The migration inserts every key with an empty value.                    *)
Init ==
  /\ CallsInit
  /\ asked = [c \in Calls |-> Kept]
  /\ left = [c \in Calls |-> {}]
  /\ stored = [k \in Keys |-> ""]
  /\ seen = [c \in Calls |-> stored]
  /\ live = FromEnv
  /\ behind = "yes" /\ crossed = "no"

(* A key the client sends back masked is skipped, as one it leaves out.    *)
UpdateSystemSettings(c) ==
  /\ Begin(c, "save", "store")
  /\ \E r \in Asked :
       /\ asked' = [asked EXCEPT ![c] = r]
       /\ left' = [left EXCEPT ![c] = {k \in Keys : r[k] # "kept"}]
  /\ UNCHANGED <<stored, seen, live, behind, crossed>>

(* One key of the map.  If it fails the request ends, without a reload.    *)
Store(c) ==
  \E k \in left[c] :
    \/ /\ Go(c, "store", "store")
       /\ stored' = [stored EXCEPT ![k] = asked[c][k]]
       /\ left' = [left EXCEPT ![c] = @ \ {k}]
       /\ UNCHANGED <<asked, seen, live, behind, crossed>>
    \/ /\ GoFailed(c, "store", "done")
       /\ behind' = "yes"
       /\ UNCHANGED <<asked, left, stored, seen, live, crossed>>

(* The SELECT; if it fails ReloadFromDB returns, and the request succeeds. *)
Select(c) ==
  /\ left[c] = {}
  /\ \/ /\ Go(c, "store", "assign")
        /\ seen' = [seen EXCEPT ![c] = stored]
        /\ crossed' = IF \E d \in Calls : pc[d] = "assign" THEN "yes" ELSE crossed
        /\ UNCHANGED behind
     \/ GoFailed(c, "store", "done") /\ behind' = "yes" /\ UNCHANGED <<seen, crossed>>
  /\ UNCHANGED <<asked, left, stored, live>>

(* Mutant of Reloaded: an empty password is ignored like an empty host.    *)
ReloadedUnlessEmpty(rows) == [k \in Keys |-> IF rows[k] = "" THEN live[k] ELSE rows[k]]

Reloaded(rows) ==
  [k \in Keys |-> IF k = "host" /\ rows[k] = "" THEN live[k] ELSE rows[k]]

Assign(c) ==
  /\ Go(c, "assign", "done")
  /\ live' = Reloaded(seen[c])
  /\ behind' = IF seen[c] = stored THEN "no" ELSE behind
  /\ UNCHANGED <<asked, left, stored, seen, crossed>>

Start(c) == UpdateSystemSettings(c)

Step(c) == Store(c) \/ Select(c) \/ Assign(c)

(* The new process has the environment's settings, not the stored ones.    *)
Restart ==
  /\ troubles < MaxTroubles
  /\ troubles' = troubles + 1
  /\ crashed' = IF Quiet THEN crashed ELSE "yes"
  /\ pc' = [c \in Calls |-> IF Live(c) THEN "done" ELSE pc[c]]
  /\ live' = FromEnv
  /\ behind' = "yes"
  /\ UNCHANGED <<op, clash, lost, asked, left, stored, seen, crossed>>

Next == (\E c \in Calls : Start(c) \/ Step(c)) \/ Restart

Spec == Init /\ [][Next]_vars

MailTypeOK ==
  /\ CallsTypeOK({"save"}, {"store", "assign"})
  /\ asked \in [Calls -> Asked]
  /\ left \in [Calls -> SUBSET Keys]
  /\ stored \in Rows /\ seen \in [Calls -> Rows]
  /\ live \in Fields
  /\ {behind, crossed} \subseteq {"no", "yes"}

(* Once every request has ended the mail goes out with the stored settings *)
(* ("new settings take effect immediately", settings.go:94), whichever way *)
(* the requests overlapped, but for an emptied host, which stays.  Not so  *)
(* after a save that failed or a restart, until the next save (behind), or *)
(* when the rows of one reload were assigned after those of a later one    *)
(* (crossed).                                                              *)
SettingsAreLive ==
  Quiet /\ behind = "no" /\ crossed = "no" =>
    \A k \in Keys : live[k] = stored[k] \/ (k = "host" /\ stored[k] = "")
=============================================================================
