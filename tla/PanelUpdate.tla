---------------------------- MODULE PanelUpdate ----------------------------
(***************************************************************************)
(* UpdateService of backend/internal/services/update_service.go: the check *)
(* for a new release and the update of the panel's own containers.         *)
(*                                                                         *)
(* A call is a check (CheckNow or the ticker) or an ApplyUpdate with the   *)
(* goroutine it leaves.  Docker is external: an image is pulled, and a     *)
(* container is restarted.                                                 *)
(***************************************************************************)
EXTENDS Background

CONSTANTS
  Releases,     \* what GitHub may answer, NoCall for "none published"
  NewReleases   \* those newer than the running version

VARIABLES
  applying,     \* the flag, a plain bool read and written without a lock
  raced,        \* history: a call found it down that was about to go up
  pulled,       \* images of the new version on the host
  broken,       \* history: a pull ended in an error event of its stream
  told,         \* history: per call, what the hub broadcast last
  restarting,   \* the goroutine that restarts the api container in 3 s
  settings,     \* system_settings: the release each key is about
  fetched,      \* per call: the release GitHub answered
  offered       \* history: releases broadcast with update:available

updateVars == <<applying, raced, pulled, broken, told, restarting>>
checkVars  == <<settings, fetched, offered>>
vars == <<op, pc, clash, crashed, troubles, lost, applying, raced, pulled, broken, told, restarting,
          settings, fetched, offered>>

Ops    == {"check", "apply"}
Saves  == {"tag", "notes", "available"}
Labels == {"raise", "api", "automation", "restart", "lower"} \cup Saves
Keys   == {"tag", "notes", "available"}   \* of the five, those that name a release

Init ==
  /\ CallsInit
  /\ applying = "no" /\ raced = "no"
  /\ pulled = {} /\ broken = "no"
  /\ told = [c \in Calls |-> "nothing"]
  /\ restarting = "no"
  /\ settings = [k \in Keys |-> NoCall]
  /\ fetched = [c \in Calls |-> NoCall]
  /\ offered = {}

(***************************************************************************)
(* CheckForUpdates: fetch, save key by key, broadcast                      *)
(***************************************************************************)
CheckForUpdates(c, r) ==
  /\ Begin(c, "check", "tag")
  /\ fetched' = [fetched EXCEPT ![c] = r]
  /\ UNCHANGED <<updateVars, settings, offered>>

NextSave(k) ==
  CASE k = "tag" -> "notes" [] k = "notes" -> "available" [] k = "available" -> "done"

(* One upsert of saveStatus, whose error is not looked at.                 *)
Upsert(c, k) ==
  /\ \/ Go(c, k, NextSave(k)) /\ settings' = [settings EXCEPT ![k] = fetched[c]]
     \/ GoFailed(c, k, NextSave(k)) /\ UNCHANGED settings
  /\ offered' = IF k = "available" THEN offered \cup ({fetched[c]} \cap NewReleases) ELSE offered
  /\ UNCHANGED <<updateVars, fetched>>

(***************************************************************************)
(* ApplyUpdate                                                             *)
(***************************************************************************)
AtWork == {"api", "automation", "restart", "lower"}

(* The flag is read ...                                                    *)
ApplyUpdate(c) ==
  /\ applying = "no"
  /\ Begin(c, "apply", "raise")
  /\ raced' = IF \E d \in Calls : pc[d] = "raise" THEN "yes" ELSE raced
  /\ UNCHANGED <<applying, pulled, broken, told, restarting, checkVars>>

(* ... and set, and the goroutine started.                                 *)
Raise(c) ==
  /\ Go(c, "raise", "api")
  /\ applying' = "yes"
  /\ UNCHANGED <<raced, pulled, broken, told, restarting, checkVars>>

(* pullImage drains the stream; an error Docker reports inside the stream  *)
(* is an event without a layer, and passes for success (broken).           *)
Pull(c, image, next) ==
  \/ /\ Go(c, image, next)
     /\ pulled' = pulled \cup {image}
     /\ UNCHANGED <<broken, told>>
  \/ /\ GoFailed(c, image, next)
     /\ broken' = "yes"
     /\ UNCHANGED <<pulled, told>>
  \/ /\ GoFailed(c, image, "lower")
     /\ told' = [told EXCEPT ![c] = "error"]
     /\ UNCHANGED <<pulled, broken>>

(* Mutant of PullImages: the api image is skipped.                         *)
PullAutomation(c) ==
  /\ \/ Go(c, "api", "automation") /\ UNCHANGED <<pulled, broken, told>>
     \/ Pull(c, "automation", "restart")
  /\ UNCHANGED <<applying, raced, restarting, checkVars>>

PullImages(c) ==
  /\ Pull(c, "api", "automation") \/ Pull(c, "automation", "restart")
  /\ UNCHANGED <<applying, raced, restarting, checkVars>>

(* The automation container is restarted, well or not, the end is          *)
(* broadcast and the goroutine left that restarts the api container.       *)
RestartAutomation(c) ==
  /\ Go(c, "restart", "lower")
  /\ told' = [told EXCEPT ![c] = "complete"]
  /\ restarting' = "yes"
  /\ UNCHANGED <<applying, raced, pulled, broken, checkVars>>

(* The deferred function, on every way out of the goroutine.               *)
Lower(c) ==
  /\ Go(c, "lower", "done")
  /\ applying' = "no"
  /\ UNCHANGED <<raced, pulled, broken, told, restarting, checkVars>>

(***************************************************************************)
(* The end of the process: the flag is gone with it                        *)
(***************************************************************************)
NewProcess ==
  /\ applying' = "no" /\ restarting' = "no"
  /\ UNCHANGED <<raced, pulled, broken, told, checkVars>>

(* Three seconds after the update; what else is at work is lost.           *)
RestartApi ==
  /\ restarting = "yes"
  /\ pc' = [c \in Calls |-> IF Live(c) THEN "done" ELSE pc[c]]
  /\ crashed' = IF Quiet THEN crashed ELSE "yes"
  /\ UNCHANGED <<op, clash, troubles, lost>>
  /\ NewProcess

(* Docker refuses, and that is logged.                                     *)
RestartApiFailed ==
  /\ restarting = "yes"
  /\ restarting' = "no"
  /\ UNCHANGED <<callVars, applying, raced, pulled, broken, told, checkVars>>

Crash == CrashCalls /\ NewProcess

Start(c) == ApplyUpdate(c) \/ \E r \in Releases : CheckForUpdates(c, r)

Step(c) ==
  \/ \E k \in Keys : Upsert(c, k)
  \/ Raise(c) \/ PullImages(c) \/ RestartAutomation(c) \/ Lower(c)

Docker == RestartApi \/ RestartApiFailed

Next == (\E c \in Calls : Start(c) \/ Step(c)) \/ Docker \/ Crash

Spec == Init /\ [][Next]_vars

UpdateTypeOK ==
  /\ CallsTypeOK(Ops, Labels)
  /\ {applying, raced, broken, restarting} \subseteq {"no", "yes"}
  /\ pulled \subseteq {"api", "automation"}
  /\ told \in [Calls -> {"nothing", "error", "complete"}]
  /\ settings \in [Keys -> Releases]
  /\ fetched \in [Calls -> Releases]
  /\ offered \subseteq NewReleases

(* An update is reported as complete only when both images were pulled, in *)
(* whatever order updates fail and start again; an error inside the stream *)
(* of a pull goes unnoticed (broken).                                      *)
CompleteMeansPulled ==
  \A c \in Calls : told[c] = "complete" /\ broken = "no" => pulled = {"api", "automation"}

(* One update at a time.  The flag that keeps the second one out is not    *)
(* guarded: two requests may both find it down, and then the first that    *)
(* ends lets a third one in (raced).                                       *)
OneUpdate ==
  raced = "no" => \A c, d \in Calls : pc[c] \in AtWork /\ pc[d] \in AtWork => c = d
=============================================================================
