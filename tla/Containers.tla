----------------------------- MODULE Containers -----------------------------
(***************************************************************************)
(* Containers, images, a network and compose stacks: DockerService and     *)
(* DockerHandler of the backend.  Most requests are one call to the Docker *)
(* daemon; creating, duplicating and pruning take several, and other       *)
(* requests come in between.                                               *)
(*                                                                         *)
(* A container is named by the call that created it, which stands for its  *)
(* id.  What the daemon does with a call is modelled from its use.         *)
(***************************************************************************)
EXTENDS Background

CONSTANTS
  Names,   \* names of containers, "none" not among them
  Images   \* image references

VARIABLES
  state,      \* per container: "none", "created", "running", "paused" or "exited"
  name,       \* per container: its name
  joined,     \* per container: whether it is on the network
  origin,     \* per container: "none", or the operation that created it
  images,     \* the images the daemon has
  network,    \* whether the network exists
  answer,     \* per call: "none" until it has ended, then "ok" or "error"
  launched    \* history: containers that ran

containerVars == <<state, name, joined, origin, images, network, answer, launched>>
vars == <<op, pc, clash, crashed, troubles, lost, containerVars>>

boxVars   == <<state, name, joined, origin, launched>>
otherVars == <<images, network>>

Ops    == {"create", "duplicate", "prune", "deploy", "removeStack", "start", "stop", "pause",
           "unpause", "remove", "rename", "connect", "image", "removeImage", "network"}
Labels == {"create", "launch", "copy", "containers", "networks"}

States == {"none", "created", "running", "paused", "exited"}

Init ==
  /\ CallsInit
  /\ state = [c \in Calls |-> "none"]
  /\ name = [c \in Calls |-> "none"]
  /\ joined = [c \in Calls |-> "no"]
  /\ origin = [c \in Calls |-> "none"]
  /\ images \in SUBSET Images
  /\ network = "yes"
  /\ answer = [c \in Calls |-> "none"]
  /\ launched = {}

There(k) == state[k] # "none"

InUse(n) == \E k \in Calls : There(k) /\ name[k] = n

Answer(c, how) == answer' = [answer EXCEPT ![c] = how]

Becomes(k, s) == state' = [state EXCEPT ![k] = s]

Launched(k) == Becomes(k, "running") /\ launched' = launched \cup {k}

(* A running container holds on to its network; one that is not running    *)
(* can lose it, and then does not start.                                   *)
Startable(k) ==
  /\ state[k] \in {"created", "exited"}
  /\ joined[k] = "yes" => network = "yes"

(***************************************************************************)
(* CreateContainer and DeployTemplate: create, then start                  *)
(***************************************************************************)
(* The request names the container and may put it on the network.          *)
Create(c) ==
  /\ Begin(c, "create", "create")
  /\ \E n \in Names, j \in {"no", "yes"} :
       name' = [name EXCEPT ![c] = n] /\ joined' = [joined EXCEPT ![c] = j]
  /\ UNCHANGED <<state, origin, launched, otherVars, answer>>

(* The daemon refuses a name in use and an image it has not got: nothing   *)
(* pulls it, for a template neither.                                       *)
ContainerCreate(c) ==
  /\ \/ /\ images # {} /\ ~ InUse(name[c])
        /\ Go(c, "create", "launch")
        /\ Becomes(c, "created")
        /\ origin' = [origin EXCEPT ![c] = "create"]
        /\ UNCHANGED answer
     \/ /\ InUse(name[c]) \/ images # Images
        /\ Go(c, "create", "done")
        /\ Answer(c, "error")
        /\ UNCHANGED <<state, origin>>
  /\ UNCHANGED <<name, joined, launched, otherVars>>

(* Mutant of ContainerStart: the error of the start is not looked at.      *)
ContainerStartUnchecked(c) ==
  /\ Answer(c, "ok")
  /\ \/ Go(c, "launch", "done") /\ Startable(c) /\ Launched(c)
     \/ Go(c, "launch", "done") /\ ~ Startable(c) /\ UNCHANGED <<state, launched>>
     \/ GoFailed(c, "launch", "done") /\ UNCHANGED <<state, launched>>
  /\ UNCHANGED <<name, joined, origin, otherVars>>

(* A start that fails leaves the container, and its name is taken.  Another*)
(* request may have started it already, which is no error.                 *)
ContainerStart(c) ==
  /\ \/ Go(c, "launch", "done") /\ Startable(c) /\ Launched(c) /\ Answer(c, "ok")
     \/ /\ Go(c, "launch", "done") /\ state[c] = "running"
        /\ Answer(c, "ok") /\ UNCHANGED <<state, launched>>
     \/ /\ Go(c, "launch", "done") /\ state[c] # "running" /\ ~ Startable(c)
        /\ Answer(c, "error") /\ UNCHANGED <<state, launched>>
     \/ GoFailed(c, "launch", "done") /\ Answer(c, "error") /\ UNCHANGED <<state, launched>>
  /\ UNCHANGED <<name, joined, origin, otherVars>>

(* DuplicateContainer: inspects one container and creates another, on the  *)
(* networks of its host configuration, which is not started.               *)
Duplicate(c) ==
  /\ \E k \in Calls, n \in Names :
       /\ There(k)
       /\ name' = [name EXCEPT ![c] = n]
       /\ joined' = [joined EXCEPT ![c] = joined[k]]
  /\ Begin(c, "duplicate", "copy")
  /\ UNCHANGED <<state, origin, launched, otherVars, answer>>

Copy(c) ==
  /\ \/ /\ images # {} /\ ~ InUse(name[c])
        /\ Go(c, "copy", "done")
        /\ Becomes(c, "created")
        /\ origin' = [origin EXCEPT ![c] = "duplicate"]
        /\ Answer(c, "ok")
     \/ /\ InUse(name[c]) \/ images # Images
        /\ Go(c, "copy", "done")
        /\ Answer(c, "error")
        /\ UNCHANGED <<state, origin>>
  /\ UNCHANGED <<name, joined, launched, otherVars>>

(***************************************************************************)
(* PruneSystem: four calls, of whose errors none is looked at.  Images and *)
(* volumes that have a name are not pruned.                                *)
(***************************************************************************)
Prune(c) ==
  /\ Begin(c, "prune", "containers")
  /\ UNCHANGED containerVars

(* What does not run goes, a container between its creation and its start  *)
(* as well.                                                                *)
PruneContainers(c) ==
  /\ \/ /\ Go(c, "containers", "networks")
        /\ state' = [k \in Calls |-> IF state[k] \in {"created", "exited"} THEN "none" ELSE state[k]]
     \/ GoFailed(c, "containers", "networks") /\ UNCHANGED state
  /\ UNCHANGED <<name, joined, origin, launched, otherVars, answer>>

Attached == \E k \in Calls : state[k] \in {"running", "paused"} /\ joined[k] = "yes"

PruneNetworks(c) ==
  /\ \/ Go(c, "networks", "done") /\ network' = IF Attached THEN network ELSE "no"
     \/ GoFailed(c, "networks", "done") /\ UNCHANGED network
  /\ Answer(c, "ok")
  /\ UNCHANGED <<boxVars, images>>

(***************************************************************************)
(* Requests that are one call to the daemon                                *)
(***************************************************************************)
Turns(c, o, k, from, to) ==
  /\ Begin(c, o, "done")
  /\ \/ state[k] \in from /\ Becomes(k, to) /\ Answer(c, "ok")
     \/ There(k) /\ state[k] \notin from /\ UNCHANGED state /\ Answer(c, "error")
  /\ UNCHANGED <<name, joined, origin, launched, otherVars>>

(* StartContainer, and RestartContainer for one that does not run.         *)
StartContainer(c, k) ==
  /\ Begin(c, "start", "done")
  /\ \/ Startable(k) /\ Launched(k) /\ Answer(c, "ok")
     \/ There(k) /\ ~ Startable(k) /\ UNCHANGED <<state, launched>> /\ Answer(c, "error")
  /\ UNCHANGED <<name, joined, origin, otherVars>>

(* StopContainer and KillContainer.                                        *)
StopContainer(c, k) == Turns(c, "stop", k, {"running", "paused"}, "exited")

PauseContainer(c, k) == Turns(c, "pause", k, {"running"}, "paused")

UnpauseContainer(c, k) == Turns(c, "unpause", k, {"paused"}, "running")

RemoveContainer(c, k) ==
  \E force \in {"no", "yes"} :
    Turns(c, "remove", k, IF force = "yes" THEN States \ {"none"} ELSE {"created", "exited"}, "none")

RenameContainer(c, k) ==
  /\ Begin(c, "rename", "done")
  /\ There(k)
  /\ \E n \in Names :
       \/ ~ InUse(n) /\ name' = [name EXCEPT ![k] = n] /\ Answer(c, "ok")
       \/ InUse(n) /\ UNCHANGED name /\ Answer(c, "error")
  /\ UNCHANGED <<state, joined, origin, launched, otherVars>>

(* NetworkConnect and NetworkDisconnect.                                   *)
Connect(c, k) ==
  /\ Begin(c, "connect", "done")
  /\ There(k) /\ network = "yes"
  /\ \E j \in {"no", "yes"} : joined' = [joined EXCEPT ![k] = j]
  /\ Answer(c, "ok")
  /\ UNCHANGED <<state, name, origin, launched, otherVars>>

(* PullImage, BuildImage, CommitContainer and TagImage.  What goes wrong   *)
(* while an image is pulled or built is in the stream, which the handler   *)
(* throws away, or returns with the same answer.                           *)
AddImage(c) ==
  /\ Begin(c, "image", "done")
  /\ \E i \in Images : images' \in {images, images \cup {i}}
  /\ Answer(c, "ok")
  /\ UNCHANGED <<boxVars, network>>

RemoveImage(c) ==
  /\ Begin(c, "removeImage", "done")
  /\ \E i \in images : images' = images \ {i}
  /\ Answer(c, "ok")
  /\ UNCHANGED <<boxVars, network>>

(* CreateNetwork and RemoveNetwork.                                        *)
ChangeNetwork(c) ==
  /\ Begin(c, "network", "done")
  /\ \/ network = "no" /\ network' = "yes" /\ Answer(c, "ok")
     \/ network = "yes" /\ ~ Attached /\ network' = "no" /\ Answer(c, "ok")
     \/ network = "yes" /\ Attached /\ UNCHANGED network /\ Answer(c, "error")
  /\ UNCHANGED <<boxVars, images>>

(***************************************************************************)
(* Stacks.  The handler of DeployStack asserts that user_id is a string,   *)
(* but both middlewares set a uuid.UUID: it panics before the service is   *)
(* called, and gin's Recovery answers.  So docker_stacks stays empty, and  *)
(* a DELETE from it finds nothing.                                         *)
(***************************************************************************)
DeployStack(c) ==
  /\ Begin(c, "deploy", "done")
  /\ Answer(c, "error")
  /\ UNCHANGED <<boxVars, otherVars>>

RemoveStack(c) ==
  /\ Begin(c, "removeStack", "done")
  /\ Answer(c, "ok")
  /\ UNCHANGED <<boxVars, otherVars>>

(***************************************************************************)
(* The specification                                                       *)
(***************************************************************************)
(* The program in a container ends by itself.                              *)
Exits == \E k \in Calls :
  /\ state[k] = "running" /\ Becomes(k, "exited")
  /\ UNCHANGED <<callVars, name, joined, origin, launched, otherVars, answer>>

Start(c) ==
  \/ Create(c) \/ Duplicate(c) \/ Prune(c) \/ DeployStack(c) \/ RemoveStack(c)
  \/ AddImage(c) \/ RemoveImage(c) \/ ChangeNetwork(c)
  \/ \E k \in Calls :
       \/ StartContainer(c, k) \/ StopContainer(c, k) \/ PauseContainer(c, k)
       \/ UnpauseContainer(c, k) \/ RemoveContainer(c, k) \/ RenameContainer(c, k)
       \/ Connect(c, k)

Step(c) ==
  \/ ContainerCreate(c) \/ ContainerStart(c) \/ Copy(c)
  \/ PruneContainers(c) \/ PruneNetworks(c)

Crash == CrashCalls /\ UNCHANGED containerVars

Next == (\E c \in Calls : Start(c) \/ Step(c)) \/ Exits \/ Crash

Spec == Init /\ [][Next]_vars

ContainersTypeOK ==
  /\ CallsTypeOK(Ops, Labels)
  /\ state \in [Calls -> States]
  /\ name \in [Calls -> Names \cup {"none"}]
  /\ joined \in [Calls -> {"no", "yes"}]
  /\ origin \in [Calls -> {"none", "create", "duplicate"}]
  /\ images \subseteq Images
  /\ network \in {"no", "yes"}
  /\ answer \in [Calls -> {"none", "ok", "error"}]
  /\ launched \subseteq Calls

(* "container created and started": it has run.  And a container that was  *)
(* created and never ran is a duplicate, or its request was answered with  *)
(* an error or cut off by a restart; whatever else was stopped, pruned or  *)
(* renamed in between.  Names are never shared.                            *)
CreatedRuns ==
  /\ \A c \in Calls : op[c] = "create" /\ answer[c] = "ok" => c \in launched
  /\ \A k \in Calls : state[k] = "created" /\ pc[k] = "done" =>
       origin[k] = "duplicate" \/ answer[k] = "error" \/ crashed = "yes"
  /\ \A k, l \in Calls : There(k) /\ There(l) /\ name[k] = name[l] => k = l
=============================================================================
