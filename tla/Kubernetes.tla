----------------------------- MODULE Kubernetes -----------------------------
(***************************************************************************)
(* The requests that change objects of a Kubernetes cluster: K8sService of *)
(* backend/internal/services/k8s_service.go and handlers/k8s_handler.go.   *)
(*                                                                         *)
(* The panel keeps a cluster's kubeconfig and none of its objects.  A      *)
(* change reads the object from the cluster, edits one field and writes    *)
(* the object back; the cluster refuses it when the version that was read  *)
(* is no longer current.  The cluster's controllers write as well.         *)
(*                                                                         *)
(* "deployment" stands for what is scaled (Deployment, StatefulSet),       *)
(* "cronjob" for what has one field switched (CronJob, Node); pods,        *)
(* services and the other kinds are only deleted, as both are here.        *)
(***************************************************************************)
EXTENDS Background

CONSTANTS
  Desired,      \* replicas, or whether a job is suspended or a node cordoned
  MaxVersion    \* bound: the version up to which controllers write

VARIABLES
  cluster,      \* the row of k8s_clusters: "absent" or "listed"
  objs,         \* per kind: the object, version 0 once it is deleted
  kind,         \* per call: the object it is about
  value,        \* per call: what it sets
  got,          \* per call: the object as it was read
  jobs,         \* jobs started by hand
  wanted        \* history: per kind, the last value written to each field

kubeVars == <<cluster, objs, kind, value, got, jobs, wanted>>
vars == <<op, pc, clash, crashed, troubles, lost, cluster, objs, kind, value, got, jobs, wanted>>

Kinds  == {"deployment", "cronjob"}
Ops    == {"remove", "scale", "restart", "suspend", "trigger", "delete"}
Labels == {"client", "get", "write", "post", "erase"}

Objects      == [version : Nat, spec : Desired, restarted : Calls \cup {NoCall}]
FieldValues  == [spec : Desired, restarted : Calls \cup {NoCall}]
Fields(v, r) == [spec |-> v, restarted |-> r]
Object(n, f) == [version |-> n, spec |-> f.spec, restarted |-> f.restarted]
Gone         == Object(0, Fields(CHOOSE v \in Desired : TRUE, NoCall))
Exists(k)    == objs[k].version > 0

Init ==
  /\ CallsInit
  /\ cluster = "absent"
  /\ \E v \in Desired :
       /\ objs = [k \in Kinds |-> Object(1, Fields(v, NoCall))]
       /\ wanted = [k \in Kinds |-> Fields(v, NoCall)]
  /\ kind = [c \in Calls |-> "deployment"]
  /\ value = [c \in Calls |-> CHOOSE v \in Desired : TRUE]
  /\ got = [c \in Calls |-> Gone]
  /\ jobs = {}

(* Reachable or not: its status is what the first connection says, nothing *)
(* changes it later and no request looks at it.                            *)
AddCluster ==
  /\ cluster = "absent"
  /\ cluster' = "listed"
  /\ UNCHANGED <<callVars, objs, kind, value, got, jobs, wanted>>

RemoveCluster(c) ==
  /\ Begin(c, "remove", "done")
  /\ cluster' = "absent"
  /\ UNCHANGED <<objs, kind, value, got, jobs, wanted>>

Ask(c, o, k) ==
  /\ Begin(c, o, "client")
  /\ kind' = [kind EXCEPT ![c] = k]
  /\ UNCHANGED <<cluster, objs, got, jobs, wanted>>

ScaleDeployment(c) ==
  Ask(c, "scale", "deployment") /\ \E v \in Desired : value' = [value EXCEPT ![c] = v]

SuspendCronJob(c) ==
  Ask(c, "suspend", "cronjob") /\ \E v \in Desired : value' = [value EXCEPT ![c] = v]

RestartDeployment(c) == Ask(c, "restart", "deployment") /\ UNCHANGED value

TriggerCronJob(c) == Ask(c, "trigger", "cronjob") /\ UNCHANGED value

DeleteObject(c, k) == Ask(c, "delete", k) /\ UNCHANGED value

(* Once it has the kubeconfig the call no longer needs the row.            *)
ClientFor(c) ==
  /\ \/ cluster # "absent" /\ Go(c, "client", IF op[c] = "delete" THEN "erase" ELSE "get")
     \/ cluster = "absent" /\ Go(c, "client", "done")
     \/ GoFailed(c, "client", "done")
  /\ UNCHANGED kubeVars

Get(c) ==
  /\ \/ /\ Exists(kind[c])
        /\ Go(c, "get", IF op[c] = "trigger" THEN "post" ELSE "write")
        /\ got' = [got EXCEPT ![c] = objs[kind[c]]]
     \/ ~ Exists(kind[c]) /\ Go(c, "get", "done") /\ UNCHANGED got
     \/ GoFailed(c, "get", "done") /\ UNCHANGED got
  /\ UNCHANGED <<cluster, objs, kind, value, jobs, wanted>>

(***************************************************************************)
(* Writing back                                                            *)
(***************************************************************************)
(* The scale subresource takes the replicas only; Update takes the object  *)
(* as it was read, with one field changed.                                 *)
Edited(c) ==
  CASE op[c] = "scale"   -> Fields(value[c], objs[kind[c]].restarted)
    [] op[c] = "suspend" -> Fields(value[c], got[c].restarted)
    [] OTHER             -> Fields(got[c].spec, c)

(* Mutant of Current: the version is cleared before the object is written. *)
CurrentAlways(c) == Exists(kind[c])

(* What is written carries the version that was read.                      *)
Current(c) == objs[kind[c]].version = got[c].version

Written(c) ==
  LET k == kind[c] IN
  /\ objs' = [objs EXCEPT ![k] = Object(@.version + 1, Edited(c))]
  /\ wanted' = [wanted EXCEPT ![k] = IF op[c] = "restart" THEN Fields(@.spec, c)
                                     ELSE Fields(value[c], @.restarted)]

(* Accepted; refused as out of date; or the connection is lost before or   *)
(* after the cluster has accepted it.  There is no retry.                  *)
Write(c) ==
  /\ \/ Current(c) /\ Go(c, "write", "done") /\ Written(c)
     \/ ~ Current(c) /\ Go(c, "write", "done") /\ UNCHANGED <<objs, wanted>>
     \/ Current(c) /\ GoFailed(c, "write", "done") /\ Written(c)
     \/ GoFailed(c, "write", "done") /\ UNCHANGED <<objs, wanted>>
  /\ UNCHANGED <<cluster, kind, value, got, jobs>>

(* The job is named after the second: one started in the same second has   *)
(* the name already.                                                       *)
CreateJob(c) ==
  /\ \/ Go(c, "post", "done") /\ jobs' = jobs \cup {c}
     \/ jobs # {} /\ Go(c, "post", "done") /\ UNCHANGED jobs
     \/ GoFailed(c, "post", "done") /\ jobs' \in {jobs, jobs \cup {c}}
  /\ UNCHANGED <<cluster, objs, kind, value, got, wanted>>

Erase(c) ==
  /\ \/ Go(c, "erase", "done") /\ objs' = [objs EXCEPT ![kind[c]] = Gone]
     \/ GoFailed(c, "erase", "done") /\ objs' \in {objs, [objs EXCEPT ![kind[c]] = Gone]}
  /\ UNCHANGED <<cluster, kind, value, got, jobs, wanted>>

(* An autoscaler, or another client of the cluster, sets a value; or only  *)
(* the status of the object changes.                                       *)
Controllers ==
  /\ \E k \in Kinds, v \in Desired :
       /\ Exists(k) /\ objs[k].version < MaxVersion
       /\ objs' = [objs EXCEPT ![k] = Object(@.version + 1, Fields(v, @.restarted))]
       /\ wanted' = [wanted EXCEPT ![k] = Fields(v, @.restarted)]
  /\ UNCHANGED <<callVars, cluster, kind, value, got, jobs>>

Start(c) ==
  \/ RemoveCluster(c) \/ ScaleDeployment(c) \/ SuspendCronJob(c)
  \/ RestartDeployment(c) \/ TriggerCronJob(c) \/ \E k \in Kinds : DeleteObject(c, k)

Step(c) == ClientFor(c) \/ Get(c) \/ Write(c) \/ CreateJob(c) \/ Erase(c)

Environment == AddCluster \/ Controllers

Crash == CrashCalls /\ UNCHANGED kubeVars

Next == (\E c \in Calls : Start(c) \/ Step(c)) \/ Environment \/ Crash

Spec == Init /\ [][Next]_vars

KubernetesTypeOK ==
  /\ CallsTypeOK(Ops, Labels)
  /\ cluster \in {"absent", "listed"}
  /\ objs \in [Kinds -> Objects]
  /\ kind \in [Calls -> Kinds]
  /\ value \in [Calls -> Desired]
  /\ got \in [Calls -> Objects]
  /\ jobs \subseteq Calls
  /\ wanted \in [Kinds -> FieldValues]

(* No change is undone by another one: each field of an object that exists *)
(* has the value that was last written to it, by the panel or by a         *)
(* controller, although a restart writes the whole object it has read.     *)
ChangeSticks ==
  \A k \in Kinds : Exists(k) => Fields(objs[k].spec, objs[k].restarted) = wanted[k]
=============================================================================
