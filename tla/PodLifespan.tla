----------------------------- MODULE PodLifespan -----------------------------
(***************************************************************************)
(* The life of an API pod in detail: lifespan() and its shutdown (main.py), *)
(* the module singletons of db.py and ray_client.py that handlers and      *)
(* poller reach for, the probes (routes/health.py), and the rolling update *)
(* that ends one pod for another (k8s/api/deployment.yaml).  BatchService  *)
(* knows of a pod only up, draining and down.                              *)
(*                                                                         *)
(* External: uvicorn listens when the startup is through, and on SIGTERM   *)
(* stops listening, waits for the requests in flight and only then runs    *)
(* the shutdown; kubelet restarts a process that ended; the deployment     *)
(* controller follows maxSurge 1, maxUnavailable 0.                        *)
(***************************************************************************)
EXTENDS Naturals

CONSTANTS
  Pod,         \* pods, one of them serving at first
  Request,     \* requests that can be in flight at once
  MaxOutages,  \* bound on the outages of Postgres and Ray
  MaxRollouts  \* bound on the rolling updates

ASSUME LifespanAssumption == {MaxOutages, MaxRollouts} \subseteq Nat

VARIABLES
  up,          \* the dependencies that can be reached
  life,        \* life[p]: how far lifespan() is
  bound,       \* bound[p]: the singletons that are not None
  task,        \* task[p]: the poller task
  endpoints,   \* the pods kubelet has last found ready
  old,         \* pods of the replaced template
  req,         \* req[r]: the request's pod and the singleton it needs next
  outages,     \* outages that have happened
  rollouts     \* rolling updates that have happened

vars == <<up, life, bound, task, endpoints, old, req, outages, rollouts>>

Deps       == {"postgres", "ray"}
Singletons == {"engine", "client"}

Starting == {"boot", "schema", "connect"}
Stages   == Starting \cup {"absent", "serving", "stopping", "cancelling"}

\* The poller awaits its interval, the session that lists the active batches, Ray's
\* answer for one of them, or the session that updates its row.
Sweeping == {"list", "ask", "save"}
Working  == {"asleep"} \cup Sweeping

\* A handler's steps: nothing in flight, a session, Ray, a session again.
InFlight == {"insert", "submit", "attach"}
NoReq(p) == [pc |-> "none", pod |-> p]

\* The dependency each of these awaits reaches for.
Needs == [insert |-> "postgres", submit |-> "ray", attach |-> "postgres",
          list   |-> "postgres", ask    |-> "ray", save   |-> "postgres"]

Init ==
  /\ up = Deps
  /\ \E p \in Pod : life = [q \in Pod |-> IF q = p THEN "boot" ELSE "absent"]
  /\ bound = [p \in Pod |-> {}]
  /\ task = [p \in Pod |-> "none"]
  /\ endpoints = {} /\ old = {}
  /\ req \in [Request -> {NoReq(p) : p \in Pod}]
  /\ outages = 0 /\ rollouts = 0

world == <<up, outages, rollouts>>

Trans(p, from, to) ==
  /\ life[p] = from
  /\ life' = [life EXCEPT ![p] = to]

-----------------------------------------------------------------------------
(* Startup                                                                  *)

\* init_engine: the engine is bound; it connects lazily.
InitEngine(p) ==
  /\ Trans(p, "boot", "schema")
  /\ bound' = [bound EXCEPT ![p] = @ \cup {"engine"}]
  /\ UNCHANGED <<world, task, endpoints, old, req>>

\* create_all opens the first connection.
CreateAll(p) ==
  /\ "postgres" \in up
  /\ Trans(p, "schema", "connect")
  /\ UNCHANGED <<world, bound, task, endpoints, old, req>>

\* ray_client.init (Ray's constructor asks for the cluster's version), then the
\* poller task; the port is opened.
Connect(p) ==
  /\ "ray" \in up
  /\ Trans(p, "connect", "serving")
  /\ bound' = [bound EXCEPT ![p] = @ \cup {"client"}]
  /\ task' = [task EXCEPT ![p] = "asleep"]
  /\ UNCHANGED <<world, endpoints, old, req>>

\* An exception before the yield ends the process; the next one starts anew.
StartupFails(p) ==
  /\ \/ life[p] = "schema" /\ "postgres" \notin up
     \/ life[p] = "connect" /\ "ray" \notin up
  /\ life' = [life EXCEPT ![p] = "boot"]
  /\ bound' = [bound EXCEPT ![p] = {}]
  /\ UNCHANGED <<world, task, endpoints, old, req>>

-----------------------------------------------------------------------------
(* Serving                                                                  *)

\* /ready pings through both singletons.
Ready(p) == bound[p] = Singletons /\ up = Deps

ReadinessProbe(p) ==
  /\ life[p] = "serving"
  /\ endpoints' = IF Ready(p) THEN endpoints \cup {p} ELSE endpoints \ {p}
  /\ UNCHANGED <<world, life, bound, task, old, req>>

\* /health answers whatever the dependencies do: kubelet restarts nobody.
LivenessProbe(p) ==
  /\ life[p] = "serving"
  /\ UNCHANGED vars

\* A request reaches a pod that listens.
Arrive(r, p) ==
  /\ req[r].pc = "none" /\ p \in endpoints /\ life[p] = "serving"
  /\ req' = [req EXCEPT ![r] = [pc |-> "insert", pod |-> p]]
  /\ UNCHANGED <<world, life, bound, task, endpoints, old>>

\* A handler's next await: it goes on, or answers early or with an error.
Proceed(r) ==
  /\ req[r].pc \in InFlight
  /\ \/ /\ Needs[req[r].pc] \in up
        /\ req' = [req EXCEPT ![r].pc =
             CASE @ = "insert" -> "submit" [] @ = "submit" -> "attach" [] @ = "attach" -> "none"]
     \/ req' = [req EXCEPT ![r].pc = "none"]
  /\ UNCHANGED <<world, life, bound, task, endpoints, old>>

\* The next await of a sweep; some batch is active, and one is looked at.
Poll(p) ==
  /\ task[p] \in Sweeping => Needs[task[p]] \in up
  /\ task[p] \in Working
  /\ task' = [task EXCEPT ![p] =
       CASE @ = "asleep" -> "list" [] @ = "list" -> "ask"
         [] @ = "ask"    -> "save" [] @ = "save" -> "asleep"]
  /\ UNCHANGED <<world, life, bound, endpoints, old, req>>

\* Mutants of SweepRaises: the exception leaves the task, which ends with it; the
\* loop returns after it has been logged.
UncaughtSweepRaises(p) ==
  /\ task[p] \in Sweeping /\ Needs[task[p]] \notin up
  /\ task' = [task EXCEPT ![p] = "raised"]
  /\ UNCHANGED <<world, life, bound, endpoints, old, req>>

ReturningSweepRaises(p) ==
  /\ task[p] \in Sweeping /\ Needs[task[p]] \notin up
  /\ task' = [task EXCEPT ![p] = "none"]
  /\ UNCHANGED <<world, life, bound, endpoints, old, req>>

\* What the sweep needs is down and it raises; for the one batch (around _poll_one)
\* or as a whole (around the sweep) the exception is logged, and the loop goes on.
SweepRaises(p) ==
  /\ task[p] \in Sweeping /\ Needs[task[p]] \notin up
  /\ task' = [task EXCEPT ![p] = "asleep"]
  /\ UNCHANGED <<world, life, bound, endpoints, old, req>>

-----------------------------------------------------------------------------
(* Shutdown                                                                 *)

Quiescent(p) == \A r \in Request : req[r].pod = p => req[r].pc = "none"

\* Mutant of StopPoller: the client is reset before the poller is stopped.
ResetThenStop(p) ==
  /\ Quiescent(p)
  /\ Trans(p, "stopping", "cancelling")
  /\ task[p] \in Working
  /\ bound' = [bound EXCEPT ![p] = {"engine"}]
  /\ UNCHANGED <<world, task, endpoints, old, req>>

\* uvicorn has drained its requests: task.cancel().
StopPoller(p) ==
  /\ Quiescent(p)
  /\ Trans(p, "stopping", "cancelling")
  /\ task' = [task EXCEPT ![p] = "cancelled"]
  /\ UNCHANGED <<world, bound, endpoints, old, req>>

\* Mutant of PollerEnds: the sweep's handler swallows the cancellation.
PollerGoesOn(p) ==
  /\ task[p] = "cancelled"
  /\ task' = [task EXCEPT ![p] = "asleep"]
  /\ UNCHANGED <<world, life, bound, endpoints, old, req>>

\* CancelledError leaves the loop at whichever await it is at.
PollerEnds(p) ==
  /\ task[p] = "cancelled"
  /\ task' = [task EXCEPT ![p] = "none"]
  /\ UNCHANGED <<world, life, bound, endpoints, old, req>>

\* await task has returned: ray_client.reset, in the same step.
ResetClient(p) ==
  /\ life[p] = "cancelling" /\ task[p] = "none"
  /\ "client" \in bound[p]
  /\ bound' = [bound EXCEPT ![p] = @ \ {"client"}]
  /\ UNCHANGED <<world, life, task, endpoints, old, req>>

\* db.dispose; the process ends.
Dispose(p) ==
  /\ bound[p] = {"engine"} /\ task[p] = "none"
  /\ Trans(p, "cancelling", "absent")
  /\ bound' = [bound EXCEPT ![p] = {}]
  /\ old' = old \ {p} /\ endpoints' = endpoints \ {p}
  /\ UNCHANGED <<world, task, req>>

-----------------------------------------------------------------------------
(* The deployment and its surroundings                                      *)

\* A rolling update surges by one pod.
RollOut(p, q) ==
  /\ rollouts < MaxRollouts /\ old = {}
  /\ life[p] \in {"serving"} \cup Starting /\ life[q] = "absent"
  /\ rollouts' = rollouts + 1
  /\ old' = {p}
  /\ life' = [life EXCEPT ![q] = "boot"]
  /\ UNCHANGED <<up, outages, bound, task, endpoints, req>>

\* Mutant of Terminate: maxUnavailable 1.
HastyTerminate(p) ==
  /\ p \in old
  /\ Trans(p, "serving", "stopping")
  /\ UNCHANGED <<world, bound, task, endpoints, old, req>>

\* SIGTERM for the old pod, once it is not ready or another one is.
Terminate(p) ==
  /\ p \in old
  /\ p \in endpoints => \E q \in endpoints \ old : life[q] = "serving"
  /\ Trans(p, "serving", "stopping")
  /\ UNCHANGED <<world, bound, task, endpoints, old, req>>

\* The old pod has not got as far as serving: its process is just ended.
Abort(p) ==
  /\ p \in old /\ life[p] \in Starting
  /\ life' = [life EXCEPT ![p] = "absent"]
  /\ bound' = [bound EXCEPT ![p] = {}]
  /\ old' = old \ {p}
  /\ UNCHANGED <<world, task, endpoints, req>>

Outage(d) ==
  /\ d \in up /\ outages < MaxOutages
  /\ up' = up \ {d} /\ outages' = outages + 1
  /\ UNCHANGED <<life, bound, task, endpoints, old, req, rollouts>>

Recover(d) ==
  /\ d \in Deps \ up
  /\ up' = up \cup {d}
  /\ UNCHANGED <<life, bound, task, endpoints, old, req, outages, rollouts>>

Startup(p)  == InitEngine(p) \/ CreateAll(p) \/ Connect(p) \/ StartupFails(p)
ShutDown(p) == StopPoller(p) \/ PollerEnds(p) \/ ResetClient(p) \/ Dispose(p)
Poller(p)   == Poll(p) \/ SweepRaises(p)
Kubelet(p)  == Terminate(p) \/ Abort(p)

Next ==
  \/ \E p \in Pod : \/ Startup(p) \/ ShutDown(p) \/ Kubelet(p) \/ Poller(p)
                    \/ ReadinessProbe(p) \/ LivenessProbe(p)
  \/ \E r \in Request : Proceed(r) \/ \E p \in Pod : Arrive(r, p)
  \/ \E p, q \in Pod : RollOut(p, q)
  \/ \E d \in Deps : Outage(d) \/ Recover(d)

Spec == Init /\ [][Next]_vars

(***************************************************************************)
(* Fairness: a started process goes on, its poller with it, requests in    *)
(* flight are answered, kubelet keeps probing and the controller acts, an  *)
(* outage ends.                                                            *)
(***************************************************************************)
Fairness ==
  /\ \A p \in Pod : /\ WF_vars(Startup(p)) /\ WF_vars(ShutDown(p))
                    /\ WF_vars(Kubelet(p)) /\ WF_vars(ReadinessProbe(p))
                    /\ WF_vars(Poller(p))
  /\ \A r \in Request : WF_vars(Proceed(r))
  /\ \A d \in Deps : WF_vars(Recover(d))

FairSpec == Spec /\ Fairness

-----------------------------------------------------------------------------
(* Properties                                                               *)

\* Every variable holds what the code and the cluster can hold; in particular no
\* poller task has ended with an exception, which nobody would retrieve.
LifeTypeOK ==
  /\ up \subseteq Deps
  /\ life \in [Pod -> Stages]
  /\ bound \in [Pod -> SUBSET Singletons]
  /\ task \in [Pod -> Working \cup {"none", "cancelled"}]
  /\ endpoints \subseteq Pod /\ old \subseteq Pod
  /\ req \in [Request -> [pc : InFlight \cup {"none"}, pod : Pod]]
  /\ outages \in 0..MaxOutages /\ rollouts \in 0..MaxRollouts

\* Whoever may reach for a singleton finds it: a running poller and every
\* request in flight, also while the pod shuts down around them (main.py:52-54);
\* "not initialized" is never raised, and a cancelled poller can still close its
\* session.
UsersFindThemBound ==
  \A p \in Pod :
    /\ task[p] \in Working \/ ~Quiescent(p) => bound[p] = Singletons
    /\ task[p] = "cancelled" => "engine" \in bound[p]

\* The poller of a pod that serves comes through its sweeps' exceptions: whatever
\* was down when, it holds an answer of Ray again, ready to save it, by itself and
\* unless its pod is told to go (batches.py:343-344, 456-463); /health would not
\* tell that it has died.
SweepsResume ==
  \A p \in Pod : life[p] = "serving" ~> task[p] = "save" \/ life[p] # "serving"

\* A rolling update without outages never leaves the service without a pod that
\* is ready and listens, once there was one.
AlwaysOneServes ==
  outages = 0 /\ endpoints # {} => \E p \in endpoints : life[p] = "serving"

\* A rolling update comes to its end, through outages: the new pod comes up
\* and the old one shuts down by itself, poller and all.
RolloutEnds == old # {} ~> old = {}

=============================================================================
