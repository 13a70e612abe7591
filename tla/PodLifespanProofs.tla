-------------------------- MODULE PodLifespanProofs --------------------------
(***************************************************************************)
(* Theorems about the lifespan of the API pods, for any number of pods,    *)
(* requests, outages and rolling updates.                                  *)
(***************************************************************************)
EXTENDS PodLifespan, TLAPS

\* Startup binds the engine and then the client before anyone can use them;
\* shutdown takes them away after the last request and the poller have ended.
PodInv(p) ==
  /\ life[p] \in {"absent"} \cup Starting => task[p] = "none" /\ Quiescent(p)
  /\ life[p] \in {"absent", "boot"} => bound[p] = {}
  /\ life[p] \in {"schema", "connect"} => bound[p] = {"engine"}
  /\ life[p] \in {"serving", "stopping"} => bound[p] = Singletons /\ task[p] \in Working
  /\ life[p] = "cancelling" => /\ task[p] \in {"cancelled", "none"} /\ Quiescent(p)
                               /\ task[p] = "cancelled" => bound[p] = Singletons

LifeInv == \A p \in Pod : PodInv(p)

-----------------------------------------------------------------------------
(* Types                                                                    *)

\* Each step keeps the types.
LEMMA LifeTypeStep ==
  ASSUME LifeTypeOK, [Next]_vars
  PROVE  LifeTypeOK'
<1> USE DEF LifeTypeOK, Trans, world, Stages, Starting, Sweeping, Working, InFlight,
            Singletons, Deps
<1>1. CASE UNCHANGED vars
  BY <1>1 DEF vars
<1>2. ASSUME NEW p \in Pod, Startup(p) \/ ShutDown(p)
      PROVE  LifeTypeOK'
  <2>1. CASE Startup(p)
    <3>1. CASE InitEngine(p)
      BY <3>1, <1>2 DEF InitEngine
    <3>2. CASE CreateAll(p)
      BY <3>2, <1>2 DEF CreateAll
    <3>3. CASE Connect(p)
      BY <3>3, <1>2 DEF Connect
    <3>4. CASE StartupFails(p)
      BY <3>4, <1>2 DEF StartupFails
    <3> QED  BY <2>1, <3>1, <3>2, <3>3, <3>4 DEF Startup
  <2>2. CASE ShutDown(p)
    <3>1. CASE StopPoller(p)
      BY <3>1, <1>2 DEF StopPoller
    <3>2. CASE PollerEnds(p)
      BY <3>2, <1>2 DEF PollerEnds
    <3>3. CASE ResetClient(p)
      BY <3>3, <1>2 DEF ResetClient
    <3>4. CASE Dispose(p)
      BY <3>4, <1>2 DEF Dispose
    <3> QED  BY <2>2, <3>1, <3>2, <3>3, <3>4 DEF ShutDown
  <2> QED  BY <1>2, <2>1, <2>2
<1>3. ASSUME NEW p \in Pod,
             Kubelet(p) \/ Poller(p) \/ ReadinessProbe(p) \/ LivenessProbe(p)
      PROVE  LifeTypeOK'
  <2>1. CASE Kubelet(p)
    <3>1. CASE Terminate(p)
      BY <3>1, <1>3 DEF Terminate
    <3>2. CASE Abort(p)
      BY <3>2, <1>3 DEF Abort
    <3> QED  BY <2>1, <3>1, <3>2 DEF Kubelet
  <2>2. CASE Poller(p)
    BY <2>2, <1>3 DEF Poller, Poll, SweepRaises
  <2>3. CASE ReadinessProbe(p)
    BY <2>3, <1>3 DEF ReadinessProbe
  <2>4. CASE LivenessProbe(p)
    BY <2>4, <1>3 DEF LivenessProbe, vars
  <2> QED  BY <1>3, <2>1, <2>2, <2>3, <2>4
<1>4. ASSUME NEW r \in Request, Proceed(r)
      PROVE  LifeTypeOK'
  <2>1. PICK c \in InFlight \cup {"none"} : req' = [req EXCEPT ![r].pc = c]
    BY <1>4 DEF Proceed
  <2> QED  BY <1>4, <2>1 DEF Proceed
<1>5. ASSUME NEW r \in Request, NEW p \in Pod, Arrive(r, p)
      PROVE  LifeTypeOK'
  BY <1>5 DEF Arrive
<1>6. ASSUME NEW p \in Pod, NEW q \in Pod, RollOut(p, q)
      PROVE  LifeTypeOK'
  BY <1>6, LifespanAssumption DEF RollOut
<1>7. ASSUME NEW d \in Deps, Outage(d) \/ Recover(d)
      PROVE  LifeTypeOK'
  <2>1. CASE Outage(d)
    BY <2>1, LifespanAssumption DEF Outage
  <2>2. CASE Recover(d)
    BY <2>2 DEF Recover
  <2> QED  BY <1>7, <2>1, <2>2
<1> QED
  BY <1>1, <1>2, <1>3, <1>4, <1>5, <1>6, <1>7 DEF Next

\* The initial state has the types and the invariant.
LEMMA LifeInitially ==
  ASSUME Init
  PROVE  LifeTypeOK /\ LifeInv
<1>1. \A p \in Pod : life[p] \in {"boot", "absent"}
  BY DEF Init
<1>2. ASSUME NEW r \in Request
      PROVE  req[r].pc = "none" /\ req[r] \in [pc : InFlight \cup {"none"}, pod : Pod]
  <2>1. PICK p \in Pod : req[r] = NoReq(p)
    BY <1>2 DEF Init
  <2> QED  BY <2>1 DEF NoReq
<1>3. req \in [Request -> [pc : InFlight \cup {"none"}, pod : Pod]]
  BY <1>2 DEF Init
<1>4. LifeTypeOK
  BY <1>1, <1>3, LifespanAssumption DEF Init, LifeTypeOK, Stages, Starting
<1>5. LifeInv
  BY <1>1, <1>2 DEF Init, LifeInv, PodInv, Quiescent
<1> QED  BY <1>4, <1>5

-----------------------------------------------------------------------------
(* The invariant                                                            *)

\* What a pod's description depends on.
LEMMA PodInvDepends ==
  ASSUME NEW p, PodInv(p),
         life'[p] = life[p], bound'[p] = bound[p], task'[p] = task[p],
         Quiescent(p) => Quiescent(p)'
  PROVE  PodInv(p)'
BY DEF PodInv

\* Startup and shutdown of a pod take it from one description to the next.
LEMMA OwnLifeStep ==
  ASSUME LifeTypeOK, NEW p \in Pod, PodInv(p), Startup(p) \/ ShutDown(p)
  PROVE  PodInv(p)'
<1> USE DEF LifeTypeOK, PodInv, Trans, Starting, Singletons, Sweeping, Working
<1>0. req' = req /\ (Quiescent(p)' <=> Quiescent(p))
  <2>1. req' = req
    BY DEF Startup, ShutDown, InitEngine, CreateAll, Connect, StartupFails, StopPoller,
           PollerEnds, ResetClient, Dispose
  <2> QED  BY <2>1 DEF Quiescent
<1>1. CASE InitEngine(p)
  BY <1>0, <1>1 DEF InitEngine
<1>2. CASE CreateAll(p)
  BY <1>0, <1>2 DEF CreateAll
<1>3. CASE Connect(p)
  BY <1>0, <1>3 DEF Connect
<1>4. CASE StartupFails(p)
  BY <1>0, <1>4 DEF StartupFails
<1>5. CASE StopPoller(p)
  BY <1>0, <1>5 DEF StopPoller
<1>6. CASE PollerEnds(p)
  BY <1>0, <1>6 DEF PollerEnds
<1>7. CASE ResetClient(p)
  BY <1>0, <1>7 DEF ResetClient
<1>8. CASE Dispose(p)
  BY <1>0, <1>8 DEF Dispose
<1> QED
  BY <1>1, <1>2, <1>3, <1>4, <1>5, <1>6, <1>7, <1>8 DEF Startup, ShutDown

\* What the pods' surroundings do keeps every description.
LEMMA OtherLifeStep ==
  ASSUME LifeTypeOK, NEW p \in Pod, NEW q \in Pod, PodInv(p),
         Kubelet(q) \/ Poller(q) \/ ReadinessProbe(q) \/ LivenessProbe(q)
           \/ \E a \in Pod : RollOut(a, q)
  PROVE  PodInv(p)'
<1> USE DEF LifeTypeOK, PodInv, Trans, Starting, Sweeping, Working
<1>0. req' = req /\ (Quiescent(p)' <=> Quiescent(p))
  <2>1. req' = req
    BY DEF Kubelet, Terminate, Abort, Poller, Poll, SweepRaises, ReadinessProbe,
           LivenessProbe, RollOut, vars
  <2> QED  BY <2>1 DEF Quiescent
<1>1. CASE Terminate(q)
  BY <1>0, <1>1 DEF Terminate
<1>2. CASE Abort(q)
  BY <1>0, <1>2 DEF Abort
<1>3. CASE Poller(q)
  BY <1>0, <1>3 DEF Poller, Poll, SweepRaises
<1>4. CASE ReadinessProbe(q) \/ LivenessProbe(q)
  BY <1>0, <1>4 DEF ReadinessProbe, LivenessProbe, vars
<1>5. CASE \E a \in Pod : RollOut(a, q)
  BY <1>0, <1>5 DEF RollOut
<1> QED  BY <1>1, <1>2, <1>3, <1>4, <1>5 DEF Kubelet

\* Requests arrive at pods that serve, and only leave.
LEMMA RequestLifeStep ==
  ASSUME LifeTypeOK, NEW p \in Pod, PodInv(p), NEW r \in Request,
         Proceed(r) \/ \E q \in Pod : Arrive(r, q)
  PROVE  PodInv(p)'
<1> USE DEF LifeTypeOK
<1>1. life' = life /\ bound' = bound /\ task' = task
  BY DEF Proceed, Arrive
<1>2. CASE Proceed(r)
  <2>1. req[r].pc # "none" /\ req'[r].pod = req[r].pod
    BY <1>2 DEF Proceed, InFlight
  <2>2. \A s \in Request : s # r => req'[s] = req[s]
    BY <1>2 DEF Proceed
  <2>3. Quiescent(p) => Quiescent(p)'
    BY <2>1, <2>2 DEF Quiescent
  <2> QED  BY <1>1, <2>3, PodInvDepends
<1>3. ASSUME NEW q \in Pod, Arrive(r, q)
      PROVE  PodInv(p)'
  <2>1. life[q] = "serving" /\ req'[r].pod = q /\ \A s \in Request : s # r => req'[s] = req[s]
    BY <1>3 DEF Arrive
  <2>2. CASE p = q
    BY <1>1, <2>1, <2>2 DEF PodInv, Starting
  <2>3. CASE p # q
    <3>1. Quiescent(p) => Quiescent(p)'
      BY <2>1, <2>3 DEF Quiescent
    <3> QED  BY <1>1, <3>1, PodInvDepends
  <2> QED  BY <2>2, <2>3
<1> QED  BY <1>2, <1>3

\* Every step keeps the description of every pod.
LEMMA LifeInvStep ==
  ASSUME LifeTypeOK, LifeInv, [Next]_vars
  PROVE  LifeInv'
<1> SUFFICES ASSUME NEW p \in Pod PROVE PodInv(p)'
  BY DEF LifeInv
<1>0. PodInv(p)
  BY DEF LifeInv
<1>1. CASE UNCHANGED vars
  BY <1>0, <1>1, PodInvDepends DEF vars, Quiescent
<1>2. ASSUME NEW q \in Pod, Startup(q) \/ ShutDown(q)
      PROVE  PodInv(p)'
  <2>1. CASE p = q
    BY <1>0, <1>2, <2>1, OwnLifeStep
  <2>2. CASE p # q
    <3>1. life'[p] = life[p] /\ bound'[p] = bound[p] /\ task'[p] = task[p] /\ req' = req
      BY <1>2, <2>2 DEF LifeTypeOK, Startup, ShutDown, InitEngine, CreateAll, Connect,
         StartupFails, StopPoller, PollerEnds, ResetClient, Dispose, Trans
    <3> QED  BY <1>0, <3>1, PodInvDepends DEF Quiescent
  <2> QED  BY <2>1, <2>2
<1>3. ASSUME NEW d \in Deps, Outage(d) \/ Recover(d)
      PROVE  PodInv(p)'
  BY <1>0, <1>3, PodInvDepends DEF Outage, Recover, Quiescent
<1> QED
  BY <1>0, <1>1, <1>2, <1>3, OtherLifeStep, RequestLifeStep DEF Next

\* The description holds of every behaviour.
LEMMA LifeInductive == Spec => [](LifeTypeOK /\ LifeInv)
<1>1. LifeTypeOK /\ LifeInv /\ [Next]_vars => LifeTypeOK' /\ LifeInv'
  BY LifeTypeStep, LifeInvStep
<1> QED  BY <1>1, LifeInitially, PTL DEF Spec

-----------------------------------------------------------------------------
(* The theorems                                                             *)

\* Types hold; above all no sweep's exception ends the poller's task, whatever is
\* down at whichever of its awaits (batches.py:343-344, 456-463).
THEOREM LifeTypes == Spec => []LifeTypeOK
BY LifeInductive, PTL

\* Nobody meets "not initialized": poller and requests are gone before the
\* singletons are, however many pods, requests and outages there are.
THEOREM UsersAlwaysFindThem == Spec => []UsersFindThemBound
<1>1. LifeTypeOK /\ LifeInv => UsersFindThemBound
  BY DEF LifeTypeOK, LifeInv, PodInv, UsersFindThemBound, Stages, Sweeping, Working,
         Singletons
<1> QED  BY <1>1, LifeInductive, PTL

\* A rolling update between any pods is seamless because of the order of its
\* steps: the new pod is found ready before the old one is told to go.
THEOREM OneAlwaysServes == Spec => []AlwaysOneServes
<1> DEFINE NoOutageYet == outages = 0 => up = Deps
<1> DEFINE IInv == NoOutageYet /\ AlwaysOneServes
<1>1. Init => IInv
  BY DEF Init, AlwaysOneServes
<1>2. ASSUME LifeTypeOK, LifeInv, IInv, [Next]_vars
      PROVE  IInv'
  <2> USE <1>2 DEF LifeTypeOK, AlwaysOneServes, Trans, world, Starting
  <2>1. CASE UNCHANGED <<up, outages, life, endpoints>>
    BY <2>1
  <2>2. ASSUME NEW p \in Pod, Startup(p)
        PROVE  IInv'
    BY <2>2 DEF Startup, InitEngine, CreateAll, Connect, StartupFails
  <2>3. ASSUME NEW p \in Pod, StopPoller(p) \/ Dispose(p)
        PROVE  IInv'
    BY <2>3 DEF StopPoller, Dispose
  <2>4. ASSUME NEW p \in Pod, Terminate(p) \/ Abort(p)
        PROVE  IInv'
    BY <2>4 DEF Terminate, Abort
  <2>5. ASSUME NEW p \in Pod, ReadinessProbe(p)
        PROVE  IInv'
    <3>1. LifeInv
      OBVIOUS
    <3>2. bound[p] = Singletons /\ life[p] = "serving"
      BY <2>5, <3>1 DEF LifeInv, PodInv, ReadinessProbe
    <3> QED  BY <2>5, <3>2 DEF ReadinessProbe, Ready
  <2>6. ASSUME NEW p \in Pod, NEW q \in Pod, RollOut(p, q)
        PROVE  IInv'
    BY <2>6 DEF RollOut
  <2>7. ASSUME NEW d \in Deps, Outage(d) \/ Recover(d)
        PROVE  IInv'
    BY <2>7 DEF Outage, Recover
  <2> QED
    BY <2>1, <2>2, <2>3, <2>4, <2>5, <2>6, <2>7 DEF Next, vars, ShutDown, Kubelet,
       PollerEnds, ResetClient, Poller, Poll, SweepRaises, LivenessProbe, Proceed, Arrive
<1> QED  BY <1>1, <1>2, LifeInductive, PTL DEF Spec

=============================================================================
