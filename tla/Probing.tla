------------------------------ MODULE Probing ------------------------------
(***************************************************************************)
(* Probing for more bandwidth: the prober with its goroutine, the probe    *)
(* observer of the pacer, the probe controller of the estimator (the one   *)
(* that works with the client's estimates), and the handlers of the stream *)
(* allocator that tie them together.  Each keeps its own idea of the       *)
(* cluster that is under way, and they agree only through events.          *)
(*                                                                         *)
(* Amounts are left out: whether a probe has sent enough, reached its goal *)
(* or settled, and whether an allocation leaves tracks deficient, is a     *)
(* choice.                                                                 *)
(***************************************************************************)
EXTENDS Naturals, Sequences, FiniteSets, SequencesExt

CONSTANTS
  MaxClusters,   \* bound of the clusters
  MaxPQ,         \* bound of the events that wait
  MaxAllocs,     \* bound of the allocations
  MaxEstimates,  \* bound of the estimates of the client
  MaxResets,     \* bound of the resets after a pause
  Runners        \* the goroutines of the prober

VARIABLES
  pState,        \* the state of the allocator
  activeId, goalReached, congesting, \* activeProbeClusterId, ...GoalReached, ...Congesting
  saCapacity,    \* committedChannelCapacity of the allocator: "none", "measured" or "default"
  pQueue,        \* the events of the allocator
  clusters, activeCluster, completed, lastId, \* Prober
  runner,        \* where the goroutines of Prober.run are
  inProbe, pacerId, pacerEnded,      \* ProbeObserver
  ctl, ctlId,    \* state and pci of the probe controller
  bweState, bweCapacity,             \* RemoteBWE
  probed,        \* probe packets were sent for the cluster of the pacer
  allocs, estimates, resets, pings,
  doubled        \* history: a cluster was added while another one had yet to start

proberVars == <<clusters, activeCluster, completed, lastId, doubled>>
pacerVars == <<inProbe, pacerId, pacerEnded, probed>>
bweVars == <<ctl, ctlId, bweState, bweCapacity>>
saVars == <<pState, activeId, goalReached, congesting, saCapacity>>
boundVars == <<allocs, estimates, resets, pings>>
probeVars == <<proberVars, runner, pacerVars, bweVars, saVars, pQueue, boundVars>>

ProbeClusterIdInvalid == 0
Ids == 0..MaxClusters
Off == [at |-> "off", id |-> 0]

ProbeInit ==
  /\ pState = "STABLE" /\ activeId = 0 /\ goalReached = FALSE /\ congesting = FALSE /\ saCapacity = "none"
  /\ pQueue = <<>> /\ clusters = <<>> /\ activeCluster = 0 /\ completed = {} /\ lastId = 0 /\ doubled = FALSE
  /\ runner = [r \in Runners |-> Off]
  /\ inProbe = FALSE /\ pacerId = 0 /\ pacerEnded = FALSE /\ probed = FALSE
  /\ ctl = "none" /\ ctlId = 0 /\ bweState = "none" /\ bweCapacity = "default"
  /\ allocs = 0 /\ estimates = 0 /\ resets = 0 /\ pings = TRUE

ProbeTypeOK ==
  /\ activeId \in Ids /\ pacerId \in Ids /\ ctlId \in Ids /\ activeCluster \in Ids /\ completed \subseteq Ids
  /\ ctl \in {"none", "probing", "hangover"} /\ bweState \in {"none", "congested"}
  /\ \A i \in DOMAIN clusters : clusters[i] \in Ids

-----------------------------------------------------------------------------
(* A world w is what one handler, which calls several of the components in  *)
(* turn, may change.  Its steps follow each other in the handlers below.    *)
World ==
  [st |-> pState, id |-> activeId, goal |-> goalReached, cong |-> congesting, cap |-> saCapacity,
   q |-> clusters, act |-> activeCluster, done |-> completed, last |-> lastId,
   in |-> inProbe, pid |-> pacerId, ended |-> pacerEnded, ctl |-> ctl, cid |-> ctlId,
   bwe |-> bweState, bcap |-> bweCapacity, post |-> <<>>, run |-> FALSE]

(* ProbeObserver.EndProbeCluster: the id it gives back, and the observer.   *)
EndsWith(w, id) == IF w.in /\ w.pid = id THEN id ELSE ProbeClusterIdInvalid
EndProbeCluster(w, id) == IF w.in /\ w.pid = id THEN [w EXCEPT !.in = FALSE, !.ended = TRUE] ELSE w

(* probeController.ProbeClusterDone.                                        *)
ProbeClusterDone(w, id) == IF w.cid = id THEN [w EXCEPT !.ctl = "hangover"] ELSE w

(* Prober.Reset, and ClusterDone with getFrontCluster and popFrontCluster.  *)
Reset(w, id) ==
  [w EXCEPT !.done = IF w.act # 0 /\ w.act = id THEN @ \cup {id} ELSE @, !.q = <<>>, !.act = 0]
getFrontCluster(w) ==
  IF w.act # 0 \/ w.q = <<>> THEN w
  ELSE [w EXCEPT !.act = Head(w.q), !.post = Append(@, [ev |-> "Switch", id |-> Head(w.q)])]
popFrontCluster(w, id) ==
  IF w.q = <<>> THEN [w EXCEPT !.act = 0]
  ELSE [w EXCEPT !.q = IF Head(@) = id THEN Tail(@) ELSE @, !.act = IF @ = id THEN 0 ELSE @]
ClusterDone(w, id) ==
  LET g == getFrontCluster(w)
  IN  IF g.act = 0 \/ g.act # id THEN g
      ELSE popFrontCluster([g EXCEPT !.done = @ \cup {id}], id)

(* Prober.AddCluster: the first one starts a goroutine.                     *)
AddCluster(w) ==
  [w EXCEPT !.last = @ + 1, !.q = Append(@, w.last + 1), !.run = (w.q = <<>>)]

(* RemoteBWE.Reset makes a new controller.                                  *)
BWEReset(w) == [w EXCEPT !.ctl = "none", !.cid = 0, !.bwe = "none", !.bcap = "default"]

maybeStopProbe(w) ==
  IF w.id = ProbeClusterIdInvalid THEN w
  ELSE LET id == EndsWith(w, w.id)
       IN  Reset(ProbeClusterDone(EndProbeCluster(w, w.id), id), id)

(* setState: everything is restarted when the state is STABLE again.        *)
(* A form of it that leaves the id of the probe it stopped.                 *)
setStateKeepsId(w, st) ==
  IF w.st = st THEN w
  ELSE IF st = "STABLE" THEN BWEReset(maybeStopProbe([w EXCEPT !.st = st]))
  ELSE [w EXCEPT !.st = st]
setState(w, st) ==
  IF w.st = st THEN w
  ELSE IF st = "STABLE" THEN [BWEReset(maybeStopProbe([w EXCEPT !.st = st])) EXCEPT !.id = ProbeClusterIdInvalid]
  ELSE [w EXCEPT !.st = st]

(* The world after a handler.                                               *)
Becomes(w) ==
  /\ pState' = w.st /\ activeId' = w.id /\ goalReached' = w.goal /\ congesting' = w.cong /\ saCapacity' = w.cap
  /\ clusters' = w.q /\ activeCluster' = w.act /\ completed' = w.done /\ lastId' = w.last
  /\ inProbe' = w.in /\ pacerId' = w.pid /\ pacerEnded' = w.ended
  /\ ctl' = w.ctl /\ ctlId' = w.cid /\ bweState' = w.bwe /\ bweCapacity' = w.bcap
  /\ pQueue' = Tail(pQueue) \o w.post
  /\ doubled' = (doubled \/ (w.last # lastId /\ (clusters # <<>> \/ \E i \in DOMAIN pQueue : pQueue[i].ev = "Switch")))
  /\ IF w.run THEN \E r \in Runners : runner[r] = Off /\ runner' = [runner EXCEPT ![r] = [at |-> "front", id |-> 0]]
     ELSE UNCHANGED runner

Event == Head(pQueue)
Handles(e) == pQueue # <<>> /\ Event.ev = e

-----------------------------------------------------------------------------
(* The goroutine of the allocator.                                          *)
(* An allocation of one track stops the probe; what it leaves is a choice.  *)
HandleAllocate ==
  /\ Handles("Allocate")
  /\ \E st \in IF pState = "DEFICIENT" \/ bweState = "congested" THEN {"STABLE", "DEFICIENT"} ELSE {pState} :
       Becomes(setState(maybeStopProbe(World), st))
  /\ UNCHANGED <<boundVars, probed>>

(* handleSignalPeriodicPing, in its three parts.                            *)
PingResets(w) ==
  IF resets < MaxResets /\ w.st = "DEFICIENT" /\ w.bwe # "none"
  THEN {w, [BWEReset(maybeStopProbe(w)) EXCEPT !.id = ProbeClusterIdInvalid]} ELSE {w}
PingStops(w) ==
  IF w.id # 0 /\ ~w.cong /\ ~w.goal /\ w.ctl # "none" /\ w.bwe = "none" /\ w.cid # 0
  THEN {w, maybeStopProbe([w EXCEPT !.goal = TRUE])} ELSE {w}
PingFinalizes(w) ==   \* settled, so the hangover did not begin with this ping
  IF w.id # 0 /\ w.ctl = "hangover" /\ ctl = "hangover"
  THEN LET f == [w EXCEPT !.ctl = "none", !.bwe = "none", !.id = ProbeClusterIdInvalid]
       IN  {w} \cup (IF w.bwe = "congested" THEN {f}
                     ELSE {setState([f EXCEPT !.cap = c, !.bcap = c], st)
                           : c \in {w.cap, "measured"}, st \in {w.st, "STABLE"}})
  ELSE {w}
maybeProbe(w) ==
  IF w.st = "DEFICIENT" /\ w.bwe = "none" /\ w.ctl = "none" /\ w.last < MaxClusters
  THEN {w, AddCluster(w)} ELSE {w}

handleSignalPeriodicPing ==
  /\ Handles("Ping")
  /\ \E w1 \in PingResets(World) : \E w2 \in PingStops(w1) : \E w3 \in PingFinalizes(w2) :
       \E w4 \in maybeProbe(w3) :
         /\ Becomes(w4)
         /\ resets' = IF w1 # World THEN resets + 1 ELSE resets
  /\ pings' = TRUE
  /\ UNCHANGED <<allocs, estimates, probed>>

handleSignalProbeClusterSwitch ==
  /\ Handles("Switch")
  /\ LET w == [World EXCEPT !.id = Event.id, !.goal = FALSE, !.cong = FALSE, !.ctl = "probing", !.cid = Event.id]
     IN  Becomes(IF w.in THEN w ELSE [w EXCEPT !.in = TRUE, !.pid = Event.id, !.ended = FALSE])
  /\ probed' = IF inProbe THEN probed ELSE FALSE
  /\ UNCHANGED boundVars

(* The packets count for the cluster whose id the tracks have.              *)
handleSignalSendProbe ==
  /\ Handles("SendProbe")
  /\ Becomes(getFrontCluster(World))
  /\ probed' = (probed \/ (inProbe /\ pacerId = activeId))
  /\ UNCHANGED boundVars

handleSignalPacerProbeObserverClusterComplete ==
  /\ Handles("Complete")
  /\ LET id == EndsWith(World, Event.id)
     IN  Becomes(ClusterDone(ProbeClusterDone(EndProbeCluster(World, Event.id), id), id))
  /\ UNCHANGED <<boundVars, probed>>

(* handleSignalEstimate: congestionDetectionStateMachine of the estimator;  *)
(* within a probe it does not estimate the capacity.                        *)
handleSignalEstimate ==
  /\ Handles("Estimate")
  /\ LET w == World
         inP == w.ctl # "none"
         says(x, to) == [x EXCEPT !.bwe = to, !.post = Append(@, [ev |-> "Congestion", id |-> 0, from |-> w.bwe, to |-> to, cap |-> x.bcap])]
     IN  \E x \in {w}
              \cup (IF w.bwe = "none" /\ inP THEN {says(w, "congested")} ELSE {})
              \cup (IF w.bwe = "none" /\ ~inP THEN {says([w EXCEPT !.bcap = "measured"], "congested")} ELSE {})
              \cup (IF w.bwe = "congested" /\ ~inP THEN {says([w EXCEPT !.bcap = "measured"], "congested"), says(w, "none")} ELSE {}) :
           Becomes(x)
  /\ UNCHANGED <<boundVars, probed>>

handleSignalCongestionStateChange ==
  /\ Handles("Congestion")
  /\ LET w == IF Event.to # "none" THEN maybeStopProbe(World) ELSE World
     IN  IF Event.to # "congested" THEN Becomes(w)
         ELSE IF w.id # 0 THEN Becomes([w EXCEPT !.cong = TRUE])
         ELSE \E st \in {"STABLE", "DEFICIENT"} : Becomes(setState([w EXCEPT !.cap = Event.cap], st))
  /\ UNCHANGED <<boundVars, probed>>

Worker ==
  \/ HandleAllocate \/ handleSignalPeriodicPing \/ handleSignalProbeClusterSwitch \/ handleSignalSendProbe
  \/ handleSignalPacerProbeObserverClusterComplete \/ handleSignalEstimate \/ handleSignalCongestionStateChange

-----------------------------------------------------------------------------
(* Prober.run: take the front cluster, starting it, ...                     *)
NotWorker == <<saVars, bweVars, pacerVars>>
RunFront(r) ==
  /\ runner[r].at = "front" /\ Len(pQueue) < MaxPQ
  /\ LET w == getFrontCluster(World)
     IN  /\ activeCluster' = w.act /\ pQueue' = pQueue \o w.post
         /\ runner' = [runner EXCEPT ![r] = IF w.act = 0 THEN Off ELSE [at |-> "process", id |-> w.act]]
  /\ UNCHANGED <<clusters, completed, lastId, doubled, NotWorker, boundVars>>

(* ... and send some of it, or take it off when it is complete.             *)
RunProcess(r) ==
  /\ runner[r].at = "process"
  /\ runner' = [runner EXCEPT ![r] = [at |-> "front", id |-> 0]]
  /\ IF runner[r].id \in completed
     THEN LET w == popFrontCluster(World, runner[r].id)
          IN  clusters' = w.q /\ activeCluster' = w.act /\ UNCHANGED pQueue
     ELSE /\ UNCHANGED <<clusters, activeCluster>>
          /\ pQueue' = IF Len(pQueue) < MaxPQ /\ ~\E i \in DOMAIN pQueue : pQueue[i].ev = "SendProbe"
                       THEN Append(pQueue, [ev |-> "SendProbe", id |-> 0]) ELSE pQueue
  /\ UNCHANGED <<completed, lastId, doubled, NotWorker, boundVars>>

(* ProbeObserver.RecordPacket: enough was sent for long enough.             *)
RecordPacket ==
  /\ inProbe /\ ~pacerEnded /\ probed /\ Len(pQueue) < MaxPQ
  /\ pacerEnded' = TRUE
  /\ pQueue' = Append(pQueue, [ev |-> "Complete", id |-> pacerId])
  /\ UNCHANGED <<proberVars, runner, inProbe, pacerId, probed, bweVars, saVars, boundVars>>

Enqueue(e) == Len(pQueue) < MaxPQ /\ pQueue' = Append(pQueue, [ev |-> e, id |-> 0])
               /\ UNCHANGED <<proberVars, runner, pacerVars, bweVars, saVars>>
Ping == pings /\ Enqueue("Ping") /\ pings' = FALSE /\ UNCHANGED <<allocs, estimates, resets>>
Allocate == allocs < MaxAllocs /\ Enqueue("Allocate") /\ allocs' = allocs + 1 /\ UNCHANGED <<estimates, resets, pings>>
Estimate == estimates < MaxEstimates /\ Enqueue("Estimate") /\ estimates' = estimates + 1 /\ UNCHANGED <<allocs, resets, pings>>

ProbeNext ==
  \/ Worker \/ RecordPacket \/ Ping \/ Allocate \/ Estimate
  \/ \E r \in Runners : RunFront(r) \/ RunProcess(r)
ProbeSpec == ProbeInit /\ [][ProbeNext]_probeVars

-----------------------------------------------------------------------------
Settled == \A i \in DOMAIN pQueue : pQueue[i].ev = "Ping"

(* A probe that the allocator takes for active can end: the pacer has it,   *)
(* or the estimator only waits for it to settle.                            *)
ActiveCanEnd ==
  Settled /\ activeId # 0 /\ ~doubled => ctlId = activeId /\ (ctl = "hangover" \/ (inProbe /\ pacerId = activeId))

(* A probe that is over for the allocator is over for the estimator, which  *)
(* allows the next one: "restart everything when state is STABLE".          *)
ProbingStaysPossible == Settled /\ activeId = 0 => ctl = "none"
=============================================================================
