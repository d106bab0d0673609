------------------------------- MODULE MCMedia -------------------------------
(***************************************************************************)
(* Which media is sent, for TLC: what a publisher is asked for (Dynacast), *)
(* which layers come (StreamTrackers) and are read (Receiver), how the     *)
(* capacity of a subscriber is shared (StreamAllocator) and how more of it *)
(* is looked for (Probing).  The modules do not share state, so a          *)
(* behaviour is about one of them, its part; some come with more than one  *)
(* choice of constants or bounds.                                          *)
(***************************************************************************)
EXTENDS Integers, FiniteSets

CONSTANTS Parts,       \* those of this run
          Mimes, Subscribers, Nodes, From, To, DynCases,                    \* of Dynacast
          MaxClusters, MaxPQ, MaxAllocs, MaxEstimates, MaxResets, Runners,  \* of Probing
          TopLayer, MaxTrackers, TrackerLimits,                             \* of StreamTrackers
          RLayers, DownTracks, RecvLimits                                   \* of Receiver

(* Goroutines are told apart by their names, a codec is regressed to        *)
(* another one, and clients ask for qualities there are.                    *)
ASSUME DynacastNames ==
  /\ From \in Mimes /\ To \in Mimes /\ From # To /\ IsFiniteSet(Mimes)
  /\ Mimes \cap (Subscribers \cup Nodes) = {}
  /\ {"regression", "caller", "debounce"} \cap (Mimes \cup Subscribers \cup Nodes) = {}
  /\ \A c \in DynCases : /\ c.mimes \subseteq Mimes /\ c.clients \subseteq Subscribers \cup Nodes
                         /\ c.wishes \subseteq {0, 2, 3}

(* No behaviour has more trackers than there are.                           *)
ASSUME TrackerBounds ==
  /\ TopLayer \in Nat /\ MaxTrackers \in Nat
  /\ \A b \in TrackerLimits : b.trackers \in 0..MaxTrackers

VARIABLES
  part,
  dynCase, dqs, subscribed, inited, dqMax, timer, regressTo, regressed, maxQuality, committed, waiting,
  ops, told, expected, trackMuted, unmuting, mgrClosed, proc, moved, toRestart, toClear, notes,
  apiCalls, wish, astray,
  scenario, fwd, feed, videoTracks, dirty, priority, trackMax, streamState, allocState, allowPause,
  committedCap, overriddenCap, allocateAllPending, congestion, probe, allocQueue, acts, outrun,
  pState, activeId, goalReached, congesting, saCapacity, pQueue, clusters, activeCluster, completed,
  lastId, runner, inProbe, pacerId, pacerEnded, ctl, ctlId, bweState, bweCapacity, probed, allocs,
  estimates, resets, pings, doubled,
  limits, tracker, made, trackers, available, muted, maxExpected, observer, workers, tmNotes, muter,
  expecter, stopping, packets, mutes, expects, restarts, crossed, raced,
  recvLimits, buffers, stream, pending, queued, upTracks, generation, waitGroup, restartInProgress,
  restart, detections, forwarders, recvClosed, senders, adding, synced, version, arrivals, started,
  early, foreign

dynacastVars ==
  <<dynCase, dqs, subscribed, inited, dqMax, timer, regressTo, regressed, maxQuality, committed, waiting,
    ops, told, expected, trackMuted, unmuting, mgrClosed, proc, moved, toRestart, toClear, notes,
    apiCalls, wish, astray>>
sharingVars ==
  <<scenario, fwd, feed, videoTracks, dirty, priority, trackMax, streamState, allocState, allowPause,
    committedCap, overriddenCap, allocateAllPending, congestion, probe, allocQueue, acts, outrun>>
probingVars ==
  <<pState, activeId, goalReached, congesting, saCapacity, pQueue, clusters, activeCluster, completed,
    lastId, runner, inProbe, pacerId, pacerEnded, ctl, ctlId, bweState, bweCapacity, probed, allocs,
    estimates, resets, pings, doubled>>
trackingVars ==
  <<limits, tracker, made, trackers, available, muted, maxExpected, observer, workers, tmNotes, muter,
    expecter, stopping, packets, mutes, expects, restarts, crossed, raced>>
readingVars ==
  <<recvLimits, buffers, stream, pending, queued, upTracks, generation, waitGroup, restartInProgress,
    restart, detections, forwarders, recvClosed, senders, adding, synced, version, arrivals, started,
    early, foreign>>
receiverVars == <<trackingVars, readingVars>>
allVars == <<part, dynacastVars, sharingVars, probingVars, receiverVars>>

(* Two subscribers and a restart; a subscriber and a node that is cleared;  *)
(* a codec that is regressed to another.                                    *)
Clearing == [mimes |-> {"av1"}, clients |-> {"s1", "n1"}, wishes |-> {0, 2, 3}, notes |-> 2, calls |-> 1,
             env |-> {"clear", "close"}]
DynacastCases ==
  {[mimes |-> {"av1"}, clients |-> {"s1", "s2"}, wishes |-> {0, 2, 3}, notes |-> 2, calls |-> 1,
    env |-> {"restart", "mute"}],
   Clearing,
   [mimes |-> {"av1", "vp8"}, clients |-> {"s1"}, wishes |-> {2, 3}, notes |-> 2, calls |-> 0,
    env |-> {"regress"}]}
Asked == INSTANCE Dynacast

(* Two tracks of two layers that cost 1 and 3, of which a publisher may     *)
(* stop the upper one: with mutes and pauses; with tracks that come and go  *)
(* and change in priority; with probes and changes of what is asked for.    *)
Both == [brs |-> [l \in (0..1) \X {0} |-> IF l[1] = 0 THEN 1 ELSE 3], avail |-> {0, 1}]
Lower == [brs |-> [l \in (0..1) \X {0} |-> IF l[1] = 0 THEN 1 ELSE 0], avail |-> {0}]
Muting == [caps |-> {0, 2, 4}, priorities |-> {1}, env |-> {"mute", "pubMute", "hold"}]
Leaving == [caps |-> {0, 1, 4}, priorities |-> {1, 2}, env |-> {"priority", "remove"}]
Asking == [caps |-> {0, 2, 4}, priorities |-> {1}, env |-> {"max", "probe"}]
Sharing == INSTANCE StreamAllocator
  WITH MaxSpatial <- 1, MaxTemporal <- 0, Tracks <- {"a", "b"}, Unmanaged <- {}, Feeds <- {Both, Lower},
       Maxima <- {<<1, 0>>, <<0, 0>>}, AllowPause <- TRUE, MaxEvents <- 2, MaxActs <- 5,
       Scenarios <- {Muting, Leaving, Asking}

Clusters == INSTANCE Probing

(* The trackers of one layer: with mutes; with changes of what is expected; *)
(* with restarts.                                                           *)
TrackingLimits ==
  {[trackers |-> 1, packets |-> 2, mutes |-> 2, expects |-> 0, restarts |-> 0],
   [trackers |-> 1, packets |-> 3, mutes |-> 1, expects |-> 1, restarts |-> 0],
   [trackers |-> 2, packets |-> 2, mutes |-> 0, expects |-> 1, restarts |-> 1]}
Tracking == INSTANCE StreamTrackers WITH Top <- TopLayer, notes <- tmNotes

(* Two layers that restart by themselves, that end, or with a down track    *)
(* that comes and goes; one that restarts by itself and for another reason. *)
ReceiverLimits ==
  {[layers |-> {0, 1}, streams |-> 2, packets |-> 1, updates |-> 0, env |-> {"detect"}],
   [layers |-> {0, 1}, streams |-> 2, packets |-> 1, updates |-> 1, env |-> {"bufferClose"}],
   [layers |-> {0, 1}, streams |-> 2, packets |-> 2, updates |-> 1, env |-> {"downTracks"}],
   [layers |-> {0}, streams |-> 3, packets |-> 1, updates |-> 1, env |-> {"detect", "downTracks"}]}
Reading == INSTANCE Receiver

PartsInit ==
  /\ part \in Parts /\ Sharing!AllocInit /\ Clusters!ProbeInit
  /\ Tracking!TrackersInit /\ (part # "tracking" => limits.mutes = 2 /\ ~muted)
  /\ Reading!RecvInit /\ (part # "reading" => recvLimits.packets = 2)
  /\ part # "sharing" => scenario = Muting
  /\ Asked!Init /\ (part # "dynacast" => dynCase = Clearing)

DynacastStep ==
  part = "dynacast" /\ Asked!Next /\ UNCHANGED <<part, sharingVars, probingVars, receiverVars>>
SharingStep == part = "sharing" /\ Sharing!AllocNext /\ UNCHANGED <<part, dynacastVars, probingVars, receiverVars>>
ProbingStep ==
  part = "probing" /\ Clusters!ProbeNext /\ UNCHANGED <<part, dynacastVars, sharingVars, receiverVars>>
ReceiverStep ==
  /\ \/ part = "tracking" /\ Tracking!TrackersNext /\ UNCHANGED readingVars
     \/ part = "reading" /\ Reading!RecvNext /\ UNCHANGED trackingVars
  /\ UNCHANGED <<part, dynacastVars, sharingVars, probingVars>>

PartsSpec == PartsInit /\ [][DynacastStep \/ SharingStep \/ ProbingStep \/ ReceiverStep]_allVars

-----------------------------------------------------------------------------
(* When all has been said and nobody was overtaken, the receivers expect    *)
(* the best quality anyone wants of each codec.                             *)
ToldIsWanted == part = "dynacast" => Asked!ToldIsWanted

(* The allocator is deficient exactly while some track is, and a client     *)
(* knows of every track that is paused.                                     *)
PausedIsTold ==
  part = "sharing" => /\ Sharing!StateIsTrue /\ Sharing!PausedIsTold
                      /\ scenario = Muting => Sharing!MutedIsIdle

(* Short of bandwidth, the tracks together ask for no more than was found.  *)
UsageFits == part = "sharing" /\ scenario # Asking => Sharing!UsageFits

(* A probe that the allocator takes for active can end.                     *)
ActiveCanEnd == part = "probing" => Clusters!ActiveCanEnd

(* When nothing is on its way, a layer is listed exactly while its tracker  *)
(* takes it for active, which a worker then watches, and paused exactly     *)
(* while the track is muted.                                                *)
LayersAreTrue ==
  part = "tracking" => Tracking!AvailableIsActive /\ Tracking!PausedIsMuted /\ Tracking!ActiveIsWatched

(* However restarts, new layers and the end of a stream interleave, every   *)
(* buffer has one reader, a restart waits only for readers that are awake,  *)
(* and no packet of a new stream comes to a down track before it was told.  *)
BuffersAreRead ==
  part = "reading" => /\ Reading!OneReader /\ Reading!BuffersAreRead /\ Reading!WaitIsShort
                      /\ "detect" \notin recvLimits.env => Reading!NothingForeign
=============================================================================
