--------------------------- MODULE StreamTrackers ---------------------------
(***************************************************************************)
(* Which layers of a published video track are flowing: the stream         *)
(* trackers, one per spatial layer, and the manager that keeps the list of *)
(* available layers.  A tracker is told of the packets of its layer by the *)
(* forwarder of the receiver, checks at intervals, in a worker of its own, *)
(* whether they still come, and reports a change of status to the manager. *)
(*                                                                         *)
(* A tracker decides under its lock what it has to report and reports it   *)
(* after it let go of the lock, and the manager takes its trackers out of  *)
(* its lock before it pauses, resets or stops them; the goroutines that do *)
(* so are those of the forwarders, the workers, the one that mutes and the *)
(* one that dynacast uses.  Bitrates are left out, and how many packets    *)
(* make a layer active is a choice of the worker that checks.              *)
(***************************************************************************)
EXTENDS Naturals, FiniteSets

CONSTANTS
  Top,           \* the highest spatial layer
  MaxTrackers,   \* bound of the trackers
  TrackerLimits  \* records of bounds: of the trackers that are made, the packets of a layer, the
                 \* changes of the mute and of what is expected, and the restarts of the receiver

Layers == 0..Top
Trackers == 1..MaxTrackers
None == 0        \* no tracker

VARIABLES
  limits,       \* the bounds of this behaviour
  tracker,      \* the trackers that were made
  made,         \* how many there are
  trackers,     \* StreamTrackerManager.trackers
  available,    \* availableLayers
  muted,        \* trackInfo.Muted
  maxExpected,  \* maxExpectedLayer, as the number of layers that are expected
  observer,     \* the forwarder of a layer: where it is, its tracker, and the pause it read
  workers,      \* the workers: of which tracker and generation, and where they are
  notes,        \* changes of status that some goroutine is about to report
  muter,        \* setPaused: the trackers it has yet to pause
  expecter,     \* SetMaxExpectedSpatialLayer: those it has yet to reset
  stopping,     \* RemoveAllTrackers: those it has yet to stop
  packets, mutes, expects, restarts,
  crossed,      \* history: layers with a report that another may have overtaken, or of a removed tracker
  raced         \* history: trackers that were paused or not by a stale reading of the mute

tmVars == <<limits, tracker, made, trackers, available, muted, maxExpected, observer, workers, notes, muter,
            expecter, stopping, packets, mutes, expects, restarts, crossed, raced>>

NewTracker == [layer |-> 0, paused |-> FALSE, gen |-> 0, status |-> "stopped", told |-> "stopped",
               begun |-> FALSE, seen |-> FALSE, stopped |-> FALSE]
Outside == [at |-> "outside", tr |-> None, pause |-> FALSE]
Resting == [at |-> "rest", left |-> {}, pause |-> FALSE]

TrackersInit ==
  /\ limits \in TrackerLimits
  /\ tracker = [t \in Trackers |-> NewTracker] /\ made = 0
  /\ trackers = [l \in Layers |-> None] /\ available = {} /\ muted \in BOOLEAN
  /\ maxExpected = Top + 1
  /\ observer = [l \in Layers |-> Outside] /\ workers = {} /\ notes = {}
  /\ muter = Resting /\ expecter = Resting /\ stopping = {}
  /\ packets = [l \in Layers |-> 0] /\ mutes = 0 /\ expects = 0 /\ restarts = 0
  /\ crossed = {} /\ raced = {}

-----------------------------------------------------------------------------
(* StreamTracker, under its lock.                                           *)
(* A form of resetLocked that keeps the status.                             *)
resetKeepsStatus(t) == [t EXCEPT !.gen = @ + 1, !.begun = FALSE, !.seen = FALSE]
resetLocked(t) == [t EXCEPT !.gen = @ + 1, !.status = "stopped", !.begun = FALSE, !.seen = FALSE]
SetPaused(t, p) ==
  IF p THEN [t EXCEPT !.paused = TRUE, !.gen = @ + 1, !.status = "stopped"]
  ELSE resetLocked([t EXCEPT !.paused = FALSE])
Reset(t) == IF t.stopped THEN t ELSE resetLocked(t)
Stop(t) == IF t.stopped THEN t ELSE [t EXCEPT !.stopped = TRUE, !.gen = @ + 1]

(* Goroutine g has to see whether tracker t has a change to report.         *)
Owes(g, t) == notes' = notes \cup {[by |-> g, tr |-> t, at |-> "owed", status |-> "stopped"]}
Busy(g) == \E n \in notes : n.by = g
Obs(l) == <<"obs", l>>
Work(w) == <<"work", w.tr, w.gen>>
Muter == <<"mute">>
Expecter == <<"expect">>

-----------------------------------------------------------------------------
(* The forwarder of layer l has a packet and looks for the tracker of the   *)
(* layer (GetTracker, AddTracker); it makes one if there is none.           *)
FindTracker(l) ==
  /\ observer[l].at = "outside" /\ packets[l] < limits.packets /\ stopping = {}
  /\ IF trackers[l] # None
       THEN observer' = [observer EXCEPT ![l] = [@ EXCEPT !.at = "ready", !.tr = trackers[l]]] /\ UNCHANGED <<tracker, made>>
       ELSE /\ made < limits.trackers /\ made' = made + 1
            /\ tracker' = [tracker EXCEPT ![made + 1].layer = l]
            /\ observer' = [observer EXCEPT ![l] = [@ EXCEPT !.at = "store", !.tr = made + 1]]
  /\ UNCHANGED <<trackers, available, muted, maxExpected, workers, notes, muter, expecter, stopping,
                 packets, mutes, expects, restarts, crossed, raced>>

(* AddTracker stores it with the lock, where it reads the mute, and pauses  *)
(* it without.                                                              *)
StoreTracker(l) ==
  /\ observer[l].at = "store"
  /\ trackers' = [trackers EXCEPT ![l] = observer[l].tr]
  /\ observer' = [observer EXCEPT ![l].at = "pause", ![l].pause = muted]
  /\ UNCHANGED <<tracker, made, available, muted, maxExpected, workers, notes, muter, expecter, stopping,
                 packets, mutes, expects, restarts, crossed, raced>>
AddTracker(l) ==
  LET o == observer[l]
  IN  /\ o.at = "pause"
      /\ tracker' = [tracker EXCEPT ![o.tr] = SetPaused(@, o.pause)]
      /\ Owes(Obs(l), o.tr)
      /\ observer' = [observer EXCEPT ![l].at = "ready"]
      /\ raced' = IF o.pause # muted THEN raced \cup {o.tr} ELSE raced
      /\ UNCHANGED <<made, trackers, available, muted, maxExpected, workers, muter, expecter, stopping,
                     packets, mutes, expects, restarts, crossed>>

(* StreamTracker.Observe: the first packet after a reset makes it active    *)
(* and starts a worker.                                                     *)
Observe(l) ==
  LET o == observer[l]
      t == tracker[o.tr]
  IN  /\ o.at = "ready" /\ ~Busy(Obs(l)) /\ packets[l] < limits.packets
      /\ packets' = [packets EXCEPT ![l] = @ + 1]
      /\ ~t.stopped /\ ~t.paused
      /\ IF t.begun
           THEN tracker' = [tracker EXCEPT ![o.tr].seen = TRUE] /\ UNCHANGED <<workers, notes>>
           ELSE /\ tracker' = [tracker EXCEPT ![o.tr] = [@ EXCEPT !.begun = TRUE, !.seen = TRUE, !.status = "active"]]
                /\ workers' = workers \cup {[tr |-> o.tr, gen |-> t.gen, at |-> "tick"]}
                /\ Owes(Obs(l), o.tr)
      /\ UNCHANGED <<made, trackers, available, muted, maxExpected, observer, muter, expecter, stopping,
                     mutes, expects, restarts, crossed, raced>>

(* The worker looks at the generation without the lock and ends if it is    *)
(* another one, else it checks.  Without packets the layer has stopped,     *)
(* with enough of them for long enough it is active.                        *)
WorkerTicks(w) ==
  /\ w.at = "tick" /\ ~Busy(Work(w))
  /\ workers' = (workers \ {w}) \cup
                (IF w.gen = tracker[w.tr].gen THEN {[w EXCEPT !.at = "check"]} ELSE {})
  /\ UNCHANGED <<tracker, made, trackers, available, muted, maxExpected, observer, notes, muter, expecter,
                 stopping, packets, mutes, expects, restarts, crossed, raced>>
CheckStatus(t) ==
  IF ~t.begun THEN {t.status} ELSE IF t.seen THEN {"stopped", t.status, "active"} ELSE {"stopped"}
updateStatus(w) ==
  /\ w.at = "check"
  /\ workers' = (workers \ {w}) \cup {[w EXCEPT !.at = "tick"]}
  /\ \E s \in CheckStatus(tracker[w.tr]) :
       tracker' = [tracker EXCEPT ![w.tr] = [@ EXCEPT !.status = s, !.seen = FALSE]]
  /\ Owes(Work(w), w.tr)
  /\ UNCHANGED <<made, trackers, available, muted, maxExpected, observer, muter, expecter, stopping,
                 packets, mutes, expects, restarts, crossed, raced>>

(* maybeNotifyStatus decides with the lock whether there is a change ...    *)
maybeNotifyStatus(n) ==
  LET t == tracker[n.tr]
  IN  /\ n.at = "owed"
      /\ IF t.status = t.told THEN notes' = notes \ {n} /\ UNCHANGED <<tracker, crossed>>
         ELSE /\ notes' = (notes \ {n}) \cup {[n EXCEPT !.at = "report", !.status = t.status]}
              /\ tracker' = [tracker EXCEPT ![n.tr].told = t.status]
              /\ crossed' = IF \E m \in notes : m.at = "report" /\ tracker[m.tr].layer = t.layer
                            THEN crossed \cup {t.layer} ELSE crossed
      /\ UNCHANGED <<made, trackers, available, muted, maxExpected, observer, workers, muter, expecter,
                     stopping, packets, mutes, expects, restarts, raced>>

(* ... and reports it: addAvailableLayer or removeAvailableLayer.           *)
onStatusChanged(n) ==
  LET l == tracker[n.tr].layer
  IN  /\ n.at = "report" /\ notes' = notes \ {n}
      /\ available' = IF n.status = "stopped" THEN available \ {l} ELSE available \cup {l}
      /\ crossed' = IF trackers[l] # n.tr THEN crossed \cup {l} ELSE crossed
      /\ UNCHANGED <<tracker, made, trackers, muted, maxExpected, observer, workers, muter, expecter,
                     stopping, packets, mutes, expects, restarts, raced>>

-----------------------------------------------------------------------------
(* UpdateTrackInfo with another mute; setPaused takes the trackers and      *)
(* pauses them one by one.                                                  *)
UpdateTrackInfo ==
  /\ muter.at = "rest" /\ mutes < limits.mutes /\ mutes' = mutes + 1
  /\ muted' = ~muted /\ muter' = [at |-> "copy", left |-> {}, pause |-> ~muted]
  /\ UNCHANGED <<tracker, made, trackers, available, maxExpected, observer, workers, notes, expecter,
                 stopping, packets, expects, restarts, crossed, raced>>
setPaused ==
  /\ muter.at = "copy"
  /\ muter' = [muter EXCEPT !.at = "pause", !.left = {trackers[l] : l \in Layers} \ {None}]
  /\ UNCHANGED <<tracker, made, trackers, available, muted, maxExpected, observer, workers, notes, expecter,
                 stopping, packets, mutes, expects, restarts, crossed, raced>>
Lowest(S) == CHOOSE t \in S : \A u \in S : tracker[t].layer <= tracker[u].layer
PauseNext ==
  /\ muter.at = "pause" /\ ~Busy(Muter)
  /\ IF muter.left = {} THEN muter' = Resting /\ UNCHANGED <<tracker, notes>>
     ELSE LET t == Lowest(muter.left)
          IN  /\ tracker' = [tracker EXCEPT ![t] = SetPaused(@, muter.pause)]
              /\ Owes(Muter, t) /\ muter' = [muter EXCEPT !.left = @ \ {t}]
  /\ UNCHANGED <<made, trackers, available, muted, maxExpected, observer, workers, expecter, stopping,
                 packets, mutes, expects, restarts, crossed, raced>>

(* SetMaxExpectedSpatialLayer: the trackers of layers that are to start are *)
(* reset, so that their first packet is enough.                             *)
SetMaxExpectedSpatialLayer(n) ==
  /\ expecter.at = "rest" /\ expects < limits.expects /\ expects' = expects + 1
  /\ n # maxExpected /\ maxExpected' = n
  /\ expecter' = IF n < maxExpected THEN Resting
                 ELSE [at |-> "reset", pause |-> FALSE,
                       left |-> {trackers[l] : l \in maxExpected..(n - 1)} \ {None}]
  /\ UNCHANGED <<tracker, made, trackers, available, muted, observer, workers, notes, muter, stopping,
                 packets, mutes, restarts, crossed, raced>>
ResetNext ==
  /\ expecter.at = "reset" /\ ~Busy(Expecter)
  /\ IF expecter.left = {} THEN expecter' = Resting /\ UNCHANGED <<tracker, notes>>
     ELSE LET t == Lowest(expecter.left)
          IN  /\ tracker' = [tracker EXCEPT ![t] = Reset(@)]
              /\ Owes(Expecter, t) /\ expecter' = [expecter EXCEPT !.left = @ \ {t}]
  /\ UNCHANGED <<made, trackers, available, muted, maxExpected, observer, workers, muter, stopping,
                 packets, mutes, expects, restarts, crossed, raced>>

(* The receiver restarts: with its forwarders gone it removes all trackers, *)
(* and stops them once it let go of the lock; then new forwarders start.    *)
RemoveAllTrackers ==
  /\ restarts < limits.restarts /\ restarts' = restarts + 1 /\ stopping = {}
  /\ \A l \in Layers : observer[l].at \in {"outside", "ready"} /\ ~Busy(Obs(l))
  /\ observer' = [l \in Layers |-> Outside]
  /\ stopping' = {trackers[l] : l \in Layers} \ {None}
  /\ trackers' = [l \in Layers |-> None] /\ available' = {} /\ maxExpected' = Top + 1
  /\ UNCHANGED <<tracker, made, muted, workers, notes, muter, expecter, packets, mutes, expects, crossed, raced>>
StopNext ==
  /\ stopping # {}
  /\ LET t == Lowest(stopping)
     IN  tracker' = [tracker EXCEPT ![t] = Stop(@)] /\ stopping' = stopping \ {t}
  /\ UNCHANGED <<made, trackers, available, muted, maxExpected, observer, workers, notes, muter, expecter,
                 packets, mutes, expects, restarts, crossed, raced>>

TrackerSteps ==
  \/ \E l \in Layers : FindTracker(l) \/ StoreTracker(l) \/ AddTracker(l) \/ Observe(l)
  \/ \E w \in workers : WorkerTicks(w) \/ updateStatus(w)
  \/ \E n \in notes : maybeNotifyStatus(n) \/ onStatusChanged(n)
  \/ UpdateTrackInfo \/ setPaused \/ PauseNext
  \/ \E n \in 0..(Top + 1) : SetMaxExpectedSpatialLayer(n)
  \/ ResetNext \/ RemoveAllTrackers \/ StopNext

TrackersNext == TrackerSteps /\ UNCHANGED limits
TrackersSpec == TrackersInit /\ [][TrackersNext]_tmVars

-----------------------------------------------------------------------------
(* Nobody is about to change or to report anything.                         *)
TrackersQuiet ==
  /\ notes = {} /\ stopping = {} /\ muter.at = "rest" /\ expecter.at = "rest"
  /\ \A l \in Layers : observer[l].at \in {"outside", "ready"}
  /\ \A w \in workers : w.at = "tick"

Live(l) == trackers[l] # None /\ tracker[trackers[l]].status = "active"

(* Unless two reports of a layer may have overtaken each other, a layer is  *)
(* available exactly while its tracker takes it for active.                 *)
AvailableIsActive == TrackersQuiet => \A l \in Layers \ crossed : (l \in available) = Live(l)

(* A tracker is paused exactly while the track is muted, unless it was made *)
(* while the mute changed.                                                  *)
PausedIsMuted ==
  TrackersQuiet => \A l \in Layers : trackers[l] \notin raced \cup {None} => tracker[trackers[l]].paused = muted

(* Every active tracker has a worker that will notice when it stops, unless *)
(* it was paused while its worker was about to check.                       *)
ActiveIsWatched ==
  \A t \in 1..made : tracker[t].status = "active" /\ ~tracker[t].stopped /\ ~tracker[t].paused
                       => \E w \in workers : w.tr = t /\ w.gen = tracker[t].gen
=============================================================================
