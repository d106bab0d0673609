--------------------------- MODULE StreamAllocator ---------------------------
(***************************************************************************)
(* The stream allocator of one subscriber (sfu/streamallocator): it shares *)
(* the capacity of the downlink among the video tracks.  Everything that   *)
(* may change the shares posts an event, and one goroutine takes the       *)
(* events in turn; the down tracks, the bandwidth estimator and the API    *)
(* run beside it, so that an event may be stale when it is handled.        *)
(*                                                                         *)
(* The handling of an event is one step.  Probing is in Probing; here a    *)
(* probe is under way or not, and ends with a result of the estimator.     *)
(***************************************************************************)
EXTENDS VideoAllocation

CONSTANTS
  Tracks,       \* the down tracks
  Unmanaged,    \* those of them that are screen shares of one layer
  Feeds,        \* records of bitrates and seen layers a publisher may send
  Maxima,       \* the maximal layers a subscriber may ask for
  AllowPause,   \* the initial setting
  MaxEvents,    \* bound of the queue
  MaxActs,      \* bound of what happens outside
  Scenarios     \* records of the estimates (caps), the priorities, and what may happen beside the
                \* estimator (env): "feed", "mute", "pubMute", "max", "priority", "allowPause",
                \* "override", "remove", "drift", "hold", "probe"

VARIABLES
  scenario,     \* the one of this behaviour
  fwd,          \* the forwarders of the tracks
  feed,         \* what the receiver of each track measures
  videoTracks,  \* those in the map
  dirty, priority, trackMax, streamState,  \* fields of Track
  allocState,   \* state
  allowPause, committedCap, overriddenCap, allocateAllPending,
  congestion,   \* BWE.CongestionState()
  probe,        \* the active probe: "none", "active" or "congesting"
  allocQueue, acts,
  outrun        \* history: tracks whose Resume came after a decision to pause them

trackVars == <<dirty, priority, trackMax, streamState>>
capacityVars == <<allocState, allowPause, committedCap, overriddenCap, probe>>
allocVars == <<scenario, fwd, feed, videoTracks, trackVars, capacityVars, allocateAllPending, congestion, allocQueue, acts, outrun>>

Managed(t) == t \notin Unmanaged
Stable == "STABLE"
Deficient == "DEFICIENT"

AllocInit ==
  /\ scenario \in Scenarios
  /\ fwd = [t \in Tracks |-> NewForwarder(TRUE, <<MaxSpatial, MaxTemporal>>)]
  /\ feed = [t \in Tracks |-> [brs |-> NoBitrates, avail |-> {}]]
  /\ videoTracks = {} /\ dirty = [t \in Tracks |-> FALSE]
  /\ priority \in [Tracks -> scenario.priorities] /\ trackMax = [t \in Tracks |-> <<MaxSpatial, MaxTemporal>>]
  /\ streamState = [t \in Tracks |-> "inactive"]
  /\ allocState = Stable /\ allowPause = AllowPause /\ committedCap = 0 /\ overriddenCap = 0
  /\ allocateAllPending = FALSE /\ congestion = "none" /\ probe = "none"
  /\ allocQueue = <<>> /\ acts = 0 /\ outrun = {}

AllocTypeOK ==
  /\ \A t \in Tracks : fwd[t].target \in Layers \cup {InvalidLayer} /\ fwd[t].current \in Layers \cup {InvalidLayer}
  /\ videoTracks \subseteq Tracks /\ streamState \in [Tracks -> {"inactive", "active", "paused"}]
  /\ allocState \in {Stable, Deficient} /\ congestion \in {"none", "earlyWarning", "congested"}
  /\ probe \in {"none", "active", "congesting"} /\ Len(allocQueue) <= MaxEvents

-----------------------------------------------------------------------------
(* The orders sort.Sort may leave: it is not stable, and the tracks come    *)
(* out of a map.                                                            *)
Orders(S, Before(_, _)) ==
  {q \in SetToSeqs(S) : \A i, j \in DOMAIN q : i < j => ~Before(q[j], q[i])}
TrackSorter(a, b) ==
  \/ priority[a] > priority[b]
  \/ priority[a] = priority[b] /\ GreaterThan(trackMax[a], trackMax[b])
Distance(fs, t) == DistanceToDesired(fs[t], feed[t].brs, feed[t].avail)
MaxDistance(fs, a, b) ==
  \/ priority[a] > priority[b]
  \/ priority[a] = priority[b] /\ Farther(fs[a], Distance(fs, a), fs[b], Distance(fs, b))
MinDistance(fs, a, b) ==
  \/ priority[a] < priority[b]
  \/ priority[a] = priority[b] /\ Farther(fs[b], Distance(fs, b), fs[a], Distance(fs, a))

Requested(fs, S) == MapThenSumSet(LAMBDA t : BandwidthRequested(fs[t], feed[t].brs), S)
DeficientTracks(fs) == {t \in videoTracks : fs[t].last.deficient}

(* updateStreamStateChange: a pause is told, a mute is not.                 *)
(* A form of it that says nothing of a pause.                               *)
StreamStateForgetsPause(old, f) == IF f.last.pause \in {"muted", "pubMuted"} THEN "inactive" ELSE old
StreamStateOf(old, f) ==
  CASE f.last.pause \in {"muted", "pubMuted"} -> "inactive"
    [] f.last.pause = "bandwidth" -> "paused"
    [] OTHER -> old
Restate(fs, touched) == [t \in Tracks |-> IF t \in touched THEN StreamStateOf(streamState[t], fs[t]) ELSE streamState[t]]

(* adjustState and setState: stable again, the estimator starts afresh.     *)
adjustState(fs) ==
  /\ allocState' = IF DeficientTracks(fs) # {} THEN Deficient ELSE Stable
  /\ IF allocState = Deficient /\ allocState' = Stable
     THEN congestion' = "none" /\ probe' = "none"
     ELSE UNCHANGED <<congestion, probe>>

-----------------------------------------------------------------------------
(* maybeBoostDeficientTracks: one layer at a time for the track farthest    *)
(* from what it wants, until nothing more fits.  All results of the sorts.  *)
BoostsOf(fs, capacity) ==
  LET next(t) == AllocateNextHigher(fs[t], feed[t].brs, capacity, FALSE)
      wanting == {t \in DeficientTracks(fs) : Managed(t)}
      first(q) == q[Min({i \in DOMAIN q : next(q[i]).boosted})]
      boost(t) == [fs |-> [fs EXCEPT ![t] = next(t).f], left |-> capacity - next(t).delta]
  IN  IF capacity <= 0 \/ ~\E t \in wanting : next(t).boosted THEN {[fs |-> fs, left |-> 0]}
      ELSE {boost(first(q)) : q \in Orders(wanting, LAMBDA a, b : MaxDistance(fs, a, b))}
(* Every boost takes a track up by a layer, so that there are not more.     *)
MaxBoosts == Cardinality(Tracks) * (MaxSpatial + 1) * (MaxTemporal + 1)
Boosts(fs, capacity) ==
  LET after[n \in 0..MaxBoosts] ==
        IF n = 0 THEN {[fs |-> fs, left |-> capacity]}
        ELSE UNION {BoostsOf(x.fs, x.left) : x \in after[n - 1]}
  IN  {x.fs : x \in after[MaxBoosts]}
AfterBoost(fs, committed) ==
  LET headroom == committed - Requested(fs, videoTracks)
  IN  IF headroom <= 0 THEN {fs} ELSE Boosts(fs, headroom)

(* Sharing out a capacity layer by layer: every track, by priority, takes a *)
(* layer that still fits before anyone takes the next.                      *)
(* A form of it that gives what one track takes to the others as well.      *)
SharesTwice(order, capacity) ==
  LET offer(p, l, t) ==
        [p EXCEPT ![t] = ProvisionalAllocate(fwd[t], p[t], feed[t].brs, capacity, l, allowPause, FALSE).layer]
  IN  FoldLeft(LAMBDA p, l : FoldLeft(LAMBDA a, t : offer(a, l, t), p, order), [t \in Tracks |-> InvalidLayer], AllUpward)
Shares(order, capacity) ==
  LET offer(acc, l, t) ==
        LET r == ProvisionalAllocate(fwd[t], acc.p[t], feed[t].brs, acc.capacity, l, allowPause, FALSE)
        IN  [p |-> [acc.p EXCEPT ![t] = r.layer], capacity |-> Larger(0, acc.capacity - r.used)]
      round(acc, l) == FoldLeft(LAMBDA a, t : offer(a, l, t), acc, order)
      start == [p |-> [t \in Tracks |-> InvalidLayer], capacity |-> capacity]
  IN  FoldLeft(round, start, AllUpward).p

(* allocateAllTracks, with a new committed capacity.                        *)
ChannelCapacity(committed) == IF overriddenCap' > 0 THEN overriddenCap' ELSE committed
allocateAllTracks(committed) ==
  LET optimal(t) == AllocateOptimal(fwd[t], feed[t].brs, feed[t].avail, TRUE, FALSE)
      exempt == videoTracks \cap Unmanaged
      managed == videoTracks \ Unmanaged
      left == Larger(0, ChannelCapacity(committed)
                          - MapThenSumSet(LAMBDA t : optimal(t).last.requested, exempt))
  IN  /\ \E order \in Orders(managed, TrackSorter) :
           LET p == Shares(order, left)
           IN  fwd' = [t \in Tracks |->
                 CASE t \in exempt -> optimal(t)
                   [] t \in managed -> IF left = 0 /\ allowPause THEN Pause(fwd[t], feed[t].brs)
                                       ELSE ProvisionalAllocateCommit(fwd[t], p[t], feed[t].brs)
                   [] OTHER -> fwd[t]]
      /\ streamState' = Restate(fwd', videoTracks)
      /\ adjustState(fwd')

-----------------------------------------------------------------------------
(* allocateTrack.  What the headroom has room for, when the track needs     *)
(* more: the best layer, and what is provisionally allocated, which goes    *)
(* one layer further when that layer alone is too much.                     *)
BestFit(t, headroom) ==
  LET try(acc, l) ==
        LET r == ProvisionalAllocate(fwd[t], acc.p, feed[t].brs, headroom, l, allowPause, FALSE)
        IN  IF acc.stop THEN acc
            ELSE [p |-> r.layer, stop |-> headroom < r.used,
                  best |-> IF headroom >= r.used /\ r.taken THEN l ELSE acc.best]
  IN  FoldLeft(try, [p |-> InvalidLayer, best |-> InvalidLayer, stop |-> FALSE], AllUpward)

(* The tracks that give bandwidth back for t, nearest to what they want     *)
(* first, until there is enough.                                            *)
Gives(t) == BestWeightedTransition(fwd[t], feed[t].brs)
Acquired(S) == MapThenSumSet(LAMBDA x : 0 - Gives(x).delta, S)
Contributors(order, need) ==
  LET before(i) == {order[j] : j \in {k \in 1..(i - 1) : Gives(order[k]).delta < 0}}
  IN  {order[i] : i \in {k \in DOMAIN order : Gives(order[k]).delta < 0
                                               /\ (before(k) = {} \/ Acquired(before(k)) < need)}}

Cooperates(t) ==
  LET tr == CooperativeTransition(fwd[t], feed[t].brs, FALSE)
      givers == {x \in videoTracks : Managed(x) /\ x # t}
  IN  \E order \in Orders(givers, LAMBDA a, b : MinDistance(fwd, a, b)) :
        LET S == Contributors(order, tr.delta)
            enough == Acquired(S) >= tr.delta
        IN  /\ fwd' = [x \in Tracks |->
                 CASE x \in S /\ enough -> ProvisionalAllocateCommit(fwd[x], Gives(x).to, feed[x].brs)
                   [] x = t -> IF ~allowPause \/ enough THEN ProvisionalAllocateCommit(fwd[t], tr.to, feed[t].brs)
                               ELSE Pause(fwd[t], feed[t].brs)
                   [] OTHER -> fwd[x]]
            /\ streamState' = Restate(fwd', {t} \cup (IF enough THEN S ELSE {}))
            /\ adjustState(fwd')

allocateTrack(t) ==
  LET tr == CooperativeTransition(fwd[t], feed[t].brs, FALSE)
      headroom == committedCap - Requested(fwd, videoTracks \ {t})
      fit == BestFit(t, headroom)
  IN  IF (allocState = Stable /\ congestion # "congested") \/ ~Managed(t)
      THEN /\ fwd' = [fwd EXCEPT ![t] = AllocateOptimal(@, feed[t].brs, feed[t].avail, TRUE, congestion = "earlyWarning")]
           /\ streamState' = Restate(fwd', {t})
           /\ UNCHANGED <<allocState, congestion, probe>>
      ELSE IF GreaterThan(tr.from, tr.to)
      THEN LET fs == [fwd EXCEPT ![t] = ProvisionalAllocateCommit(@, tr.to, feed[t].brs)]
           IN  /\ streamState' = Restate(fs, {t})
               /\ fwd' \in AfterBoost(fs, committedCap)
               /\ adjustState(fwd')
      ELSE IF tr.from = tr.to THEN UNCHANGED <<fwd, streamState, allocState, congestion, probe>>
      ELSE IF headroom > 0 /\ IsValid(fit.best)
      THEN /\ fwd' = IF GreaterThan(fit.best, tr.from) THEN [fwd EXCEPT ![t] = ProvisionalAllocateCommit(@, fit.p, feed[t].brs)] ELSE fwd
           /\ streamState' = Restate(fwd', IF fwd' # fwd THEN {t} ELSE {})
           /\ adjustState(fwd')
      ELSE Cooperates(t)

-----------------------------------------------------------------------------
(* Posting of events; a track is queued once.                               *)
Room == Len(allocQueue) < MaxEvents /\ acts < MaxActs
Post(e) == allocQueue' = Append(allocQueue, e)
Signal(s) == [signal |-> s, track |-> "", cap |-> 0, from |-> "none", to |-> "none", flag |-> FALSE]
TrackSignal(s, t) == [Signal(s) EXCEPT !.track = t]
PostTrack(t) ==
  IF t \in videoTracks /\ ~dirty[t]
  THEN dirty' = [dirty EXCEPT ![t] = TRUE] /\ Post(TrackSignal("AllocateTrack", t))
  ELSE UNCHANGED <<dirty, allocQueue>>
Outside(kind) == kind \in scenario.env /\ Room /\ acts' = acts + 1
Acts == Room /\ acts' = acts + 1

AddTrack(t) ==
  /\ Acts /\ t \notin videoTracks
  /\ videoTracks' = videoTracks \cup {t}
  /\ dirty' = [dirty EXCEPT ![t] = TRUE] /\ Post(TrackSignal("AllocateTrack", t))
  /\ streamState' = [streamState EXCEPT ![t] = "inactive"]
  /\ trackMax' = [trackMax EXCEPT ![t] = fwd[t].max]
  /\ UNCHANGED <<fwd, feed, priority, capacityVars, allocateAllPending, congestion, outrun>>

RemoveTrack(t) ==
  /\ Outside("remove") /\ t \in videoTracks
  /\ videoTracks' = videoTracks \ {t} /\ Post(Signal("AdjustState"))
  \* the next track of this name is another down track
  /\ fwd' = [fwd EXCEPT ![t] = [NewForwarder(TRUE, <<MaxSpatial, MaxTemporal>>) EXCEPT !.seen = fwd[t].seen]]
  /\ UNCHANGED <<feed, trackVars, capacityVars, allocateAllPending, congestion, outrun>>

SetTrackPriority(t, p) ==
  /\ Outside("priority") /\ t \in videoTracks /\ priority[t] # p
  /\ priority' = [priority EXCEPT ![t] = p]
  /\ allocateAllPending' = TRUE
  /\ IF allocateAllPending THEN UNCHANGED allocQueue ELSE Post(Signal("AllocateAllTracks"))
  /\ UNCHANGED <<fwd, feed, videoTracks, dirty, trackMax, streamState, capacityVars, congestion, outrun>>

SetAllowPause ==
  /\ Outside("allowPause") /\ Post([Signal("SetAllowPause") EXCEPT !.flag = ~allowPause])
  /\ UNCHANGED <<fwd, feed, videoTracks, trackVars, capacityVars, allocateAllPending, congestion, outrun>>

SetChannelCapacity(c) ==
  /\ Outside("override") /\ Post([Signal("SetChannelCapacity") EXCEPT !.cap = c])
  /\ UNCHANGED <<fwd, feed, videoTracks, trackVars, capacityVars, allocateAllPending, congestion, outrun>>

(* The receiver of a track sees other layers: the notifications of bitrates *)
(* and published layers, each of which has the track allocated.             *)
UpTrackChange(t, new) ==
  /\ Acts /\ feed[t] # new /\ ("feed" \in scenario.env \/ feed[t].avail = {})
  /\ feed' = [feed EXCEPT ![t] = new]
  /\ fwd' = [fwd EXCEPT ![t] = SetMaxTemporalLayerSeen(SetMaxPublishedLayer(@, MaxSpatial), MaxTemporal)]
  /\ PostTrack(t)
  /\ UNCHANGED <<videoTracks, priority, trackMax, streamState, capacityVars, allocateAllPending, congestion, outrun>>

(* Bitrates drift without notice as long as the same layers have one.       *)
BitratesDrift(t, new) ==
  /\ Outside("drift") /\ feed[t] # new /\ feed[t].avail = new.avail
  /\ \A l \in Layers : (feed[t].brs[l] = 0) = (new.brs[l] = 0)
  /\ feed' = [feed EXCEPT ![t] = new]
  /\ UNCHANGED <<fwd, videoTracks, trackVars, capacityVars, allocateAllPending, congestion, allocQueue, outrun>>

(* A mute of the subscriber is ignored while the stream is paused.          *)
MuteTrack(t) ==
  /\ Outside("mute") /\ (~fwd[t].muted => t \notin videoTracks \/ streamState[t] # "paused")
  /\ fwd' = [fwd EXCEPT ![t] = Mute(@, ~fwd[t].muted)]
  /\ PostTrack(t)
  /\ UNCHANGED <<feed, videoTracks, priority, trackMax, streamState, capacityVars, allocateAllPending, congestion, outrun>>

PubMuteTrack(t) ==
  /\ Outside("pubMute")
  /\ fwd' = [fwd EXCEPT ![t] = PubMute(@, ~fwd[t].pubMuted)]
  /\ PostTrack(t)
  /\ UNCHANGED <<feed, videoTracks, priority, trackMax, streamState, capacityVars, allocateAllPending, congestion, outrun>>

(* DownTrack.SetMaxSpatialLayer and SetMaxTemporalLayer.                    *)
SubscribedLayer(t, l) ==
  /\ Outside("max") /\ fwd[t].max # l
  /\ fwd' = [fwd EXCEPT ![t] = SetMaxTemporalLayer(SetMaxSpatialLayer(@, l[1]), l[2])]
  /\ IF t \in videoTracks
     THEN trackMax' = [trackMax EXCEPT ![t] = l] /\ PostTrack(t)
     ELSE UNCHANGED <<dirty, trackMax, allocQueue>>
  /\ UNCHANGED <<feed, videoTracks, priority, streamState, capacityVars, allocateAllPending, congestion, outrun>>

(* The forwarder reaches its target, and a stream that starts says so.      *)
Reach(t) ==
  /\ IsValid(fwd[t].target) /\ fwd[t].current # fwd[t].target /\ Len(allocQueue) < MaxEvents
  /\ ~fwd[t].muted /\ ~fwd[t].pubMuted /\ fwd[t].target[1] \in feed[t].avail
  /\ fwd' = [fwd EXCEPT ![t] = Switched(@)]
  /\ IF ~IsValid(fwd[t].current) /\ t \in videoTracks THEN Post(TrackSignal("Resume", t)) ELSE UNCHANGED allocQueue
  /\ UNCHANGED <<feed, videoTracks, trackVars, capacityVars, allocateAllPending, congestion, acts, outrun>>

(* The estimator changes its mind.                                          *)
OnCongestionStateChange(to, c) ==
  /\ Acts /\ (congestion # to \/ to = "congested")
  /\ (to = "earlyWarning" => "hold" \in scenario.env)
  /\ congestion' = to
  /\ Post([Signal("CongestionStateChange") EXCEPT !.cap = c, !.from = congestion, !.to = to])
  /\ UNCHANGED <<fwd, feed, videoTracks, trackVars, capacityVars, allocateAllPending, outrun>>

ProbeStarts ==
  /\ "probe" \in scenario.env /\ Acts
  /\ probe = "none" /\ allocState = Deficient /\ overriddenCap = 0 /\ congestion = "none"
  /\ \E t \in DeficientTracks(fwd) : Managed(t)
       /\ LET n == GetNextHigherTransition(fwd[t], feed[t].brs, TRUE) IN n.available /\ n.delta >= 0
  /\ probe' = "active"
  /\ UNCHANGED <<fwd, feed, videoTracks, trackVars, allocState, allowPause, committedCap, overriddenCap,
                 allocateAllPending, congestion, allocQueue, outrun>>

-----------------------------------------------------------------------------
(* The goroutine of the allocator.                                          *)
Take(s) == allocQueue # <<>> /\ Head(allocQueue).signal = s /\ allocQueue' = Tail(allocQueue)
Event == Head(allocQueue)

handleSignalAllocateTrack ==
  /\ Take("AllocateTrack")
  /\ dirty' = IF Event.track \in videoTracks THEN [dirty EXCEPT ![Event.track] = FALSE] ELSE dirty
  /\ IF Event.track \in videoTracks THEN allocateTrack(Event.track)
     ELSE UNCHANGED <<fwd, streamState, allocState, congestion, probe>>
  /\ outrun' = {t \in outrun : fwd'[t].last.pause = "bandwidth" /\ streamState'[t] # "paused"}
  /\ UNCHANGED <<feed, videoTracks, priority, trackMax, allowPause, committedCap, overriddenCap, allocateAllPending, acts>>

handleSignalAllocateAllTracks ==
  /\ Take("AllocateAllTracks")
  /\ allocateAllPending' = FALSE /\ UNCHANGED <<overriddenCap, committedCap>>
  /\ IF allocState = Deficient THEN allocateAllTracks(committedCap)
     ELSE UNCHANGED <<fwd, streamState, allocState, congestion, probe>>
  /\ outrun' = {t \in outrun : fwd'[t].last.pause = "bandwidth" /\ streamState'[t] # "paused"}
  /\ UNCHANGED <<feed, videoTracks, dirty, priority, trackMax, allowPause, acts>>

handleSignalAdjustState ==
  /\ Take("AdjustState") /\ adjustState(fwd)
  /\ UNCHANGED <<fwd, feed, videoTracks, trackVars, allowPause, committedCap, overriddenCap, allocateAllPending, acts, outrun>>

handleSignalResume ==
  /\ Take("Resume")
  /\ streamState' = IF Event.track \in videoTracks THEN [streamState EXCEPT ![Event.track] = "active"] ELSE streamState
  /\ outrun' = IF Event.track \in videoTracks /\ fwd[Event.track].last.pause = "bandwidth"
               THEN outrun \cup {Event.track} ELSE outrun
  /\ UNCHANGED <<fwd, feed, videoTracks, dirty, priority, trackMax, capacityVars, allocateAllPending, congestion, acts>>

handleSignalSetAllowPause ==
  /\ Take("SetAllowPause") /\ allowPause' = Event.flag
  /\ UNCHANGED <<fwd, feed, videoTracks, trackVars, allocState, committedCap, overriddenCap, probe, allocateAllPending, congestion, acts, outrun>>

handleSignalSetChannelCapacity ==
  /\ Take("SetChannelCapacity") /\ overriddenCap' = Event.cap
  /\ IF Event.cap > 0 THEN allocateAllTracks(committedCap)
     ELSE UNCHANGED <<fwd, streamState, allocState, congestion, probe>>
  /\ outrun' = {t \in outrun : fwd'[t].last.pause = "bandwidth" /\ streamState'[t] # "paused"}
  /\ UNCHANGED <<feed, videoTracks, dirty, priority, trackMax, allowPause, committedCap, allocateAllPending, acts>>

(* The end of a hold lets every track go on; congestion shares out what the *)
(* estimator found, unless a probe caused it.                               *)
handleSignalCongestionStateChange ==
  /\ Take("CongestionStateChange") /\ UNCHANGED overriddenCap
  /\ CASE Event.from = "earlyWarning" /\ Event.to = "none" /\ allocState = Stable ->
            /\ fwd' = [t \in Tracks |-> IF t \in videoTracks
                        THEN AllocateOptimal(fwd[t], feed[t].brs, feed[t].avail, TRUE, FALSE) ELSE fwd[t]]
            /\ streamState' = Restate(fwd', videoTracks)
            /\ UNCHANGED <<committedCap, allocState, congestion, probe>>
       [] Event.to = "congested" /\ probe = "none" ->
            committedCap' = Event.cap /\ allocateAllTracks(Event.cap)
       [] Event.to = "congested" /\ probe # "none" ->
            probe' = "congesting" /\ UNCHANGED <<fwd, streamState, committedCap, allocState, congestion>>
       [] OTHER -> UNCHANGED <<fwd, streamState, committedCap, allocState, congestion, probe>>
  /\ outrun' = {t \in outrun : fwd'[t].last.pause = "bandwidth" /\ streamState'[t] # "paused"}
  /\ UNCHANGED <<feed, videoTracks, dirty, priority, trackMax, allowPause, allocateAllPending, acts>>

(* handleSignalPeriodicPing: a probe is finalized.  The estimator forgets   *)
(* the congestion it caused.                                                *)
ProbeFinalized(c) ==
  /\ probe # "none" /\ probe' = "none"
  /\ IF probe = "congesting" THEN UNCHANGED <<fwd, streamState, committedCap, allocState, congestion>>
     ELSE /\ committedCap' = Larger(committedCap, c)
          /\ fwd' \in AfterBoost(fwd, committedCap')
          /\ UNCHANGED streamState
          /\ allocState' = IF DeficientTracks(fwd') # {} THEN Deficient ELSE Stable
          /\ congestion' = "none"
  /\ UNCHANGED <<feed, videoTracks, dirty, priority, trackMax, allowPause, overriddenCap, allocateAllPending, allocQueue, acts, outrun>>

(* ... and the estimator is reset when nothing was sent for a while.        *)
PausedTooLong ==
  /\ "probe" \in scenario.env /\ allowPause /\ allocState = Deficient /\ congestion # "none"
  /\ \A t \in videoTracks : ~IsValid(fwd[t].current)
  /\ congestion' = "none" /\ probe' = "none"
  /\ UNCHANGED <<fwd, feed, videoTracks, trackVars, allocState, allowPause, committedCap, overriddenCap, allocateAllPending, allocQueue, acts, outrun>>

AllocWorker ==
  \/ handleSignalAllocateTrack \/ handleSignalAllocateAllTracks \/ handleSignalAdjustState
  \/ handleSignalResume \/ handleSignalSetAllowPause \/ handleSignalSetChannelCapacity
  \/ handleSignalCongestionStateChange \/ PausedTooLong
  \/ \E c \in scenario.caps : ProbeFinalized(c)
AllocOutside ==
  \/ \E t \in Tracks :
       \/ AddTrack(t) \/ RemoveTrack(t) \/ MuteTrack(t) \/ PubMuteTrack(t) \/ Reach(t)
       \/ \E p \in scenario.priorities : SetTrackPriority(t, p)
       \/ \E x \in Feeds : UpTrackChange(t, x) \/ BitratesDrift(t, x)
       \/ \E l \in Maxima : SubscribedLayer(t, l)
  \/ SetAllowPause \/ ProbeStarts
  \/ \E c \in scenario.caps : SetChannelCapacity(c) \/ \E s \in {"none", "earlyWarning", "congested"} : OnCongestionStateChange(s, c)
AllocNext == (AllocWorker \/ AllocOutside) /\ UNCHANGED scenario
AllocSpec == AllocInit /\ [][AllocNext]_allocVars

-----------------------------------------------------------------------------
AllHandled == allocQueue = <<>>

(* The state of the allocator is that of its tracks: it is deficient, and   *)
(* so looks for more, exactly while some track of the map is.               *)
StateIsTrue == AllHandled => (allocState = Deficient <=> DeficientTracks(fwd) # {})

(* A track paused for want of bandwidth is one the client was told of, and  *)
(* which it is not told is active, unless a Resume was outrun.              *)
PausedIsTold ==
  \A t \in videoTracks : AllHandled /\ fwd[t].last.pause = "bandwidth" /\ t \notin outrun => streamState[t] = "paused"

(* Short of bandwidth, what the tracks ask for fits the capacity that was   *)
(* found, as long as nothing else sets it and bitrates stay as they were.   *)
UsageFits == AllHandled /\ allocState = Deficient => Requested(fwd, videoTracks) <= committedCap

(* A muted track asks for nothing.                                          *)
MutedIsIdle ==
  \A t \in videoTracks : AllHandled /\ (fwd[t].muted \/ fwd[t].pubMuted) => ~IsValid(fwd[t].target)

(* Where pausing is not allowed no track is paused for want of bandwidth.   *)
NoneIsPaused == ~allowPause => \A t \in videoTracks : fwd[t].last.pause # "bandwidth"
=============================================================================
