--------------------------- MODULE VideoAllocation ---------------------------
(***************************************************************************)
(* Layer allocation of one video down track (sfu/forwarder.go): the        *)
(* methods the stream allocator calls, as operators on a record f of the   *)
(* fields of the Forwarder they use.  A layer is a pair of spatial and     *)
(* temporal layer; brs gives the measured bitrate of every layer, 0 where  *)
(* none is known; avail is the set of spatial layers the stream trackers   *)
(* see.  Each call holds the lock of the forwarder.                        *)
(***************************************************************************)
EXTENDS Integers, Sequences, FiniteSets, FiniteSetsExt, SequencesExt

CONSTANTS MaxSpatial, MaxTemporal  \* DefaultMaxLayerSpatial, DefaultMaxLayerTemporal

InvalidLayer == <<-1, -1>>
Layers == (0..MaxSpatial) \X (0..MaxTemporal)
NoBitrates == [l \in Layers |-> 0]
IsValid(l) == l[1] # -1 /\ l[2] # -1
GreaterThan(a, b) == a[1] > b[1] \/ (a[1] = b[1] /\ a[2] > b[2])
Smaller(a, b) == IF a < b THEN a ELSE b
Larger(a, b) == IF a > b THEN a ELSE b

(* The layers of a rectangle in the order of two nested loops upward.       *)
Upward(s1, s2, t1, t2) ==
  SetToSortSeq({l \in Layers : l[1] >= s1 /\ l[1] <= s2 /\ l[2] >= t1 /\ l[2] <= t2}, LAMBDA a, b : GreaterThan(b, a))
AllUpward == Upward(0, MaxSpatial, 0, MaxTemporal)

(* The first and the last layer of a rectangle with a bitrate.              *)
WithBitrate(brs, s1, s2, t1, t2) ==
  {l \in Layers : l[1] >= s1 /\ l[1] <= s2 /\ l[2] >= t1 /\ l[2] <= t2 /\ brs[l] # 0}
Lowest(S) == IF S = {} THEN InvalidLayer ELSE CHOOSE l \in S : \A k \in S : ~GreaterThan(l, k)
Highest(S) == IF S = {} THEN InvalidLayer ELSE CHOOSE l \in S : \A k \in S : ~GreaterThan(k, l)

(* VideoAllocationDefault, and a Forwarder that has seen no packet.         *)
VideoAllocationDefault == [deficient |-> FALSE, pause |-> "feedDry", requested |-> 0]
NewForwarder(overshootOkay, maxLayer) ==
  [muted |-> FALSE, pubMuted |-> FALSE, max |-> maxLayer, seen |-> <<-1, -1>>,
   current |-> InvalidLayer, target |-> InvalidLayer, request |-> -1,
   last |-> VideoAllocationDefault, overshoot |-> overshootOkay]

getOptimalBandwidthNeeded(f, brs, maxLayer) ==
  LET top == Highest(WithBitrate(brs, 0, maxLayer[1], 0, maxLayer[2]))
  IN  IF f.muted \/ f.pubMuted \/ f.seen[1] = -1 \/ ~IsValid(top) THEN 0 ELSE brs[top]

getBandwidthNeeded(brs, layer, fallback) ==
  IF IsValid(layer) /\ brs[layer] > 0 THEN brs[layer] ELSE fallback
BandwidthRequested(f, brs) == getBandwidthNeeded(brs, f.target, f.last.requested)

(* getDistanceToDesired, times the number of temporal layers seen.          *)
MaxAvailable(f, brs, avail) ==
  LET measured == {l \in Layers : brs[l] # 0}
      top == IF measured = {} THEN -1 ELSE Max({l[1] : l \in measured})
      seenTop == IF avail = {} THEN -1 ELSE Max(avail)
  IN  <<Larger(top, seenTop), IF seenTop > top THEN f.seen[2] ELSE -1>>
AdjustedMax(f, brs, avail) ==
  LET a == MaxAvailable(f, brs, avail)
      s == Smaller(Smaller(f.max[1], a[1]), f.seen[1])
      temporals == {t \in 0..MaxTemporal : s # -1 /\ brs[<<s, t>>] # 0}
      ta == IF temporals = {} THEN a[2] ELSE Max(temporals)
      l == <<s, Smaller(Smaller(f.max[2], ta), f.seen[2])>>
  IN  IF IsValid(l) THEN l ELSE <<0, 0>>
DistanceToDesired(f, brs, avail) ==
  IF f.muted \/ f.pubMuted \/ ~IsValid(f.seen) \/ ~IsValid(f.max) THEN 0
  ELSE LET m == AdjustedMax(f, brs, avail)
           t == IF IsValid(f.target) THEN f.target ELSE <<0, 0>>
       IN  (m[1] - t[1]) * (f.seen[2] + 1) + (m[2] - t[2])
             + (IF IsValid(f.target) THEN 0 ELSE f.seen[2] + 1)
Farther(f, df, g, dg) == df * (g.seen[2] + 1) > dg * (f.seen[2] + 1)

(* updateAllocation: the target is set, and a track without a target starts *)
(* afresh (resyncLocked).                                                   *)
updateAllocation(f, deficient, pause, requested, target, request) ==
  [f EXCEPT !.last = [deficient |-> deficient, pause |-> pause, requested |-> requested],
            !.target = target,
            !.request = IF IsValid(target) THEN request ELSE -1,
            !.current = IF IsValid(target) THEN @ ELSE InvalidLayer]

-----------------------------------------------------------------------------
(* AllocateOptimal: the bandwidth is no concern.                            *)
MaxTemporalSeen(f) == IF f.seen[2] # -1 /\ f.seen[2] < f.max[2] THEN f.seen[2] ELSE f.max[2]
RequestLayerSpatial(f, avail, mayOvershoot) ==
  LET limit == Smaller(f.max[1], f.seen[1])
      under == {a \in avail : a <= limit}
  IN  IF under # {} THEN Max(under)
      ELSE IF avail # {} /\ mayOvershoot THEN Max(avail) ELSE -1

(* The target and the layer key frames are asked for.                       *)
OptimalTarget(f, avail, mayOvershoot, hold) ==
  LET request == RequestLayerSpatial(f, avail, mayOvershoot)
      lowest == IF avail = {} THEN -1 ELSE Min(avail)
      spatial == Smaller(f.seen[1], IF mayOvershoot THEN Larger(f.max[1], f.seen[1]) ELSE f.max[1])
      stays == (request = f.request /\ f.current[1] = f.request) \/ request = -1
      target == CASE IsValid(f.current) /\ stays -> <<f.current[1], MaxTemporalSeen(f)>>
                  [] IsValid(f.current) /\ ~stays /\ hold -> <<lowest, 0>>
                  [] IsValid(f.current) /\ ~stays /\ ~hold -> <<request, MaxTemporalSeen(f)>>
                  [] ~IsValid(f.current) /\ hold -> <<Larger(lowest, 0), 0>>
                  [] OTHER -> <<spatial, MaxTemporalSeen(f)>>
  IN  [target |-> target,
       request |-> IF IsValid(f.current) \/ hold THEN target[1]
                   ELSE IF request = -1 THEN Smaller(f.max[1], f.seen[1]) ELSE request]

AllocateOptimal(f, brs, avail, allowOvershoot, hold) ==
  LET idle == ~IsValid(f.max) \/ f.seen[1] = -1
      choice == IF idle \/ f.muted \/ f.pubMuted THEN [target |-> InvalidLayer, request |-> -1]
                ELSE OptimalTarget(f, avail, allowOvershoot /\ f.overshoot, hold)
      target == IF IsValid(choice.target) THEN choice.target ELSE InvalidLayer
      pause == CASE ~idle /\ f.muted -> "muted"
                 [] ~idle /\ ~f.muted /\ f.pubMuted -> "pubMuted"
                 [] OTHER -> IF getOptimalBandwidthNeeded(f, brs, f.max) = 0 THEN "feedDry" ELSE "none"
      needed == IF IsValid(target) THEN getOptimalBandwidthNeeded(f, brs, target) ELSE 0
  IN  updateAllocation(f, FALSE, pause, needed, target, choice.request)

-----------------------------------------------------------------------------
(* Provisional allocation; p is the allocated layer of the provisional      *)
(* record, whose other fields are those of f.                               *)
(* A layer is taken if it fits in the capacity and what is already held, or *)
(* as the lowest one if pausing is not allowed.                             *)
Candidate(f, p, brs, capacity, layer, allowPause, allowOvershoot) ==
  LET held == IF IsValid(p) THEN brs[p] ELSE 0
      over == GreaterThan(layer, f.max)
  IN  /\ ~f.muted /\ ~f.pubMuted /\ f.seen[1] # -1 /\ IsValid(f.max)
      /\ ~over \/ (allowOvershoot /\ f.overshoot)
      /\ brs[layer] # 0
      /\ \/ ~over /\ brs[layer] <= capacity + held
         \/ ~allowPause /\ (~IsValid(p) \/ ~GreaterThan(layer, p))
ProvisionalAllocate(f, p, brs, capacity, layer, allowPause, allowOvershoot) ==
  IF Candidate(f, p, brs, capacity, layer, allowPause, allowOvershoot)
  THEN [layer |-> layer, used |-> brs[layer] - (IF IsValid(p) THEN brs[p] ELSE 0), taken |-> TRUE]
  ELSE [layer |-> p, used |-> 0, taken |-> FALSE]

(* The transition of a track that needs a change while the channel is       *)
(* congested: never up while it streams, the minimum when it does not.      *)
CooperativeTransition(f, brs, allowOvershoot) ==
  LET existing == f.target
      used == BandwidthRequested(f, brs)
      maximal == Highest(WithBitrate(brs, 0, f.max[1], 0, f.max[2]))
      minimal == Lowest(WithBitrate(brs, 0, f.max[1], 0, f.max[2]))
      beyond == IF IsValid(f.max) /\ allowOvershoot /\ f.overshoot
                THEN Lowest(WithBitrate(brs, f.max[1] + 1, MaxSpatial, 0, MaxTemporal)) ELSE InvalidLayer
      start == IF IsValid(minimal) THEN minimal ELSE beyond
      rate(l) == IF IsValid(l) THEN brs[l] ELSE 0
      to == CASE f.muted \/ f.pubMuted -> InvalidLayer
              [] ~f.muted /\ ~f.pubMuted /\ IsValid(existing) /\ IsValid(maximal)
                   /\ ~GreaterThan(existing, maximal) /\ brs[existing] # 0 -> existing
              [] ~f.muted /\ ~f.pubMuted /\ IsValid(existing) /\ IsValid(maximal)
                   /\ GreaterThan(existing, maximal) -> maximal
              [] OTHER -> IF ~IsValid(existing) /\ IsValid(start) THEN start ELSE f.current
  IN  [from |-> existing, to |-> to,
       delta |-> IF IsValid(existing) /\ to = existing /\ brs[existing] # 0 THEN 0 ELSE rate(to) - used]

(* What a streaming track can best give back: bits saved by what the move   *)
(* down costs.                                                              *)
TransitionCostSpatial == 10
BestWeightedTransition(f, brs) ==
  LET reach == WithBitrate(brs, 0, f.max[1], 0, f.max[2])
      top == Max({l[2] : l \in reach})
      used == BandwidthRequested(f, brs)
      saved(l) == Larger(0, used - brs[l])
      cost(l) == (IF l[1] # f.target[1] THEN TransitionCostSpatial ELSE 0)
                   + (top + 1) * (f.target[1] - l[1]) + (f.target[2] - l[2])
      down == {l \in Layers : l[1] <= f.target[1] /\ l[2] <= f.target[2] /\ l # f.target /\ saved(l) > 0}
      better(a, b) == saved(a) * cost(b) > saved(b) * cost(a)
                        \/ (saved(a) * cost(b) = saved(b) * cost(a)
                              /\ (saved(a) > saved(b) \/ (saved(a) = saved(b) /\ GreaterThan(b, a))))
      best == CHOOSE a \in down : \A b \in down : b = a \/ better(a, b)
  IN  IF f.muted \/ f.pubMuted THEN [to |-> InvalidLayer, delta |-> 0 - used]
      ELSE IF reach = {} THEN [to |-> f.current, delta |-> 0 - used]
      ELSE IF down = {} THEN [to |-> InvalidLayer, delta |-> 0]
      ELSE [to |-> best, delta |-> 0 - saved(best)]

(* ProvisionalAllocateCommit.                                               *)
ProvisionalAllocateCommit(f, p, brs) ==
  LET optimal == getOptimalBandwidthNeeded(f, brs, f.max)
      rate == IF IsValid(p) THEN brs[p] ELSE 0
      short == ~GreaterThan(p, f.max) /\ rate < optimal
  IN  CASE f.muted -> updateAllocation(f, FALSE, "muted", 0, p, p[1])
        [] ~f.muted /\ f.pubMuted -> updateAllocation(f, FALSE, "pubMuted", 0, p, p[1])
        [] ~f.muted /\ ~f.pubMuted /\ optimal = 0 ->
             IF IsValid(p) THEN updateAllocation(f, FALSE, "none", rate, p, p[1])
             ELSE LET stay == IF IsValid(f.current) /\ f.current[1] <= f.max[1] THEN f.current ELSE p
                  IN  updateAllocation(f, FALSE, "feedDry", 0, stay, stay[1])
        [] OTHER -> updateAllocation(f, short, IF short /\ ~IsValid(p) THEN "bandwidth" ELSE "none", rate, p, p[1])

-----------------------------------------------------------------------------
(* The layer a deficient track could go up to: in the spatial layer it has, *)
(* then above it, then above its maximum.                                   *)
NextHigher(f, brs, allowOvershoot, ok(_)) ==
  LET in(s1, s2, t1, t2) == Lowest({l \in WithBitrate(brs, s1, s2, t1, t2) : ok(l)})
      same == IF IsValid(f.target) THEN in(f.target[1], f.target[1], f.target[2] + 1, f.max[2]) ELSE InvalidLayer
      above == in(f.target[1] + 1, f.max[1], 0, f.max[2])
      beyond == IF allowOvershoot /\ f.overshoot /\ IsValid(f.max)
                THEN in(f.max[1] + 1, MaxSpatial, 0, MaxTemporal) ELSE InvalidLayer
  IN  IF IsValid(same) THEN same ELSE IF IsValid(above) THEN above ELSE beyond

Held(f, brs) == IF IsValid(f.target) THEN brs[f.target] ELSE 0

(* AllocateNextHigher: the next layer up if it fits.                        *)
AllocateNextHigher(f, brs, capacity, allowOvershoot) ==
  LET next == NextHigher(f, brs, allowOvershoot, LAMBDA l : TRUE)
      fits == (allowOvershoot /\ f.overshoot) \/ brs[next] - Held(f, brs) <= capacity
      short == ~GreaterThan(next, f.max) /\ brs[next] < getOptimalBandwidthNeeded(f, brs, f.max)
  IN  IF ~f.last.deficient \/ ~IsValid(next) \/ ~fits THEN [f |-> f, boosted |-> FALSE, delta |-> 0]
      ELSE [f |-> updateAllocation(f, short, "none", brs[next], next, next[1]),
            boosted |-> TRUE, delta |-> brs[next] - Held(f, brs)]

(* GetNextHigherTransition: how much more a probe has to find; a target     *)
(* that is still pending is not raised.                                     *)
GetNextHigherTransition(f, brs, allowOvershoot) ==
  LET next == NextHigher(f, brs, allowOvershoot, LAMBDA l : brs[l] >= Held(f, brs))
      pending == IsValid(f.target) /\ f.target # f.current
  IN  IF ~f.last.deficient \/ pending \/ ~IsValid(next) THEN [available |-> FALSE, delta |-> 0]
      ELSE [available |-> TRUE, delta |-> brs[next] - Held(f, brs)]

Pause(f, brs) ==
  LET optimal == getOptimalBandwidthNeeded(f, brs, f.max)
      pause == CASE f.muted -> "muted"
                 [] ~f.muted /\ f.pubMuted -> "pubMuted"
                 [] OTHER -> IF optimal = 0 THEN "feedDry" ELSE "bandwidth"
  IN  updateAllocation(f, pause = "bandwidth", pause, 0, InvalidLayer, -1)

-----------------------------------------------------------------------------
(* Settings of the subscriber.  SetMaxSpatialLayer targets the new maximum  *)
(* at once when nothing is sent and nothing holds the track back.           *)
SetMaxSpatialLayer(f, s) ==
  LET g == [f EXCEPT !.max[1] = s]
  IN  IF f.target[1] # -1 \/ f.last.deficient \/ f.last.pause \in {"muted", "pubMuted"} THEN g
      ELSE updateAllocation(g, f.last.deficient, f.last.pause, 0, g.max, s)
SetMaxTemporalLayer(f, t) == [f EXCEPT !.max[2] = t]
SetMaxPublishedLayer(f, s) == [f EXCEPT !.seen[1] = Larger(@, s)]
SetMaxTemporalLayerSeen(f, t) == [f EXCEPT !.seen[2] = Larger(@, t)]
Mute(f, muted) == [f EXCEPT !.muted = muted, !.current = IF muted THEN InvalidLayer ELSE @]
PubMute(f, muted) == [f EXCEPT !.pubMuted = muted, !.current = IF muted THEN InvalidLayer ELSE @]

(* A key frame of the target was forwarded: processSourceSwitch.            *)
Switched(f) == [f EXCEPT !.current = f.target]
=============================================================================
