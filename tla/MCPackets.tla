------------------------------ MODULE MCPackets ------------------------------
(***************************************************************************)
(* The numbers of the packets of a track, for TLC: a behaviour is about a  *)
(* down track, with one of several choices of constants, about the map of  *)
(* ranges it relies on, or about the buffer of a published stream.         *)
(***************************************************************************)
EXTENDS Integers, Sequences, FiniteSets

CONSTANTS Parts,   \* those of this run
          MapKeys,   \* bound: the keys of the map are 0..MapKeys
          MapSize,   \* closed ranges that it keeps
          MapSteps   \* bound: calls to it

(* A map keeps a number of closed ranges; it begins at one of keys 0..2.    *)
ASSUME MapBounds == MapKeys \in Nat \ {0, 1} /\ MapSize \in Nat

VARIABLES part, got, mg, muted, target, pend, pads, burst, sq, used, missing,
          ranges, highest, ref, steps,
          first,  \* the key the map was last reset at
          cuts,   \* keys at which the offset has changed since
          pbLimits, pbSrc, pbEpoch, pbNow, pbSeen, pbBuf, pbSess, pbRtx, pbOut, pbTold

trackVars == <<got, mg, muted, target, pend, pads, burst, sq, used, missing>>
mapVars == <<ranges, highest, ref, steps, first, cuts>>
bufferVars == <<pbLimits, pbSrc, pbEpoch, pbNow, pbSeen, pbBuf, pbSess, pbRtx, pbOut, pbTold>>
allVars == <<part, trackVars, mapVars, bufferVars>>

(* One layer, whose packets are dropped, empty, late or doubled; two layers *)
(* with mute and pause; padding before the first packet; a small sequencer; *)
(* one that is large enough for padding that is recorded late.              *)
Dropping ==
  INSTANCE DownTrackPackets
    WITH Layers <- {0}, MaxPkts <- 5, MaxGap <- 1, Reorder <- 2, MaxSwitches <- 1, MaxPads <- 1,
         Size <- 3, Ranges <- 1, OutSpace <- 16,
         Fates <- {"filtered", "unselected", "withheld"}, Env <- {"empty", "dup"}
Switching ==
  INSTANCE DownTrackPackets
    WITH Layers <- {0, 1}, MaxPkts <- 3, MaxGap <- 1, Reorder <- 1, MaxSwitches <- 2, MaxPads <- 1,
         Size <- 3, Ranges <- 2, OutSpace <- 16, Fates <- {"withheld"}, Env <- {"mute", "pause"}
Starting ==
  INSTANCE DownTrackPackets
    WITH Layers <- {0, 1}, MaxPkts <- 3, MaxGap <- 1, Reorder <- 1, MaxSwitches <- 2, MaxPads <- 1,
         Size <- 3, Ranges <- 2, OutSpace <- 16, Fates <- {}, Env <- {"early"}
Nacking ==
  INSTANCE DownTrackPackets
    WITH Layers <- {0, 1}, MaxPkts <- 3, MaxGap <- 1, Reorder <- 1, MaxSwitches <- 2, MaxPads <- 2,
         Size <- 3, Ranges <- 2, OutSpace <- 16, Fates <- {}, Env <- {}
Resending ==
  INSTANCE DownTrackPackets
    WITH Layers <- {0}, MaxPkts <- 6, MaxGap <- 1, Reorder <- 2, MaxSwitches <- 1, MaxPads <- 2,
         Size <- 6, Ranges <- 2, OutSpace <- 16, Fates <- {"withheld"}, Env <- {}

(* The map against one that keeps an entry for every key.  The calls are    *)
(* those RTPMunger and sequencer make: keys are excluded, and offsets       *)
(* lowered, at the highest key seen so far, and lookups go anywhere.        *)
Map == INSTANCE RangeMap

Excluded == 1000

MapInit ==
  /\ highest \in 0..2
  /\ ranges = Map!Fresh(highest, 0) /\ ref = [k \in 0..MapKeys |-> 0]
  /\ first = highest /\ cuts = <<>> /\ steps = 0

MapAdvance(k) ==
  /\ highest' = k
  /\ UNCHANGED <<ranges, ref, first, cuts>>

(* Packets k..e-1 are dropped.                                              *)
MapExclude(k, e) ==
  /\ Map!CanExclude(ranges, k, e)
  /\ ranges' = Map!ExcludeRange(ranges, k, e, MapSize)
  /\ cuts' = Append(cuts, k) /\ UNCHANGED first
  /\ ref' = [i \in 0..MapKeys |-> CASE i >= k /\ i < e -> Excluded
                                    [] i >= e -> ref[i] + (e - k)
                                    [] OTHER -> ref[i]]
  /\ highest' = e - 1

(* Padding is sent after the highest key.                                   *)
MapPad(num) ==
  /\ ranges' = Map!DecValue(ranges, highest, num, MapSize)
  /\ cuts' = Append(cuts, highest + 1) /\ UNCHANGED first
  /\ ref' = [i \in 0..MapKeys |-> IF i > highest THEN ref[i] - num ELSE ref[i]]
  /\ UNCHANGED highest

MapReset(k, val) ==
  /\ ranges' = Map!Fresh(k, val) /\ highest' = k /\ first' = k /\ cuts' = <<>>
  /\ ref' = [i \in 0..MapKeys |-> val]

MapNext ==
  /\ steps < MapSteps /\ steps' = steps + 1
  /\ \/ \E k \in (highest + 1)..MapKeys : MapAdvance(k) \/ MapExclude(highest + 1, k)
     \/ \E num \in 1..2 : MapPad(num)
     \/ \E k \in 0..MapKeys : MapReset(k, 2)

MapSpec == MapInit /\ [][MapNext]_mapVars

(* The buffer: losses and late packets, with padding; NACKs and RTX; silence *)
(* over half a cycle of the timestamp; restarts found, not found and ordered *)
(* by the receiver; statistics; sender reports; the pairing of RTX streams.  *)
(* Sequence numbers and timestamps start shortly before they wrap.           *)
One == <<[sn |-> 13, ts |-> 14]>>
Lower == One \o <<[sn |-> 3, ts |-> 3]>>
Same == One \o <<[sn |-> 13, ts |-> 3]>>
Case(sends, waits, reorder, often, bases, cap, env) ==
  [sends |-> sends, steps |-> waits, reorder |-> reorder, often |-> often, bases |-> bases, cap |-> cap, env |-> env]
Streams ==
  {Case(4, {1}, 3, 2, One, 3, {"empty"}),
   Case(4, {1}, 3, 2, One, 4, {"nack", "rtx", "unbound"}),
   Case(4, {1, 9, 11}, 2, 1, One, 4, {}),
   Case(6, {1}, 2, 1, Lower, 4, {"detect", "read"}),
   Case(3, {1}, 2, 2, One, 4, {"detect", "read"}),
   Case(4, {1}, 2, 1, Same, 4, {"order", "read", "close"}),
   Case(3, {1}, 2, 2, One, 4, {"empty", "delta"}),
   Case(3, {1, 7, 9, 20}, 0, 1, One, 4, {"report"}),
   Case(3, {1}, 2, 2, One, 4, {"rtx", "pairing", "unbound"})}
Buffer ==
  INSTANCE PacketBuffer
    WITH SnMod <- 16, TsMod <- 16, History <- 3, Threshold <- 3, Slack <- 2, Scenarios <- Streams

PartsInit ==
  /\ part \in Parts
  /\ CASE part = "resending" -> Resending!Init
       [] part = "dropping" -> Dropping!Init
       [] OTHER -> Switching!Init
  /\ MapInit /\ (part # "map" => highest = 0)
  /\ Buffer!pbInit /\ (part # "buffer" => pbLimits.env = {})

TrackStep ==
  /\ \/ part = "dropping" /\ Dropping!Next
     \/ part = "switching" /\ Switching!Next
     \/ part = "starting" /\ Starting!Next
     \/ part = "nacking" /\ Nacking!Next
     \/ part = "resending" /\ Resending!Next
  /\ UNCHANGED <<part, mapVars, bufferVars>>
MapStep == part = "map" /\ MapNext /\ UNCHANGED <<part, trackVars, bufferVars>>
BufferStep == part = "buffer" /\ Buffer!pbNext /\ UNCHANGED <<part, trackVars, mapVars>>

PartsSpec == PartsInit /\ [][TrackStep \/ MapStep \/ BufferStep]_allVars

-----------------------------------------------------------------------------
(* A sequence number is used once, a hole in the numbers is a packet that   *)
(* is missing upstream or was held back after it had a number, and the      *)
(* order of the source is the order of the numbers and timestamps.  The     *)
(* same holds of the numbers a published stream is given, across the wraps  *)
(* of both clocks, and a restart of the sender is found and not imagined.   *)
NumbersAreExact ==
  /\ part = "dropping" => Dropping!NumbersAreUnique /\ Dropping!NoHoleOfOurOwn
  /\ part = "starting" => Starting!NumbersAreUnique /\ Starting!NoHoleOfOurOwn
  /\ part = "switching" => Switching!OrderIsKept
  /\ part = "buffer" => /\ Buffer!NumbersAreTrue /\ Buffer!HolesAreMissing
                        /\ Buffer!RestartIsSeen /\ Buffer!RestartIsReal

(* A NACK is answered with what was sent under that number, and it is       *)
(* answered at all for a packet sent recently.  Upstream, a packet that is  *)
(* missing is asked for, and its RTX stream finds the buffer it repairs.    *)
NacksAreAnswered ==
  /\ part = "nacking" => Nacking!AnswersAreTrue
  /\ part = "resending" => Resending!RecentCanBeSentAgain
  /\ part = "buffer" => Buffer!MissingIsAskedFor /\ Buffer!PairIsLinked

(* The losses the statistics of a published stream count are those that     *)
(* happened, the deltas add up to them, and the sender reports are on the   *)
(* clock of the sender however often its timestamp wraps.                   *)
StatsAreTrue ==
  part = "buffer" => Buffer!LostIsExact /\ Buffer!DeltasAddUp /\ Buffer!ReportsAreTrue

(* The ranges are in order and do not touch the keys between them.          *)
MapSorted ==
  \A i \in 1..(Len(ranges) - 1) :
    ranges[i].start <= ranges[i].end /\ ranges[i].end < ranges[i + 1].start

(* A lookup gives the offset that all calls together give the key, says     *)
(* excluded of excluded keys only, and too old only of a key from before    *)
(* the reset or one that more than MapSize later changes have pushed out.   *)
LookupsAgree ==
  \A k \in 0..MapKeys :
    LET v == Map!GetValue(ranges, k)
    IN  CASE v.err = "none" -> v.v = ref[k]
          [] v.err = "excluded" -> ref[k] = Excluded
          [] OTHER -> \/ k < first \/ ref[k] = Excluded
                      \/ Cardinality({i \in DOMAIN cuts : cuts[i] > k}) > MapSize

(* A lookup in the map gives the offset that all calls together give it,    *)
(* however exclusions, padding and resets follow on each other.             *)
Agrees == part = "map" => MapSorted /\ LookupsAgree
=============================================================================
