-------------------------- MODULE DownTrackPackets --------------------------
(***************************************************************************)
(* The numbering of the packets of one video down track (sfu/forwarder.go, *)
(* rtpmunger.go, sequencer.go, downtrack.go).  The forwarder goroutines of *)
(* the layers and the goroutines that send padding take outgoing sequence  *)
(* numbers under the forwarder's lock and record them under the            *)
(* sequencer's; NACKs are answered from the sequencer.                     *)
(*                                                                         *)
(* Packet n of a layer has number InBase[l] + n; two packets make a frame, *)
(* the second has the marker.  Timestamps of the source count frames.      *)
(***************************************************************************)
EXTENDS RangeMap, FiniteSets, FiniteSetsExt

CONSTANTS Layers,    \* simulcast layers
          MaxPkts,   \* bound: packets of a layer
          MaxGap, Reorder, \* bounds: packets missed at once, and how late one may come
          MaxSwitches, \* bound: changes of source
          MaxPads,   \* bound: bursts of padding
          Size,      \* slots of the sequencer
          Ranges,    \* ranges of the munger's map
          OutSpace,  \* outgoing sequence numbers, 2^16 in the code
          Fates,     \* what else may become of a packet: "filtered", "unselected", "withheld"
          Env        \* "empty" upstream padding, "dup" packets, "mute", "pause", "early" padding

VARIABLES
  got,      \* packets of a layer that have arrived
  mg,       \* forwarder and munger
  muted, target, \* muted; not paused by the stream allocator
  pend,     \* what a forwarder goroutine has numbered and not recorded yet
  pads,     \* the same of the goroutines that send padding
  burst,    \* bursts of padding so far
  sq,       \* sequencer
  used,     \* history: what was sent under which number
  missing   \* history: numbers of the source left out on the way

vars == <<got, mg, muted, target, pend, pads, burst, sq, used, missing>>

None == -1
Padders == {"probe", "start"}
Idle == [pc |-> "idle"]
Empty == [target |-> None]

InBase(l) == 10 * (l + 1)
InSN(l, n) == InBase(l) + n
Frame(n) == (n + 1) \div 2
Marker(n) == n % 2 = 0
Highest(l) == Max({0} \cup got[l])
(* rtpStats is active: a packet that is not padding has been counted.       *)
Active == \E u \in used : u.n # 0

Init ==
  /\ got = [l \in Layers |-> {}]
  /\ mg = [started |-> FALSE, src |-> None, hiIn |-> 0, map |-> Fresh(0, 0), off |-> 0,
           lastSN |-> 0, prevSN |-> 0, lastTS |-> 0, prevTS |-> 0, tsOff |-> 0,
           mark |-> FALSE, prevMark |-> FALSE, epoch |-> 0]
  /\ muted = FALSE /\ target = TRUE
  /\ pend = [l \in Layers |-> Idle] /\ pads = [p \in Padders |-> Idle] /\ burst = 0
  /\ sq = [init |-> FALSE, start |-> 0, hi |-> 0, off |-> 0, map |-> Fresh(0, 0), meta |-> [i \in 0..(Size - 1) |-> Empty]]
  /\ used = {} /\ missing = {}

-----------------------------------------------------------------------------
(* RTPMunger.                                                               *)
updateSnOffset(m) == [m EXCEPT !.off = GetValue(m.map, m.hiIn + 1).v]

SetLastSnTs(m, sn, ts) ==
  updateSnOffset([m EXCEPT !.hiIn = sn - 1, !.lastSN = sn, !.prevSN = sn - 1, !.map = Fresh(sn, 0),
                           !.lastTS = ts, !.prevTS = ts, !.tsOff = 0])

UpdateSnTsOffsets(m, sn, ts, snAdjust, tsAdjust) ==
  updateSnOffset([m EXCEPT !.hiIn = sn - 1, !.map = Fresh(sn, sn - m.lastSN - snAdjust),
                           !.tsOff = ts - m.lastTS - tsAdjust])

(* A form of PacketDropped that forgets to close the hole.                  *)
PacketDroppedOpen(m, sn) ==
  IF m.hiIn # sn THEN m
  ELSE updateSnOffset([m EXCEPT !.lastSN = m.prevSN, !.lastTS = m.prevTS, !.mark = m.prevMark])
PacketDropped(m, sn) ==
  IF m.hiIn # sn THEN m
  ELSE updateSnOffset([m EXCEPT !.map = ExcludeRange(@, m.hiIn, m.hiIn + 1, Ranges),
                                !.lastSN = m.prevSN, !.lastTS = m.prevTS, !.mark = m.prevMark])

(* UpdateAndGetSnTs: the new state, the ordering and the outgoing numbers.  *)
Ordering(m, sn, empty) ==
  LET d == sn - m.hiIn
  IN  CASE d = 1 /\ ~empty -> "contiguous"
        [] d > 1 -> "gap"
        [] d < 0 -> IF GetValue(m.map, sn).err = "none" /\ sn - GetValue(m.map, sn).v < m.lastSN THEN "late" ELSE "miss"
        [] d = 1 /\ empty -> "padding"
        [] OTHER -> "duplicate"

InOrder(m, sn, ts, mark) ==
  [m EXCEPT !.hiIn = sn, !.prevSN = m.lastSN, !.lastSN = sn - m.off, !.prevTS = m.lastTS,
            !.lastTS = ts - m.tsOff, !.prevMark = m.mark, !.mark = mark]

Swallowed(m, sn) == updateSnOffset([m EXCEPT !.hiIn = sn, !.map = ExcludeRange(@, sn, sn + 1, Ranges)])

UpdateAndGetSnTs(m, sn, ts, mark, empty) ==
  LET o == Ordering(m, sn, empty)
  IN  [ord |-> o,
       m |-> CASE o \in {"contiguous", "gap"} -> InOrder(m, sn, ts, mark)
               [] o = "padding" -> Swallowed(m, sn)
               [] OTHER -> m,
       sn |-> IF o = "late" THEN sn - GetValue(m.map, sn).v ELSE sn - m.off,
       ts |-> ts - m.tsOff]

(* UpdateAndGetPaddingSnTs for num packets.  step is how far one advances   *)
(* the timestamp, 0 for frameRate 0.                                        *)
PaddingTS(m, i, step) ==
  IF m.mark THEN m.lastTS + i * step ELSE m.lastTS + (i - 1) * step
Padded(m, num, step, force) ==
  updateSnOffset([m EXCEPT !.prevSN = m.lastSN + num - 1, !.lastSN = @ + num,
            !.map = DecValue(@, m.hiIn, num, Ranges),
            !.prevTS = IF num = 1 THEN m.lastTS ELSE PaddingTS(m, num - 1, step),
            !.tsOff = @ - (PaddingTS(m, num, step) - m.lastTS), !.lastTS = PaddingTS(m, num, step),
            !.prevMark = m.mark, !.mark = @ \/ force])

-----------------------------------------------------------------------------
(* Forwarder: the source changes.  How the next timestamp is found from     *)
(* Sender Reports and clocks is left open, but it always moves forward.     *)
processSourceSwitch(l, n, nextTS) ==
  LET m == [mg EXCEPT !.src = l, !.epoch = @ + 1]
  IN  IF ~mg.started
      THEN SetLastSnTs([m EXCEPT !.started = TRUE], InSN(l, n), Frame(n))
      ELSE UpdateSnTsOffsets(m, InSN(l, n), Frame(n), 1, nextTS)

(* DownTrack.WriteRTP up to the sequencer, for a packet of the source, with  *)
(* m the state after a change of source, if any.  A packet is filtered by   *)
(* VP8's munger (not after a gap), not selected by the layer selector, or   *)
(* withheld while the track is to go down a layer.                          *)
Forward(m, l, n, empty, fate) ==
  LET r == UpdateAndGetSnTs(m, InSN(l, n), Frame(n), Marker(n), empty)
      sends == r.ord \in {"contiguous", "gap", "late"}
               /\ (fate = "forward" \/ (fate = "filtered" /\ r.ord = "gap"))
      drops == r.ord = "contiguous" /\ fate \in {"filtered", "unselected"}
      skipped == IF r.ord = "gap" THEN (m.hiIn + 1)..(InSN(l, n) - 1) ELSE {}
      lost == IF r.ord \in {"contiguous", "gap"} /\ ~sends /\ ~drops THEN {InSN(l, n)} ELSE {}
  IN  /\ empty => fate \in {"forward", "withheld"}
      /\ mg' = IF drops THEN PacketDropped(r.m, InSN(l, n)) ELSE r.m
      /\ pend' = IF sends THEN [pend EXCEPT ![l] = [pc |-> "push", sn |-> r.sn, ts |-> r.ts, n |-> n, epoch |-> m.epoch]] ELSE pend
      /\ missing' = (missing \cup {<<m.epoch, s>> : s \in skipped \cup lost})
                    \ (IF sends THEN {<<m.epoch, InSN(l, n)>>} ELSE {})

Arrives(l, n) ==
  /\ pend[l] = Idle
  /\ n \in (Highest(l) - Reorder)..(Highest(l) + 1 + MaxGap) /\ n \in 1..MaxPkts
  /\ n \in got[l] => "dup" \in Env
  /\ got' = [got EXCEPT ![l] = @ \cup {n}]

IsForwarding == ~muted /\ target

(* A packet of the layer that is forwarded.                                 *)
WriteRTP(l, n, empty, fate) ==
  /\ Arrives(l, n) /\ IsForwarding /\ l = mg.src
  /\ Forward(mg, l, n, empty, fate)
  /\ UNCHANGED <<muted, target, pads, burst, sq, used>>

(* A key frame of another layer begins, and the track changes to it.        *)
WriteKeyFrame(l, n, fate) ==
  /\ Arrives(l, n) /\ IsForwarding /\ l # mg.src /\ ~Marker(n)
  /\ mg.epoch < MaxSwitches
  /\ ~mg.started => n > Highest(l)
  /\ \E nextTS \in 1..2 : Forward(processSourceSwitch(l, n, nextTS), l, n, FALSE, fate)
  /\ fate \in {"forward", "withheld"}
  /\ UNCHANGED <<muted, target, pads, burst, sq, used>>

(* A packet that is passed over, a failed change of source included.        *)
WriteNothing(l, n) ==
  /\ Arrives(l, n) /\ (l # mg.src \/ ~IsForwarding)
  /\ UNCHANGED <<mg, muted, target, pend, pads, burst, sq, used, missing>>

(* Mute, PubMute and the stream allocator's Pause: resyncLocked.            *)
Mute(b) ==
  /\ "mute" \in Env /\ b # muted /\ muted' = b
  /\ b => mg.epoch < MaxSwitches
  /\ mg' = IF b THEN [mg EXCEPT !.src = None] ELSE mg
  /\ UNCHANGED <<got, target, pend, pads, burst, sq, used, missing>>

Pause ==
  /\ "pause" \in Env /\ target /\ mg.epoch < MaxSwitches
  /\ target' = FALSE /\ mg' = [mg EXCEPT !.src = None]
  /\ UNCHANGED <<got, muted, pend, pads, burst, sq, used, missing>>

Resume ==
  /\ ~target /\ target' = TRUE
  /\ UNCHANGED <<got, mg, muted, pend, pads, burst, sq, used, missing>>

-----------------------------------------------------------------------------
(* sequencer.                                                               *)
SeqRanges == (Size + 1) \div 2
Slot(x) == x % Size
WithSeqOffset(s) == LET v == GetValue(s.map, s.hi + 1) IN IF v.err = "none" THEN [s EXCEPT !.off = v.v] ELSE s
Adjusted(s, sn) == IF sn < s.hi THEN sn - GetValue(s.map, sn).v ELSE sn - s.off

push(s0, sn, what) ==
  LET s == IF s0.init THEN s0 ELSE WithSeqOffset([s0 EXCEPT !.init = TRUE, !.start = sn, !.hi = sn])
      adj == Adjusted(s, sn)
      hiAdj == s.hi - s.off
      skipped == {Slot(e) : e \in (hiAdj + 1)..(adj - 1)}
  IN  IF \/ sn < s.start
         \/ sn < s.hi /\ GetValue(s.map, sn).err # "none"
         \/ adj - hiAdj <= -Size
      THEN s
      ELSE [s EXCEPT !.meta = [i \in DOMAIN @ |-> CASE i = Slot(adj) -> what
                                                    [] i # Slot(adj) /\ i \in skipped -> Empty
                                                    [] OTHER -> @[i]],
                     !.hi = Max({@, sn})]

pushPadding(s, lo, hi) ==
  LET old == {e \in lo..hi : e < s.hi /\ e - s.hi >= -Size /\ GetValue(s.map, e).err = "none"}
      slots == {Slot(e - GetValue(s.map, e).v) : e \in old}
  IN  CASE ~s.init -> s
        [] s.init /\ lo <= s.hi -> [s EXCEPT !.meta = [i \in DOMAIN @ |-> IF i \in slots THEN Empty ELSE @[i]]]
        [] s.init /\ lo > s.hi /\ ~CanExclude(s.map, lo, hi + 1) -> s
        [] OTHER -> WithSeqOffset([s EXCEPT !.map = ExcludeRange(@, lo, hi + 1, SeqRanges), !.hi = hi])

(* getExtPacketMetas for one number: what is sent again, or Empty.  The      *)
(* limits on how often and how soon a packet is sent again are left out.    *)
Extended(s, sn) ==
  LET h == s.hi % OutSpace IN sn + (s.hi - h) - (IF sn > h THEN OutSpace ELSE 0)
(* A form of getExtPacketMetas that trusts the slot.                        *)
getExtPacketMetasBlind(s, sn) ==
  LET ext == Extended(s, sn)
      v == GetValue(s.map, ext)
      back == (s.hi - s.off) - (ext - v.v)
  IN  IF ~s.init \/ 2 * (((s.hi % OutSpace) - sn) % OutSpace) > OutSpace \/ v.err # "none"
         \/ back < 0 \/ back >= Size
      THEN Empty ELSE s.meta[Slot(ext - v.v)]
getExtPacketMetas(s, sn) ==
  LET ext == Extended(s, sn)
      v == GetValue(s.map, ext)
      back == (s.hi - s.off) - (ext - v.v)
  IN  IF \/ ~s.init \/ 2 * (((s.hi % OutSpace) - sn) % OutSpace) > OutSpace
         \/ v.err # "none" \/ back < 0 \/ back >= Size
         \/ s.meta[Slot(ext - v.v)].target # sn
      THEN Empty ELSE s.meta[Slot(ext - v.v)]

(* WriteRTP: the sequencer and the pacer.                                   *)
Push(l) ==
  LET p == pend[l]
      m == [target |-> p.sn % OutSpace, l |-> l, n |-> p.n, ts |-> p.ts]
  IN  /\ p # Idle
      /\ sq' = push(sq, p.sn, m)
      /\ used' = used \cup {[sn |-> p.sn, ts |-> p.ts, l |-> l, n |-> p.n, epoch |-> p.epoch, mid |-> FALSE]}
      /\ pend' = [pend EXCEPT ![l] = Idle]
      /\ UNCHANGED <<got, mg, muted, target, pads, burst, missing>>

(* WritePaddingRTP, for a probe and to start a track that is muted          *)
(* (sendPaddingOnMuteForVideo): first the conditions ...                    *)
PadCheck(p) ==
  /\ pads[p] = Idle /\ burst < MaxPads
  /\ IF p = "probe" THEN Active /\ ~muted ELSE ~Active /\ "early" \in Env
  /\ burst' = burst + 1
  /\ pads' = [pads EXCEPT ![p] = [pc |-> "checked"]]
  /\ UNCHANGED <<got, mg, muted, target, pend, sq, used, missing>>

(* ... then the numbers, with a made-up first number for a track that has   *)
(* not started ...                                                          *)
maybeStart(m) == IF m.started THEN m ELSE [SetLastSnTs(m, InBase(0), 0) EXCEPT !.started = TRUE]

PadTake(p, num) ==
  LET m == maybeStart(mg)
      force == p = "start" \/ ~target
      step == IF p = "start" THEN 1 ELSE 0
      k == IF p = "start" THEN 1 ELSE num
  IN  /\ pads[p].pc = "checked"
      /\ IF m.mark \/ force
         THEN /\ mg' = Padded(m, k, step, force)
              /\ pads' = [pads EXCEPT ![p] = [pc |-> "push", lo |-> m.lastSN + 1, hi |-> m.lastSN + k,
                                              ts |-> PaddingTS(m, k, step), mid |-> ~m.mark /\ m.src # None]]
         ELSE mg' = m /\ pads' = [pads EXCEPT ![p] = Idle]
      /\ UNCHANGED <<got, muted, target, pend, burst, sq, used, missing>>

(* ... and the sequencer and the pacer.                                     *)
PadPush(p) ==
  LET b == pads[p]
  IN  /\ b.pc = "push"
      /\ sq' = pushPadding(sq, b.lo, b.hi)
      /\ used' = used \cup {[sn |-> s, ts |-> b.ts, l |-> None, n |-> 0, epoch |-> 0, mid |-> b.mid] : s \in b.lo..b.hi}
      /\ pads' = [pads EXCEPT ![p] = Idle]
      /\ UNCHANGED <<got, mg, muted, target, pend, burst, missing>>

Next ==
  \/ \E l \in Layers :
       \/ Push(l)
       \/ \E n \in 1..MaxPkts :
            \/ WriteNothing(l, n)
            \/ \E fate \in Fates \cup {"forward"} :
                 \/ WriteKeyFrame(l, n, fate)
                 \/ \E empty \in {FALSE} \cup (IF "empty" \in Env THEN {TRUE} ELSE {}) : WriteRTP(l, n, empty, fate)
  \/ \E p \in Padders : PadCheck(p) \/ PadPush(p) \/ \E num \in 1..2 : PadTake(p, num)
  \/ \E b \in BOOLEAN : Mute(b)
  \/ Pause \/ Resume

Spec == Init /\ [][Next]_vars

-----------------------------------------------------------------------------
TypeOK ==
  /\ \A l \in Layers : got[l] \subseteq 1..MaxPkts
  /\ mg.src \in {None} \cup Layers /\ mg.epoch \in 0..MaxSwitches
  /\ Len(mg.map) \in 1..(Ranges + 1) /\ Len(sq.map) \in 1..(SeqRanges + 1)
  /\ \A i \in DOMAIN sq.meta : sq.meta[i].target \in {None} \cup 0..(OutSpace - 1)
  /\ {muted, target} \subseteq BOOLEAN /\ burst \in 0..MaxPads
  /\ \A u \in used : u.l \in {None} \cup Layers

(* What is numbered but not sent yet counts as sent.                        *)
Numbered ==
  used \cup {[sn |-> pend[l].sn, ts |-> pend[l].ts, l |-> l, n |-> pend[l].n, epoch |-> pend[l].epoch, mid |-> FALSE] :
               l \in {k \in Layers : pend[k] # Idle}}
       \cup UNION {{[sn |-> s, ts |-> pads[p].ts, l |-> None, n |-> 0, epoch |-> 0, mid |-> pads[p].mid] : s \in pads[p].lo..pads[p].hi} :
               p \in {q \in Padders : pads[q].pc = "push"}}

(* An outgoing sequence number is used once.                                *)
NumbersAreUnique == \A u, w \in Numbered : u.sn = w.sn => u = w

(* The order of the source is the order of the numbers, across changes of   *)
(* the source too, and timestamps follow it.                                *)
OrderIsKept ==
  \A u, w \in {x \in Numbered : x.n # 0} :
    u.epoch < w.epoch \/ (u.epoch = w.epoch /\ u.n < w.n) => u.sn < w.sn /\ u.ts <= w.ts

(* A hole in the outgoing numbers, for which the receiver sends NACKs, is    *)
(* a packet that is missing upstream or was held back after it had a number. *)
NoHoleOfOurOwn ==
  Numbered # {} =>
    LET sns == {u.sn : u \in Numbered}
    IN  Cardinality((Min(sns)..mg.lastSN) \ sns) <= Cardinality(missing)

(* What a NACK is answered with is what was sent under that number.         *)
AnswersAreTrue ==
  \A sn \in 0..(OutSpace - 1) :
    LET m == getExtPacketMetas(sq, sn)
    IN  m # Empty => \E u \in used : u.sn = Extended(sq, sn) /\ u.l = m.l /\ u.n = m.n /\ u.ts = m.ts

(* A packet sent less than Size numbers ago can be sent again ...           *)
CanBeSentAgain(u) == u.n # 0 /\ sq.hi - u.sn < Size => getExtPacketMetas(sq, u.sn % OutSpace) # Empty
RecentCanBeSentAgain == \A u \in used : u.sn >= sq.start => CanBeSentAgain(u)

(* ... whichever packet the sequencer saw first.                            *)
EveryRecentCanBeSentAgain == \A u \in used : CanBeSentAgain(u)

(* Padding comes at frame boundaries only.                                  *)
PaddingAtBoundary == \A u \in Numbered : ~u.mid
=============================================================================
