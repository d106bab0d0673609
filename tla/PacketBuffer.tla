---------------------------- MODULE PacketBuffer ----------------------------
(***************************************************************************)
(* The buffer of a published stream (sfu/buffer): packets of the stream    *)
(* and of its RTX stream arrive in any order, are numbered without the     *)
(* padding, kept for retransmission, asked for again when they are         *)
(* missing, and read by the forwarder.  A restart, found in the numbers or *)
(* ordered by the receiver, begins a new session of the buffer.            *)
(*                                                                         *)
(* The sender is a sequence of packets [ep, n, t, empty]: packet n of its  *)
(* epoch ep, sampled at time t.                                            *)
(***************************************************************************)
EXTENDS ReceiverStats, SequencesExt

RM == INSTANCE RangeMap

CONSTANTS Scenarios   \* of bounds and behaviours of the environment: packets sent, steps of
                      \* time, how late and how often one may come, the first numbers of each
                      \* epoch, size of the bucket, env

VARIABLES
  pbLimits, \* the scenario
  pbSrc,    \* packets sent
  pbEpoch, pbNow, \* epoch of the sender; time
  pbSeen,   \* how often a packet has arrived
  pbBuf,    \* the buffer
  pbSess,   \* history: packets counted, numbered and taken out in this session
  pbRtx,    \* buffer of the RTX stream and the pair in the factory
  pbOut,    \* history: what the reader got since the last restart it saw
  pbTold    \* history: the deltas of this session

pbVars == <<pbLimits, pbSrc, pbEpoch, pbNow, pbSeen, pbBuf, pbSess, pbRtx, pbOut, pbTold>>

Ranges == 2   \* ranges of snRangeMap, 100 in the code
MaxTries == 1 \* tries of the NACK queue
PendMax == 2  \* packets kept before Bind

Env(x) == x \in pbLimits.env

NewSession == [first |-> 0, got |-> {}, late |-> {}, num |-> {}, cut |-> {}, gone |-> {}, sr |-> <<>>, sound |-> TRUE]
NewTold == [times |-> 0, expected |-> 0, hi |-> 0, lost |-> {}]

NewBuffer ==
  [bound |-> FALSE, closed |-> FALSE, pend |-> <<>>, st |-> NewStats, map |-> RM!Fresh(0, 0),
   store |-> {}, top |-> 0, resync |-> TRUE, queue |-> <<>>, nack |-> {}, marked |-> FALSE, sess |-> 1]

pbInit ==
  /\ pbLimits \in Scenarios
  /\ pbSrc = <<>> /\ pbEpoch = 1 /\ pbNow = 0 /\ pbSeen = <<>>
  /\ pbBuf = [NewBuffer EXCEPT !.bound = "unbound" \notin pbLimits.env]
  /\ pbRtx = [bufs |-> IF "pairing" \in pbLimits.env THEN {} ELSE {"base", "repair"},
              pair |-> IF "pairing" \in pbLimits.env THEN "none" ELSE "linked",
              primary |-> "pairing" \notin pbLimits.env, pend |-> <<>>, flush |-> <<>>]
  /\ pbSess = NewSession /\ pbOut = [items |-> {}, stopped |-> FALSE] /\ pbTold = NewTold

-----------------------------------------------------------------------------
(* The packet as it is on the wire.                                         *)
Wire(i) ==
  LET s == pbSrc[i]
      base == pbLimits.bases[s.ep]
  IN  [sn |-> (base.sn + s.n) % SnMod, ts |-> (base.ts + s.t) % TsMod, empty |-> s.empty, id |-> i]

(* The bucket: packets by number, of the last cap numbers.                  *)
Add(b, esn, id) ==
  LET top == IF b.resync \/ esn > b.top THEN esn ELSE b.top
      kept == IF b.resync THEN {} ELSE {x \in b.store : x.esn > top - pbLimits.cap}
  IN  [b EXCEPT !.resync = FALSE, !.top = top, !.store = kept \cup {[esn |-> esn, id |-> id]}]
CanAdd(b, esn) == b.resync \/ (esn > b.top - pbLimits.cap /\ \A x \in b.store : x.esn # esn)

(* restartStreamLocked.                                                     *)
restartStream(b, detected) ==
  [b EXCEPT !.queue = <<>>, !.map = RM!Fresh(0, 0), !.st = NewStats, !.resync = TRUE,
            !.nack = {}, !.marked = @ \/ detected, !.sess = @ + 1]

(* updateNACKState: numbers on the wire, with how often they were asked for. *)
updateNACKState(b, p, r) ==
  LET lost == {e % SnMod : e \in r.lossFrom..(r.lossTo - 1)}
  IN  [b EXCEPT !.nack = {x \in @ : x.sn # p.sn} \cup {[sn |-> s, tries |-> 0] : s \in lost}]

(* The rest of HandleIncomingPacketLocked: padding is taken out of the      *)
(* numbers when it comes in order, anything else is stored and queued.      *)
Swallow(b, p, r) == [b EXCEPT !.map = RM!ExcludeRange(@, r.esn, r.esn + 1, Ranges)]
Store(b, p, err, esn) ==
  IF err # "none" \/ ~CanAdd(b, esn) THEN b
  ELSE [Add(b, esn, p.id) EXCEPT !.queue = Append(@, [id |-> p.id, esn |-> esn, sess |-> b.sess])]
Place(b, p, r, adj) ==
  CASE p.empty /\ ~r.ooo -> Swallow(b, p, r)
    [] p.empty /\ r.ooo /\ r.dup -> b
    [] OTHER -> Store(b, p, adj.err, r.esn - adj.v)

(* HandleIncomingPacketLocked, with what Update said.  Restarts are looked  *)
(* for when SetStreamRestartDetection was given true ("detect").            *)
Accept(b, p, r) ==
  [b |-> Place(updateNACKState([b EXCEPT !.st = r.st], p, r), p, r, RM!GetValue(b.map, r.esn)), r |-> r]
Anew(b, p, now, inv) == Accept(b, p, Update(b.st, p, now, inv))
Said(b, p, now, inv, r) ==
  CASE r.why = "none" -> Accept(b, p, r)
    [] r.why = "restart" /\ Env("detect") -> Anew(restartStream(b, TRUE), p, now, inv)
    [] OTHER -> [b |-> [b EXCEPT !.st = r.st], r |-> r]
Handle(b, p, now, rtx, inv) ==
  IF rtx /\ ~IsActive(b.st) THEN [b |-> b, r |-> NotHandled(b.st, "rtx")]
  ELSE Said(b, p, now, inv, Update(b.st, p, now, inv))

(* GetNACKPairs after every packet: when it is time, the missing numbers    *)
(* are asked for again, and one that was asked for often enough is given up. *)
Asked(nack) == {[x EXCEPT !.tries = @ + 1] : x \in {y \in nack : y.tries < MaxTries}}
GivenUp(nack) == {x.sn : x \in {y \in nack : y.tries >= MaxTries}}

(* What no numbers on the wire can tell: a packet from before the first one *)
(* of the session; a silence of a whole cycle of the timestamp; a packet    *)
(* that takes half a cycle to come; one that is late by three quarters of a *)
(* cycle, or comes when nothing newer came for a quarter of one.            *)
Unknowable(h, b, p, now) ==
  /\ h.first # 0
  /\ LET hi == Max({g.id : g \in h.got})
         ahead == pbSrc[p.id].t - pbSrc[hi].t
     IN  \/ p.id < h.first
         \/ p.id > hi /\ (ahead >= TsMod \/ now - pbSrc[p.id].t >= Half(TsMod))
         \/ p.id < hi /\ (4 * (-ahead) >= 3 * TsMod \/ 4 * (now - b.st.hiTime) >= TsMod)

(* calc, with the history of the session: acc is [b, h].                    *)
Recorded(h0, b0, res, p, now) ==
  LET h == IF res.b.sess # b0.sess THEN NewSession ELSE h0
      new == {[id |-> q.id, esn |-> q.esn] : q \in ToSet(res.b.queue) \ ToSet(b0.queue)}
      inTime == \A g \in h.got : g.esn - res.r.esn < History \/ \E x \in h.got : x.id = p.id
  IN  IF res.r.why # "none" THEN h
      ELSE [h EXCEPT !.first = IF @ = 0 THEN p.id ELSE @,
                     !.got = @ \cup {[id |-> p.id, esn |-> res.r.esn, ets |-> res.r.ets]},
                     !.sound = @ /\ ~Unknowable(h, b0, p, now),
                     !.late = IF inTime THEN @ ELSE @ \cup {p.id},
                     !.num = @ \cup {x \in new : x.id = p.id},
                     !.cut = IF p.empty /\ ~res.r.ooo THEN @ \cup {p.id} ELSE @]
Finish(acc, res, p, now, ask) ==
  LET h == Recorded(acc.h, acc.b, res, p, now)
  IN  IF ~ask THEN [b |-> res.b, h |-> h]
      ELSE [b |-> [res.b EXCEPT !.nack = Asked(@)], h |-> [h EXCEPT !.gone = @ \cup GivenUp(res.b.nack)]]
calc(acc, p, now, rtx, inv, ask) == Finish(acc, Handle(acc.b, p, now, rtx, inv), p, now, ask)

Take(acc) ==
  /\ pbBuf' = acc.b /\ pbSess' = acc.h
  /\ pbTold' = IF acc.b.sess # pbBuf.sess THEN NewTold ELSE pbTold

-----------------------------------------------------------------------------
(* The sender.                                                              *)
Send ==
  /\ Len(pbSrc) < pbLimits.sends
  /\ \E dt \in pbLimits.steps, e \in IF Env("empty") THEN BOOLEAN ELSE {FALSE} :
       LET n == Cardinality({i \in DOMAIN pbSrc : pbSrc[i].ep = pbEpoch})
       IN  /\ pbNow' = pbNow + dt
           /\ pbSrc' = Append(pbSrc, [ep |-> pbEpoch, n |-> n, t |-> pbNow + dt, empty |-> e])
           /\ pbSeen' = Append(pbSeen, 0)
  /\ UNCHANGED <<pbLimits, pbEpoch, pbBuf, pbSess, pbRtx, pbOut, pbTold>>
RestartSender ==
  /\ pbEpoch < Len(pbLimits.bases) /\ pbSrc # <<>>
  /\ pbEpoch' = pbEpoch + 1
  /\ UNCHANGED <<pbLimits, pbSrc, pbNow, pbSeen, pbBuf, pbSess, pbRtx, pbOut, pbTold>>

(* The network.                                                             *)
CanCome(i) == pbSeen[i] < pbLimits.often /\ Len(pbSrc) - i <= pbLimits.reorder
Came(i) == pbSeen' = [pbSeen EXCEPT ![i] = @ + 1]
Asks == IF Env("nack") THEN BOOLEAN ELSE {FALSE}

(* Buffer.Write.                                                            *)
Write(i) ==
  /\ CanCome(i) /\ ~pbBuf.closed /\ "base" \in pbRtx.bufs
  /\ Came(i)
  /\ \/ /\ ~pbBuf.bound
        /\ pbBuf' = [pbBuf EXCEPT !.pend =
                       Append(IF Len(@) > PendMax THEN SubSeq(@, Len(@) - PendMax + 1, Len(@)) ELSE @, Wire(i))]
        /\ UNCHANGED <<pbSess, pbTold>>
     \/ /\ pbBuf.bound
        /\ \E inv \in {0, -1}, ask \in Asks :
             Take(calc([b |-> pbBuf, h |-> pbSess], Wire(i), pbNow, FALSE, inv, ask))
  /\ UNCHANGED <<pbLimits, pbSrc, pbEpoch, pbNow, pbRtx, pbOut>>

(* Bind: the packets that waited are handled in the order of their arrival. *)
(* (arrivalTime is that of the packet: the time of Bind is used here, which *)
(* only the distances of time see.)                                         *)
Bind ==
  /\ ~pbBuf.bound /\ "base" \in pbRtx.bufs
  /\ LET In(acc, p) == calc(acc, p, pbNow, FALSE, 0, FALSE)
     IN  Take(FoldLeft(In, [b |-> [pbBuf EXCEPT !.pend = <<>>, !.bound = TRUE], h |-> pbSess], pbBuf.pend))
  /\ UNCHANGED <<pbLimits, pbSrc, pbEpoch, pbNow, pbSeen, pbRtx, pbOut>>

(* writeRTX of the primary buffer.                                          *)
writeRTX(p) ==
  IF ~pbBuf.bound \/ pbBuf.closed THEN UNCHANGED <<pbBuf, pbSess, pbTold>>
  ELSE \E inv \in {0, -1}, ask \in Asks : Take(calc([b |-> pbBuf, h |-> pbSess], p, pbNow, TRUE, inv, ask))

(* A packet comes again on the RTX stream.                                  *)
WriteRepair(i) ==
  /\ Env("rtx") /\ CanCome(i) /\ "repair" \in pbRtx.bufs
  /\ Came(i)
  /\ \/ pbRtx.primary /\ ~pbSrc[i].empty /\ writeRTX(Wire(i)) /\ UNCHANGED pbRtx
     \/ /\ ~pbRtx.primary /\ pbRtx' = [pbRtx EXCEPT !.pend = Append(@, Wire(i))]
        /\ UNCHANGED <<pbBuf, pbSess, pbTold>>
  /\ UNCHANGED <<pbLimits, pbSrc, pbEpoch, pbNow, pbOut>>

(* Factory: GetOrNew and SetRTXPair; a pair one of whose buffers is missing *)
(* is kept until it is there.  SetPrimaryBufferForRTX then hands the        *)
(* packets that waited to the primary buffer, one by one.                   *)
Linked(x) == [x EXCEPT !.primary = TRUE, !.flush = x.pend, !.pend = <<>>]
GetOrNew(k) ==
  /\ k \notin pbRtx.bufs
  /\ LET x == [pbRtx EXCEPT !.bufs = @ \cup {k}]
     IN  pbRtx' = IF x.pair = "kept" /\ x.bufs = {"base", "repair"} THEN Linked(x) ELSE x
  /\ UNCHANGED <<pbLimits, pbSrc, pbEpoch, pbNow, pbSeen, pbBuf, pbSess, pbOut, pbTold>>
SetRTXPair ==
  /\ pbRtx.pair = "none"
  /\ pbRtx' = IF pbRtx.bufs = {"base", "repair"} THEN Linked([pbRtx EXCEPT !.pair = "linked"])
              ELSE [pbRtx EXCEPT !.pair = "kept"]
  /\ UNCHANGED <<pbLimits, pbSrc, pbEpoch, pbNow, pbSeen, pbBuf, pbSess, pbOut, pbTold>>
FlushRepair ==
  /\ pbRtx.flush # <<>>
  /\ pbRtx' = [pbRtx EXCEPT !.flush = Tail(@)]
  /\ IF Head(pbRtx.flush).empty THEN UNCHANGED <<pbBuf, pbSess, pbTold>> ELSE writeRTX(Head(pbRtx.flush))
  /\ UNCHANGED <<pbLimits, pbSrc, pbEpoch, pbNow, pbSeen, pbOut>>

-----------------------------------------------------------------------------
(* ReadExtended: a restart is seen before anything that is queued; a packet *)
(* that has left the bucket is passed over.                                 *)
ReadRestart ==
  /\ ~pbBuf.closed /\ pbBuf.marked /\ ~pbOut.stopped
  /\ pbBuf' = [pbBuf EXCEPT !.marked = FALSE]
  /\ pbOut' = [items |-> {}, stopped |-> Env("order")]
  /\ UNCHANGED <<pbLimits, pbSrc, pbEpoch, pbNow, pbSeen, pbSess, pbRtx, pbTold>>
ReadPacket ==
  /\ Env("read") /\ ~pbBuf.closed /\ ~pbBuf.marked /\ ~pbOut.stopped /\ pbBuf.queue # <<>>
  /\ LET q == Head(pbBuf.queue)
         found == {x \in pbBuf.store : x.esn = q.esn}
     IN  pbOut' = [pbOut EXCEPT !.items = @ \cup {[id |-> q.id, of |-> x.id, sess |-> q.sess] : x \in found}]
  /\ pbBuf' = [pbBuf EXCEPT !.queue = Tail(@)]
  /\ UNCHANGED <<pbLimits, pbSrc, pbEpoch, pbNow, pbSeen, pbSess, pbRtx, pbTold>>

(* The receiver marks the buffer, waits until the reader has seen it and    *)
(* stopped, restarts the buffer and reads again.                            *)
MarkForRestartStream ==
  /\ Env("order") /\ pbBuf.bound /\ ~pbBuf.marked /\ ~pbOut.stopped /\ pbBuf.sess = 1
  /\ pbBuf' = [pbBuf EXCEPT !.marked = TRUE]
  /\ UNCHANGED <<pbLimits, pbSrc, pbEpoch, pbNow, pbSeen, pbSess, pbRtx, pbOut, pbTold>>
RestartStream ==
  /\ pbOut.stopped
  /\ pbBuf' = restartStream(pbBuf, FALSE)
  /\ pbSess' = NewSession /\ pbTold' = NewTold /\ pbOut' = [pbOut EXCEPT !.stopped = FALSE]
  /\ UNCHANGED <<pbLimits, pbSrc, pbEpoch, pbNow, pbSeen, pbRtx>>

(* GetDeltaStats and the reception report, each with its own snapshot.      *)
GetDeltaStats ==
  /\ Env("delta") /\ pbBuf.st.init /\ pbTold.times < 2
  /\ LET d == DeltaInfo(pbBuf.st)
     IN  pbTold' = [times |-> pbTold.times + 1, expected |-> pbTold.expected + d.expected,
                    hi |-> pbBuf.st.sn.hi, lost |-> pbTold.lost \cup {<<d.lost, d.expected>>}]
  /\ pbBuf' = [pbBuf EXCEPT !.st.snap = getSnapshot(pbBuf.st)]
  /\ UNCHANGED <<pbLimits, pbSrc, pbEpoch, pbNow, pbSeen, pbSess, pbRtx, pbOut>>

(* SetSenderReportData: a report of the sender's clock, now or a while ago. *)
SetSenderReportData ==
  /\ Env("report") /\ pbBuf.st.init
  /\ \E ago \in {0, 1} :
       LET clock == pbNow - ago
           sr == [ntp |-> clock, rtp |-> (pbLimits.bases[pbEpoch].ts + clock) % TsMod]
           newest == SetSenderReport(pbBuf.st.sr, sr)
       IN  /\ clock >= 0
           /\ pbBuf' = [pbBuf EXCEPT !.st.sr = newest]
           /\ pbSess' = [pbSess EXCEPT !.sr =
                CASE newest = pbBuf.st.sr -> @
                  [] newest # pbBuf.st.sr /\ @ = <<>> -> <<[off |-> sr.rtp - clock, clock |-> clock]>>
                  [] OTHER -> <<[@[1] EXCEPT !.clock = clock]>>]
  /\ UNCHANGED <<pbLimits, pbSrc, pbEpoch, pbNow, pbSeen, pbRtx, pbOut, pbTold>>

(* CloseWithReason: the statistics end, and the queue is emptied later.     *)
Close ==
  /\ Env("close") /\ ~pbBuf.closed
  /\ pbBuf' = [pbBuf EXCEPT !.closed = TRUE, !.st.ended = TRUE]
  /\ UNCHANGED <<pbLimits, pbSrc, pbEpoch, pbNow, pbSeen, pbSess, pbRtx, pbOut, pbTold>>

pbNext ==
  \/ Send \/ RestartSender \/ Bind \/ SetRTXPair \/ FlushRepair
  \/ \E i \in DOMAIN pbSrc : Write(i) \/ WriteRepair(i)
  \/ \E k \in {"base", "repair"} : GetOrNew(k)
  \/ ReadRestart \/ ReadPacket \/ MarkForRestartStream \/ RestartStream
  \/ GetDeltaStats \/ SetSenderReportData \/ Close

pbSpec == pbInit /\ [][pbNext]_pbVars

-----------------------------------------------------------------------------
First == pbSrc[pbSess.first]
SameEpoch(id) == pbSrc[id].ep = First.ep
(* Every packet the statistics took has its true extended numbers, counted  *)
(* from the first packet of the session.                                    *)
NumbersAreTrue ==
  pbSess.sound => \A g \in pbSess.got :
    SameEpoch(g.id) =>
      /\ g.esn = Wire(pbSess.first).sn + pbSrc[g.id].n - First.n
      /\ g.ets = Wire(pbSess.first).ts + pbSrc[g.id].t - First.t

(* The packets the reader is given are in the order of the source, and a    *)
(* number is left out only for a packet that has not come.                  *)
HolesAreMissing ==
  pbSess.sound => \A x, y \in pbSess.num :
    (SameEpoch(x.id) /\ SameEpoch(y.id) /\ x.id < y.id) =>
      y.esn - x.esn = y.id - x.id - Cardinality({c \in pbSess.cut : x.id < c /\ c < y.id})

(* packetsLost is the number of packets since the first that did not come,  *)
(* or came when the history had forgotten them.                             *)
LostIsExact ==
  pbSess.first # 0 /\ pbSess.sound =>
    pbBuf.st.n["lost"] =
      pbBuf.st.sn.hi - pbBuf.st.sn.start + 1 - Cardinality({g.esn : g \in {x \in pbSess.got : x.id \notin pbSess.late}})

(* What is missing is asked for, until it is given up.                      *)
MissingIsAskedFor ==
  pbSess.first # 0 /\ pbSess.sound =>
    \A e \in (pbBuf.st.sn.start)..(pbBuf.st.sn.hi) :
      \/ \E g \in pbSess.got : g.esn = e
      \/ \E x \in pbBuf.nack : x.sn = e % SnMod
      \/ e % SnMod \in pbSess.gone

(* The reader gets what it was told it would get, and is told of a restart  *)
(* before it gets a packet of the new session.                              *)
RestartIsSeen ==
  /\ \A x \in pbOut.items : x.of = x.id
  /\ \A x, y \in pbOut.items : x.sess = y.sess

(* A restart is found only when the sender restarted.                       *)
RestartIsReal == pbBuf.sess > 1 /\ ~Env("order") => pbEpoch > 1

(* The deltas of a session cover the numbers once, and do not report more   *)
(* lost than there were.                                                    *)
DeltasAddUp ==
  /\ pbTold.times > 0 => pbTold.expected = pbTold.hi - pbBuf.st.sn.start + 1
  /\ \A l \in pbTold.lost : l[1] <= l[2]

(* The sender reports are extended as their clock went.                     *)
ReportsAreTrue ==
  \A s \in ToSet(pbSess.sr) : \A n \in ToSet(pbBuf.st.sr) :
    n.ext = (s.clock + s.off) % Word

(* A pair that was announced is linked when both buffers are there.         *)
PairIsLinked == pbRtx.pair # "none" /\ pbRtx.bufs = {"base", "repair"} => pbRtx.primary
=============================================================================
