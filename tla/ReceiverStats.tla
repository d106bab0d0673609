--------------------------- MODULE ReceiverStats ---------------------------
(***************************************************************************)
(* RTPStatsReceiver (sfu/rtpstats): what the buffer of a published track   *)
(* knows of the stream it receives.  Sequence numbers and timestamps have  *)
(* SnMod and TsMod values on the wire and are extended here; a packet is   *)
(* [sn, ts, empty].  Time is counted in units of the timestamp.  Of the    *)
(* counters the losses, duplicates, padding and payload packets are kept,  *)
(* of which the byte counters and rates follow.                            *)
(***************************************************************************)
EXTENDS Integers, Sequences, FiniteSets, FiniteSetsExt

CONSTANTS SnMod,      \* 2^16 in the code
          TsMod,      \* 2^32
          History,    \* cHistorySize
          Threshold,  \* restartThreshold
          Slack       \* cReportSlack, in units of the timestamp

Half(mod) == mod \div 2

-----------------------------------------------------------------------------
(* WrapAround of mediatransportutil, [start, hi] extended.  A value up to   *)
(* half the range ahead moves it on.  One before the start is not handled   *)
(* while less than half the range was seen.                                 *)
WrapUpdate(w, v, mod) ==
  LET ahead == (v - w.hi) % mod
      back == (w.hi - v) % mod
  IN  CASE ahead > 0 /\ ahead <= Half(mod) ->
             [un |-> FALSE, pre |-> w.hi, val |-> w.hi + ahead, w |-> [w EXCEPT !.hi = @ + ahead]]
        [] (ahead = 0 \/ ahead > Half(mod)) /\ w.hi - w.start + 1 <= Half(mod) /\ (v - w.start) % mod > Half(mod) ->
             [un |-> TRUE, pre |-> 0, val |-> 0, w |-> w]
        [] OTHER -> [un |-> FALSE, pre |-> w.hi, val |-> w.hi - back, w |-> w]

(* Rollover: n cycles on, whatever the value.                               *)
WrapRollover(w, v, n, mod) ==
  IF n < 0 THEN WrapUpdate(w, v, mod)
  ELSE LET val == w.hi - (w.hi % mod) + n * mod + v
       IN  [un |-> FALSE, pre |-> w.hi, val |-> val, w |-> [w EXCEPT !.hi = val]]

(* The first value.                                                         *)
WrapStart(v) == [un |-> FALSE, pre |-> v - 1, val |-> v, w |-> [start |-> v, hi |-> v]]

(* What the gap of a result says.  The fields of one that is not handled    *)
(* are invalid: inv stands for what is found in them.                       *)
Gap(res, inv) == IF res.un THEN inv ELSE res.val - res.pre

-----------------------------------------------------------------------------
Counters == {"lost", "dups", "pads", "pkts"}
NoCounts == [c \in Counters |-> 0]

(* NewRTPStatsReceiver, with the snapshot of NewSnapshotId.                 *)
NewStats ==
  [init |-> FALSE, ended |-> FALSE, sn |-> [start |-> 0, hi |-> 0], ts |-> [start |-> 0, hi |-> 0],
   hiTime |-> 0, hist |-> {}, n |-> NoCounts, buf |-> <<>>,
   snap |-> [from |-> 0, n |-> NoCounts], sr |-> <<>>]

IsActive(st) == st.init /\ ~st.ended

getTSRolloverCount(st, diff, ts) ==
  IF diff < Half(TsMod) THEN -1
  ELSE LET excess == diff - TsMod
           roc == IF excess > 0 THEN excess \div TsMod ELSE 0
       IN  IF st.ts.hi % TsMod > ts THEN roc + 1 ELSE roc

(* maybeRestart and resetRestart: the last packets that were not handled,   *)
(* and whether they follow each other.                                      *)
Remembered(st, p) ==
  CASE p.empty -> st.buf
    [] ~p.empty /\ Len(st.buf) < Threshold -> Append(st.buf, [sn |-> p.sn, ts |-> p.ts])
    [] OTHER -> Append(Tail(st.buf), [sn |-> p.sn, ts |-> p.ts])
maybeRestart(st, p) ==
  LET buf == Remembered(st, p)
  IN  /\ Len(buf) = Threshold
      /\ \A k \in 2..Threshold :
           /\ buf[k].sn = (buf[k - 1].sn + 1) % SnMod
           /\ (buf[k].ts - buf[k - 1].ts) % TsMod <= Half(TsMod)

(* A packet that is not handled: both numbers stay as they were.            *)
Dropped(st, p, why) ==
  [st |-> [st EXCEPT !.buf = IF maybeRestart(st, p) THEN <<>> ELSE Remembered(st, p)],
   why |-> IF maybeRestart(st, p) THEN "restart" ELSE why,
   esn |-> 0, ets |-> 0, dup |-> FALSE, ooo |-> FALSE, lossFrom |-> 0, lossTo |-> 0]

isInRange(esn, ehsn) == ehsn - esn >= 0 /\ ehsn - esn < History

(* The end of Update, for a packet that is handled.  The history holds a    *)
(* bit for a number modulo its size.                                        *)
Bit(esn) == esn % History
Bits(from, to) == IF to - from + 1 >= History THEN 0..(History - 1) ELSE {Bit(e) : e \in from..to}

(* A form of CountLate that takes a late packet for a new one each time.    *)
CountLateTwice(st, esn) == [dup |-> FALSE, lost |-> -1]
CountLate(st, esn) ==
  CASE ~isInRange(esn, st.sn.hi) -> [dup |-> FALSE, lost |-> 0]
    [] isInRange(esn, st.sn.hi) /\ Bit(esn) \in st.hist -> [dup |-> TRUE, lost |-> 0]
    [] OTHER -> [dup |-> FALSE, lost |-> -1]

Counted(st, p, now, sn, ts) ==
  LET gap == sn.val - sn.pre
      late == CountLate(st, sn.val)
      inOrder == gap > 0
      dup == ~inOrder /\ late.dup
      lost == IF inOrder THEN gap - 1 ELSE late.lost
      hist == CASE inOrder -> (st.hist \ Bits(sn.pre + 1, sn.val - 1)) \cup {Bit(sn.val)}
                [] ~inOrder /\ isInRange(sn.val, sn.pre) -> st.hist \cup {Bit(sn.val)}
                [] OTHER -> st.hist
      n == [c \in Counters |->
              st.n[c] + CASE c = "lost" -> lost
                          [] c = "dups" -> IF dup THEN 1 ELSE 0
                          [] c = "pads" -> IF ~dup /\ p.empty THEN 1 ELSE 0
                          [] c = "pkts" -> IF ~dup /\ ~p.empty THEN 1 ELSE 0]
  IN  [st |-> [st EXCEPT !.init = TRUE, !.sn = sn.w, !.ts = ts.w, !.hist = hist, !.n = n, !.buf = <<>>,
                         !.hiTime = IF inOrder /\ p.ts # ts.pre % TsMod THEN now ELSE @],
       why |-> "none", esn |-> sn.val, ets |-> ts.val, dup |-> dup, ooo |-> ~inOrder,
       lossFrom |-> IF inOrder THEN sn.pre + 1 ELSE 0, lossTo |-> IF inOrder THEN sn.val ELSE 0]

(* Update of an initialized object.  A packet whose two numbers disagree    *)
(* about its age is dropped, or its sequence number is moved a cycle on.    *)
OldTimestamp(gapSN, gapTS, expected) == gapSN < 0 /\ gapTS > 0 /\ gapTS > (3 * expected) \div 2
OldSequenceNumber(gapSN, gapTS) == gapTS < 0 /\ gapSN > 0

Judged(st, p, now, inv, sn, ts) ==
  LET gapSN == Gap(sn, inv)
      gapTS == ts.val - ts.pre
      forced == gapSN < 0 /\ gapTS > 0 /\ ~p.empty
      rolled == WrapRollover(st.sn, p.sn, IF p.sn < st.sn.hi % SnMod THEN 1 ELSE 0, SnMod)
      why == CASE ts.un -> "pre-start timestamp"
               [] ~ts.un /\ ~sn.un /\ OldTimestamp(gapSN, gapTS, now - st.hiTime) -> "old timestamp"
               [] ~ts.un /\ ~sn.un /\ OldSequenceNumber(gapSN, gapTS) -> "old sequence number"
               [] ~ts.un /\ sn.un /\ ~forced -> "pre-start sequence number"
               [] OTHER -> "none"
  IN  IF why = "none" THEN Counted(st, p, now, IF forced THEN rolled ELSE sn, ts) ELSE Dropped(st, p, why)
UpdateStarted(st, p, now, inv) ==
  Judged(st, p, now, inv, WrapUpdate(st.sn, p.sn, SnMod),
         WrapRollover(st.ts, p.ts, getTSRolloverCount(st, now - st.hiTime, p.ts), TsMod))

NotHandled(st, why) ==
  [st |-> st, why |-> why, esn |-> 0, ets |-> 0, dup |-> FALSE, ooo |-> FALSE, lossFrom |-> 0, lossTo |-> 0]

Update(st, p, now, inv) ==
  CASE st.ended -> NotHandled(st, "ended")
    [] ~st.ended /\ ~st.init /\ p.empty -> NotHandled(st, "padding only")
    [] ~st.ended /\ ~st.init /\ ~p.empty ->
         LET fresh == [st EXCEPT !.hiTime = now, !.sn.hi = p.sn - 1, !.snap = [from |-> p.sn, n |-> NoCounts]]
         IN  Counted(fresh, p, now, WrapStart(p.sn), WrapStart(p.ts))
    [] OTHER -> UpdateStarted(st, p, now, inv)

-----------------------------------------------------------------------------
(* getAndResetSnapshot and deltaInfo (DeltaInfo, GetRtcpReceptionReport):   *)
(* what came since the last time.                                           *)
getSnapshot(st) == [from |-> st.sn.hi + 1, n |-> st.n]
AtLeastZero(x) == IF x < 0 THEN 0 ELSE x

DeltaInfo(st) ==
  LET then == st.snap
      now == getSnapshot(st)
      expected == IF then.from > st.sn.hi THEN 0 ELSE now.from - then.from
      pads == now.n["pads"] - then.n["pads"]
  IN  IF expected = 0 THEN [expected |-> 0, packets |-> 0, pads |-> 0, lost |-> 0]
      ELSE [expected |-> expected, packets |-> AtLeastZero(expected - pads), pads |-> pads,
            lost |-> AtLeastZero(now.n["lost"] - then.n["lost"])]

-----------------------------------------------------------------------------
(* Sender reports [ntp, rtp], rtp on the wire.  getExtendedSenderReport:    *)
(* the cycle is found from the time since the last report, or, where the    *)
(* clock of the sender runs at another rate, from the last report itself.   *)
(* Extended timestamps are unsigned (2^64; a small multiple of TsMod here). *)
Word == 64 * TsMod
Cycle(x) == (x \div TsMod) * TsMod
getExtended(newest, sr) ==
  LET expected == newest.ext + (sr.ntp - newest.ntp)
      lbound == expected - Slack
      ubound == expected + Slack
      inRange == (sr.rtp - lbound) % TsMod < Half(TsMod) /\ (ubound - sr.rtp) % TsMod < Half(TsMod)
      byTime == IF Cycle(lbound) = Cycle(ubound) \/ sr.rtp >= Half(TsMod) THEN Cycle(lbound) ELSE Cycle(ubound)
      last == newest.ext % TsMod
      forward == (sr.rtp - last) % TsMod < Half(TsMod)
      byLast == Cycle(newest.ext)
                + CASE forward /\ sr.rtp < last -> TsMod
                    [] ~forward /\ sr.rtp > last /\ Cycle(newest.ext) >= TsMod -> -TsMod
                    [] OTHER -> 0
  IN  (sr.rtp + IF inRange THEN byTime ELSE byLast) % Word

(* SetRtcpSenderReportData: a report from before the last one, by either    *)
(* clock, is not taken.  newest is <<>> before the first one.               *)
SetSenderReport(newest, sr) ==
  CASE newest = <<>> -> <<[ntp |-> sr.ntp, ext |-> sr.rtp]>>
    [] newest # <<>> /\ sr.ntp >= newest[1].ntp /\ getExtended(newest[1], sr) >= newest[1].ext ->
         <<[ntp |-> sr.ntp, ext |-> getExtended(newest[1], sr)]>>
    [] OTHER -> newest
=============================================================================
