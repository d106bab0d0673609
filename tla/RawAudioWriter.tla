--------------------------- MODULE RawAudioWriter ---------------------------
(***************************************************************************)
(* The writer of one raw audio track (sfu/rawrec: rawrec.go Writer,        *)
(* tampon.go, saglik.go).  Three goroutines meet in it: forwardRTP calls   *)
(* Write for every packet and Close at the end, the RTCP reader calls SR,  *)
(* and loop looks for the recording's keys in Redis, keeps a sliding       *)
(* window of packets until it sees them, opens the file and writes.        *)
(*                                                                         *)
(* A packet is its number; arrival[i] is when it arrived.  The place of a  *)
(* packet in the file (saat.go), RED copies and the container are left     *)
(* out: a packet of the file is a packet of the file.  The recording       *)
(* service and Redis are external.                                         *)
(***************************************************************************)
EXTENDS Naturals, Sequences, SequencesExt, FiniteSets

CONSTANTS MaxTime,     \* bound: the clock
          MaxPackets,  \* bound: packets of the track
          MaxSRs,      \* bound: Sender Reports
          WaitFor,     \* waitFor, the width of the window
          NoteAfter,   \* hedefYokNotuSonra
          WriteDelay,  \* yazmaGecikme
          ChanBuf,     \* chanBuf
          Env          \* "reorder": calls to Redis overtake each other; "redisDown": they
                       \* fail; "diskFails": the file cannot be opened

VARIABLES
  now,       \* the clock; 0 stands for the zero time
  arrival,   \* when each packet so far arrived
  dropped,   \* packets that met a full channel
  media,     \* the goroutine of forwardRTP: "runs", "closing", "waits", "ended"
  rtcp,      \* the RTCP reader: "idle" or "holds" kapatKilit for reading
  srs,       \* Sender Reports so far
  closed, ch, chClosed, panicked,
  start,     \* when the recording was started, 0 before
  keys,      \* the two keys in Redis: "track" and "room"
  note,      \* the fallback key of the track
  calls,     \* calls to Redis on their way
  hedef, ilkPaketAn, bekleyen, iz, uyarildi, vazgec, \* variables of loop
  file,      \* "none", "open", "closed"
  kuyruk, written, lost, \* queue of delayed writes, the file, kayitBasiKayip > 0
  done

redis == <<start, keys, note, calls>>
producers == <<arrival, dropped, media, rtcp, srs, closed, chClosed, panicked>>
output == <<file, kuyruk, written, lost>>
search == <<hedef, ilkPaketAn, bekleyen, iz, uyarildi, vazgec>>
vars == <<now, producers, ch, redis, search, output, done>>

Times == 0..MaxTime
Packets == 1..Len(arrival)
SR == 0  \* a Sender Report in the channel
Notes == {"none", "hedef-yok", "dosya-acilamadi"}

TypeOK ==
  /\ now \in Times \ {0}
  /\ arrival \in Seq(Times \ {0}) /\ Len(arrival) <= MaxPackets /\ dropped \subseteq Packets
  /\ media \in {"runs", "closing", "waits", "ended"} /\ rtcp \in {"idle", "holds"} /\ srs \in 0..MaxSRs
  /\ ch \in Seq(Packets \cup {SR}) /\ Len(ch) <= ChanBuf
  /\ closed \in BOOLEAN /\ chClosed \in BOOLEAN /\ panicked \in BOOLEAN /\ done \in BOOLEAN
  /\ start \in Times /\ keys \subseteq {"track", "room"} /\ note \in Notes
  /\ calls \in Seq(Notes)
  /\ hedef \in BOOLEAN /\ uyarildi \in BOOLEAN /\ vazgec \in BOOLEAN /\ lost \in BOOLEAN
  /\ ilkPaketAn \in Times /\ iz \in Times
  /\ bekleyen \in Seq(Packets) /\ kuyruk \in Seq(Packets) /\ written \in Seq(Packets)
  /\ file \in {"none", "open", "closed"}

Init ==
  /\ now = 1 /\ arrival = <<>> /\ dropped = {} /\ media = "runs" /\ rtcp = "idle" /\ srs = 0
  /\ closed = FALSE /\ ch = <<>> /\ chClosed = FALSE /\ panicked = FALSE
  /\ start = 0 /\ keys = {} /\ note = "none" /\ calls = <<>>
  /\ hedef = FALSE /\ ilkPaketAn = 0 /\ bekleyen = <<>> /\ iz = 0 /\ uyarildi = FALSE /\ vazgec = FALSE
  /\ file = "none" /\ kuyruk = <<>> /\ written = <<>> /\ lost = FALSE
  /\ done = FALSE

-----------------------------------------------------------------------------
(* The producers.  A send never blocks: it is dropped when the channel is  *)
(* full, and it panics on a closed channel.                                *)
Send(item, isFull) ==
  /\ panicked' = chClosed
  /\ isFull = (~chClosed /\ Len(ch) = ChanBuf)
  /\ ch' = IF chClosed \/ isFull THEN ch ELSE Append(ch, item)

Write ==
  /\ media = "runs" /\ ~closed /\ Len(arrival) < MaxPackets
  /\ arrival' = Append(arrival, now)
  /\ \E isFull \in BOOLEAN :
       /\ Send(Len(arrival) + 1, isFull)
       /\ dropped' = IF isFull THEN dropped \cup {Len(arrival) + 1} ELSE dropped
  /\ UNCHANGED <<now, media, rtcp, srs, closed, chClosed, redis, search, output, done>>

(* SR takes kapatKilit for reading before it looks at closed.               *)
SRBegin ==
  /\ rtcp = "idle" /\ ~closed /\ srs < MaxSRs
  /\ rtcp' = "holds" /\ srs' = srs + 1
  /\ UNCHANGED <<now, arrival, dropped, media, closed, ch, chClosed, panicked, redis, search, output, done>>

SRSend ==
  /\ rtcp = "holds"
  /\ \E isFull \in BOOLEAN : Send(SR, isFull)
  /\ rtcp' = "idle"
  /\ UNCHANGED <<now, arrival, dropped, media, srs, closed, chClosed, redis, search, output, done>>

CloseBegin ==
  /\ media = "runs" /\ media' = "closing" /\ closed' = TRUE
  /\ UNCHANGED <<now, arrival, dropped, rtcp, srs, ch, chClosed, panicked, redis, search, output, done>>

(* A form of CloseChannel that does not take kapatKilit.                    *)
CloseChannelAtOnce ==
  /\ media = "closing"
  /\ media' = "waits" /\ chClosed' = TRUE
  /\ UNCHANGED <<now, arrival, dropped, rtcp, srs, closed, ch, panicked, redis, search, output, done>>
CloseChannel == rtcp = "idle" /\ CloseChannelAtOnce

CloseEnd ==
  /\ media = "waits" /\ done /\ media' = "ended"
  /\ UNCHANGED <<now, arrival, dropped, rtcp, srs, closed, ch, chClosed, panicked, redis, search, output, done>>

-----------------------------------------------------------------------------
(* The recording service and Redis.  A note is set and deleted in a        *)
(* goroutine of its own.                                                    *)
Press ==
  /\ start = 0 /\ start' = now
  /\ UNCHANGED <<now, producers, ch, keys, note, calls, search, output, done>>

WriteKey(k) ==
  /\ k \notin keys /\ (k = "room" => start > 0)
  /\ keys' = keys \cup {k}
  /\ UNCHANGED <<now, producers, ch, start, note, calls, search, output, done>>

CallArrives ==
  /\ \E i \in 1..Len(calls) :
       /\ i = 1 \/ "reorder" \in Env
       /\ calls' = RemoveAt(calls, i)
       /\ \/ note' = calls[i]
          \/ "redisDown" \in Env /\ UNCHANGED note
  /\ UNCHANGED <<now, producers, ch, start, keys, search, output, done>>

Tick ==
  /\ now < MaxTime /\ ~done
  /\ now' = now + 1
  /\ UNCHANGED <<producers, ch, redis, search, output, done>>

-----------------------------------------------------------------------------
(* loop: the ticker.  While the target is unknown, every tick looks it up, *)
(* from the first packet to the end of the track.                           *)
Calls(op) == Append(calls, op)

(* What the ticker leaves in Redis: geriDususYaz once the target has been   *)
(* missing for long, geriDususSil when it turns up after that.              *)
Noting(found) ==
  CASE found /\ uyarildi -> Calls("none")
    [] ~found /\ ~uyarildi /\ now > ilkPaketAn + NoteAfter -> Calls("hedef-yok")
    [] OTHER -> calls

Looking == ~done /\ ~hedef /\ ~vazgec /\ ilkPaketAn > 0

Lookup(found) ==
  /\ Looking
  /\ IF found THEN keys = {"track", "room"}
              ELSE keys # {"track", "room"} \/ "redisDown" \in Env
  /\ hedef' = found
  /\ uyarildi' = (uyarildi \/ (~found /\ now > ilkPaketAn + NoteAfter))
  /\ calls' = Noting(found)
  /\ UNCHANGED <<now, producers, ch, start, keys, note, ilkPaketAn, bekleyen, iz, vazgec, output, done>>

-----------------------------------------------------------------------------
(* loop: the channel.                                                       *)
Newer(a, b) == IF a > b THEN a ELSE b

(* Packets are held in the order they came in and leave from the front, as  *)
(* long as they are in S.                                                   *)
Leading(b, S) ==
  CHOOSE k \in 0..Len(b) : (\A i \in 1..k : b[i] \in S) /\ (k < Len(b) => b[k + 1] \notin S)
Cut(b, S) == SubSeq(b, 1, Leading(b, S))
Left(b, S) == SubSeq(b, Leading(b, S) + 1, Len(b))

(* pencereKirp drops from the front what is older than the window; the      *)
(* newest it dropped is remembered.                                         *)
Old(last) == {i \in Packets : last > arrival[i] + WaitFor}
pencereKirp(b, last) == Left(b, Old(last))
kaydet(b, last) ==
  LET out == Cut(b, Old(last)) IN IF out = <<>> THEN iz ELSE Newer(iz, arrival[Last(out)])

(* kayanTamponSonucu: the file misses its beginning if a packet that came   *)
(* after the start was dropped from the window; a form of it blames none.   *)
NothingWasDropped == FALSE
kayanTamponSonucu == iz > start

(* bosalt writes what has waited for yazmaGecikme.                          *)
Due(last) == {i \in Packets : last >= arrival[i] + WriteDelay}

Receive ==
  /\ ~done /\ ch # <<>> /\ ch' = Tail(ch)
  /\ UNCHANGED <<now, producers, start, keys, note, hedef, uyarildi, done>>

(* Sender Reports go to the clock of the file; a writer that gave up only   *)
(* empties its channel.                                                     *)
Discard ==
  /\ Receive /\ (Head(ch) = SR \/ vazgec)
  /\ UNCHANGED <<calls, ilkPaketAn, bekleyen, iz, vazgec, output>>

Hold ==
  /\ Receive /\ Head(ch) # SR /\ ~vazgec /\ ~hedef
  /\ LET p == Head(ch)
         b == Append(bekleyen, p)
     IN  /\ ilkPaketAn' = IF ilkPaketAn = 0 THEN arrival[p] ELSE ilkPaketAn
         /\ bekleyen' = pencereKirp(b, arrival[p])
         /\ iz' = kaydet(b, arrival[p])
  /\ UNCHANGED <<calls, vazgec, output>>

(* The packets of the window that are of the recording: the older ones are  *)
(* at its front, as arrivals do not go back.  The one that has just come is *)
(* kept if there are none.                                                  *)
Early == {i \in Packets : arrival[i] < start}
Kept(b) == IF Left(b, Early) = <<>> THEN <<Last(b)>> ELSE Left(b, Early)

(* The file is opened by the first packet after the target was found.       *)
Open ==
  /\ Receive /\ Head(ch) # SR /\ ~vazgec /\ hedef /\ file = "none"
  /\ lost' = kayanTamponSonucu
  /\ bekleyen' = <<>>
  /\ \/ /\ file' = "open"
        /\ LET k == Kept(Append(bekleyen, Head(ch)))
           IN  /\ written' = Cut(k, Due(arrival[Head(ch)]))
               /\ kuyruk' = Left(k, Due(arrival[Head(ch)]))
        /\ UNCHANGED <<calls, vazgec>>
     \/ /\ "diskFails" \in Env
        /\ vazgec' = TRUE /\ calls' = Calls("dosya-acilamadi")
        /\ UNCHANGED <<file, kuyruk, written>>
  /\ UNCHANGED <<ilkPaketAn, iz>>

Place ==
  /\ Receive /\ Head(ch) # SR /\ ~vazgec /\ file = "open"
  /\ LET q == Append(kuyruk, Head(ch))
     IN  /\ written' = written \o Cut(q, Due(arrival[Head(ch)]))
         /\ kuyruk' = Left(q, Due(arrival[Head(ch)]))
  /\ UNCHANGED <<calls, ilkPaketAn, bekleyen, iz, vazgec, file, lost>>

(* kapat, once the channel is closed and empty.                             *)
Flushed == written \o kuyruk
Finish ==
  /\ ~done /\ chClosed /\ ch = <<>>
  /\ done' = TRUE
  /\ IF file = "open" THEN file' = "closed" /\ written' = Flushed /\ kuyruk' = <<>>
                      ELSE UNCHANGED <<file, written, kuyruk>>
  /\ UNCHANGED <<now, producers, ch, redis, search, lost>>

-----------------------------------------------------------------------------
Looks == \E found \in BOOLEAN : Lookup(found)
Loop == Discard \/ Hold \/ Open \/ Place \/ Finish
Next ==
  \/ Write \/ SRBegin \/ SRSend \/ CloseBegin \/ CloseChannel \/ CloseEnd
  \/ Press \/ (\E k \in {"track", "room"} : WriteKey(k)) \/ CallArrives \/ Tick
  \/ Looks \/ Loop

Spec == Init /\ [][Next]_vars

(* Goroutines that can run do; the ticker is one of two ready cases of a    *)
(* select, which Go chooses at random.                                      *)
FairSpec ==
  /\ Spec
  /\ WF_vars(Loop) /\ SF_vars(Lookup(TRUE)) /\ SF_vars(Looks)
  /\ WF_vars(SRSend) /\ WF_vars(CloseChannel) /\ WF_vars(CloseEnd) /\ WF_vars(CallArrives)

-----------------------------------------------------------------------------
Wanted == {i \in Packets \ dropped : start > 0 /\ arrival[i] > start}
Recorded == ToSet(written) \cup ToSet(kuyruk)

(* No send on a closed channel: SR, from another goroutine than Close, is   *)
(* kept out by kapatKilit.                                                  *)
NeverPanics == ~panicked

(* A finished file that is not marked "eksik" at its beginning has every    *)
(* packet that arrived after the start and got into the channel.            *)
WholeOrMarked ==
  file = "closed" /\ ~lost => Wanted \subseteq Recorded

(* A file is marked only if it really misses a packet of the recording      *)
(* (tampon.go: the window alone is no fault).                               *)
MarkedOnlyIfIncomplete ==
  file # "none" /\ lost => \E i \in Wanted : i \notin Recorded

(* Once all calls have arrived, the note tells what became of the track:    *)
(* a writer that found its target and opened its file leaves none, one that *)
(* could not open it says so.                                               *)
NoteIsTrue ==
  calls = <<>> => /\ hedef /\ ~vazgec => note # "hedef-yok"
                  /\ vazgec => note = "dosya-acilamadi"

(* Nothing older than the start is in the file (hedef.baslangic).           *)
NothingBeforeTheStart == \A i \in ToSet(written) : arrival[i] >= start

(* A writer that held packets of the recording and knew its target leaves   *)
(* a file, or a note that there is none.                                    *)
NoSilentLoss ==
  done /\ calls = <<>> /\ hedef /\ Wanted # {} => file = "closed" \/ note # "none"

(* Once both keys are there, a track that has begun finds its target or     *)
(* ends.                                                                    *)
TargetIsFound == (keys = {"track", "room"} /\ ilkPaketAn > 0) ~> (hedef \/ done)

(* Close returns.                                                           *)
CloseReturns == (media = "closing") ~> (media = "ended")
=============================================================================
