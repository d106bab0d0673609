----------------------------- MODULE SignalRelay -----------------------------
(***************************************************************************)
(* routing/signal.go: one direction of a participant's signal connection   *)
(* between two nodes.  A signalMessageSink numbers the messages it is      *)
(* given and sends what it has queued over a psrpc stream, again and again *)
(* until it is acknowledged; CopySignalStreamToMessageChannel on the other *)
(* side drops what it has seen, notices what is missing, and hands the     *)
(* rest to the session through a MessageChannel.                           *)
(*                                                                         *)
(* The psrpc stream is external: a packet may be lost, its acknowledgement *)
(* too, and a packet whose Send has timed out may still arrive.  Packets   *)
(* of one stream do not overtake each other.                               *)
(***************************************************************************)
EXTENDS Integers, Sequences

CONSTANTS CloseOnFailure,   \* SignalSinkParams.CloseOnFailure
          ChannelSize,      \* DefaultMessageChannelSize
          StreamBufferSize, \* SignalRelayConfig.StreamBufferSize
          MaxMessages,      \* bound on WriteMessage calls
          MaxInFlight       \* bound on packets in flight

ASSUME RelayAssumption ==
  /\ CloseOnFailure \in BOOLEAN
  /\ ChannelSize \in Nat /\ StreamBufferSize \in Nat
  /\ MaxMessages \in Nat /\ MaxInFlight \in Nat

VARIABLES
  written,             \* messages accepted by WriteMessage; message i is the i-th
  seq, queue,          \* of the sink
  writing, draining,
  sending,             \* the packet write() is sending, NoPacket outside Send
  acked,               \* its acknowledgement has come
  senderOpen,          \* the stream at the sink: Stream.Err() = nil
  net,                 \* packets in flight
  recvOpen, recvBuf,   \* the stream at the reader, and its Channel()
  readSeq,             \* of the signalMessageReader
  reading,             \* the packet it is handing on
  rest,                \* what is still to be handed on of it
  readerState,         \* "reading", "ended", "broken"
  delivered,           \* messages written to the MessageChannel
  taken                \* how many of them the session has read

sinkVars   == <<written, seq, queue, writing, draining>>
sendVars   == <<sending, acked>>
readerVars == <<readSeq, reading, rest, readerState, delivered>>
vars == <<sinkVars, sendVars, senderOpen, net, recvOpen, recvBuf, readerVars, taken>>

Packets == [seq : Nat, msgs : Seq(Nat), close : BOOLEAN]
NoPacket == [seq |-> 0, msgs |-> <<>>, close |-> FALSE]

TypeOK ==
  /\ written \in Nat /\ seq \in Nat /\ queue \in Seq(Nat)
  /\ writing \in BOOLEAN /\ draining \in BOOLEAN
  /\ sending \in Packets /\ acked \in BOOLEAN
  /\ senderOpen \in BOOLEAN /\ recvOpen \in BOOLEAN
  /\ net \in Seq(Packets) /\ recvBuf \in Seq(Packets)
  /\ readSeq \in Nat /\ reading \in Packets /\ rest \in Seq(Nat)
  /\ readerState \in {"reading", "ended", "broken"}
  /\ delivered \in Seq(Nat) /\ taken \in Nat

Init ==
  /\ written = 0 /\ seq = 0 /\ queue = <<>> /\ writing = FALSE /\ draining = FALSE
  /\ sending = NoPacket /\ acked = FALSE
  /\ senderOpen = TRUE /\ net = <<>> /\ recvOpen = TRUE /\ recvBuf = <<>>
  /\ readSeq = 0 /\ reading = NoPacket /\ rest = <<>> /\ readerState = "reading"
  /\ delivered = <<>> /\ taken = 0

-----------------------------------------------------------------------------
(* The sink.                                                                *)

Drop(s, n) == SubSeq(s, n + 1, Len(s))

WriteMessage ==
  /\ senderOpen /\ ~draining /\ written < MaxMessages
  /\ written' = written + 1
  /\ queue' = Append(queue, written + 1)
  /\ writing' = TRUE
  /\ UNCHANGED <<seq, draining, sendVars, senderOpen, net, recvOpen, recvBuf, readerVars,
                 taken>>

(* Close starts a write() that sends the close flag, if none is running.    *)
Close ==
  /\ ~draining
  /\ draining' = TRUE /\ writing' = TRUE
  /\ UNCHANGED <<written, seq, queue, sendVars, senderOpen, net, recvOpen, recvBuf,
                 readerVars, taken>>

(* The head of write()'s loop: everything queued goes into one packet.      *)
WriteStart ==
  /\ writing /\ sending = NoPacket /\ senderOpen
  /\ draining \/ queue # <<>>
  /\ Len(net) < MaxInFlight
  /\ LET p == [seq |-> seq, msgs |-> queue, close |-> draining] IN
     sending' = p /\ net' = Append(net, p)
  /\ acked' = FALSE
  /\ UNCHANGED <<sinkVars, senderOpen, recvOpen, recvBuf, readerVars, taken>>

(* What follows the loop: the stream is closed at the end of draining, and  *)
(* after a failure if the sink is told to.                                  *)
WriteEnd(failed) ==
  /\ writing' = FALSE
  /\ sending' = NoPacket /\ acked' = FALSE
  /\ senderOpen' = (senderOpen /\ ~draining /\ ~(failed /\ CloseOnFailure))

(* The loop ends with nothing left to send, or with the stream closed.      *)
WriteDone ==
  /\ writing /\ sending = NoPacket
  /\ (~draining /\ queue = <<>>) \/ ~senderOpen
  /\ WriteEnd(FALSE)
  /\ UNCHANGED <<written, seq, queue, draining, net, recvOpen, recvBuf, readerVars, taken>>

(* Mutant: what was sent stays in the queue.                                *)
SentButNotCut ==
  /\ sending # NoPacket /\ acked
  /\ seq' = seq + Len(sending.msgs)
  /\ queue' = queue
  /\ sending' = NoPacket /\ acked' = FALSE
  /\ UNCHANGED <<written, draining, writing, senderOpen, net, recvOpen, recvBuf, readerVars,
                 taken>>

(* Send returns: the packet was acknowledged.                               *)
SendSucceeds ==
  /\ sending # NoPacket /\ acked
  /\ seq' = seq + Len(sending.msgs)
  /\ queue' = Drop(queue, Len(sending.msgs))
  /\ IF sending.close
     THEN WriteEnd(FALSE)
     ELSE sending' = NoPacket /\ acked' = FALSE /\ UNCHANGED <<writing, senderOpen>>
  /\ UNCHANGED <<written, draining, net, recvOpen, recvBuf, readerVars, taken>>

(* Send times out, or fails because the stream is closed, before the        *)
(* deadline: the loop goes round again.                                     *)
SendFails ==
  /\ sending # NoPacket
  /\ sending' = NoPacket /\ acked' = FALSE
  /\ UNCHANGED <<sinkVars, senderOpen, net, recvOpen, recvBuf, readerVars, taken>>

(* Mutant: the numbers of what is given up are used again.                  *)
GiveUpKeepsSeq ==
  /\ sending # NoPacket
  /\ queue' = <<>> /\ seq' = seq
  /\ WriteEnd(TRUE)
  /\ UNCHANGED <<written, draining, net, recvOpen, recvBuf, readerVars, taken>>

(* Send fails after the deadline: all that is queued by now is given up.    *)
GiveUp ==
  /\ sending # NoPacket
  /\ queue' = <<>> /\ seq' = seq + Len(queue)
  /\ WriteEnd(TRUE)
  /\ UNCHANGED <<written, draining, net, recvOpen, recvBuf, readerVars, taken>>

-----------------------------------------------------------------------------
(* psrpc.                                                                   *)

(* A packet arrives; the acknowledgement reaches a Send that still waits.   *)
Arrives ==
  /\ net # <<>> /\ recvOpen /\ Len(recvBuf) < StreamBufferSize
  /\ net' = Tail(net)
  /\ recvBuf' = Append(recvBuf, Head(net))
  /\ acked' \in {acked, sending = Head(net)}
  /\ UNCHANGED <<sinkVars, sending, senderOpen, recvOpen, readerVars, taken>>

(* A packet is lost, or refused by a closed or full stream.                 *)
Lost ==
  /\ net # <<>>
  /\ net' = Tail(net)
  /\ UNCHANGED <<sinkVars, sendVars, senderOpen, recvOpen, recvBuf, readerVars, taken>>

(* The close of one end reaches the other.                                  *)
CloseArrives ==
  /\ senderOpen # recvOpen
  /\ senderOpen' = FALSE /\ recvOpen' = FALSE
  /\ UNCHANGED <<sinkVars, sendVars, net, recvBuf, readerVars, taken>>

-----------------------------------------------------------------------------
(* CopySignalStreamToMessageChannel.                                        *)

(* signalMessageReader.Read: the messages of p that were not seen before.   *)
Read(p) == IF readSeq - p.seq >= Len(p.msgs) THEN <<>> ELSE Drop(p.msgs, readSeq - p.seq)

ReaderTakes ==
  /\ readerState = "reading" /\ reading = NoPacket /\ recvBuf # <<>>
  /\ recvBuf' = Tail(recvBuf)
  /\ LET p == Head(recvBuf) IN
     \/ /\ readSeq < p.seq                     \* ErrSignalMessageDropped
        /\ readerState' = "broken"
        /\ UNCHANGED <<readSeq, reading, rest>>
     \/ /\ readSeq >= p.seq
        /\ reading' = p
        /\ rest' = Read(p)
        /\ readSeq' = readSeq + Len(Read(p))
        /\ UNCHANGED readerState
  /\ UNCHANGED <<sinkVars, sendVars, senderOpen, net, recvOpen, delivered, taken>>

(* MessageChannel.WriteMessage: refused when the channel is full.           *)
ReaderWrites ==
  /\ readerState = "reading" /\ rest # <<>>
  /\ \/ /\ Len(delivered) - taken < ChannelSize
        /\ delivered' = Append(delivered, Head(rest))
        /\ rest' = Tail(rest)
        /\ UNCHANGED readerState
     \/ /\ Len(delivered) - taken >= ChannelSize      \* ErrChannelFull
        /\ readerState' = "broken"
        /\ UNCHANGED <<delivered, rest>>
  /\ UNCHANGED <<sinkVars, sendVars, senderOpen, net, recvOpen, recvBuf, readSeq, reading,
                 taken>>

(* A packet is done with; one with the close flag ends the stream.          *)
ReaderNext ==
  /\ readerState = "reading" /\ reading # NoPacket /\ rest = <<>>
  /\ reading' = NoPacket
  /\ IF reading.close THEN readerState' = "ended" /\ recvOpen' = FALSE
                      ELSE UNCHANGED <<readerState, recvOpen>>
  /\ UNCHANGED <<sinkVars, sendVars, senderOpen, net, recvBuf, readSeq, rest, delivered,
                 taken>>

(* The stream was closed and all it held is read.                           *)
ReaderStops ==
  /\ readerState = "reading" /\ reading = NoPacket /\ recvBuf = <<>> /\ ~recvOpen
  /\ readerState' = "broken"
  /\ UNCHANGED <<sinkVars, sendVars, senderOpen, net, recvOpen, recvBuf, readSeq, reading,
                 rest, delivered, taken>>

(* The session reads its channel; at the end of it, it closes its own sink  *)
(* and with it the stream.                                                  *)
SessionReads ==
  /\ taken < Len(delivered)
  /\ taken' = taken + 1
  /\ UNCHANGED <<sinkVars, sendVars, senderOpen, net, recvOpen, recvBuf, readerVars>>

SessionEnds ==
  /\ readerState # "reading" /\ taken = Len(delivered) /\ recvOpen
  /\ recvOpen' = FALSE
  /\ UNCHANGED <<sinkVars, sendVars, senderOpen, net, recvBuf, readerVars, taken>>

-----------------------------------------------------------------------------
Writer == WriteStart \/ WriteDone \/ SendSucceeds
Reader == ReaderTakes \/ ReaderWrites \/ ReaderNext \/ ReaderStops
Session == SessionReads \/ SessionEnds

Next == \/ WriteMessage \/ Close
        \/ Writer \/ SendFails \/ GiveUp
        \/ Arrives \/ Lost \/ CloseArrives
        \/ Reader \/ Session

Spec == Init /\ [][Next]_vars

(* The goroutines run.  A Send ends, one way or the other, and retries end  *)
(* at the deadline; a close reaches the other end.                          *)
FairSpec ==
  /\ Spec
  /\ WF_vars(Writer) /\ WF_vars(Reader) /\ WF_vars(Session)
  /\ WF_vars(Arrives \/ Lost) /\ WF_vars(CloseArrives)
  /\ WF_vars(SendSucceeds \/ SendFails \/ GiveUp)
  /\ SF_vars(SendSucceeds \/ GiveUp)

-----------------------------------------------------------------------------
(* The relay implements the channel the two ends think they have.           *)
End == IF readerState = "reading" THEN "open" ELSE readerState
Channel == INSTANCE SignalChannel
             WITH accepted <- written, arrived <- delivered, end <- End
ImplementsChannel == Channel!ChanSpec

(* What makes it so: the number a packet carries is the number of the       *)
(* message before its first one, whatever was retried or given up; a packet *)
(* with the close flag carries the last message there will be; and the      *)
(* reader's number is that of the last message it took.                     *)
NumberedFrom(n, s) == \A i \in 1..Len(s) : s[i] = n + i
WellNumbered(p, w, d) ==
  /\ NumberedFrom(p.seq, p.msgs) /\ p.seq + Len(p.msgs) <= w
  /\ p.close => d /\ p.seq + Len(p.msgs) = w
AllWellNumbered(s, w, d) == \A i \in 1..Len(s) : WellNumbered(s[i], w, d)
SinkNumbering ==
  /\ NumberedFrom(seq, queue) /\ seq + Len(queue) = written
  /\ sending # NoPacket => sending.seq = seq /\ Len(sending.msgs) <= Len(queue)
PacketNumbering ==
  /\ WellNumbered(sending, written, draining)
  /\ AllWellNumbered(net, written, draining)
  /\ AllWellNumbered(recvBuf, written, draining)
ReaderNumbering ==
  /\ WellNumbered(reading, written, draining) /\ reading.seq + Len(reading.msgs) <= readSeq
  /\ reading = NoPacket => rest = <<>>
  /\ readSeq <= written /\ Len(delivered) + Len(rest) = readSeq
  /\ NumberedFrom(Len(delivered), rest) /\ NumberedFrom(0, delivered)
Numbering == SinkNumbering /\ PacketNumbering /\ ReaderNumbering

(* A message that was accepted arrives, or the stream is closed, in order   *)
(* or not: nothing is given up behind the back of the sender.               *)
Settled(k) == Len(delivered) >= k \/ ~senderOpen \/ readerState # "reading"
AcceptedIsSettled == \A k \in 1..MaxMessages : (written >= k) ~> Settled(k)

(* Close, which waits for the stream to be closed, returns.                 *)
CloseReturns == draining ~> ~senderOpen
=============================================================================
