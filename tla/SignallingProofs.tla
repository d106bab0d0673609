--------------------------- MODULE SignallingProofs --------------------------
(***************************************************************************)
(* Proofs about the signal relay and the negotiations of the two           *)
(* PeerConnections.                                                        *)
(*                                                                         *)
(* SignalRelay: the numbering of messages, packets and reader is an        *)
(* inductive invariant, and from it the relay implements SignalChannel,    *)
(* for every number of messages, every buffer size and any sequence of     *)
(* losses, late packets and give-ups.                                      *)
(*                                                                         *)
(* PCOfferer, PCAnswerer: for every number of changes, offers, breaks of   *)
(* the signal connection, candidates and events waiting, the offerer's own *)
(* state is that of the PeerConnection, and the answerer loses no          *)
(* candidate of the ICE generation in use.                                 *)
(***************************************************************************)
EXTENDS MCSignalling, SequenceTheorems, TLAPS

RelayInv == TypeOK /\ Numbering

-----------------------------------------------------------------------------
(* Sequences of consecutive numbers: appending the next number, ...         *)
LEMMA AppendNumbered ==
  ASSUME NEW n \in Nat, NEW s \in Seq(Nat), NumberedFrom(n, s)
  PROVE  NumberedFrom(n, Append(s, n + Len(s) + 1))
BY SMTT(30) DEF NumberedFrom

(* ... taking the first one, ...                                            *)
LEMMA TailNumbered ==
  ASSUME NEW n \in Nat, NEW s \in Seq(Nat), NumberedFrom(n, s), s # <<>>
  PROVE  /\ Head(s) = n + 1 /\ Tail(s) \in Seq(Nat)
         /\ Len(Tail(s)) = Len(s) - 1 /\ Len(s) > 0
         /\ NumberedFrom(n + 1, Tail(s))
BY DEF NumberedFrom

(* ... or dropping the first k.                                             *)
LEMMA DropNumbered ==
  ASSUME NEW n \in Nat, NEW s \in Seq(Nat), NumberedFrom(n, s), NEW k \in 0..Len(s)
  PROVE  /\ Drop(s, k) \in Seq(Nat) /\ Len(Drop(s, k)) = Len(s) - k
         /\ NumberedFrom(n + k, Drop(s, k))
<1> DEFINE d == SubSeq(s, k + 1, Len(s))
<1>1. d \in Seq(Nat) /\ Len(d) = Len(s) - k
  BY SubSeqProperties
<1>2. \A i \in 1..Len(d) : d[i] = s[k + i]
  BY <1>1, SubSeqProperties
<1>3. \A i \in 1..Len(d) : d[i] = n + k + i
  BY <1>1, <1>2 DEF NumberedFrom
<1> QED  BY <1>1, <1>3 DEF Drop, NumberedFrom

(* What holds of all packets of a sequence holds after appending one more   *)
(* and after taking the first.                                              *)
LEMMA PacketsAppend ==
  ASSUME NEW w \in Nat, NEW d \in BOOLEAN, NEW s \in Seq(Packets), NEW p \in Packets,
         AllWellNumbered(s, w, d), WellNumbered(p, w, d)
  PROVE  Append(s, p) \in Seq(Packets) /\ AllWellNumbered(Append(s, p), w, d)
<1>1. Append(s, p) \in Seq(Packets) /\ Len(Append(s, p)) = Len(s) + 1
  OBVIOUS
<1>2. ASSUME NEW i \in 1..Len(Append(s, p))
      PROVE  WellNumbered(Append(s, p)[i], w, d)
  <2>1. CASE i \in 1..Len(s)
    <3>1. Append(s, p)[i] = s[i]  BY <2>1
    <3> QED  BY <2>1, <3>1 DEF AllWellNumbered
  <2>2. CASE i = Len(s) + 1
    <3>1. Append(s, p)[i] = p  BY <2>2
    <3> QED  BY <3>1
  <2> QED  BY <1>1, <2>1, <2>2
<1> QED  BY <1>1, <1>2 DEF AllWellNumbered

LEMMA PacketsTail ==
  ASSUME NEW w \in Nat, NEW d \in BOOLEAN, NEW s \in Seq(Packets), s # <<>>,
         AllWellNumbered(s, w, d)
  PROVE  /\ Tail(s) \in Seq(Packets) /\ Head(s) \in Packets /\ WellNumbered(Head(s), w, d)
         /\ AllWellNumbered(Tail(s), w, d)
<1>1. Tail(s) \in Seq(Packets) /\ Len(Tail(s)) = Len(s) - 1 /\ Head(s) \in Packets
      /\ Len(s) > 0 /\ Head(s) = s[1]
  OBVIOUS
<1>2. ASSUME NEW i \in 1..Len(Tail(s))
      PROVE  WellNumbered(Tail(s)[i], w, d)
  <2>1. Tail(s)[i] = s[i + 1] /\ i + 1 \in 1..Len(s)  BY <1>1
  <2> QED  BY <2>1 DEF AllWellNumbered
<1> QED  BY <1>1, <1>2 DEF AllWellNumbered

(* Packets stay well numbered when a message is written before draining     *)
(* begins, and when it begins.                                              *)
LEMMA WrittenKeeps ==
  ASSUME NEW w \in Nat, NEW p \in Packets, WellNumbered(p, w, FALSE)
  PROVE  WellNumbered(p, w + 1, FALSE) /\ WellNumbered(p, w, TRUE)
BY DEF WellNumbered, Packets

LEMMA WrittenKeepsAll ==
  ASSUME NEW w \in Nat, NEW s \in Seq(Packets), AllWellNumbered(s, w, FALSE)
  PROVE  AllWellNumbered(s, w + 1, FALSE) /\ AllWellNumbered(s, w, TRUE)
<1>1. \A i \in 1..Len(s) : s[i] \in Packets  OBVIOUS
<1> QED  BY <1>1, WrittenKeeps DEF AllWellNumbered

LEMMA NoPacketFacts ==
  NoPacket \in Packets /\ NoPacket.seq = 0 /\ NoPacket.msgs = <<>> /\ ~NoPacket.close
BY DEF NoPacket, Packets

LEMMA NoPacketNumbered ==
  ASSUME NEW w \in Nat, NEW d \in BOOLEAN
  PROVE  WellNumbered(NoPacket, w, d)
BY NoPacketFacts DEF WellNumbered, NumberedFrom

-----------------------------------------------------------------------------
LEMMA InvInit == Init => RelayInv
<1> SUFFICES ASSUME Init PROVE RelayInv
  OBVIOUS
<1>1. TypeOK
  <2>1. <<>> \in Seq(Nat) /\ <<>> \in Seq(Packets)
    OBVIOUS
  <2> QED  BY <2>1, NoPacketFacts DEF Init, TypeOK
<1>2. WellNumbered(NoPacket, written, draining)
  BY NoPacketNumbered DEF Init
<1>3. NumberedFrom(0, <<>>) /\ AllWellNumbered(<<>>, written, draining)
  BY DEF NumberedFrom, AllWellNumbered
<1>4. SinkNumbering /\ PacketNumbering
  BY <1>2, <1>3 DEF Init, SinkNumbering, PacketNumbering
<1>5. ReaderNumbering
  BY <1>2, <1>3, NoPacketFacts DEF Init, ReaderNumbering
<1> QED  BY <1>1, <1>4, <1>5 DEF RelayInv, Numbering

(* The sink.                                                                *)
LEMMA WriteMessageInv == RelayInv /\ WriteMessage => RelayInv'
<1> SUFFICES ASSUME RelayInv, WriteMessage PROVE RelayInv'
  OBVIOUS
<1> USE DEF RelayInv, Numbering
<1>0. TypeOK /\ draining = FALSE /\ draining' = FALSE /\ written' = written + 1
  BY DEF TypeOK, WriteMessage
<1>1. TypeOK'
  BY DEF TypeOK, WriteMessage, sendVars, readerVars
<1>2. SinkNumbering'
  <2>0. queue' = Append(queue, seq + Len(queue) + 1) /\ seq' = seq
    BY DEF SinkNumbering, TypeOK, WriteMessage
  <2>1. NumberedFrom(seq, queue)'
    BY <2>0, AppendNumbered DEF SinkNumbering, TypeOK
  <2>2. Len(queue)' = Len(queue) + 1 /\ Len(queue) \in Nat /\ Len(sending.msgs) \in Nat
    BY <2>0 DEF TypeOK, Packets
  <2> QED  BY SMTT(30), <2>1, <2>2 DEF SinkNumbering, TypeOK, WriteMessage, sendVars
<1>3. PacketNumbering'
  BY <1>0, WrittenKeeps, WrittenKeepsAll DEF PacketNumbering, TypeOK, WriteMessage, sendVars
<1>4. ReaderNumbering'
  <2>1. WellNumbered(reading, written + 1, FALSE)
    BY <1>0, WrittenKeeps DEF ReaderNumbering, TypeOK
  <2>2. UNCHANGED <<readSeq, reading, rest, delivered>> /\ readSeq \in Nat
    BY DEF WriteMessage, readerVars, TypeOK
  <2>3. readSeq <= written + 1
    BY <2>2 DEF ReaderNumbering, TypeOK
  <2> QED  BY <1>0, <2>1, <2>2, <2>3 DEF ReaderNumbering
<1> QED  BY <1>1, <1>2, <1>3, <1>4

LEMMA CloseInv == RelayInv /\ Close => RelayInv'
<1> SUFFICES ASSUME RelayInv, Close PROVE RelayInv'
  OBVIOUS
<1> USE DEF RelayInv, Numbering
<1>0. TypeOK /\ draining = FALSE /\ draining' = TRUE /\ written' = written
  BY DEF TypeOK, Close
<1>1. TypeOK'
  BY DEF TypeOK, Close, sendVars, readerVars
<1>2. SinkNumbering'
  BY DEF SinkNumbering, Close, sendVars
<1>3. PacketNumbering'
  BY <1>0, WrittenKeeps, WrittenKeepsAll DEF PacketNumbering, TypeOK, Close, sendVars
<1>4. ReaderNumbering'
  <2>1. WellNumbered(reading, written, TRUE)
    BY <1>0, WrittenKeeps DEF ReaderNumbering, TypeOK
  <2> QED  BY <1>0, <2>1 DEF ReaderNumbering, Close, readerVars
<1> QED  BY <1>1, <1>2, <1>3, <1>4

(* The writer sends what is queued, which the numbering of the sink covers. *)
LEMMA WriteStartInv == RelayInv /\ WriteStart => RelayInv'
<1> SUFFICES ASSUME RelayInv, WriteStart PROVE RelayInv'
  OBVIOUS
<1> USE DEF RelayInv, Numbering
<1> DEFINE p == [seq |-> seq, msgs |-> queue, close |-> draining]
<1>0. p \in Packets /\ p.seq = seq /\ p.msgs = queue /\ p.close = draining
  BY DEF TypeOK, Packets
<1>1. WellNumbered(p, written, draining)
  BY <1>0 DEF WellNumbered, SinkNumbering, TypeOK
<1>2. /\ sending' = p /\ net' = Append(net, p) /\ acked' = FALSE
      /\ UNCHANGED <<sinkVars, senderOpen, recvOpen, recvBuf, readerVars, taken>>
  BY DEF WriteStart
<1> HIDE DEF p
<1>3. net' \in Seq(Packets) /\ AllWellNumbered(net', written, draining)
  BY <1>0, <1>1, <1>2, PacketsAppend DEF PacketNumbering, TypeOK
<1>4. TypeOK'
  BY <1>0, <1>2, <1>3 DEF TypeOK, sinkVars, readerVars
<1>5. SinkNumbering'
  BY <1>0, <1>2 DEF SinkNumbering, TypeOK, sinkVars
<1>6. PacketNumbering'
  BY <1>1, <1>2, <1>3 DEF PacketNumbering, sinkVars
<1>7. ReaderNumbering'
  BY <1>2 DEF ReaderNumbering, sinkVars, readerVars
<1> QED  BY <1>4, <1>5, <1>6, <1>7

(* write() ends, with nothing sent.                                         *)
LEMMA WriteDoneInv == RelayInv /\ WriteDone => RelayInv'
<1> SUFFICES ASSUME RelayInv, WriteDone PROVE RelayInv'
  OBVIOUS
<1> USE DEF RelayInv, Numbering
<1>1. /\ sending' = NoPacket /\ acked' = FALSE /\ writing' = FALSE
      /\ senderOpen' \in BOOLEAN
      /\ UNCHANGED <<written, seq, queue, draining, net, recvOpen, recvBuf, readerVars, taken>>
  BY DEF WriteDone, WriteEnd, TypeOK
<1>2. TypeOK'
  BY <1>1, NoPacketFacts DEF TypeOK, readerVars
<1>3. SinkNumbering'
  BY <1>1 DEF SinkNumbering
<1>4. PacketNumbering'
  BY <1>1, NoPacketNumbered DEF PacketNumbering, TypeOK
<1>5. ReaderNumbering'
  BY <1>1 DEF ReaderNumbering, readerVars
<1> QED  BY <1>2, <1>3, <1>4, <1>5

(* An acknowledged packet is a prefix of the queue, so what is left of the  *)
(* queue is numbered from the new seq.                                      *)
LEMMA SendSucceedsInv == RelayInv /\ SendSucceeds => RelayInv'
<1> SUFFICES ASSUME RelayInv, SendSucceeds PROVE RelayInv'
  OBVIOUS
<1> USE DEF RelayInv, Numbering
<1> DEFINE n == Len(sending.msgs)
<1>1. n \in 0..Len(queue) /\ Len(queue) \in Nat
  BY DEF SendSucceeds, SinkNumbering, TypeOK, Packets
<1>2. /\ sending' = NoPacket /\ acked' = FALSE /\ writing' \in BOOLEAN
      /\ senderOpen' \in BOOLEAN
      /\ seq' = seq + n /\ queue' = Drop(queue, n)
      /\ UNCHANGED <<written, draining, net, recvOpen, recvBuf, readerVars, taken>>
  BY DEF SendSucceeds, WriteEnd, TypeOK
<1> HIDE DEF n
<1>3. /\ Drop(queue, n) \in Seq(Nat) /\ Len(Drop(queue, n)) = Len(queue) - n
      /\ NumberedFrom(seq + n, Drop(queue, n))
  BY <1>1, DropNumbered DEF SinkNumbering, TypeOK
<1>a. seq' \in Nat /\ queue' \in Seq(Nat) /\ seq' + Len(queue') = written'
  <2>1. n \in Nat /\ seq \in Nat /\ seq + Len(queue) = written
    BY <1>1 DEF TypeOK, SinkNumbering
  <2> QED  BY <1>1, <1>2, <1>3, <2>1
<1>4. TypeOK'
  BY <1>2, <1>a, NoPacketFacts DEF TypeOK, readerVars
<1>5. SinkNumbering'
  BY <1>2, <1>3, <1>a DEF SinkNumbering
<1>6. PacketNumbering'
  BY <1>2, NoPacketNumbered DEF PacketNumbering, TypeOK
<1>7. ReaderNumbering'
  BY <1>2 DEF ReaderNumbering, readerVars
<1> QED  BY <1>4, <1>5, <1>6, <1>7

LEMMA SendFailsInv == RelayInv /\ SendFails => RelayInv'
<1> SUFFICES ASSUME RelayInv, SendFails PROVE RelayInv'
  OBVIOUS
<1> USE DEF RelayInv, Numbering
<1>1. /\ sending' = NoPacket /\ acked' = FALSE
      /\ UNCHANGED <<sinkVars, senderOpen, net, recvOpen, recvBuf, readerVars, taken>>
  BY DEF SendFails
<1>2. TypeOK'
  BY <1>1, NoPacketFacts DEF TypeOK, readerVars, sinkVars
<1>3. SinkNumbering'
  BY <1>1 DEF SinkNumbering, sinkVars
<1>4. PacketNumbering'
  BY <1>1, NoPacketNumbered DEF PacketNumbering, TypeOK, sinkVars
<1>5. ReaderNumbering'
  BY <1>1 DEF ReaderNumbering, readerVars, sinkVars
<1> QED  BY <1>2, <1>3, <1>4, <1>5

(* What is given up keeps its numbers: seq moves past it.                   *)
LEMMA GiveUpInv == RelayInv /\ GiveUp => RelayInv'
<1> SUFFICES ASSUME RelayInv, GiveUp PROVE RelayInv'
  OBVIOUS
<1> USE DEF RelayInv, Numbering
<1>1. /\ sending' = NoPacket /\ acked' = FALSE /\ writing' = FALSE
      /\ senderOpen' \in BOOLEAN
      /\ seq' = seq + Len(queue) /\ queue' = <<>>
      /\ UNCHANGED <<written, draining, net, recvOpen, recvBuf, readerVars, taken>>
  BY DEF GiveUp, WriteEnd, TypeOK
<1>2. <<>> \in Seq(Nat) /\ Len(queue) \in Nat /\ seq \in Nat
  BY DEF TypeOK
<1>a. seq' \in Nat /\ queue' \in Seq(Nat)
  BY <1>1, <1>2
<1>3. TypeOK'
  BY <1>1, <1>a, NoPacketFacts DEF TypeOK, readerVars
<1>4. NumberedFrom(seq + Len(queue), <<>>) /\ Len(<<>>) = 0
  BY DEF NumberedFrom
<1>5. SinkNumbering'
  BY <1>1, <1>2, <1>4 DEF SinkNumbering
<1>6. PacketNumbering'
  BY <1>1, NoPacketNumbered DEF PacketNumbering, TypeOK
<1>7. ReaderNumbering'
  BY <1>1 DEF ReaderNumbering, readerVars
<1> QED  BY <1>3, <1>5, <1>6, <1>7

(* The stream.                                                              *)
LEMMA ArrivesInv == RelayInv /\ Arrives => RelayInv'
<1> SUFFICES ASSUME RelayInv, Arrives PROVE RelayInv'
  OBVIOUS
<1> USE DEF RelayInv, Numbering
<1>1. /\ net # <<>> /\ net' = Tail(net) /\ recvBuf' = Append(recvBuf, Head(net))
      /\ acked' \in BOOLEAN
      /\ UNCHANGED <<sinkVars, sending, senderOpen, recvOpen, readerVars, taken>>
  BY DEF Arrives, TypeOK
<1>2. /\ Tail(net) \in Seq(Packets) /\ AllWellNumbered(Tail(net), written, draining)
      /\ Head(net) \in Packets /\ WellNumbered(Head(net), written, draining)
  BY <1>1, PacketsTail DEF PacketNumbering, TypeOK
<1>3. /\ Append(recvBuf, Head(net)) \in Seq(Packets)
      /\ AllWellNumbered(Append(recvBuf, Head(net)), written, draining)
  BY <1>2, PacketsAppend DEF PacketNumbering, TypeOK
<1>4. TypeOK'
  BY <1>1, <1>2, <1>3 DEF TypeOK, readerVars, sinkVars
<1>5. SinkNumbering' /\ ReaderNumbering'
  BY <1>1 DEF SinkNumbering, ReaderNumbering, sinkVars, readerVars
<1>6. PacketNumbering'
  BY <1>1, <1>2, <1>3 DEF PacketNumbering, sinkVars
<1> QED  BY <1>4, <1>5, <1>6

LEMMA LostInv == RelayInv /\ Lost => RelayInv'
<1> SUFFICES ASSUME RelayInv, Lost PROVE RelayInv'
  OBVIOUS
<1> USE DEF RelayInv, Numbering
<1>1. Tail(net) \in Seq(Packets) /\ AllWellNumbered(Tail(net), written, draining)
  BY PacketsTail DEF Lost, PacketNumbering, TypeOK
<1>2. TypeOK'
  BY <1>1 DEF Lost, TypeOK, sinkVars, sendVars, readerVars
<1>3. SinkNumbering' /\ ReaderNumbering'
  BY DEF Lost, SinkNumbering, ReaderNumbering, sinkVars, sendVars, readerVars
<1>4. PacketNumbering'
  BY <1>1 DEF Lost, PacketNumbering, sinkVars, sendVars
<1> QED  BY <1>2, <1>3, <1>4

(* The reader.                                                              *)

(* What Read hands on starts with the message after the last one taken.     *)
LEMMA ReadContinues ==
  ASSUME NEW p \in Packets, NEW w \in Nat, NEW d \in BOOLEAN, TypeOK,
         WellNumbered(p, w, d), readSeq >= p.seq, readSeq <= w
  PROVE  /\ Read(p) \in Seq(Nat) /\ NumberedFrom(readSeq, Read(p))
         /\ readSeq + Len(Read(p)) <= w /\ p.seq + Len(p.msgs) <= readSeq + Len(Read(p))
<1>0. p.seq \in Nat /\ p.msgs \in Seq(Nat) /\ Len(p.msgs) \in Nat /\ readSeq \in Nat
      /\ NumberedFrom(p.seq, p.msgs) /\ p.seq + Len(p.msgs) <= w
  BY DEF Packets, TypeOK, WellNumbered
<1>1. CASE readSeq - p.seq >= Len(p.msgs)
  <2>1. Read(p) = <<>> /\ Len(<<>>) = 0 /\ <<>> \in Seq(Nat)
    BY <1>1 DEF Read
  <2>2. NumberedFrom(readSeq, <<>>)
    BY DEF NumberedFrom
  <2> QED  BY <1>0, <1>1, <2>1, <2>2
<1>2. CASE ~(readSeq - p.seq >= Len(p.msgs))
  <2> DEFINE k == readSeq - p.seq
  <2>1. Read(p) = Drop(p.msgs, k)
    BY <1>2 DEF Read
  <2>2. k \in 0..Len(p.msgs) /\ p.seq + k = readSeq
    BY <1>0, <1>2
  <2> HIDE DEF k
  <2>3. /\ Drop(p.msgs, k) \in Seq(Nat) /\ Len(Drop(p.msgs, k)) = Len(p.msgs) - k
        /\ NumberedFrom(p.seq + k, Drop(p.msgs, k))
    BY <1>0, <2>2, DropNumbered
  <2> QED  BY SMTT(30), <1>0, <2>1, <2>2, <2>3
<1> QED  BY <1>1, <1>2

LEMMA ReaderTakesInv == RelayInv /\ ReaderTakes => RelayInv'
<1> SUFFICES ASSUME RelayInv, ReaderTakes PROVE RelayInv'
  OBVIOUS
<1> USE DEF RelayInv, Numbering
<1> DEFINE p == Head(recvBuf)
<1>1. /\ recvBuf # <<>> /\ recvBuf' = Tail(recvBuf) /\ reading = NoPacket
      /\ UNCHANGED <<sinkVars, sendVars, senderOpen, net, recvOpen, delivered, taken>>
  BY DEF ReaderTakes
<1>2. /\ Tail(recvBuf) \in Seq(Packets) /\ AllWellNumbered(Tail(recvBuf), written, draining)
      /\ p \in Packets /\ WellNumbered(p, written, draining)
  BY <1>1, PacketsTail DEF PacketNumbering, TypeOK
<1>3. SinkNumbering' /\ PacketNumbering'
  BY <1>1, <1>2 DEF SinkNumbering, PacketNumbering, sinkVars, sendVars
<1>4. CASE readSeq < p.seq
  <2>0. ~(readSeq >= p.seq)
    BY SMTT(30), <1>2, <1>4 DEF TypeOK, Packets
  <2>1. readerState' = "broken" /\ UNCHANGED <<readSeq, reading, rest>>
    BY <2>0 DEF ReaderTakes
  <2> QED  BY <1>1, <1>2, <1>3, <2>1 DEF TypeOK, ReaderNumbering, sinkVars, sendVars
<1>5. CASE readSeq >= p.seq
  <2>0. ~(readSeq < p.seq)
    BY SMTT(30), <1>2, <1>5 DEF TypeOK, Packets
  <2>1. /\ reading' = p /\ rest' = Read(p) /\ readSeq' = readSeq + Len(Read(p))
        /\ readerState' = readerState
    BY <2>0 DEF ReaderTakes
  <2>2. readSeq <= written /\ rest = <<>> /\ Len(delivered) = readSeq
    BY <1>1 DEF ReaderNumbering, TypeOK
  <2>3. /\ Read(p) \in Seq(Nat) /\ NumberedFrom(readSeq, Read(p))
        /\ readSeq + Len(Read(p)) <= written
        /\ p.seq + Len(p.msgs) <= readSeq + Len(Read(p))
    BY <1>2, <1>5, <2>2, ReadContinues DEF TypeOK
  <2> HIDE DEF p
  <2>4. TypeOK'
    BY <1>1, <1>2, <2>1, <2>3 DEF TypeOK, sinkVars, sendVars
  <2>5. p = NoPacket => Read(p) = <<>>
    BY <1>5, NoPacketFacts DEF Read, TypeOK
  <2>6. ReaderNumbering'
    BY <1>1, <1>2, <2>1, <2>2, <2>3, <2>5 DEF ReaderNumbering, sinkVars
  <2> QED  BY <1>3, <2>4, <2>6
<1> QED  BY SMTT(30), <1>2, <1>4, <1>5 DEF TypeOK, Packets

LEMMA ReaderWritesInv == RelayInv /\ ReaderWrites => RelayInv'
<1> SUFFICES ASSUME RelayInv, ReaderWrites PROVE RelayInv'
  OBVIOUS
<1> USE DEF RelayInv, Numbering
<1>0. /\ rest # <<>>
      /\ UNCHANGED <<sinkVars, sendVars, senderOpen, net, recvOpen, recvBuf, readSeq,
                     reading, taken>>
  BY DEF ReaderWrites
<1>1. SinkNumbering' /\ PacketNumbering'
  BY <1>0 DEF SinkNumbering, PacketNumbering, sinkVars, sendVars
<1>2. CASE delivered' = Append(delivered, Head(rest)) /\ rest' = Tail(rest)
           /\ readerState' = readerState
  <2>1. Len(delivered) \in Nat /\ NumberedFrom(Len(delivered), rest) /\ rest \in Seq(Nat)
    BY DEF ReaderNumbering, TypeOK
  <2>2. /\ Head(rest) = Len(delivered) + 1 /\ Tail(rest) \in Seq(Nat)
        /\ Len(Tail(rest)) = Len(rest) - 1
        /\ NumberedFrom(Len(delivered) + 1, Tail(rest))
    BY <1>0, <2>1, TailNumbered
  <2>3. delivered' = Append(delivered, 0 + Len(delivered) + 1)
    BY <1>2, <2>1, <2>2
  <2>4. /\ delivered' \in Seq(Nat) /\ Len(delivered') = Len(delivered) + 1
        /\ NumberedFrom(0, delivered')
    BY <2>1, <2>3, AppendNumbered DEF ReaderNumbering, TypeOK
  <2>5. TypeOK'
    BY <1>0, <1>2, <2>2, <2>4 DEF TypeOK, sinkVars, sendVars
  <2>6. reading' = NoPacket => rest' = <<>>
    BY <1>0 DEF ReaderNumbering
  <2>7. Len(delivered') + Len(rest') = readSeq'
    <3>1. Len(delivered) + Len(rest) = readSeq /\ Len(rest) \in Nat
      BY <2>1 DEF ReaderNumbering
    <3>2. Len(delivered') = Len(delivered) + 1 /\ Len(rest') = Len(rest) - 1
          /\ readSeq' = readSeq
      BY <1>0, <1>2, <2>2, <2>4
    <3> QED  BY <2>1, <3>1, <3>2
  <2>8. ReaderNumbering'
    BY <1>0, <1>2, <2>2, <2>4, <2>6, <2>7 DEF ReaderNumbering, sinkVars
  <2> QED  BY <1>1, <2>5, <2>8
<1>3. CASE readerState' = "broken" /\ UNCHANGED <<delivered, rest>>
  BY <1>0, <1>1, <1>3 DEF TypeOK, ReaderNumbering, sinkVars, sendVars
<1> QED  BY <1>2, <1>3 DEF ReaderWrites

LEMMA ReaderNextInv == RelayInv /\ ReaderNext => RelayInv'
<1> SUFFICES ASSUME RelayInv, ReaderNext PROVE RelayInv'
  OBVIOUS
<1> USE DEF RelayInv, Numbering
<1>1. /\ rest = <<>> /\ reading' = NoPacket /\ recvOpen' \in BOOLEAN
      /\ readerState' \in {"reading", "ended", "broken"}
      /\ UNCHANGED <<sinkVars, sendVars, senderOpen, net, recvBuf, readSeq, rest, delivered,
                     taken>>
  BY DEF ReaderNext, TypeOK
<1>2. TypeOK'
  BY <1>1, NoPacketFacts DEF TypeOK, sinkVars, sendVars
<1>3. SinkNumbering' /\ PacketNumbering'
  BY <1>1 DEF SinkNumbering, PacketNumbering, sinkVars, sendVars
<1>4. WellNumbered(NoPacket, written, draining)
  BY NoPacketNumbered DEF TypeOK
<1>5. ReaderNumbering'
  BY <1>1, <1>4, NoPacketFacts DEF ReaderNumbering, TypeOK, sinkVars
<1> QED  BY <1>2, <1>3, <1>5

(* The other steps change nothing the numbering is about.                   *)
LEMMA OtherInv ==
  RelayInv /\ (CloseArrives \/ ReaderStops \/ SessionReads \/ SessionEnds \/ UNCHANGED vars) => RelayInv'
<1> SUFFICES ASSUME RelayInv,
                    CloseArrives \/ ReaderStops \/ SessionReads \/ SessionEnds \/ UNCHANGED vars
             PROVE  RelayInv'
  OBVIOUS
<1> USE DEF RelayInv, Numbering
<1>1. /\ UNCHANGED <<sinkVars, sendVars, net, recvBuf, readSeq, reading, rest, delivered>>
      /\ senderOpen' \in BOOLEAN /\ recvOpen' \in BOOLEAN /\ taken' \in Nat
      /\ readerState' \in {"reading", "ended", "broken"}
  <2>1. CASE CloseArrives  BY <2>1 DEF TypeOK, CloseArrives, readerVars
  <2>2. CASE ReaderStops  BY <2>2 DEF TypeOK, ReaderStops
  <2>3. CASE SessionReads  BY <2>3 DEF TypeOK, SessionReads, readerVars
  <2>4. CASE SessionEnds  BY <2>4 DEF TypeOK, SessionEnds, readerVars
  <2>5. CASE UNCHANGED vars  BY <2>5 DEF TypeOK, vars, readerVars
  <2> QED  BY <2>1, <2>2, <2>3, <2>4, <2>5
<1>2. TypeOK'
  BY <1>1 DEF TypeOK, sinkVars, sendVars
<1>3. SinkNumbering' /\ PacketNumbering' /\ ReaderNumbering'
  BY <1>1 DEF SinkNumbering, PacketNumbering, ReaderNumbering, sinkVars, sendVars
<1> QED  BY <1>2, <1>3

LEMMA InvStep == RelayInv /\ [Next]_vars => RelayInv'
BY WriteMessageInv, CloseInv, WriteStartInv, WriteDoneInv, SendSucceedsInv, SendFailsInv,
   GiveUpInv, ArrivesInv, LostInv, ReaderTakesInv, ReaderWritesInv, ReaderNextInv, OtherInv
   DEF Next, Writer, Reader, Session

(* The numbering is right in every reachable state: what is retried keeps   *)
(* its numbers, what is given up takes its numbers with it.                 *)
THEOREM RelayNumbering == Spec => [](TypeOK /\ Numbering)
<1>1. Spec => []RelayInv
  BY InvInit, InvStep, PTL DEF Spec
<1> QED  BY <1>1, PTL DEF RelayInv

-----------------------------------------------------------------------------
(* The refinement.  Delivered messages are the first ones, in order.        *)
LEMMA FirstOnes ==
  ASSUME NEW s \in Seq(Nat), NumberedFrom(0, s)
  PROVE  s = Channel!FirstMessages(Len(s))
<1>1. s = [i \in 1..Len(s) |-> s[i]] /\ Len(s) \in Nat
  OBVIOUS
<1>2. \A i \in 1..Len(s) : s[i] = i
  BY <1>1 DEF NumberedFrom
<1>3. [i \in 1..Len(s) |-> s[i]] = [i \in 1..Len(s) |-> i]
  BY <1>2
<1> QED  BY <1>1, <1>3 DEF Channel!FirstMessages

LEMMA RefinesInit == Init => Channel!ChanInit
<1> SUFFICES ASSUME Init PROVE Channel!ChanInit
  OBVIOUS
<1>1. <<>> \in Seq(Nat) /\ NumberedFrom(0, <<>>) /\ Len(<<>>) = 0
  BY DEF NumberedFrom
<1>2. <<>> = Channel!FirstMessages(0)
  BY <1>1, FirstOnes
<1> QED  BY <1>2 DEF Init, End, Channel!ChanInit

LEMMA RefinesStep == RelayInv /\ RelayInv' /\ [Next]_vars => [Channel!ChanNext]_Channel!chanVars
<1> SUFFICES ASSUME RelayInv, RelayInv', [Next]_vars
             PROVE  Channel!ChanNext \/ UNCHANGED <<written, delivered, readerState>>
  BY DEF Channel!chanVars, End
<1>1. CASE WriteMessage
  BY <1>1 DEF WriteMessage, readerVars, End, Channel!ChanNext, Channel!Accept
<1>2. CASE Close \/ WriteStart \/ WriteDone \/ SendSucceeds \/ SendFails \/ GiveUp \/ Arrives
           \/ Lost \/ CloseArrives \/ SessionReads \/ SessionEnds \/ UNCHANGED vars
  BY <1>2 DEF Close, WriteStart, WriteDone, SendSucceeds, SendFails, GiveUp, Arrives, Lost,
              CloseArrives, SessionReads, SessionEnds, vars, sinkVars, readerVars
<1>3. CASE ReaderTakes
  <2>1. /\ UNCHANGED <<written, delivered>> /\ readerState = "reading"
        /\ readerState' \in {"reading", "broken"}
    BY <1>3 DEF ReaderTakes, sinkVars
  <2> QED  BY <2>1 DEF End, Channel!ChanNext, Channel!Break
<1>4. CASE ReaderWrites
  <2>1. readerState = "reading" /\ written' = written /\ rest # <<>>
    BY <1>4 DEF ReaderWrites, sinkVars
  <2>2. CASE readerState' = "broken" /\ delivered' = delivered
    BY <2>1, <2>2 DEF End, Channel!ChanNext, Channel!Break
  <2>3. CASE delivered' = Append(delivered, Head(rest)) /\ readerState' = readerState
    <3> DEFINE n == Len(delivered) + 1
    <3>1. Len(delivered') = n /\ n \in Nat /\ n - 1 = Len(delivered)
      BY <2>3 DEF RelayInv, TypeOK
    <3>2. delivered = Channel!FirstMessages(n - 1) /\ delivered' = Channel!FirstMessages(n)
      <4>1. delivered \in Seq(Nat) /\ NumberedFrom(0, delivered)
            /\ delivered' \in Seq(Nat) /\ NumberedFrom(0, delivered')
        BY DEF RelayInv, Numbering, ReaderNumbering, TypeOK
      <4> QED  BY <3>1, <4>1, FirstOnes
    <3>3. n \in 1..written
      <4>a. TypeOK /\ TypeOK' /\ ReaderNumbering'
        BY DEF RelayInv, Numbering
      <4>b. /\ delivered' \in Seq(Nat) /\ rest' \in Seq(Nat) /\ delivered \in Seq(Nat)
            /\ written' \in Nat /\ readSeq' \in Nat
        BY <4>a DEF TypeOK
      <4>c. Len(delivered') + Len(rest') = readSeq' /\ readSeq' <= written'
        BY <4>a DEF ReaderNumbering
      <4>0. /\ Len(delivered') \in Nat /\ Len(rest') \in Nat
            /\ Len(delivered') + Len(rest') = readSeq' /\ readSeq' <= written'
            /\ written' \in Nat /\ readSeq' \in Nat /\ Len(delivered) \in Nat
        BY <4>b, <4>c
      <4>1. Len(delivered') <= written' /\ Len(delivered) \in Nat /\ written \in Nat
        BY <2>1, <4>0
      <4> QED  BY <2>1, <3>1, <4>1
    <3> HIDE DEF n
    <3> QED  BY <2>1, <2>3, <3>2, <3>3 DEF End, Channel!ChanNext, Channel!Arrive
  <2> QED  BY <1>4, <2>2, <2>3 DEF ReaderWrites
<1>5. CASE ReaderNext
  <2>1. readerState = "reading" /\ UNCHANGED <<written, delivered>> /\ rest = <<>>
    BY <1>5 DEF ReaderNext, sinkVars
  <2>2. CASE ~reading.close
    BY <1>5, <2>1, <2>2 DEF ReaderNext
  <2>3. CASE reading.close
    <3>1. Len(delivered) = written
      <4>1. reading.seq + Len(reading.msgs) = written /\ reading.seq + Len(reading.msgs) <= readSeq
            /\ readSeq <= written /\ Len(delivered) + Len(rest) = readSeq
            /\ readSeq \in Nat /\ written \in Nat /\ Len(delivered) \in Nat
        BY <2>3 DEF RelayInv, Numbering, ReaderNumbering, WellNumbered, TypeOK
      <4> QED  BY <2>1, <4>1
    <3>2. delivered = Channel!FirstMessages(written)
      BY <3>1, FirstOnes DEF RelayInv, Numbering, ReaderNumbering, TypeOK
    <3>3. readerState' = "ended"
      BY <1>5, <2>3 DEF ReaderNext
    <3> QED  BY <2>1, <3>2, <3>3 DEF End, Channel!ChanNext, Channel!EndInOrder
  <2> QED  BY <2>2, <2>3
<1>6. CASE ReaderStops
  BY <1>6 DEF ReaderStops, sinkVars, End, Channel!ChanNext, Channel!Break
<1> QED  BY <1>1, <1>2, <1>3, <1>4, <1>5, <1>6 DEF Next, Writer, Reader, Session

(* The relay implements the channel: whatever is lost, late, retried or     *)
(* given up, the session is handed the messages in order, without gap or    *)
(* repetition, and an orderly end comes after all of them.                  *)
THEOREM RelayImplementsChannel == Spec => ImplementsChannel
<1>1. Spec => []RelayInv
  BY InvInit, InvStep, PTL DEF Spec
<1> QED  BY <1>1, RefinesInit, RefinesStep, PTL
         DEF Spec, ImplementsChannel, Channel!ChanSpec

-----------------------------------------------------------------------------
(* Sequences of events: an element of the tail is one of the sequence, and  *)
(* one of the sequence that is not its head is in the tail.                 *)
LEMMA TailElements ==
  ASSUME NEW S, NEW s \in Seq(S), s # <<>>
  PROVE  /\ Tail(s) \in Seq(S) /\ Head(s) \in S /\ Len(Tail(s)) = Len(s) - 1
         /\ \A i \in 1..Len(s) : s[i] # Head(s) => i - 1 \in 1..Len(Tail(s)) /\ Tail(s)[i - 1] = s[i]
<1>1. /\ Tail(s) \in Seq(S) /\ Head(s) \in S /\ Len(Tail(s)) = Len(s) - 1 /\ Head(s) = s[1]
      /\ \A i \in 1..Len(Tail(s)) : Tail(s)[i] = s[i + 1]
  OBVIOUS
<1>2. ASSUME NEW i \in 1..Len(s), s[i] # Head(s)
      PROVE  i - 1 \in 1..Len(Tail(s)) /\ Tail(s)[i - 1] = s[i]
  <2>1. i # 1 /\ i \in Nat /\ Len(s) \in Nat  BY <1>1, <1>2
  <2>2. i - 1 \in 1..Len(Tail(s)) /\ (i - 1) + 1 = i  BY <1>1, <2>1
  <2> QED  BY <1>1, <2>2
<1> QED  BY <1>1, <1>2

LEMMA AppendElements ==
  ASSUME NEW S, NEW s \in Seq(S), NEW e \in S
  PROVE  /\ Append(s, e) \in Seq(S) /\ Len(Append(s, e)) = Len(s) + 1
         /\ Append(s, e)[Len(s) + 1] = e
         /\ \A i \in 1..Len(s) : i \in 1..Len(Append(s, e)) /\ Append(s, e)[i] = s[i]
OBVIOUS

-----------------------------------------------------------------------------
(* The offerer.  Beside its types and StateMatchesPC the induction needs    *)
(* that a negotiation has a local description, which doICERestart sends     *)
(* again.                                                                   *)
OffererSynced == Offerer!StateMatchesPC /\ Offerer!RestartHasNextOffer
OffererInv ==
  /\ Offerer!TypeOK
  /\ negotiationState # "none" => pc.local # 0
  /\ OffererSynced

(* Bounds are natural numbers and something is negotiated.                  *)
LEMMA VersionBound == MaxVersion \in Nat /\ 1 \in 1..MaxVersion
BY NegotiationBounds

LEMMA AnswerEvent ==
  ASSUME NEW e \in Offerer!Events, e.signal = "answer"
  PROVE  e.sd \in Offerer!Descriptions
BY DEF Offerer!Events

(* An offer that is made leaves the PeerConnection waiting for its answer,  *)
(* and no restart behind.                                                   *)
LEMMA OfferMade ==
  ASSUME OffererInv, NEW r \in 0..MaxVersion, NEW b \in BOOLEAN,
         Offerer!createAndSendOffer(r, b)
  PROVE  /\ pc' \in Offerer!PCType /\ pc'.pending /\ pc'.local # 0
         /\ negotiationState' = "remote" /\ restartAtNextOffer' = FALSE
         /\ restartDue' \in BOOLEAN /\ gatheringState' \in {"new", "gathering", "complete"}
         /\ negotiateCounter' \in Nat /\ timer' \in Nat
         /\ toClient' \in Seq(Offerer!Descriptions)
<1>1. wanted \in 1..MaxVersion /\ negotiateCounter + 1 \in Nat /\ toClient \in Seq(Offerer!Descriptions)
  BY DEF OffererInv, Offerer!TypeOK
<1>2. [ver |-> wanted, desc |-> negotiateCounter + 1] \in Offerer!Descriptions
  BY <1>1 DEF Offerer!Descriptions
<1>3. toClient' \in Seq(Offerer!Descriptions)
  BY <1>1, <1>2 DEF Offerer!createAndSendOffer, Offerer!Send
<1>4. /\ pc' = [local |-> wanted, desc |-> negotiateCounter + 1, remote |-> r, pending |-> TRUE]
      /\ wanted \in 0..MaxVersion /\ wanted # 0
  BY <1>1, VersionBound DEF Offerer!createAndSendOffer
<1>5. pc' \in Offerer!PCType /\ pc'.pending /\ pc'.local # 0
  BY <1>1, <1>4 DEF Offerer!PCType
<1> QED
  BY <1>1, <1>3, <1>5 DEF Offerer!createAndSendOffer, OffererInv, Offerer!TypeOK

(* A negotiation in progress has an offer pending, whose local description  *)
(* may be sent again.                                                       *)
LEMMA OfferKept ==
  ASSUME OffererInv, ~failed, negotiationState # "none"
  PROVE  pc.pending /\ [ver |-> pc.local, desc |-> pc.desc] \in Offerer!Descriptions
<1>1. pc \in Offerer!PCType /\ pc.local # 0 /\ pc.pending
  BY DEF OffererInv, Offerer!TypeOK, OffererSynced, Offerer!StateMatchesPC, Offerer!PCType
<1>2. pc.local \in 1..MaxVersion /\ pc.desc \in Nat
  BY <1>1, VersionBound DEF Offerer!PCType
<1> QED  BY <1>1, <1>2 DEF Offerer!Descriptions

(* What an event handler leaves alone, it leaves typed.                     *)
LEMMA EventTaken ==
  ASSUME OffererInv, NEW s, Offerer!Process(s)
  PROVE  /\ ~failed /\ eventsQueue # <<>> /\ Head(eventsQueue) \in Offerer!Events
         /\ Head(eventsQueue).signal = s /\ eventsQueue' \in Seq(Offerer!Events)
<1>1. eventsQueue \in Seq(Offerer!Events)  BY DEF OffererInv, Offerer!TypeOK
<1> QED  BY <1>1, TailElements DEF Offerer!Process

(* Every step of the offerer keeps its invariant.                           *)
LEMMA OffererPreserves ==
  ASSUME OffererInv, [Offerer!Next]_(Offerer!vars)
  PROVE  OffererInv'
<1> USE VersionBound DEF Offerer!negVars, Offerer!envVars, Offerer!vars
<1>0. /\ Offerer!TypeOK /\ (negotiationState # "none" => pc.local # 0)
      /\ (~failed => (negotiationState = "none") = ~pc.pending)
      /\ (restartAtNextOffer => negotiationState = "retry")
      /\ pc \in [local : 0..MaxVersion, desc : Nat, remote : 0..MaxVersion, pending : BOOLEAN]
  BY DEF OffererInv, OffererSynced, Offerer!StateMatchesPC, Offerer!RestartHasNextOffer,
         Offerer!TypeOK, Offerer!PCType
<1>1. CASE Offerer!handleSendOffer
  <2>1. ~failed /\ eventsQueue' \in Seq(Offerer!Events)
    BY <1>1, EventTaken DEF Offerer!handleSendOffer
  <2>2. CASE negotiationState # "none" /\ Offerer!retryLater(pc.remote)
    <3>1. pc' = pc /\ negotiationState' = "retry"
      BY <1>0, <2>2 DEF Offerer!retryLater
    <3> QED
      BY <1>0, <1>1, <2>1, <2>2, <3>1
      DEF OffererInv, OffererSynced, Offerer!StateMatchesPC, Offerer!RestartHasNextOffer,
          Offerer!TypeOK, Offerer!PCType, Offerer!handleSendOffer, Offerer!retryLater
  <2>3. CASE negotiationState = "none" /\ Offerer!createAndSendOffer(pc.remote, FALSE)
    <3>1. pc.remote \in 0..MaxVersion  BY <1>0
    <3> QED
      BY <1>0, <1>1, <2>1, <2>3, <3>1, OfferMade
      DEF OffererInv, OffererSynced, Offerer!StateMatchesPC, Offerer!RestartHasNextOffer,
          Offerer!TypeOK, Offerer!handleSendOffer
  <2> QED  BY <1>1, <2>2, <2>3 DEF Offerer!handleSendOffer
<1>2. CASE Offerer!handleRemoteAnswerReceived
  <2> DEFINE sd == Head(eventsQueue).sd
  <2>1. ~failed /\ eventsQueue' \in Seq(Offerer!Events) /\ sd \in Offerer!Descriptions
    BY <1>2, EventTaken, AnswerEvent DEF Offerer!handleRemoteAnswerReceived
  <2>2. sd.ver \in 0..MaxVersion /\ sd.desc \in Nat
    BY <2>1 DEF Offerer!Descriptions
  <2>3. CASE ~pc.pending
    <3>1. /\ failed' = TRUE /\ timer' = 0
          /\ UNCHANGED <<negotiationState, pc, restartAtNextOffer, negotiateCounter, toClient,
                         restartDue, gatheringState, mispaired, Offerer!envVars,
                         restartAfterGathering>>
      BY <1>2, <2>3 DEF Offerer!handleRemoteAnswerReceived
    <3> QED
      BY <1>0, <2>1, <3>1
      DEF OffererInv, OffererSynced, Offerer!StateMatchesPC, Offerer!RestartHasNextOffer,
          Offerer!TypeOK
  <2>4. CASE pc.pending /\ negotiationState = "retry"
    <3>1. /\ Offerer!createAndSendOffer(sd.ver, FALSE)
          /\ UNCHANGED <<failed, wanted, connected, link, silent, reconnects, forced,
                         debouncePending, firing, toServer, restartAfterGathering>>
          /\ mispaired' \in BOOLEAN
      BY <1>0, <1>2, <2>4 DEF Offerer!handleRemoteAnswerReceived, Offerer!TypeOK
    <3> QED
      BY <1>0, <2>1, <2>2, <2>4, <3>1, OfferMade
      DEF OffererInv, OffererSynced, Offerer!StateMatchesPC, Offerer!RestartHasNextOffer,
          Offerer!TypeOK
  <2>5. CASE pc.pending /\ negotiationState # "retry"
    <3>1. /\ negotiationState' = "none" /\ timer' = 0
          /\ pc' = [pc EXCEPT !.remote = sd.ver, !.pending = FALSE]
          /\ UNCHANGED <<restartAtNextOffer, negotiateCounter, toClient, restartDue, gatheringState>>
          /\ UNCHANGED <<failed, wanted, connected, link, silent, reconnects, forced,
                         debouncePending, firing, toServer, restartAfterGathering>>
          /\ mispaired' \in BOOLEAN
      BY <1>0, <1>2, <2>5 DEF Offerer!handleRemoteAnswerReceived, Offerer!TypeOK
    <3>2. pc' \in Offerer!PCType /\ pc'.pending = FALSE
      BY <1>0, <2>2, <3>1 DEF Offerer!PCType
    <3> QED
      BY <1>0, <2>1, <2>5, <3>1, <3>2
      DEF OffererInv, OffererSynced, Offerer!StateMatchesPC, Offerer!RestartHasNextOffer,
          Offerer!TypeOK
  <2> QED  BY <2>3, <2>4, <2>5
<1>3. ASSUME NEW flag \in BOOLEAN, Offerer!doICERestart(flag), ~failed,
             eventsQueue' \in Seq(Offerer!Events),
             UNCHANGED <<Offerer!envVars, failed, mispaired>>
      PROVE  OffererInv'
  <2>1. restartAfterGathering' \in BOOLEAN
    BY <1>3 DEF Offerer!doICERestart
  <2>2. CASE gatheringState = "new" \/ gatheringState = "gathering"
    BY ZenonT(60), <1>0, <1>3, <2>1, <2>2
    DEF OffererInv, OffererSynced, Offerer!StateMatchesPC, Offerer!RestartHasNextOffer,
        Offerer!TypeOK, Offerer!doICERestart
  <2>3. CASE gatheringState = "complete" /\ Offerer!createAndSendOffer(pc.remote, TRUE)
    <3>1. pc.remote \in 0..MaxVersion  BY <1>0
    <3> QED
      BY <1>0, <1>3, <2>1, <2>3, <3>1, OfferMade
      DEF OffererInv, OffererSynced, Offerer!StateMatchesPC, Offerer!RestartHasNextOffer,
          Offerer!TypeOK
  <2>4. CASE /\ gatheringState = "complete" /\ negotiationState # "none"
             /\ Offerer!ResendLocalDescription
    <3>1. pc.pending /\ [ver |-> pc.local, desc |-> pc.desc] \in Offerer!Descriptions
      BY <1>3, <2>4, OfferKept
    <3>2. toClient' \in Seq(Offerer!Descriptions)
      BY <1>0, <2>4, <3>1 DEF Offerer!ResendLocalDescription, Offerer!Send, Offerer!TypeOK
    <3> QED
      BY <1>0, <1>3, <2>1, <2>4, <3>1, <3>2
      DEF OffererInv, OffererSynced, Offerer!StateMatchesPC, Offerer!RestartHasNextOffer,
          Offerer!TypeOK, Offerer!ResendLocalDescription
  <2> QED  BY <1>3, <2>2, <2>3, <2>4 DEF Offerer!doICERestart
<1>4. CASE Offerer!handleICERestart
  <2>1. restartAfterGathering \in BOOLEAN  BY <1>0 DEF Offerer!TypeOK
  <2> QED  BY <1>3, <1>4, <2>1, EventTaken DEF Offerer!handleICERestart
<1>5. CASE Offerer!handleICEGatheringComplete
  <2>1. ~failed /\ eventsQueue' \in Seq(Offerer!Events)
    BY <1>5, EventTaken DEF Offerer!handleICEGatheringComplete
  <2>2. CASE restartAfterGathering /\ Offerer!doICERestart(FALSE)
    BY <1>3, <1>5, <2>1, <2>2 DEF Offerer!handleICEGatheringComplete
  <2>3. CASE ~restartAfterGathering
    BY ZenonT(60), <1>0, <1>5, <2>1, <2>3
    DEF OffererInv, OffererSynced, Offerer!StateMatchesPC, Offerer!RestartHasNextOffer,
        Offerer!TypeOK, Offerer!handleICEGatheringComplete
  <2> QED  BY <1>5, <2>2, <2>3 DEF Offerer!handleICEGatheringComplete
<1>6. ASSUME NEW e \in Offerer!Events, Offerer!postEvent(e)
      PROVE  eventsQueue' \in Seq(Offerer!Events)
  BY <1>0, <1>6, AppendElements DEF Offerer!TypeOK, Offerer!postEvent
<1>7. \A s \in {"sendOffer", "iceRestart", "gatheringComplete"} : [signal |-> s] \in Offerer!Events
  <2>1. \A s \in {"sendOffer", "iceRestart", "gatheringComplete"} :
          [signal |-> s] \in [signal : {"sendOffer", "iceRestart", "gatheringComplete"}]
    OBVIOUS
  <2> QED  BY <2>1, Zenon DEF Offerer!Events
<1> USE DEF Offerer!postSignal
<1>8. CASE Offerer!Change \/ Offerer!Connects \/ Offerer!ClientFallsSilent
  <2>1. wanted' \in 1..MaxVersion
    BY SMTT(30), <1>0, <1>8
    DEF Offerer!TypeOK, Offerer!Change, Offerer!Connects, Offerer!ClientFallsSilent
  <2>2. /\ UNCHANGED <<Offerer!negVars, link, reconnects, forced, firing, toServer,
                       restartAfterGathering, eventsQueue, failed, mispaired>>
        /\ debouncePending' \in BOOLEAN /\ connected' \in BOOLEAN /\ silent' \in BOOLEAN
    BY <1>0, <1>8, Zenon
    DEF Offerer!TypeOK, Offerer!Change, Offerer!Connects, Offerer!ClientFallsSilent
  <2> QED
    BY <1>0, <2>1, <2>2
    DEF OffererInv, OffererSynced, Offerer!StateMatchesPC, Offerer!RestartHasNextOffer,
        Offerer!TypeOK
<1>16. CASE Offerer!TimerFires
  <2>1. firing' \in SUBSET Nat
    BY <1>0, <1>16 DEF Offerer!TypeOK, Offerer!TimerFires
  <2> QED
    BY <1>0, <1>16, <2>1
    DEF OffererInv, OffererSynced, Offerer!StateMatchesPC, Offerer!RestartHasNextOffer,
        Offerer!TypeOK, Offerer!TimerFires
<1>9. CASE Offerer!NegotiateForced \/ Offerer!DebounceFires
  <2>1. eventsQueue' \in Seq(Offerer!Events)
    BY <1>6, <1>7, <1>9 DEF Offerer!NegotiateForced, Offerer!DebounceFires
  <2>2. forced' \in Nat
    BY <1>0, <1>9 DEF Offerer!TypeOK, Offerer!NegotiateForced, Offerer!DebounceFires
  <2>3. /\ UNCHANGED <<Offerer!negVars, wanted, connected, link, silent, reconnects, firing,
                       toServer, restartAfterGathering, failed, mispaired>>
        /\ debouncePending' \in BOOLEAN
    BY <1>9, Zenon DEF Offerer!NegotiateForced, Offerer!DebounceFires
  <2> QED
    BY <1>0, <2>1, <2>2, <2>3
    DEF OffererInv, OffererSynced, Offerer!StateMatchesPC, Offerer!RestartHasNextOffer,
        Offerer!TypeOK
<1>10. CASE Offerer!GatheringCompletes \/ Offerer!ResumeParticipant
  BY ZenonT(60), <1>0, <1>6, <1>7, <1>10
  DEF OffererInv, OffererSynced, Offerer!StateMatchesPC, Offerer!RestartHasNextOffer,
      Offerer!TypeOK, Offerer!GatheringCompletes, Offerer!ResumeParticipant
<1>11. ASSUME NEW v \in firing, Offerer!TimerFunction(v) PROVE OffererInv'
  BY <1>0, <1>11
  DEF OffererInv, OffererSynced, Offerer!StateMatchesPC, Offerer!RestartHasNextOffer,
      Offerer!TypeOK, Offerer!TimerFunction
<1>12. CASE Offerer!ClientAnswers
  <2>1. toClient' \in Seq(Offerer!Descriptions) /\ toServer' \in Seq(Offerer!Descriptions)
    BY <1>0, <1>12, TailElements, AppendElements DEF Offerer!TypeOK, Offerer!ClientAnswers
  <2> QED
    BY <1>0, <1>12, <2>1
    DEF OffererInv, OffererSynced, Offerer!StateMatchesPC, Offerer!RestartHasNextOffer,
        Offerer!TypeOK, Offerer!ClientAnswers
<1>13. CASE Offerer!HandleRemoteDescription
  <2>1. toServer' \in Seq(Offerer!Descriptions) /\ Head(toServer) \in Offerer!Descriptions
    BY <1>0, <1>13, TailElements DEF Offerer!TypeOK, Offerer!HandleRemoteDescription
  <2>2. eventsQueue' \in Seq(Offerer!Events)
    BY <1>6, <1>13, <2>1 DEF Offerer!HandleRemoteDescription, Offerer!Events
  <2> QED
    BY <1>0, <1>13, <2>1, <2>2
    DEF OffererInv, OffererSynced, Offerer!StateMatchesPC, Offerer!RestartHasNextOffer,
        Offerer!TypeOK, Offerer!HandleRemoteDescription
<1>14. CASE Offerer!LinkBreaks
  <2>0. <<>> \in Seq(Offerer!Descriptions) /\ toServer \in Seq(Offerer!Descriptions)
    BY <1>0 DEF Offerer!TypeOK
  <2>1. toClient' \in Seq(Offerer!Descriptions) /\ toServer' \in Seq(Offerer!Descriptions)
    BY <1>14, <2>0, Zenon DEF Offerer!LinkBreaks
  <2>2. reconnects' \in Nat
    BY <1>0, <1>14 DEF Offerer!TypeOK, Offerer!LinkBreaks
  <2>3. link' \in BOOLEAN
    BY <1>14 DEF Offerer!LinkBreaks
  <2> QED
    BY <1>0, <1>14, <2>1, <2>2, <2>3
    DEF OffererInv, OffererSynced, Offerer!StateMatchesPC, Offerer!RestartHasNextOffer,
        Offerer!TypeOK, Offerer!LinkBreaks
<1>15. CASE UNCHANGED Offerer!vars
  BY <1>0, <1>15
  DEF OffererInv, OffererSynced, Offerer!StateMatchesPC, Offerer!RestartHasNextOffer,
      Offerer!TypeOK
<1> QED
  BY <1>1, <1>2, <1>4, <1>5, <1>8, <1>9, <1>10, <1>11, <1>12, <1>13, <1>14, <1>15,
     <1>16
  DEF Offerer!Next, Offerer!EventLoop, Offerer!Terminated

LEMMA OffererInit == ASSUME Offerer!Init PROVE OffererInv
<1>1. eventsQueue \in Seq(Offerer!Events) /\ toClient \in Seq(Offerer!Descriptions)
      /\ toServer \in Seq(Offerer!Descriptions)
  BY DEF Offerer!Init
<1>2. pc \in Offerer!PCType  BY VersionBound DEF Offerer!Init, Offerer!PCType
<1> QED
  BY <1>1, <1>2, VersionBound
  DEF Offerer!Init, OffererInv, OffererSynced, Offerer!StateMatchesPC,
      Offerer!RestartHasNextOffer, Offerer!TypeOK

(* The negotiation of the subscriber PeerConnection: the code's state is    *)
(* that of the PeerConnection, and an ICE restart left to the next offer    *)
(* has a next offer, whatever the interleaving of changes, answers, breaks, *)
(* resumptions, gathering and timers.                                       *)
THEOREM OffererMatchesPC == Offerer!Spec => [](Offerer!TypeOK /\ OffererSynced)
<1>1. Offerer!Init => OffererInv  BY OffererInit
<1>2. OffererInv /\ [Offerer!Next]_(Offerer!vars) => OffererInv'  BY OffererPreserves
<1>3. OffererInv => Offerer!TypeOK /\ OffererSynced  BY DEF OffererInv
<1> QED  BY <1>1, <1>2, <1>3, PTL DEF Offerer!Spec

-----------------------------------------------------------------------------
(* The answerer.  The cache of candidates is only used while a restart is   *)
(* put off, which is why clearLocalDescriptionSent, called only when none   *)
(* is, finds nothing to throw away; and the client's offers have            *)
(* credentials no greater than their numbers.                               *)
OfferCounts ==
  lastOffer # Answerer!NoOffer => lastOffer.cred >= 1 /\ lastOffer.cred <= lastOffer.id
CacheIsIdle ==
  /\ cacheLocalCandidates => pendingRestartIceOffer # Answerer!NoOffer
  /\ ~cacheLocalCandidates => cachedLocalCandidates = {}
AnswererInv ==
  /\ Answerer!TypeOK /\ OfferCounts /\ CacheIsIdle
  /\ Answerer!NoCandidateLost /\ Answerer!PendingIsTakenUp

CandidateEvent(n) == [signal |-> "candidate", c |-> <<generation, n>>]
Waits(e) == \E i \in 1..Len(answererQueue) : answererQueue[i] = e
Kept(n) == \/ <<generation, n>> \in trickled
           \/ cacheLocalCandidates /\ <<generation, n>> \in cachedLocalCandidates
           \/ Waits(CandidateEvent(n))
Completes == \E i \in 1..Len(answererQueue) : answererQueue[i].signal = "gatheringComplete"

LEMMA AnswererNamed ==
  /\ Answerer!NoCandidateLost <=> \A n \in 1..gathered : Kept(n)
  /\ Answerer!PendingIsTakenUp <=>
       (pendingRestartIceOffer # Answerer!NoOffer =>
          answererGathering = "gathering" \/ Completes)
BY DEF Answerer!NoCandidateLost, Answerer!PendingIsTakenUp, Kept, Waits, CandidateEvent, Completes

(* An event that is posted leaves those waiting where they are; one that is *)
(* taken leaves all but itself.                                             *)
LEMMA PostKeeps ==
  ASSUME Answerer!TypeOK, NEW e \in Answerer!Events, Answerer!postEvent(e)
  PROVE  /\ answererQueue' \in Seq(Answerer!Events) /\ Waits(e)'
         /\ \A f : Waits(f) => \E i \in 1..Len(answererQueue') : answererQueue'[i] = f
         /\ Completes => Completes'
         /\ e.signal = "gatheringComplete" => Completes'
<1>1. answererQueue \in Seq(Answerer!Events)  BY DEF Answerer!TypeOK
<1>2. /\ answererQueue' \in Seq(Answerer!Events) /\ Len(answererQueue') = Len(answererQueue) + 1
      /\ answererQueue'[Len(answererQueue) + 1] = e
      /\ \A i \in 1..Len(answererQueue) :
           i \in 1..Len(answererQueue') /\ answererQueue'[i] = answererQueue[i]
  BY <1>1, AppendElements DEF Answerer!postEvent
<1>3. Len(answererQueue) + 1 \in 1..Len(answererQueue')  BY <1>1, <1>2
<1> QED  BY <1>2, <1>3 DEF Waits, Completes

LEMMA TakeKeeps ==
  ASSUME Answerer!TypeOK, NEW s, Answerer!Process(s)
  PROVE  /\ answererQueue' \in Seq(Answerer!Events) /\ Head(answererQueue) \in Answerer!Events
         /\ Head(answererQueue).signal = s
         /\ \A f : Waits(f) /\ f # Head(answererQueue) =>
                     \E i \in 1..Len(answererQueue') : answererQueue'[i] = f
         /\ Completes /\ s # "gatheringComplete" => Completes'
<1>1. answererQueue \in Seq(Answerer!Events) /\ answererQueue # <<>>
      /\ answererQueue' = Tail(answererQueue) /\ Head(answererQueue).signal = s
  BY DEF Answerer!TypeOK, Answerer!Process
<1>2. /\ answererQueue' \in Seq(Answerer!Events) /\ Head(answererQueue) \in Answerer!Events
      /\ \A i \in 1..Len(answererQueue) : answererQueue[i] # Head(answererQueue) =>
           i - 1 \in 1..Len(answererQueue') /\ answererQueue'[i - 1] = answererQueue[i]
  BY <1>1, TailElements
<1>3. ASSUME NEW f, Waits(f), f # Head(answererQueue)
      PROVE  \E i \in 1..Len(answererQueue') : answererQueue'[i] = f
  BY <1>2, <1>3 DEF Waits
<1>4. ASSUME Completes, s # "gatheringComplete" PROVE Completes'
  <2>1. PICK i \in 1..Len(answererQueue) : answererQueue[i].signal = "gatheringComplete"
    BY <1>4 DEF Completes
  <2>2. answererQueue[i] # Head(answererQueue)  BY <1>1, <1>4, <2>1
  <2> QED  BY <1>2, <2>1, <2>2 DEF Completes
<1> QED  BY <1>1, <1>2, <1>3, <1>4

(* Only a "candidate" event is the one of a candidate.                      *)
LEMMA OtherSignal ==
  ASSUME NEW n, NEW e, e.signal # "candidate"
  PROVE  CandidateEvent(n) # e
<1>1. CandidateEvent(n).signal = "candidate"  BY DEF CandidateEvent
<1> QED  BY <1>1

(* SetRemoteDescription of an offer that is handled: the candidates so far  *)
(* are all sent, cached ones included, or belong to a generation that is    *)
(* over.                                                                    *)
LEMMA OfferApplied ==
  ASSUME AnswererInv, NEW o \in Answerer!Offers, NEW s, s # "candidate", Answerer!Process(s),
         Answerer!Apply(o), Answerer!createAndSendAnswer(cachedLocalCandidates),
         remoteOfferId' \in 0..MaxOffers
  PROVE  /\ Answerer!NoCandidateLost' /\ remote' \in Answerer!Offers /\ generation' \in Nat
         /\ answererGathering' \in {"new", "gathering", "complete"}
         /\ gathered' \in 0..MaxCandidates
         /\ cacheLocalCandidates' = FALSE /\ cachedLocalCandidates' = {}
         /\ trickled' \in SUBSET Answerer!Candidates /\ localAnswerId' \in 0..MaxOffers
         /\ answererGathering = "gathering" => answererGathering' = "gathering"
<1>0. /\ Answerer!TypeOK /\ (\A n \in 1..gathered : Kept(n))
      /\ remote' = o /\ cacheLocalCandidates' = FALSE /\ cachedLocalCandidates' = {}
      /\ trickled' = trickled \cup cachedLocalCandidates /\ localAnswerId' = remoteOfferId'
  BY AnswererNamed DEF AnswererInv, Answerer!Apply, Answerer!createAndSendAnswer
<1>1. CASE o.cred # remote.cred
  <2>1. generation' = generation + 1 /\ answererGathering' = "gathering" /\ gathered' = 0
    BY <1>1 DEF Answerer!Apply
  <2>2. Answerer!NoCandidateLost'
    BY <2>1 DEF Answerer!NoCandidateLost
  <2> QED  BY <1>0, <2>1, <2>2, NegotiationBounds DEF Answerer!TypeOK
<1>2. CASE o.cred = remote.cred
  <2>1. UNCHANGED <<generation, answererGathering, gathered>>
    BY <1>2 DEF Answerer!Apply
  <2>2. ASSUME NEW n \in 1..gathered PROVE Kept(n)'
    <3>1. CASE Waits(CandidateEvent(n))
      <4>1. CandidateEvent(n) # Head(answererQueue)
        BY TakeKeeps, OtherSignal, <1>0
      <4> QED  BY <1>0, <2>1, <3>1, <4>1, TakeKeeps DEF Kept, Waits, CandidateEvent
    <3>2. CASE <<generation, n>> \in trickled \/ <<generation, n>> \in cachedLocalCandidates
      BY <1>0, <2>1, <3>2 DEF Kept
    <3> QED  BY <1>0, <2>2, <3>1, <3>2 DEF Kept
  <2>3. Answerer!NoCandidateLost'
    BY <2>1, <2>2 DEF Answerer!NoCandidateLost, Kept, Waits, CandidateEvent
  <2> QED  BY <1>0, <2>1, <2>3 DEF Answerer!TypeOK
<1> QED  BY <1>1, <1>2

(* The candidates an answer sends, or a restart put off keeps: all cached.  *)
LEMMA NothingCleared ==
  ASSUME AnswererInv, NEW o
  PROVE  Answerer!CachedAt(o) = cachedLocalCandidates
BY DEF AnswererInv, CacheIsIdle, Answerer!CachedAt

(* What an event handler that neither sends nor applies anything keeps.     *)
LEMMA WaitingKept ==
  ASSUME AnswererInv, NEW s, s # "candidate", Answerer!Process(s),
         UNCHANGED <<generation, gathered, trickled, cachedLocalCandidates>>,
         cacheLocalCandidates => cacheLocalCandidates'
  PROVE  Answerer!NoCandidateLost'
<1>1. Answerer!TypeOK /\ \A n \in 1..gathered : Kept(n)
  BY AnswererNamed DEF AnswererInv
<1>2. ASSUME NEW n \in 1..gathered PROVE Kept(n)'
  <2>1. CandidateEvent(n) # Head(answererQueue)
    BY <1>1, TakeKeeps, OtherSignal
  <2>2. Waits(CandidateEvent(n)) =>
          \E i \in 1..Len(answererQueue') : answererQueue'[i] = CandidateEvent(n)
    BY <1>1, <2>1, TakeKeeps
  <2> QED  BY <1>1, <2>2 DEF Kept, Waits, CandidateEvent
<1> QED  BY <1>2 DEF Answerer!NoCandidateLost, Kept, Waits, CandidateEvent

LEMMA PostedKept ==
  ASSUME AnswererInv, NEW e \in Answerer!Events, Answerer!postEvent(e),
         UNCHANGED <<generation, trickled, cachedLocalCandidates, cacheLocalCandidates>>,
         \A n \in 1..gathered' : n \in 1..gathered \/ e = CandidateEvent(n)
  PROVE  Answerer!NoCandidateLost'
<1>1. Answerer!TypeOK /\ \A n \in 1..gathered : Kept(n)
  BY AnswererNamed DEF AnswererInv
<1>2. ASSUME NEW n \in 1..gathered' PROVE Kept(n)'
  <2>1. Waits(CandidateEvent(n)) =>
          \E i \in 1..Len(answererQueue') : answererQueue'[i] = CandidateEvent(n)
    BY <1>1, PostKeeps
  <2>2. e = CandidateEvent(n) =>
          \E i \in 1..Len(answererQueue') : answererQueue'[i] = CandidateEvent(n)
    BY <1>1, PostKeeps DEF Waits
  <2> QED  BY <1>1, <2>1, <2>2 DEF Kept, Waits, CandidateEvent
<1> QED  BY <1>2 DEF Answerer!NoCandidateLost, Kept, Waits, CandidateEvent

LEMMA OfferFields ==
  ASSUME NEW o \in Answerer!Offers
  PROVE  o.id \in 1..MaxOffers /\ o.cred \in 1..MaxOffers /\ o # Answerer!NoOffer
BY NegotiationBounds DEF Answerer!Offers, Answerer!NoOffer

LEMMA OfferEvent ==
  ASSUME NEW e \in Answerer!Events
  PROVE  /\ e.signal = "offer" => e.offer \in Answerer!Offers
         /\ e.signal = "candidate" =>
              e.c \in Answerer!Candidates /\ e = [signal |-> "candidate", c |-> e.c]
BY DEF Answerer!Events

(* Every step of the answerer keeps its invariant.                          *)
LEMMA AnswererPreserves ==
  ASSUME AnswererInv, [Answerer!Next]_(Answerer!vars)
  PROVE  AnswererInv'
<1> USE DEF Answerer!idVars, Answerer!pcVars, Answerer!sendVars, Answerer!vars
<1>0. /\ Answerer!TypeOK /\ OfferCounts /\ CacheIsIdle /\ (\A n \in 1..gathered : Kept(n))
      /\ pendingRestartIceOffer # Answerer!NoOffer => answererGathering = "gathering" \/ Completes
  BY AnswererNamed DEF AnswererInv
<1>1. CASE Answerer!handleRemoteOfferReceived
  <2> DEFINE o == Head(answererQueue).offer
  <2>1. Answerer!Process("offer") /\ remoteOfferId' = o.id /\ UNCHANGED lastOffer
    BY <1>1 DEF Answerer!handleRemoteOfferReceived
  <2>2. answererQueue' \in Seq(Answerer!Events) /\ o \in Answerer!Offers
        /\ (Completes => Completes')
    BY <1>0, <2>1, TakeKeeps, OfferEvent
  <2>3. o.id \in 1..MaxOffers /\ o.cred \in 1..MaxOffers /\ o # Answerer!NoOffer
    BY <2>2, OfferFields
  <2>4. remoteOfferId' \in 0..MaxOffers  BY <2>1, <2>3
  <2>5. CASE answererGathering = "gathering" /\ Answerer!DeferRestart(o)
    <3>1. /\ pendingRestartIceOffer' = o /\ cachedLocalCandidates' = cachedLocalCandidates
          /\ cacheLocalCandidates' =
               (cacheLocalCandidates \/ pendingRestartIceOffer = Answerer!NoOffer)
          /\ UNCHANGED <<localAnswerId, currentOfferIceCredential, remote, generation,
                         answererGathering, gathered, trickled>>
      BY <2>5, NothingCleared DEF Answerer!DeferRestart
    <3>2. cacheLocalCandidates' \in BOOLEAN /\ (cacheLocalCandidates => cacheLocalCandidates')
      BY <3>1
    <3>3. Answerer!NoCandidateLost'
      BY <2>1, <3>1, <3>2, WaitingKept
    <3>4. Answerer!TypeOK'
      BY <1>0, <2>1, <2>2, <2>4, <3>1, <3>2 DEF Answerer!TypeOK
    <3>5. CacheIsIdle' /\ OfferCounts' /\ Answerer!PendingIsTakenUp'
      BY <1>0, <2>1, <2>3, <2>5, <3>1
      DEF CacheIsIdle, OfferCounts, Answerer!PendingIsTakenUp, Answerer!NoOffer
    <3> QED  BY <3>3, <3>4, <3>5 DEF AnswererInv
  <2>6. CASE Answerer!AcceptOffer(o)
    <3>1. /\ Answerer!Apply(o) /\ Answerer!createAndSendAnswer(cachedLocalCandidates)
          /\ UNCHANGED pendingRestartIceOffer
      BY <2>6, NothingCleared DEF Answerer!AcceptOffer
    <3>2. currentOfferIceCredential' \in 0..MaxOffers
      <4>1. currentOfferIceCredential' \in {o.cred, currentOfferIceCredential}
        BY <2>6 DEF Answerer!AcceptOffer
      <4> QED  BY <1>0, <2>3, <4>1 DEF Answerer!TypeOK
    <3>3. /\ Answerer!NoCandidateLost' /\ remote' \in Answerer!Offers /\ generation' \in Nat
          /\ answererGathering' \in {"new", "gathering", "complete"}
          /\ gathered' \in 0..MaxCandidates
          /\ cacheLocalCandidates' = FALSE /\ cachedLocalCandidates' = {}
          /\ trickled' \in SUBSET Answerer!Candidates /\ localAnswerId' \in 0..MaxOffers
          /\ answererGathering = "gathering" => answererGathering' = "gathering"
      BY <2>1, <2>2, <2>4, <3>1, OfferApplied
    <3>4. Answerer!TypeOK'
      BY <1>0, <2>1, <2>2, <2>4, <3>1, <3>2, <3>3 DEF Answerer!TypeOK
    <3>5. CacheIsIdle' /\ OfferCounts'
      BY <1>0, <2>1, <3>3 DEF CacheIsIdle, OfferCounts, Answerer!NoOffer
    <3>6. Answerer!PendingIsTakenUp'
      BY <1>0, <2>2, <3>1, <3>3 DEF Answerer!PendingIsTakenUp, Answerer!NoOffer, Completes
    <3> QED  BY <3>3, <3>4, <3>5, <3>6 DEF AnswererInv
  <2> QED  BY <1>1, <2>5, <2>6 DEF Answerer!handleRemoteOfferReceived
<1>2. CASE Answerer!handleICEGatheringComplete
  <2>1. Answerer!Process("gatheringComplete") /\ UNCHANGED lastOffer
    BY <1>2 DEF Answerer!handleICEGatheringComplete
  <2>2. answererQueue' \in Seq(Answerer!Events)  BY <1>0, <2>1, TakeKeeps
  <2>3. CASE pendingRestartIceOffer = Answerer!NoOffer
    <3>1. UNCHANGED <<remoteOfferId, localAnswerId, currentOfferIceCredential, remote,
                      pendingRestartIceOffer, generation, answererGathering, gathered,
                      cacheLocalCandidates, cachedLocalCandidates, trickled>>
      BY <1>2, <2>3 DEF Answerer!handleICEGatheringComplete
    <3>2. Answerer!NoCandidateLost'  BY <2>1, <3>1, WaitingKept
    <3>3. Answerer!TypeOK'  BY <1>0, <2>1, <2>2, <3>1 DEF Answerer!TypeOK
    <3>4. CacheIsIdle' /\ OfferCounts' /\ Answerer!PendingIsTakenUp'
      BY <1>0, <2>1, <2>3, <3>1
      DEF CacheIsIdle, OfferCounts, Answerer!PendingIsTakenUp, Answerer!NoOffer
    <3> QED  BY <3>2, <3>3, <3>4 DEF AnswererInv
  <2>4. CASE pendingRestartIceOffer # Answerer!NoOffer
    <3>1. /\ pendingRestartIceOffer' = Answerer!NoOffer
          /\ Answerer!Apply(pendingRestartIceOffer)
          /\ UNCHANGED <<remoteOfferId, currentOfferIceCredential>>
          /\ Answerer!createAndSendAnswer(cachedLocalCandidates)
          /\ pendingRestartIceOffer \in Answerer!Offers
      BY <1>0, <1>2, <2>4 DEF Answerer!handleICEGatheringComplete, Answerer!TypeOK
    <3>2. remoteOfferId' \in 0..MaxOffers  BY <1>0, <3>1 DEF Answerer!TypeOK
    <3>3. /\ Answerer!NoCandidateLost' /\ remote' \in Answerer!Offers /\ generation' \in Nat
          /\ answererGathering' \in {"new", "gathering", "complete"}
          /\ gathered' \in 0..MaxCandidates
          /\ cacheLocalCandidates' = FALSE /\ cachedLocalCandidates' = {}
          /\ trickled' \in SUBSET Answerer!Candidates /\ localAnswerId' \in 0..MaxOffers
      BY <2>1, <3>1, <3>2, OfferApplied
    <3>4. Answerer!TypeOK'
      BY <1>0, <2>1, <2>2, <3>1, <3>2, <3>3 DEF Answerer!TypeOK
    <3>5. CacheIsIdle' /\ OfferCounts' /\ Answerer!PendingIsTakenUp'
      BY <1>0, <2>1, <3>1, <3>3
      DEF CacheIsIdle, OfferCounts, Answerer!PendingIsTakenUp, Answerer!NoOffer
    <3> QED  BY <3>3, <3>4, <3>5 DEF AnswererInv
  <2> QED  BY <2>3, <2>4
<1>3. CASE Answerer!handleLocalICECandidate
  <2> DEFINE g == Head(answererQueue).c
  <2>1. /\ Answerer!Process("candidate")
        /\ UNCHANGED <<lastOffer, remoteOfferId, localAnswerId, currentOfferIceCredential,
                       pendingRestartIceOffer, remote, generation, answererGathering, gathered,
                       cacheLocalCandidates>>
        /\ cacheLocalCandidates =>
             cachedLocalCandidates' = cachedLocalCandidates \cup {g} /\ UNCHANGED trickled
        /\ ~cacheLocalCandidates =>
             trickled' = trickled \cup {g} /\ UNCHANGED cachedLocalCandidates
    BY <1>3 DEF Answerer!handleLocalICECandidate
  <2>2. /\ answererQueue' \in Seq(Answerer!Events) /\ (Completes => Completes')
        /\ g \in Answerer!Candidates
    BY <1>0, <2>1, TakeKeeps, OfferEvent
  <2>3. Answerer!TypeOK'
    <3>1. cachedLocalCandidates' \in SUBSET Answerer!Candidates
          /\ trickled' \in SUBSET Answerer!Candidates
      BY <1>0, <2>1, <2>2 DEF Answerer!TypeOK
    <3> QED  BY <1>0, <2>1, <2>2, <3>1 DEF Answerer!TypeOK
  <2>4. CacheIsIdle' /\ OfferCounts'
    BY <1>0, <2>1 DEF CacheIsIdle, OfferCounts, Answerer!NoOffer
  <2>5. Answerer!PendingIsTakenUp'
    BY <1>0, <2>1, <2>2 DEF Answerer!PendingIsTakenUp, Answerer!NoOffer, Completes
  <2>6. ASSUME NEW n \in 1..gathered PROVE Kept(n)'
    <3>1. CASE CandidateEvent(n) = Head(answererQueue)
      <4>1. CandidateEvent(n).c = <<generation, n>>  BY DEF CandidateEvent
      <4>2. g = <<generation, n>>  BY <3>1, <4>1
      <4> QED  BY <2>1, <4>2 DEF Kept
    <3>2. CASE CandidateEvent(n) # Head(answererQueue)
      <4>1. Waits(CandidateEvent(n)) =>
              \E i \in 1..Len(answererQueue') : answererQueue'[i] = CandidateEvent(n)
        BY <1>0, <2>1, <3>2, TakeKeeps
      <4> QED  BY <1>0, <2>1, <4>1 DEF Kept, Waits, CandidateEvent
    <3> QED  BY <3>1, <3>2
  <2>7. Answerer!NoCandidateLost'
    BY <2>1, <2>6 DEF Answerer!NoCandidateLost, Kept, Waits, CandidateEvent
  <2> QED  BY <2>3, <2>4, <2>5, <2>7 DEF AnswererInv
<1>4. ASSUME NEW restart \in BOOLEAN, Answerer!ClientOffers(restart) PROVE AnswererInv'
  <2> DEFINE o == [id |-> lastOffer.id + 1,
                   cred |-> IF restart THEN lastOffer.cred + 1 ELSE lastOffer.cred]
  <2>1. /\ lastOffer.id < MaxOffers /\ (restart \/ lastOffer # Answerer!NoOffer)
        /\ lastOffer' = o
        /\ \/ Answerer!postEvent([signal |-> "offer", offer |-> o])
           \/ UNCHANGED answererQueue
        /\ UNCHANGED <<remoteOfferId, localAnswerId, currentOfferIceCredential,
                       pendingRestartIceOffer, remote, generation, answererGathering, gathered,
                       cacheLocalCandidates, cachedLocalCandidates, trickled>>
    BY <1>4 DEF Answerer!ClientOffers
  <2>2. lastOffer.id \in 0..MaxOffers /\ lastOffer.cred \in 0..MaxOffers
        /\ lastOffer.cred <= lastOffer.id /\ (lastOffer # Answerer!NoOffer => lastOffer.cred >= 1)
    BY <1>0, NegotiationBounds
    DEF Answerer!TypeOK, Answerer!Offers, Answerer!NoOffer, OfferCounts
  <2>3. o.id \in 1..MaxOffers /\ o.cred \in 1..MaxOffers /\ o.cred <= o.id /\ o.cred >= 1
    BY <2>1, <2>2, NegotiationBounds
  <2>4. o \in Answerer!Offers  BY <2>3 DEF Answerer!Offers
  <2>5. [signal |-> "offer", offer |-> o] \in Answerer!Events
    BY <2>4 DEF Answerer!Events
  <2>6. OfferCounts' /\ CacheIsIdle'
    BY <1>0, <2>1, <2>3 DEF CacheIsIdle, OfferCounts, Answerer!NoOffer
  <2>7. CASE Answerer!postEvent([signal |-> "offer", offer |-> o])
    <3>1. answererQueue' \in Seq(Answerer!Events) /\ (Completes => Completes')
      BY <1>0, <2>5, <2>7, PostKeeps
    <3>2. Answerer!NoCandidateLost'  BY <2>1, <2>5, <2>7, PostedKept
    <3>3. Answerer!TypeOK'  BY <1>0, <2>1, <2>4, <3>1 DEF Answerer!TypeOK
    <3>4. Answerer!PendingIsTakenUp'
      BY <1>0, <2>1, <3>1 DEF Answerer!PendingIsTakenUp, Answerer!NoOffer, Completes
    <3> QED  BY <2>6, <3>2, <3>3, <3>4 DEF AnswererInv
  <2>8. CASE UNCHANGED answererQueue
    <3>1. Answerer!NoCandidateLost' /\ Answerer!PendingIsTakenUp'
      BY <2>1, <2>8
      DEF AnswererInv, Answerer!NoCandidateLost, Answerer!PendingIsTakenUp, Answerer!NoOffer
    <3>2. Answerer!TypeOK'  BY <1>0, <2>1, <2>4, <2>8 DEF Answerer!TypeOK
    <3> QED  BY <2>6, <3>1, <3>2 DEF AnswererInv
  <2> QED  BY <2>1, <2>7, <2>8
<1>5. CASE Answerer!GatherCandidate
  <2> DEFINE e == [signal |-> "candidate", c |-> <<generation, gathered + 1>>]
  <2>1. /\ gathered < MaxCandidates /\ gathered' = gathered + 1 /\ Answerer!postEvent(e)
        /\ UNCHANGED <<lastOffer, remoteOfferId, localAnswerId, currentOfferIceCredential,
                       pendingRestartIceOffer, remote, generation, answererGathering,
                       cacheLocalCandidates, cachedLocalCandidates, trickled>>
    BY <1>5 DEF Answerer!GatherCandidate
  <2>2. gathered' \in 1..MaxCandidates /\ generation \in Nat /\ gathered \in Nat
    BY <1>0, <2>1, NegotiationBounds DEF Answerer!TypeOK
  <2>3. e \in Answerer!Events
    BY <2>1, <2>2 DEF Answerer!Events, Answerer!Candidates
  <2>4. answererQueue' \in Seq(Answerer!Events) /\ (Completes => Completes')
    BY <1>0, <2>1, <2>3, PostKeeps
  <2>5. \A n \in 1..gathered' : n \in 1..gathered \/ e = CandidateEvent(n)
    <3>1. \A n \in 1..gathered' : n \in 1..gathered \/ n = gathered + 1
      BY <2>1, <2>2
    <3> QED  BY <3>1 DEF CandidateEvent
  <2>6. Answerer!NoCandidateLost'  BY <2>1, <2>3, <2>5, PostedKept
  <2>7. Answerer!TypeOK'
    <3>1. gathered' \in 0..MaxCandidates  BY <2>2
    <3> QED  BY <1>0, <2>1, <2>4, <3>1 DEF Answerer!TypeOK
  <2>8. OfferCounts' /\ CacheIsIdle'
    BY <1>0, <2>1 DEF CacheIsIdle, OfferCounts, Answerer!NoOffer
  <2>9. Answerer!PendingIsTakenUp'
    BY <1>0, <2>1, <2>4 DEF Answerer!PendingIsTakenUp, Answerer!NoOffer, Completes
  <2> QED  BY <2>6, <2>7, <2>8, <2>9 DEF AnswererInv
<1>6. CASE Answerer!GatheringCompletes
  <2> DEFINE e == [signal |-> "gatheringComplete"]
  <2>1. /\ answererGathering' = "complete" /\ Answerer!postEvent(e)
        /\ UNCHANGED <<lastOffer, remoteOfferId, localAnswerId, currentOfferIceCredential,
                       pendingRestartIceOffer, remote, generation, gathered,
                       cacheLocalCandidates, cachedLocalCandidates, trickled>>
    BY <1>6 DEF Answerer!GatheringCompletes
  <2>2. e \in Answerer!Events  BY DEF Answerer!Events
  <2>3. answererQueue' \in Seq(Answerer!Events) /\ Completes'
    BY <1>0, <2>1, <2>2, PostKeeps
  <2>4. Answerer!NoCandidateLost'  BY <2>1, <2>2, PostedKept
  <2>5. Answerer!TypeOK'  BY <1>0, <2>1, <2>3 DEF Answerer!TypeOK
  <2>6. OfferCounts' /\ CacheIsIdle'
    BY <1>0, <2>1 DEF CacheIsIdle, OfferCounts, Answerer!NoOffer
  <2>7. Answerer!PendingIsTakenUp'
    BY <2>3 DEF Answerer!PendingIsTakenUp, Completes
  <2> QED  BY <2>4, <2>5, <2>6, <2>7 DEF AnswererInv
<1>7. CASE UNCHANGED Answerer!vars
  BY <1>7
  DEF AnswererInv, Answerer!TypeOK, OfferCounts, CacheIsIdle, Answerer!NoCandidateLost,
      Answerer!PendingIsTakenUp, Answerer!NoOffer
<1> QED
  BY <1>1, <1>2, <1>3, <1>4, <1>5, <1>6, <1>7 DEF Answerer!Next, Answerer!EventLoop

LEMMA AnswererInit == ASSUME Answerer!Init PROVE AnswererInv
<1>1. answererQueue \in Seq(Answerer!Events)  BY DEF Answerer!Init
<1>2. 0 \in 0..MaxOffers /\ 0 \in 0..MaxCandidates /\ 0 \in Nat  BY NegotiationBounds
<1>3. Answerer!TypeOK
  BY <1>1, <1>2, Zenon DEF Answerer!Init, Answerer!TypeOK
<1>4. OfferCounts /\ CacheIsIdle /\ Answerer!PendingIsTakenUp
  BY DEF Answerer!Init, OfferCounts, CacheIsIdle, Answerer!PendingIsTakenUp
<1>5. Answerer!NoCandidateLost
  BY DEF Answerer!Init, Answerer!NoCandidateLost
<1> QED  BY <1>3, <1>4, <1>5 DEF AnswererInv

(* The negotiation of the publisher PeerConnection: no candidate of the ICE *)
(* generation in use is lost and a restart that is put off has the end of   *)
(* gathering to come, however offers, restarts and gathering interleave.    *)
THEOREM AnswererLosesNothing ==
  Answerer!Spec => [](Answerer!TypeOK /\ Answerer!NoCandidateLost /\ Answerer!PendingIsTakenUp)
<1>1. Answerer!Init => AnswererInv  BY AnswererInit
<1>2. AnswererInv /\ [Answerer!Next]_(Answerer!vars) => AnswererInv'  BY AnswererPreserves
<1>3. AnswererInv => Answerer!TypeOK /\ Answerer!NoCandidateLost /\ Answerer!PendingIsTakenUp
  BY DEF AnswererInv
<1> QED  BY <1>1, <1>2, <1>3, PTL DEF Answerer!Spec

-----------------------------------------------------------------------------
(* The signal path as a whole: a step of one part leaves the others alone.  *)
LEMMA PartsPreserve ==
  ASSUME OffererInv, AnswererInv, [RelayStep \/ OffererStep \/ AnswererStep]_allVars
  PROVE  OffererInv' /\ AnswererInv'
<1>1. [Offerer!Next]_(Offerer!vars)
  BY DEF RelayStep, OffererStep, AnswererStep, allVars, offererVars, Offerer!vars,
         Offerer!negVars, Offerer!envVars
<1>2. [Answerer!Next]_(Answerer!vars)
  BY DEF RelayStep, OffererStep, AnswererStep, allVars, answererVars, Answerer!vars,
         Answerer!idVars, Answerer!pcVars, Answerer!sendVars
<1> QED  BY <1>1, <1>2, OffererPreserves, AnswererPreserves

(* transport.go as the offerer: its negotiation state is that of the        *)
(* PeerConnection, for every number of changes, breaks and retries.         *)
THEOREM NegotiationMatchesPC == PartsSpec => []StateMatchesPC
<1>1. PartsInit => OffererInv /\ AnswererInv
  BY OffererInit, AnswererInit DEF PartsInit
<1>2. OffererInv /\ AnswererInv /\ [RelayStep \/ OffererStep \/ AnswererStep]_allVars
        => OffererInv' /\ AnswererInv'
  BY PartsPreserve
<1>3. OffererInv => StateMatchesPC  BY DEF OffererInv, OffererSynced, StateMatchesPC
<1> QED  BY <1>1, <1>2, <1>3, PTL DEF PartsSpec

(* transport.go as the answerer: clearLocalDescriptionSent and restarts put *)
(* off lose no candidate and no restart, for every number of offers.        *)
THEOREM CandidatesAreKept == PartsSpec => []NoCandidateLost
<1>1. PartsInit => OffererInv /\ AnswererInv
  BY OffererInit, AnswererInit DEF PartsInit
<1>2. OffererInv /\ AnswererInv /\ [RelayStep \/ OffererStep \/ AnswererStep]_allVars
        => OffererInv' /\ AnswererInv'
  BY PartsPreserve
<1>3. AnswererInv => NoCandidateLost  BY DEF AnswererInv, NoCandidateLost
<1> QED  BY <1>1, <1>2, <1>3, PTL DEF PartsSpec
=============================================================================
