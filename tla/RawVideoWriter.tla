--------------------------- MODULE RawVideoWriter ---------------------------
(***************************************************************************)
(* The writer of one raw video track (sfu/rawrec: video.go VideoWriter,    *)
(* sira.go).  The forwarders of all simulcast layers write into one        *)
(* channel; loop puts the packets of the layer it follows in order, makes  *)
(* frames of them and changes layer at a key frame of the layer it wants.  *)
(*                                                                         *)
(* Packet n of a layer has sequence number FirstSeq + n modulo SeqSpace    *)
(* and is part n % Pkts of frame n \div Pkts.  Which layer is wanted is    *)
(* left open, as are the publisher's key frames (PLIs are not modelled)    *)
(* and how much of the window before the target is kept (RawAudioWriter).  *)
(***************************************************************************)
EXTENDS Integers, Sequences, SequencesExt, FiniteSets, FiniteSetsExt

CONSTANTS Layers,     \* simulcast layers, numbers from 0; the highest is wanted first
          Frames,     \* bound: frames of a layer
          Pkts,       \* packets of a frame
          SeqSpace, FirstSeq, \* sequence numbers: 2^16 in the code
          Wait,       \* videoSiraBekleme
          Capacity,   \* videoSiraKapasite
          ChanBuf,    \* chanBuf
          Reorder,    \* bound: how far a packet is overtaken
          MaxLosses,  \* bound: packets lost
          MaxTime,    \* bound: the clock
          Env         \* "corrupt": packets that cannot be parsed; "diskFails"

VARIABLES
  now,
  sent,     \* packets published per layer
  keys,     \* frames that are key frames, per layer
  net,      \* packets on their way, per layer
  losses,   \* packets lost on the way
  busy,     \* what the forwarder of a layer is writing: a packet, or none
  ch, closed, panicked,
  hedef,    \* the target of the recording is known
  bekleyen, \* packets held until then
  suAnki, hedefKatman,
  sira,     \* siraTampon: items, last sequence number released (if any), late ones
  parca,    \* the frame being put together
  bekliyor, \* kayipDurumu: nothing but a key frame will do
  vazgec,
  file,     \* frames written
  seen,     \* packets that reached the assembler, and whether they could be parsed
  done

network == <<sent, keys, net, losses>>
loopState == <<hedef, bekleyen, suAnki, hedefKatman, sira, parca, bekliyor, vazgec, file, seen, done>>
vars == <<now, network, busy, ch, closed, panicked, loopState>>

Top == Max(Layers)
None == -1
Idle == [n |-> None]
NoFrame == [on |-> FALSE, f |-> 0, key |-> FALSE, bad |-> FALSE, got |-> <<>>]
NoSira == [items |-> <<>>, last |-> None, late |-> 0]

Packets == [l : Layers, n : 0..(Frames * Pkts - 1), at : 0..MaxTime, ok : BOOLEAN]
SeqNo(p) == (FirstSeq + p.n) % SeqSpace
FrameOf(p) == p.n \div Pkts
Part(p) == p.n % Pkts
Basla(p) == Part(p) = 0
Bitir(p) == Part(p) = Pkts - 1
Anahtar(p) == FrameOf(p) \in keys[p.l]
(* The difference of two sequence numbers as int16 has it.                  *)
Diff(a, b) == LET d == (a - b) % SeqSpace IN IF 2 * d >= SeqSpace THEN d - SeqSpace ELSE d

TypeOK ==
  /\ now \in 0..MaxTime
  /\ sent \in [Layers -> 0..(Frames * Pkts)] /\ keys \in [Layers -> SUBSET (0..(Frames - 1))]
  /\ \A l \in Layers : net[l] \subseteq 0..(sent[l] - 1)
  /\ \A l \in Layers : busy[l] = Idle \/ busy[l] \in Packets
  /\ Len(ch) <= ChanBuf /\ ToSet(ch) \subseteq Packets
  /\ ToSet(bekleyen) \subseteq Packets /\ ToSet(sira.items) \subseteq Packets
  /\ Len(sira.items) <= Capacity /\ sira.last \in {None} \cup 0..(SeqSpace - 1)
  /\ suAnki \in {None} \cup Layers /\ hedefKatman \in {None} \cup Layers
  /\ \A i \in DOMAIN file : file[i].l \in Layers /\ file[i].f \in 0..(Frames - 1)
  /\ {closed, panicked, hedef, bekliyor, vazgec, done, parca.on, parca.bad} \subseteq BOOLEAN

Init ==
  /\ now = 0
  /\ sent = [l \in Layers |-> 0] /\ keys = [l \in Layers |-> {}] /\ net = [l \in Layers |-> {}]
  /\ losses = 0 /\ busy = [l \in Layers |-> Idle]
  /\ ch = <<>> /\ closed = FALSE /\ panicked = FALSE
  /\ hedef = FALSE /\ bekleyen = <<>> /\ suAnki = None /\ hedefKatman = None
  /\ sira = NoSira /\ parca = NoFrame /\ bekliyor = FALSE
  /\ vazgec = FALSE /\ file = <<>> /\ seen = {} /\ done = FALSE

-----------------------------------------------------------------------------
(* The publisher and the network: a packet is lost, or comes when at most    *)
(* Reorder later ones have overtaken it.  The first frame of a layer is a    *)
(* key frame, others may be.                                                 *)
Publish(l, isKey, isLost) ==
  /\ ~closed /\ sent[l] < Frames * Pkts /\ Cardinality(net[l]) <= Reorder
  /\ sent[l] % Pkts # 0 => ~isKey
  /\ sent[l] = 0 => isKey
  /\ sent' = [sent EXCEPT ![l] = @ + 1]
  /\ keys' = IF isKey THEN [keys EXCEPT ![l] = @ \cup {sent[l] \div Pkts}] ELSE keys
  /\ IF isLost
     THEN losses < MaxLosses /\ losses' = losses + 1 /\ UNCHANGED net
     ELSE net' = [net EXCEPT ![l] = @ \cup {sent[l]}] /\ UNCHANGED losses
  /\ UNCHANGED <<now, busy, ch, closed, panicked, loopState>>

(* Write: a packet of a layer that is neither followed nor wanted is left.  *)
Followed(l) == suAnki = None \/ l = suAnki \/ l = hedefKatman

WriteBegin(l, n) ==
  /\ busy[l] = Idle /\ n \in net[l]
  /\ \A k \in net[l] : n <= k + Reorder
  /\ net' = [net EXCEPT ![l] = @ \ {n}]
  /\ \E ok \in {TRUE} \cup (IF "corrupt" \in Env THEN {FALSE} ELSE {}) :
       busy' = IF ~closed /\ Followed(l)
               THEN [busy EXCEPT ![l] = [l |-> l, n |-> n, at |-> now, ok |-> ok]] ELSE busy
  /\ UNCHANGED <<now, sent, keys, losses, ch, closed, panicked, loopState>>

(* The send: dropped if the channel is full, a panic if it is closed.       *)
WriteEnd(l) ==
  /\ busy[l] # Idle
  /\ busy' = [busy EXCEPT ![l] = Idle]
  /\ panicked' = (panicked \/ closed)
  /\ ch' = IF closed \/ Len(ch) = ChanBuf THEN ch ELSE Append(ch, busy[l])
  /\ UNCHANGED <<now, network, closed, loopState>>

(* Close, from ReceiverBase.Close: the forwarder whose stream ended calls   *)
(* it, the forwarders of the other layers are not waited for.               *)
Close ==
  /\ ~closed /\ closed' = TRUE
  /\ \E l \in Layers : busy[l] = Idle
  /\ UNCHANGED <<now, network, busy, ch, panicked, loopState>>

Tick ==
  /\ now < MaxTime /\ ~done
  /\ now' = now + 1
  /\ UNCHANGED <<network, busy, ch, closed, panicked, loopState>>

-----------------------------------------------------------------------------
(* siraTampon.                                                              *)
ekle(items, p) ==
  InsertAt(items, 1 + Max({0} \cup {i \in DOMAIN items : Diff(SeqNo(p), SeqNo(items[i])) >= 0}), p)

(* How many items are released: from the front, while the first has waited  *)
(* long enough or there are too many.                                       *)
Released(items, an, hepsi) ==
  LET Goes(i) == hepsi \/ Len(items) - i + 1 >= Capacity \/ an >= items[i].at + Wait
  IN  Max({0} \cup {k \in DOMAIN items : \A i \in 1..k : Goes(i)})

(* The frame assembler, işle, on the state of loop as a record.             *)
Drop(a) == [a EXCEPT !.parca = [@ EXCEPT !.on = FALSE, !.bad = FALSE, !.got = <<>>]]
Damaged(a) == [Drop(a) EXCEPT !.bekliyor = TRUE]

(* A frame that is not finished when the next one comes is dropped.         *)
NextFrame(a, p) == IF a.parca.on /\ FrameOf(p) # a.parca.f THEN Damaged(a) ELSE a

(* A form of Begun without the integrity gate.                              *)
BegunUngated(a, p, kopuk) ==
  IF Basla(p) THEN [a EXCEPT !.parca = [on |-> TRUE, f |-> FrameOf(p), key |-> Anahtar(p), bad |-> FALSE, got |-> <<>>]]
              ELSE a
Begun(a, p, kopuk) ==
  IF Basla(p)
  THEN [a EXCEPT !.parca = [on |-> TRUE, f |-> FrameOf(p), key |-> Anahtar(p), bad |-> FALSE, got |-> <<>>]]
  ELSE [a EXCEPT !.parca.bad = @ \/ (kopuk /\ a.parca.on)]

(* kareYaz: a file begins with a key frame; opening it may fail.            *)
kareYaz(a, diskOK) ==
  CASE a.file = <<>> /\ ~a.parca.key -> a
    [] a.file = <<>> /\ ~diskOK -> [a EXCEPT !.vazgec = TRUE]
    [] OTHER -> [a EXCEPT !.file = Append(@, [l |-> a.su, f |-> a.parca.f, key |-> a.parca.key, got |-> a.parca.got])]

Ended(a, diskOK) ==
  CASE a.parca.bad -> Damaged(a)
    [] ~a.parca.bad /\ a.bekliyor /\ ~a.parca.key -> Drop(a)
    [] OTHER -> Drop(kareYaz([a EXCEPT !.bekliyor = FALSE], diskOK))

Assemble(a0, p, kopuk, diskOK) ==
  LET a == [a0 EXCEPT !.seen = @ \cup {<<p.l, p.n, p.ok>>}]
      b == Begun(NextFrame(a, p), p, kopuk)
      c == [b EXCEPT !.parca.got = Append(@, Part(p)), !.parca.key = @ \/ Anahtar(p)]
  IN  CASE ~p.ok -> Damaged(a)
        [] p.ok /\ ~b.parca.on -> IF kopuk THEN Damaged(b) ELSE b
        [] OTHER -> IF Bitir(p) THEN Ended(c, diskOK) ELSE c

Late(a, p) == a.last # None /\ Diff(SeqNo(p), a.last) <= 0
(* A gap in front of a packet, as al reports it.                            *)
Gap(a, p) == a.last # None /\ Diff(SeqNo(p), a.last) > 1
(* al and işle for one packet; nothing more once the writer gives up.       *)
Step(a, p, diskOK) ==
  CASE a.stop -> [a EXCEPT !.rest = Append(@, p)]
    [] ~a.stop /\ Late(a, p) -> [a EXCEPT !.late = @ + 1]
    [] OTHER -> LET b == Assemble([a EXCEPT !.last = SeqNo(p)], p, Gap(a, p), diskOK)
                IN  [b EXCEPT !.stop = b.vazgec]

(* boşalt, from items in order, the frame at hand and the layer followed.   *)
Flush(items, last, late, frame, su, an, hepsi) ==
  \E diskOK \in {TRUE} \cup (IF "diskFails" \in Env THEN {FALSE} ELSE {}) :
    LET k == Released(items, an, hepsi)
        a == FoldLeft(LAMBDA acc, p : Step(acc, p, diskOK),
                      [last |-> last, late |-> late, parca |-> frame, bekliyor |-> bekliyor, su |-> su,
                       vazgec |-> vazgec, file |-> file, seen |-> seen, stop |-> FALSE, rest |-> <<>>],
                      SubSeq(items, 1, k))
    IN  /\ sira' = [items |-> a.rest \o SubSeq(items, k + 1, Len(items)), last |-> a.last, late |-> a.late]
        /\ parca' = a.parca /\ bekliyor' = a.bekliyor /\ vazgec' = a.vazgec
        /\ file' = a.file /\ seen' = a.seen

-----------------------------------------------------------------------------
(* loop: the ticker.                                                        *)
Found ==
  /\ ~done /\ ~hedef /\ ~vazgec /\ bekleyen # <<>>
  /\ hedef' = TRUE /\ bekleyen' = <<>>
  /\ \E k \in 0..Len(bekleyen) : \* what arrived after the start
       LET q == SelectSeq(SubSeq(bekleyen, k + 1, Len(bekleyen)), LAMBDA p : p.l = suAnki)
       IN  Flush(FoldLeft(ekle, sira.items, q), sira.last, sira.late, parca, suAnki, now, TRUE)
  /\ UNCHANGED <<now, network, busy, ch, closed, panicked, suAnki, hedefKatman, done>>

Poll ==
  /\ ~done /\ hedef /\ sira.items # <<>>
  /\ Flush(sira.items, sira.last, sira.late, parca, suAnki, now, FALSE)
  /\ UNCHANGED <<now, network, busy, ch, closed, panicked, hedef, bekleyen, suAnki, hedefKatman, done>>

hedefBelirle(l) ==
  /\ ~done /\ hedef /\ suAnki # None /\ l # hedefKatman /\ sent[l] > 0
  /\ hedefKatman' = l
  /\ UNCHANGED <<now, network, busy, ch, closed, panicked, hedef, bekleyen, suAnki, sira, parca, bekliyor, vazgec, file, seen, done>>

(* loop: the channel.  p is the packet received.                            *)
Receive == ~done /\ ch # <<>> /\ ch' = Tail(ch) /\ UNCHANGED <<now, network, busy, closed, panicked, hedef, done>>

(* A packet of the wanted layer is passed over unless it begins a key frame, *)
(* with which the layer changes.                                            *)
AnahtarBaslangici(p) == p.ok /\ Anahtar(p) /\ Basla(p)
Switches(p) == suAnki # None /\ p.l # suAnki /\ p.l = hedefKatman /\ AnahtarBaslangici(p)
Passed(p) == vazgec \/ (suAnki # None /\ p.l # suAnki /\ ~Switches(p))

Skip ==
  /\ Receive /\ Passed(Head(ch))
  /\ UNCHANGED <<bekleyen, suAnki, hedefKatman, sira, parca, bekliyor, vazgec, file, seen>>

(* katmanaGeç: what is left of the old layer is forgotten.                  *)
Cleared(p) == [sira |-> IF Switches(p) THEN NoSira ELSE sira, parca |-> IF Switches(p) THEN NoFrame ELSE parca]
Take ==
  LET p == Head(ch)
      s == Cleared(p)
  IN  /\ Receive /\ ~Passed(p)
      /\ suAnki' = p.l
      /\ hedefKatman' = IF suAnki = None THEN Top ELSE hedefKatman
      /\ IF hedef
         THEN /\ Flush(ekle(s.sira.items, p), s.sira.last, s.sira.late, s.parca, p.l, p.at, FALSE)
              /\ UNCHANGED bekleyen
         ELSE /\ \E k \in 0..Len(bekleyen) : bekleyen' = Append(SubSeq(bekleyen, k + 1, Len(bekleyen)), p)
              /\ sira' = s.sira /\ parca' = s.parca
              /\ UNCHANGED <<bekliyor, vazgec, file, seen>>

Finish ==
  /\ ~done /\ closed /\ ch = <<>> /\ done' = TRUE
  /\ Flush(sira.items, sira.last, sira.late, parca, suAnki, now, TRUE)
  /\ UNCHANGED <<now, network, busy, ch, closed, panicked, hedef, bekleyen, suAnki, hedefKatman>>

Next ==
  \/ \E l \in Layers :
       \/ \E isKey, isLost \in BOOLEAN : Publish(l, isKey, isLost)
       \/ WriteEnd(l) \/ hedefBelirle(l)
       \/ \E n \in net[l] : WriteBegin(l, n)
  \/ Close \/ Tick \/ Found \/ Poll \/ Skip \/ Take \/ Finish

Spec == Init /\ [][Next]_vars

-----------------------------------------------------------------------------
(* A frame of the file has all its packets, each once and in order.         *)
WholeFrames == \A i \in DOMAIN file : file[i].got = [k \in 1..Pkts |-> k - 1]

(* A delta frame of the file follows a frame of its own layer, and between   *)
(* the two there is no frame of which only a part came: after a damaged     *)
(* frame nothing is written until a key frame (kayipDurumu).                *)
NothingDangling ==
  \A i \in DOMAIN file :
    ~file[i].key =>
      /\ i > 1 /\ file[i - 1].l = file[i].l /\ file[i - 1].f < file[i].f
      /\ \A n \in ((file[i - 1].f + 1) * Pkts)..(file[i].f * Pkts - 1), ok \in BOOLEAN : <<file[i].l, n, ok>> \notin seen

(* A delta frame of the file follows the frame it was made from.            *)
Decodable ==
  \A i \in DOMAIN file :
    ~file[i].key => i > 1 /\ file[i - 1].l = file[i].l /\ file[i].f = file[i - 1].f + 1

(* A frame is left out for a reason: when all packets from a frame of the   *)
(* file to a later one have come in order, the later one is written too.     *)
NothingLeftOut ==
  \A i \in DOMAIN file, f \in 0..(Frames - 1) :
    /\ file[i].f < f
    /\ \A n \in (file[i].f * Pkts)..(f * Pkts + Pkts - 1) : <<file[i].l, n, TRUE>> \in seen
    => \E j \in DOMAIN file : file[j].l = file[i].l /\ file[j].f = f

(* No forwarder sends on the closed channel.                                *)
NeverPanics == ~panicked
=============================================================================
