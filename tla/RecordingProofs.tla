--------------------------- MODULE RecordingProofs ---------------------------
(***************************************************************************)
(* Proofs about the raw recorder of an audio track (RawAudioWriter), for   *)
(* every number of packets and reports, every width of the window, delay   *)
(* of writing and size of the channel.                                     *)
(***************************************************************************)
EXTENDS MCRecording, Sequences, SequenceTheorems, WellFoundedInduction, TLAPS

Packets == 1..Len(arrival)
Notes == {"none", "hedef-yok", "dosya-acilamadi"}
In(s, x) == \E j \in 1..Len(s) : s[j] = x

AudioTypes ==
  /\ audioNow \in Nat /\ start \in Nat /\ iz \in Nat
  /\ arrival \in Seq(Nat) /\ dropped \subseteq Packets
  /\ audioCh \in Seq(Packets \cup {0})
  /\ audioBekleyen \in Seq(Packets) /\ kuyruk \in Seq(Packets) /\ written \in Seq(Packets)
  /\ note \in Notes /\ calls \in Seq(Notes)
  /\ media \in {"runs", "closing", "waits", "ended"} /\ rtcp \in {"idle", "holds"}
  /\ audioFile \in {"none", "open", "closed"}
  /\ {audioClosed, chClosed, audioHedef, audioVazgec, audioDone, uyarildi, lost} \subseteq BOOLEAN

(* Who may still send: nobody once the channel is closed, for which Close   *)
(* waits for the RTCP reader.                                               *)
Senders ==
  /\ ~audioPanicked
  /\ audioClosed <=> media # "runs"
  /\ chClosed => media \in {"waits", "ended"} /\ rtcp = "idle"
  /\ audioDone => chClosed /\ audioCh = <<>>

(* The target is found when the recording has begun, and the file is opened *)
(* after that.                                                              *)
Stages ==
  /\ "room" \in audioKeys \/ audioHedef => start > 0
  /\ audioFile # "none" \/ audioVazgec => audioHedef
  /\ audioVazgec => audioFile = "none"
  /\ audioFile = "closed" => audioDone
  /\ audioFile = "none" => written = <<>> /\ kuyruk = <<>>
  /\ audioFile # "none" => audioBekleyen = <<>> /\ lost = (iz > start)

(* Packets are in order of arrival, first the window and then the channel,  *)
(* in which there are Sender Reports (0) between them.                      *)
Increasing(s) == \A i, j \in 1..Len(s) : i < j /\ s[i] # 0 /\ s[j] # 0 => s[i] < s[j]
InOrder ==
  /\ \A i, j \in Packets : i <= j => arrival[i] <= arrival[j]
  /\ \A i \in Packets : arrival[i] <= audioNow
  /\ Increasing(audioCh) /\ Increasing(audioBekleyen)
  /\ \A x, y \in Packets : In(audioBekleyen, x) /\ In(audioCh, y) => x < y
  /\ \A x \in dropped : ~In(audioCh, x) /\ ~In(audioBekleyen, x)

(* A packet that came is somewhere, unless it fell out of the window or was *)
(* from before the start.                                                   *)
InFile(x) == In(written, x) \/ In(kuyruk, x)
NoneIsLost ==
  ~audioVazgec => \A x \in Packets \ dropped :
    \/ In(audioCh, x) \/ In(audioBekleyen, x) \/ InFile(x)
    \/ arrival[x] <= iz
    \/ audioFile # "none" /\ arrival[x] < start

(* The newest packet that fell out of the window is nowhere.                *)
TraceIsTrue ==
  iz > 0 => \E x \in Packets \ dropped :
    arrival[x] = iz /\ ~In(audioCh, x) /\ ~In(audioBekleyen, x) /\ ~InFile(x)

(* What the note will say when all calls have arrived.                      *)
LastNote == IF calls = <<>> THEN note ELSE calls[Len(calls)]
NotesAreTrue ==
  Env \cap {"reorder", "redisDown"} = {} =>
    LastNote = IF audioVazgec THEN "dosya-acilamadi"
               ELSE IF uyarildi /\ ~audioHedef THEN "hedef-yok" ELSE "none"

AudioInv == AudioTypes /\ Senders /\ Stages /\ InOrder /\ NoneIsLost /\ TraceIsTrue /\ NotesAreTrue

-----------------------------------------------------------------------------
(* What is in a sequence.                                                   *)
LEMMA InAppend ==
  ASSUME NEW S, NEW s \in Seq(S), NEW e \in S, NEW x
  PROVE  In(Append(s, e), x) <=> In(s, x) \/ x = e
<1>1. Len(s) \in Nat /\ Len(Append(s, e)) = Len(s) + 1 /\ Append(s, e)[Len(s) + 1] = e
  OBVIOUS
<1>2. \A j \in 1..Len(s) : Append(s, e)[j] = s[j] /\ j \in 1..(Len(s) + 1)
  BY <1>1
<1>3. \A j \in 1..(Len(s) + 1) : j \in 1..Len(s) \/ j = Len(s) + 1
  BY <1>1
<1>4. Len(s) + 1 \in 1..(Len(s) + 1)  BY <1>1
<1> QED BY <1>1, <1>2, <1>3, <1>4 DEF In

LEMMA InTail ==
  ASSUME NEW S, NEW s \in Seq(S), s # <<>>, NEW x
  PROVE  In(s, x) <=> x = Head(s) \/ In(Tail(s), x)
<1>1. Len(s) \in Nat /\ Len(s) >= 1 /\ Len(Tail(s)) = Len(s) - 1 /\ Head(s) = s[1]
  OBVIOUS
<1>2. \A j \in 1..(Len(s) - 1) : Tail(s)[j] = s[j + 1] /\ j + 1 \in 1..Len(s)
  BY <1>1
<1>3. \A j \in 1..Len(s) : j = 1 \/ (j - 1 \in 1..(Len(s) - 1) /\ (j - 1) + 1 = j)
  BY <1>1
<1>4. 1 \in 1..Len(s)  BY <1>1
<1>5. ASSUME In(s, x) PROVE x = Head(s) \/ In(Tail(s), x)
  <2>1. PICK j \in 1..Len(s) : s[j] = x  BY <1>5 DEF In
  <2>2. CASE j = 1  BY <1>1, <2>1, <2>2
  <2>3. CASE j # 1
    <3>1. j - 1 \in 1..(Len(s) - 1) /\ Tail(s)[j - 1] = x  BY <1>2, <1>3, <2>1, <2>3
    <3> QED BY <1>1, <3>1 DEF In
  <2> QED BY <2>2, <2>3
<1>6. ASSUME x = Head(s) \/ In(Tail(s), x) PROVE In(s, x)
  BY <1>1, <1>2, <1>4, <1>6 DEF In
<1> QED BY <1>5, <1>6

LEMMA InConcat ==
  ASSUME NEW S, NEW s \in Seq(S), NEW t \in Seq(S), NEW x
  PROVE  In(s \o t, x) <=> In(s, x) \/ In(t, x)
<1>1. Len(s) \in Nat /\ Len(t) \in Nat /\ Len(s \o t) = Len(s) + Len(t)
  OBVIOUS
<1>2. \A j \in 1..Len(s) : (s \o t)[j] = s[j] /\ j \in 1..(Len(s) + Len(t))
  BY <1>1
<1>3. \A j \in 1..Len(t) : (s \o t)[Len(s) + j] = t[j] /\ Len(s) + j \in 1..(Len(s) + Len(t))
  BY <1>1
<1>4. ASSUME In(s \o t, x) PROVE In(s, x) \/ In(t, x)
  <2>1. PICK j \in 1..(Len(s) + Len(t)) : (s \o t)[j] = x  BY <1>1, <1>4 DEF In
  <2>2. CASE j <= Len(s)
    <3>1. j \in 1..Len(s)  BY <1>1, <2>1, <2>2
    <3> QED BY <1>2, <2>1, <3>1 DEF In
  <2>3. CASE ~(j <= Len(s))
    <3>1. j - Len(s) \in 1..Len(t) /\ Len(s) + (j - Len(s)) = j  BY <1>1, <2>1, <2>3
    <3>2. t[j - Len(s)] = x  BY <1>3, <2>1, <3>1
    <3> QED BY <3>1, <3>2 DEF In
  <2> QED BY <2>2, <2>3
<1> QED BY <1>1, <1>2, <1>3, <1>4 DEF In

(* How many leave from the front.                                           *)
LEMMA LeadingExists ==
  ASSUME NEW T, NEW b \in Seq(T), NEW S
  PROVE  /\ Audio!Leading(b, S) \in 0..Len(b)
         /\ \A i \in 1..Audio!Leading(b, S) : b[i] \in S
<1> DEFINE Stop == {k \in Nat : k = Len(b) \/ (k < Len(b) /\ b[k + 1] \notin S)}
<1>1. Len(b) \in Nat  OBVIOUS
<1>2. Len(b) \in Stop /\ Stop \subseteq Nat  BY <1>1
<1>3. PICK k \in Stop : \A m \in Stop : ~(m < k)
  <2> HIDE DEF Stop
  <2>1. PICK k \in Stop : \A m \in Stop : ~(<<m, k>> \in OpToRel(<, Nat))
    BY <1>2, WFMin, NatLessThanWellFounded, Zenon
  <2>2. \A m \in Stop : m < k => <<m, k>> \in OpToRel(<, Nat)
    <3> SUFFICES ASSUME NEW m \in Stop, m < k PROVE <<m, k>> \in OpToRel(<, Nat)
      BY Zenon
    <3>1. m \in Nat /\ k \in Nat  BY <1>2
    <3> QED BY <3>1, Zenon DEF OpToRel
  <2> QED BY <2>1, <2>2, Zenon
<1>4. k \in 0..Len(b) /\ (k < Len(b) => b[k + 1] \notin S)
  BY <1>1
<1>5. \A i \in 1..k : b[i] \in S
  <2> SUFFICES ASSUME NEW i \in 1..k PROVE b[i] \in S
    OBVIOUS
  <2>1. i - 1 \in Nat /\ i - 1 < k /\ i - 1 < Len(b) /\ (i - 1) + 1 = i  BY <1>1, <1>4
  <2>2. i - 1 \notin Stop  BY <1>3, <2>1
  <2> QED BY <2>1, <2>2
<1> QED BY <1>4, <1>5 DEF Audio!Leading

LEMMA CutAndLeft ==
  ASSUME NEW T, NEW b \in Seq(T), NEW S
  PROVE  /\ Audio!Cut(b, S) \in Seq(T) /\ Audio!Left(b, S) \in Seq(T)
         /\ \A x : In(b, x) <=> In(Audio!Cut(b, S), x) \/ In(Audio!Left(b, S), x)
         /\ \A x : In(Audio!Cut(b, S), x) => x \in S
<1>1. PICK k : k = Audio!Leading(b, S)  OBVIOUS
<1>2. k \in 0..Len(b) /\ \A i \in 1..k : b[i] \in S  BY <1>1, LeadingExists
<1>3. Len(b) \in Nat /\ k \in Nat  BY <1>2
<1>4. Audio!Cut(b, S) = SubSeq(b, 1, k) /\ Audio!Left(b, S) = SubSeq(b, k + 1, Len(b))
  BY <1>1 DEF Audio!Cut, Audio!Left
<1>5. /\ SubSeq(b, 1, k) \in Seq(T) /\ Len(SubSeq(b, 1, k)) = k
      /\ \A i \in 1..k : SubSeq(b, 1, k)[i] = b[i] /\ i \in 1..Len(b)
  BY <1>2, <1>3
<1>6. /\ SubSeq(b, k + 1, Len(b)) \in Seq(T) /\ Len(SubSeq(b, k + 1, Len(b))) = Len(b) - k
      /\ \A i \in 1..(Len(b) - k) : SubSeq(b, k + 1, Len(b))[i] = b[k + i] /\ k + i \in 1..Len(b)
  BY <1>2, <1>3
<1>7. ASSUME NEW x, In(b, x) PROVE In(SubSeq(b, 1, k), x) \/ In(SubSeq(b, k + 1, Len(b)), x)
  <2>1. PICK j \in 1..Len(b) : b[j] = x  BY <1>7 DEF In
  <2>2. CASE j <= k
    <3>1. j \in 1..k  BY <1>3, <2>1, <2>2
    <3> QED BY <1>5, <2>1, <3>1 DEF In
  <2>3. CASE ~(j <= k)
    <3>1. j - k \in 1..(Len(b) - k) /\ k + (j - k) = j  BY <1>3, <2>1, <2>3
    <3>2. SubSeq(b, k + 1, Len(b))[j - k] = x  BY <1>6, <2>1, <3>1
    <3> QED BY <1>6, <3>1, <3>2 DEF In
  <2> QED BY <2>2, <2>3
<1>8. \A x : In(SubSeq(b, 1, k), x) => In(b, x) /\ x \in S  BY <1>2, <1>5 DEF In
<1>9. \A x : In(SubSeq(b, k + 1, Len(b)), x) => In(b, x)  BY <1>6 DEF In
<1> QED BY <1>4, <1>5, <1>6, <1>7, <1>8, <1>9

(* Increasing sequences.                                                    *)
LEMMA IncreasingAppend ==
  ASSUME NEW s \in Seq(Nat), NEW e \in Nat, Increasing(s),
         \A x \in Nat \ {0} : In(s, x) /\ e # 0 => x < e
  PROVE  Increasing(Append(s, e))
<1>1. Len(s) \in Nat /\ Len(Append(s, e)) = Len(s) + 1 /\ Append(s, e)[Len(s) + 1] = e
  OBVIOUS
<1>2. \A j \in 1..Len(s) : Append(s, e)[j] = s[j] /\ s[j] \in Nat /\ In(s, s[j])
  BY <1>1 DEF In
<1> SUFFICES ASSUME NEW i \in 1..(Len(s) + 1), NEW j \in 1..(Len(s) + 1), i < j,
                    Append(s, e)[i] # 0, Append(s, e)[j] # 0
             PROVE  Append(s, e)[i] < Append(s, e)[j]
  BY <1>1 DEF Increasing
<1>3. i \in 1..Len(s)  BY <1>1
<1>4. CASE j = Len(s) + 1  BY <1>1, <1>2, <1>3, <1>4
<1>5. CASE j # Len(s) + 1
  <2>1. j \in 1..Len(s)  BY <1>1, <1>5
  <2>2. s[i] # 0 /\ s[j] # 0  BY <1>2, <1>3, <2>1
  <2> QED BY <1>2, <1>3, <2>1, <2>2 DEF Increasing
<1> QED BY <1>4, <1>5

LEMMA IncreasingTail ==
  ASSUME NEW s \in Seq(Nat), s # <<>>, Increasing(s)
  PROVE  /\ Increasing(Tail(s))
         /\ \A x \in Nat \ {0} : In(Tail(s), x) /\ Head(s) # 0 => Head(s) < x
<1>1. Len(s) \in Nat /\ Len(s) >= 1 /\ Len(Tail(s)) = Len(s) - 1 /\ Head(s) = s[1]
  OBVIOUS
<1>2. \A j \in 1..(Len(s) - 1) : Tail(s)[j] = s[j + 1] /\ j + 1 \in 1..Len(s) /\ 1 < j + 1
  BY <1>1
<1>3. Increasing(Tail(s))
  <2> SUFFICES ASSUME NEW i \in 1..(Len(s) - 1), NEW j \in 1..(Len(s) - 1), i < j,
                      s[i + 1] # 0, s[j + 1] # 0
               PROVE  s[i + 1] < s[j + 1]
    BY <1>1, <1>2 DEF Increasing
  <2>1. i + 1 < j + 1  OBVIOUS
  <2> QED BY <1>2, <2>1 DEF Increasing
<1>4. ASSUME NEW x \in Nat \ {0}, In(Tail(s), x), Head(s) # 0 PROVE Head(s) < x
  <2>1. PICK j \in 1..(Len(s) - 1) : Tail(s)[j] = x  BY <1>1, <1>4 DEF In
  <2>2. s[j + 1] = x /\ j + 1 \in 1..Len(s) /\ 1 < j + 1 /\ 1 \in 1..Len(s)  BY <1>1, <1>2, <2>1
  <2>3. s[1] # 0 /\ s[j + 1] # 0  BY <1>1, <1>4, <2>2
  <2>4. s[1] < s[j + 1]  BY <2>2, <2>3 DEF Increasing
  <2> QED BY <1>1, <2>2, <2>4
<1> QED BY <1>3, <1>4

(* What leaves an increasing sequence comes before what is left.            *)
LEMMA IncreasingCut ==
  ASSUME NEW b \in Seq(Nat \ {0}), NEW S, Increasing(b)
  PROVE  /\ Increasing(Audio!Left(b, S))
         /\ \A x, y : In(Audio!Cut(b, S), x) /\ In(Audio!Left(b, S), y) => x < y
         /\ Audio!Cut(b, S) # <<>> =>
              /\ In(Audio!Cut(b, S), Audio!Last(Audio!Cut(b, S)))
              /\ \A x : In(Audio!Cut(b, S), x) => x <= Audio!Last(Audio!Cut(b, S))
<1>1. PICK k : k = Audio!Leading(b, S)  OBVIOUS
<1>2. k \in 0..Len(b)  BY <1>1, LeadingExists
<1>3. PICK n \in Nat : n = Len(b)  OBVIOUS
<1>4. k \in Nat /\ k <= n  BY <1>2, <1>3
<1>5. Audio!Cut(b, S) = SubSeq(b, 1, k) /\ Audio!Left(b, S) = SubSeq(b, k + 1, n)
  BY <1>1, <1>3 DEF Audio!Cut, Audio!Left
<1>6. /\ Len(SubSeq(b, 1, k)) = k
      /\ \A i \in 1..k : SubSeq(b, 1, k)[i] = b[i] /\ i \in 1..n
  BY <1>3, <1>4
<1>7. /\ Len(SubSeq(b, k + 1, n)) = n - k
      /\ \A i \in 1..(n - k) : SubSeq(b, k + 1, n)[i] = b[k + i] /\ k + i \in 1..n
  BY <1>3, <1>4
<1>8. \A i, j \in 1..n : i < j => b[i] < b[j]
  <2>1. \A i \in 1..n : b[i] # 0  BY <1>3
  <2> QED BY <1>3, <2>1 DEF Increasing
<1>9. Increasing(SubSeq(b, k + 1, n))
  <2> SUFFICES ASSUME NEW i \in 1..(n - k), NEW j \in 1..(n - k), i < j
               PROVE  SubSeq(b, k + 1, n)[i] < SubSeq(b, k + 1, n)[j]
    BY <1>7 DEF Increasing
  <2>1. k + i < k + j  BY <1>4
  <2> QED BY <1>7, <1>8, <2>1
<1>10. ASSUME NEW x, NEW y, In(SubSeq(b, 1, k), x), In(SubSeq(b, k + 1, n), y) PROVE x < y
  <2>1. PICK i \in 1..k : SubSeq(b, 1, k)[i] = x  BY <1>6, <1>10 DEF In
  <2>2. PICK j \in 1..(n - k) : SubSeq(b, k + 1, n)[j] = y  BY <1>7, <1>10 DEF In
  <2>3. x = b[i] /\ i \in 1..n /\ y = b[k + j] /\ k + j \in 1..n  BY <1>6, <1>7, <2>1, <2>2
  <2>4. i < k + j  BY <1>4
  <2> QED BY <1>8, <2>3, <2>4
<1>11. ASSUME SubSeq(b, 1, k) # <<>>
       PROVE  /\ In(SubSeq(b, 1, k), Audio!Last(SubSeq(b, 1, k)))
              /\ \A x : In(SubSeq(b, 1, k), x) => x <= Audio!Last(SubSeq(b, 1, k))
  <2>1. k # 0
    <3>1. SubSeq(b, 1, 0) = <<>>  OBVIOUS
    <3> QED BY <1>11, <3>1
  <2>2. k \in 1..k  BY <1>4, <2>1
  <2>3. Audio!Last(SubSeq(b, 1, k)) = SubSeq(b, 1, k)[k]  BY <1>6 DEF Audio!Last
  <2>4. Audio!Last(SubSeq(b, 1, k)) = b[k]  BY <1>6, <2>2, <2>3
  <2>5. In(SubSeq(b, 1, k), Audio!Last(SubSeq(b, 1, k)))  BY <1>6, <2>2, <2>3 DEF In
  <2>6. ASSUME NEW x, In(SubSeq(b, 1, k), x) PROVE x <= b[k]
    <3>1. PICK i \in 1..k : SubSeq(b, 1, k)[i] = x  BY <1>6, <2>6 DEF In
    <3>2. x = b[i] /\ i \in 1..n /\ k \in 1..n  BY <1>6, <2>2, <3>1
    <3>3. b[i] \in Nat /\ b[k] \in Nat  BY <1>3, <3>2
    <3>4. i < k => b[i] < b[k]  BY <1>8, <3>2
    <3> QED BY <1>4, <3>1, <3>2, <3>3, <3>4
  <2> QED BY <2>4, <2>5, <2>6
<1> QED BY <1>5, <1>9, <1>10, <1>11

-----------------------------------------------------------------------------
LEMMA InEmpty == \A x : ~In(<<>>, x)
  BY DEF In

LEMMA AudioInitially == Audio!Init => AudioInv
<1> SUFFICES ASSUME Audio!Init PROVE AudioInv
  OBVIOUS
<1> USE DEF Audio!Init
<1>1. AudioTypes
  <2>1. 1..Len(arrival) = {}  OBVIOUS
  <2>2. \A T : <<>> \in Seq(T)  OBVIOUS
  <2> QED BY <2>1, <2>2 DEF AudioTypes, Packets, Notes
<1>2. Senders  BY DEF Senders
<1>3. Stages  BY DEF Stages
<1>4. InOrder  BY DEF InOrder, Packets, Increasing
<1>5. NoneIsLost  BY DEF NoneIsLost, Packets
<1>6. TraceIsTrue  BY DEF TraceIsTrue
<1>7. NotesAreTrue  BY DEF NotesAreTrue, LastNote
<1> QED BY <1>1, <1>2, <1>3, <1>4, <1>5, <1>6, <1>7 DEF AudioInv

(* The variables that say where packets are; most steps leave them alone.   *)
places == <<arrival, dropped, audioCh, audioBekleyen, kuyruk, written, iz>>

LEMMA PlacesKept ==
  ASSUME AudioInv, UNCHANGED places, audioNow \in Nat, audioNow' \in Nat, audioNow <= audioNow',
         audioVazgec' = audioVazgec, audioFile' = audioFile,
         audioFile = "none" \/ start' = start
  PROVE  InOrder' /\ NoneIsLost' /\ TraceIsTrue'
<1> USE DEF AudioInv, places
<1>1. arrival' = arrival /\ dropped' = dropped /\ audioCh' = audioCh /\ audioBekleyen' = audioBekleyen
      /\ kuyruk' = kuyruk /\ written' = written /\ iz' = iz
  OBVIOUS
<1>2. Packets' = Packets  BY <1>1 DEF Packets
<1>3. \A x : (In(audioCh, x))' = In(audioCh, x) /\ (In(audioBekleyen, x))' = In(audioBekleyen, x)
             /\ (InFile(x))' = InFile(x)
  BY <1>1 DEF In, InFile
<1>4. InOrder'
  <2>1. \A i \in Packets : arrival[i] \in Nat  BY DEF AudioTypes, Packets
  <2>2. \A i \in Packets : arrival[i] <= audioNow'  BY <2>1 DEF InOrder
  <2> QED BY <1>1, <1>2, <2>2 DEF InOrder, In, Increasing
<1>5. NoneIsLost'
  BY <1>1, <1>2 DEF NoneIsLost, In, InFile
<1>6. TraceIsTrue'
  BY <1>1, <1>2 DEF TraceIsTrue, In, InFile
<1> QED BY <1>4, <1>5, <1>6

(* The steps that move no packet.                                           *)
LEMMA SRBeginStep == AudioInv /\ Audio!SRBegin => AudioInv'
<1> SUFFICES ASSUME AudioInv, Audio!SRBegin PROVE AudioInv'
  OBVIOUS
<1> USE DEF Audio!SRBegin, Audio!redis, Audio!search, Audio!output
<1>1. AudioTypes'  BY DEF AudioInv, AudioTypes, Packets, Notes
<1>2. Senders'  BY DEF AudioInv, Senders
<1>3. Stages'  BY DEF AudioInv, Stages
<1>4. InOrder' /\ NoneIsLost' /\ TraceIsTrue'
  BY PlacesKept DEF AudioInv, AudioTypes, places
<1>5. NotesAreTrue'  BY DEF AudioInv, NotesAreTrue, LastNote
<1> QED BY <1>1, <1>2, <1>3, <1>4, <1>5 DEF AudioInv

LEMMA CloseBeginStep == AudioInv /\ Audio!CloseBegin => AudioInv'
<1> SUFFICES ASSUME AudioInv, Audio!CloseBegin PROVE AudioInv'
  OBVIOUS
<1> USE DEF Audio!CloseBegin, Audio!redis, Audio!search, Audio!output
<1>1. AudioTypes'  BY DEF AudioInv, AudioTypes, Packets, Notes
<1>2. Senders'  BY DEF AudioInv, Senders
<1>3. Stages'  BY DEF AudioInv, Stages
<1>4. InOrder' /\ NoneIsLost' /\ TraceIsTrue'
  BY PlacesKept DEF AudioInv, AudioTypes, places
<1>5. NotesAreTrue'  BY DEF AudioInv, NotesAreTrue, LastNote
<1> QED BY <1>1, <1>2, <1>3, <1>4, <1>5 DEF AudioInv

LEMMA CloseChannelStep == AudioInv /\ Audio!CloseChannel => AudioInv'
<1> SUFFICES ASSUME AudioInv, Audio!CloseChannel PROVE AudioInv'
  OBVIOUS
<1> USE DEF Audio!CloseChannel, Audio!CloseChannelAtOnce, Audio!redis, Audio!search, Audio!output
<1>1. AudioTypes'  BY DEF AudioInv, AudioTypes, Packets, Notes
<1>2. Senders'  BY DEF AudioInv, Senders
<1>3. Stages'  BY DEF AudioInv, Stages
<1>4. InOrder' /\ NoneIsLost' /\ TraceIsTrue'
  BY PlacesKept DEF AudioInv, AudioTypes, places
<1>5. NotesAreTrue'  BY DEF AudioInv, NotesAreTrue, LastNote
<1> QED BY <1>1, <1>2, <1>3, <1>4, <1>5 DEF AudioInv

LEMMA CloseEndStep == AudioInv /\ Audio!CloseEnd => AudioInv'
<1> SUFFICES ASSUME AudioInv, Audio!CloseEnd PROVE AudioInv'
  OBVIOUS
<1> USE DEF Audio!CloseEnd, Audio!redis, Audio!search, Audio!output
<1>1. AudioTypes'  BY DEF AudioInv, AudioTypes, Packets, Notes
<1>2. Senders'  BY DEF AudioInv, Senders
<1>3. Stages'  BY DEF AudioInv, Stages
<1>4. InOrder' /\ NoneIsLost' /\ TraceIsTrue'
  BY PlacesKept DEF AudioInv, AudioTypes, places
<1>5. NotesAreTrue'  BY DEF AudioInv, NotesAreTrue, LastNote
<1> QED BY <1>1, <1>2, <1>3, <1>4, <1>5 DEF AudioInv

LEMMA PressStep == AudioInv /\ Audio!Press => AudioInv'
<1> SUFFICES ASSUME AudioInv, Audio!Press PROVE AudioInv'
  OBVIOUS
<1> USE DEF Audio!Press, Audio!producers, Audio!search, Audio!output
<1>1. AudioTypes'  BY DEF AudioInv, AudioTypes, Packets, Notes
<1>2. Senders'  BY DEF AudioInv, Senders
<1>3. audioFile = "none"  BY DEF AudioInv, Stages
<1>4. Stages'  BY <1>3 DEF AudioInv, Stages
<1>5. InOrder' /\ NoneIsLost' /\ TraceIsTrue'
  BY <1>3, PlacesKept DEF AudioInv, AudioTypes, places
<1>6. NotesAreTrue'  BY DEF AudioInv, NotesAreTrue, LastNote
<1> QED BY <1>1, <1>2, <1>4, <1>5, <1>6 DEF AudioInv

LEMMA WriteKeyStep == ASSUME AudioInv, NEW k, Audio!WriteKey(k) PROVE AudioInv'
<1> USE DEF Audio!WriteKey, Audio!producers, Audio!search, Audio!output
<1>1. AudioTypes'  BY DEF AudioInv, AudioTypes, Packets, Notes
<1>2. Senders'  BY DEF AudioInv, Senders
<1>3. Stages'  BY DEF AudioInv, Stages
<1>4. InOrder' /\ NoneIsLost' /\ TraceIsTrue'
  BY PlacesKept DEF AudioInv, AudioTypes, places
<1>5. NotesAreTrue'  BY DEF AudioInv, NotesAreTrue, LastNote
<1> QED BY <1>1, <1>2, <1>3, <1>4, <1>5 DEF AudioInv

LEMMA AudioTickStep == AudioInv /\ Audio!Tick => AudioInv'
<1> SUFFICES ASSUME AudioInv, Audio!Tick PROVE AudioInv'
  OBVIOUS
<1> USE DEF Audio!Tick, Audio!redis, Audio!producers, Audio!search, Audio!output
<1>1. AudioTypes'  BY DEF AudioInv, AudioTypes, Packets, Notes
<1>2. Senders'  BY DEF AudioInv, Senders
<1>3. Stages'  BY DEF AudioInv, Stages
<1>4. InOrder' /\ NoneIsLost' /\ TraceIsTrue'
  BY PlacesKept DEF AudioInv, AudioTypes, places
<1>5. NotesAreTrue'  BY DEF AudioInv, NotesAreTrue, LastNote
<1> QED BY <1>1, <1>2, <1>3, <1>4, <1>5 DEF AudioInv

(* The last call decides; the ones before it do not matter.                 *)
LEMMA LastAppend ==
  ASSUME NEW S, NEW s \in Seq(S), NEW e \in S
  PROVE  /\ Append(s, e) \in Seq(S) /\ Append(s, e) # <<>>
         /\ Append(s, e)[Len(Append(s, e))] = e
  OBVIOUS

LEMMA LookupStep == ASSUME AudioInv, NEW found \in BOOLEAN, Audio!Lookup(found) PROVE AudioInv'
<1> USE DEF Audio!Lookup, Audio!Looking, Audio!producers, Audio!output
<1>1. calls' = calls \/ calls' = Append(calls, "none") \/ calls' = Append(calls, "hedef-yok")
  BY DEF Audio!Noting, Audio!Calls
<1>2. calls' \in Seq(Notes)
  <2>1. calls \in Seq(Notes) /\ "none" \in Notes /\ "hedef-yok" \in Notes
    BY DEF AudioInv, AudioTypes, Notes
  <2> QED BY <1>1, <2>1, LastAppend
<1>3. AudioTypes'  BY <1>2 DEF AudioInv, AudioTypes, Packets, Notes
<1>4. Senders'  BY DEF AudioInv, Senders
<1>5. Stages'
  <2>1. found => "room" \in audioKeys  OBVIOUS
  <2>2. ~audioHedef /\ ~audioVazgec /\ audioHedef' = found  OBVIOUS
  <2> QED BY <2>1, <2>2 DEF AudioInv, Stages
<1>6. InOrder' /\ NoneIsLost' /\ TraceIsTrue'
  BY PlacesKept DEF AudioInv, AudioTypes, places
<1>7. NotesAreTrue'
  <2> SUFFICES ASSUME Env \cap {"reorder", "redisDown"} = {}
               PROVE  LastNote' = IF uyarildi' /\ ~audioHedef' THEN "hedef-yok" ELSE "none"
    BY DEF NotesAreTrue
  <2>1. LastNote = IF uyarildi THEN "hedef-yok" ELSE "none"
    BY DEF AudioInv, NotesAreTrue
  <2>2. calls \in Seq(Notes) /\ "none" \in Notes /\ "hedef-yok" \in Notes
    BY DEF AudioInv, AudioTypes, Notes
  <2>3. CASE found /\ uyarildi
    <3>1. calls' = Append(calls, "none")  BY <2>3 DEF Audio!Noting, Audio!Calls
    <3>2. LastNote' = "none"  BY <2>2, <3>1, LastAppend DEF LastNote
    <3> QED BY <2>3, <3>2
  <2>4. CASE ~found /\ ~uyarildi /\ audioNow > ilkPaketAn + NoteAfter
    <3>1. calls' = Append(calls, "hedef-yok")  BY <2>4 DEF Audio!Noting, Audio!Calls
    <3>2. LastNote' = "hedef-yok"  BY <2>2, <3>1, LastAppend DEF LastNote
    <3> QED BY <2>4, <3>2
  <2>5. CASE ~(found /\ uyarildi) /\ ~(~found /\ ~uyarildi /\ audioNow > ilkPaketAn + NoteAfter)
    <3>1. calls' = calls  BY <2>5 DEF Audio!Noting, Audio!Calls
    <3>2. LastNote' = LastNote  BY <3>1 DEF LastNote
    <3> QED BY <2>1, <2>5, <3>2
  <2> QED BY <2>3, <2>4, <2>5
<1> QED BY <1>3, <1>4, <1>5, <1>6, <1>7 DEF AudioInv

LEMMA RemoveAtFirst ==
  ASSUME NEW S, NEW s \in Seq(S), NEW i \in 1..Len(s)
  PROVE  /\ Audio!RemoveAt(s, i) \in Seq(S)
         /\ i = 1 /\ Len(s) = 1 => Audio!RemoveAt(s, i) = <<>>
         /\ i = 1 /\ Len(s) # 1 => /\ Audio!RemoveAt(s, i) # <<>>
                                   /\ Audio!RemoveAt(s, i)[Len(Audio!RemoveAt(s, i))] = s[Len(s)]
<1>1. PICK n \in Nat : n = Len(s)  OBVIOUS
<1>2. Audio!RemoveAt(s, i) = SubSeq(s, 1, i - 1) \o SubSeq(s, i + 1, n)
  BY <1>1 DEF Audio!RemoveAt
<1>3. i \in 1..n  BY <1>1
<1>4. SubSeq(s, 1, i - 1) \in Seq(S) /\ SubSeq(s, i + 1, n) \in Seq(S)
  BY <1>1, <1>3
<1>5. Audio!RemoveAt(s, i) \in Seq(S)  BY <1>2, <1>4
<1>6. ASSUME i = 1 PROVE Audio!RemoveAt(s, i) = SubSeq(s, 2, n)
  <2>1. SubSeq(s, 1, 0) = <<>>  BY <1>1
  <2> QED BY <1>2, <1>4, <1>6, <2>1
<1>7. ASSUME i = 1, n = 1 PROVE Audio!RemoveAt(s, i) = <<>>
  BY <1>1, <1>6, <1>7
<1>8. ASSUME i = 1, n # 1
      PROVE  Audio!RemoveAt(s, i) # <<>> /\ Audio!RemoveAt(s, i)[Len(Audio!RemoveAt(s, i))] = s[n]
  <2>1. n > 1  BY <1>3, <1>8
  <2>2. Len(SubSeq(s, 2, n)) = n - 1 /\ SubSeq(s, 2, n)[n - 1] = s[n]
    BY <1>1, <2>1
  <2> QED BY <1>6, <1>8, <2>1, <2>2
<1> QED BY <1>1, <1>5, <1>7, <1>8

LEMMA CallArrivesStep == AudioInv /\ Audio!CallArrives => AudioInv'
<1> SUFFICES ASSUME AudioInv, Audio!CallArrives PROVE AudioInv'
  OBVIOUS
<1> USE DEF Audio!producers, Audio!search, Audio!output
<1>1. PICK i \in 1..Len(calls) :
        /\ i = 1 \/ "reorder" \in Env
        /\ calls' = Audio!RemoveAt(calls, i)
        /\ note' = calls[i] \/ ("redisDown" \in Env /\ note' = note)
  BY DEF Audio!CallArrives
<1>2. UNCHANGED <<audioNow, Audio!producers, audioCh, start, audioKeys, Audio!search, Audio!output, audioDone>>
  BY DEF Audio!CallArrives
<1>3. calls \in Seq(Notes) /\ note \in Notes  BY DEF AudioInv, AudioTypes
<1>4. calls' \in Seq(Notes) /\ note' \in Notes  BY <1>1, <1>3, RemoveAtFirst
<1>5. AudioTypes'  BY <1>2, <1>4 DEF AudioInv, AudioTypes, Packets, Notes
<1>6. Senders'  BY <1>2 DEF AudioInv, Senders
<1>7. Stages'  BY <1>2 DEF AudioInv, Stages
<1>8. InOrder' /\ NoneIsLost' /\ TraceIsTrue'
  BY <1>2, PlacesKept DEF AudioInv, AudioTypes, places
<1>9. NotesAreTrue'
  <2> SUFFICES ASSUME Env \cap {"reorder", "redisDown"} = {} PROVE LastNote' = LastNote
    BY <1>2 DEF AudioInv, NotesAreTrue
  <2>1. i = 1 /\ note' = calls[1]  BY <1>1
  <2>2. calls # <<>>  BY <1>1, <1>3
  <2>3. CASE Len(calls) = 1
    <3>1. calls' = <<>>  BY <1>1, <1>3, <2>1, <2>3, RemoveAtFirst
    <3> QED BY <2>1, <2>2, <2>3, <3>1 DEF LastNote
  <2>4. CASE Len(calls) # 1
    <3>1. calls' # <<>> /\ calls'[Len(calls')] = calls[Len(calls)]
      BY <1>1, <1>3, <2>1, <2>4, RemoveAtFirst
    <3> QED BY <2>2, <3>1 DEF LastNote
  <2> QED BY <2>3, <2>4
<1> QED BY <1>5, <1>6, <1>7, <1>8, <1>9 DEF AudioInv

-----------------------------------------------------------------------------
(* The producers.                                                           *)
LEMMA AudioFacts ==
  ASSUME AudioInv
  PROVE  /\ Len(arrival) \in Nat /\ Packets \subseteq Nat \ {0} /\ 0 \notin Packets
         /\ \A x \in Packets : arrival[x] \in Nat
         /\ audioCh \in Seq(Packets \cup {0}) /\ audioBekleyen \in Seq(Packets)
         /\ kuyruk \in Seq(Packets) /\ written \in Seq(Packets)
         /\ \A x : In(audioCh, x) => x \in Packets \cup {0}
         /\ \A x : In(audioBekleyen, x) \/ In(kuyruk, x) \/ In(written, x) => x \in Packets
<1>1. arrival \in Seq(Nat)  BY DEF AudioInv, AudioTypes
<1>2. Len(arrival) \in Nat /\ \A x \in 1..Len(arrival) : arrival[x] \in Nat  BY <1>1
<1>3. audioCh \in Seq(Packets \cup {0}) /\ audioBekleyen \in Seq(Packets)
      /\ kuyruk \in Seq(Packets) /\ written \in Seq(Packets)
  BY DEF AudioInv, AudioTypes
<1>4. \A T, s, x : s \in Seq(T) /\ In(s, x) => x \in T  BY DEF In
<1>5. \A x : In(audioCh, x) => x \in Packets \cup {0}  BY <1>3, <1>4
<1>6. \A x : In(audioBekleyen, x) \/ In(kuyruk, x) \/ In(written, x) => x \in Packets  BY <1>3, <1>4
<1>7. Packets \subseteq Nat \ {0}  BY <1>2 DEF Packets
<1> QED BY <1>2, <1>3, <1>5, <1>6, <1>7 DEF Packets

LEMMA SRSendStep == AudioInv /\ Audio!SRSend => AudioInv'
<1> SUFFICES ASSUME AudioInv, Audio!SRSend PROVE AudioInv'
  OBVIOUS
<1> USE DEF Audio!redis, Audio!search, Audio!output
<1>1. /\ rtcp = "holds" /\ rtcp' = "idle" /\ audioPanicked' = chClosed
      /\ audioCh' = audioCh \/ audioCh' = Append(audioCh, 0)
  BY DEF Audio!SRSend, Audio!Send, Audio!SR
<1>2. UNCHANGED <<audioNow, arrival, dropped, media, srs, audioClosed, chClosed, start, audioKeys, note, calls>>
  BY DEF Audio!SRSend
<1>2a. UNCHANGED <<audioHedef, ilkPaketAn, audioBekleyen, iz, uyarildi, audioVazgec,
                   audioFile, kuyruk, written, lost, audioDone>>
  BY DEF Audio!SRSend
<1>3. ~chClosed  BY <1>1 DEF AudioInv, Senders
<1>4. audioCh' \in Seq(Packets \cup {0})
  <2>1. audioCh \in Seq(Packets \cup {0}) /\ 0 \in Packets \cup {0}  BY AudioFacts
  <2> QED BY <1>1, <2>1, LastAppend
<1>5. \A x \in Packets : In(audioCh', x) <=> In(audioCh, x)
  <2>1. \A x : In(Append(audioCh, 0), x) <=> In(audioCh, x) \/ x = 0  BY AudioFacts, InAppend
  <2> QED BY <1>1, <2>1, AudioFacts
<1>6. Increasing(audioCh')
  <2>1. audioCh \in Seq(Nat)  BY AudioFacts
  <2>2. Increasing(audioCh)  BY DEF AudioInv, InOrder
  <2> QED BY <1>1, <2>1, <2>2, IncreasingAppend
<1>7. AudioTypes'  BY <1>1, <1>2, <1>2a, <1>4 DEF AudioInv, AudioTypes, Packets, Notes
<1>8. Senders'  BY <1>1, <1>2, <1>2a, <1>3 DEF AudioInv, Senders
<1>9. Stages'  BY <1>2, <1>2a DEF AudioInv, Stages
<1>10. Packets' = Packets /\ dropped \subseteq Packets  BY <1>2 DEF Packets, AudioInv, AudioTypes
<1>11. InOrder'
  <2>1. Increasing(audioBekleyen')  BY <1>2a DEF AudioInv, InOrder
  <2>2. \A x, y \in Packets : In(audioBekleyen', x) /\ In(audioCh', y) => x < y
    BY <1>2a, <1>5 DEF AudioInv, InOrder
  <2>3. \A x \in dropped : ~In(audioCh', x) /\ ~In(audioBekleyen', x)
    BY <1>2a, <1>5, <1>10 DEF AudioInv, InOrder
  <2> QED BY <1>2, <1>6, <1>10, <2>1, <2>2, <2>3 DEF AudioInv, InOrder
<1>12. NoneIsLost'
  BY <1>2, <1>2a, <1>5, <1>10 DEF AudioInv, NoneIsLost, InFile
<1>13. TraceIsTrue'
  BY <1>2, <1>2a, <1>5, <1>10 DEF AudioInv, TraceIsTrue, InFile
<1>14. NotesAreTrue'  BY <1>2, <1>2a DEF AudioInv, NotesAreTrue, LastNote
<1> QED BY <1>7, <1>8, <1>9, <1>11, <1>12, <1>13, <1>14 DEF AudioInv

LEMMA AudioWriteStep == AudioInv /\ Audio!Write => AudioInv'
<1> SUFFICES ASSUME AudioInv, Audio!Write PROVE AudioInv'
  OBVIOUS
<1> USE DEF Audio!redis, Audio!search, Audio!output
<1>1. PICK p : p = Len(arrival) + 1  OBVIOUS
<1>2. /\ media = "runs" /\ arrival' = Append(arrival, audioNow) /\ audioPanicked' = chClosed
      /\ \/ audioCh' = audioCh /\ (chClosed \/ dropped' = dropped \cup {p})
         \/ audioCh' = Append(audioCh, p) /\ dropped' = dropped
  BY <1>1 DEF Audio!Write, Audio!Send
<1>3. UNCHANGED <<audioNow, media, rtcp, srs, audioClosed, chClosed, start, audioKeys, note, calls>>
  BY DEF Audio!Write
<1>4. UNCHANGED <<audioHedef, ilkPaketAn, audioBekleyen, iz, uyarildi, audioVazgec,
                  audioFile, kuyruk, written, lost, audioDone>>
  BY DEF Audio!Write
<1>5. ~chClosed  BY <1>2 DEF AudioInv, Senders
<1>6. \/ audioCh' = audioCh /\ dropped' = dropped \cup {p}
      \/ audioCh' = Append(audioCh, p) /\ dropped' = dropped
  BY <1>2, <1>5
<1>7. /\ Packets' = Packets \cup {p} /\ p \in Nat \ {0} /\ p \notin Packets
      /\ \A x \in Packets : x < p /\ arrival'[x] = arrival[x]
      /\ arrival'[p] = audioNow
  <2>1. arrival \in Seq(Nat) /\ audioNow \in Nat  BY DEF AudioInv, AudioTypes
  <2>2. Len(arrival) \in Nat /\ Len(arrival') = Len(arrival) + 1  BY <1>2, <2>1
  <2>3. 1..(Len(arrival) + 1) = (1..Len(arrival)) \cup {p}  BY <1>1, <2>2
  <2>4. p \in Nat \ {0} /\ \A x \in 1..Len(arrival) : x < p  BY <1>1, <2>2
  <2>5. arrival'[p] = audioNow /\ \A x \in 1..Len(arrival) : arrival'[x] = arrival[x]
    BY <1>1, <1>2, <2>1, <2>2
  <2> QED BY <2>2, <2>3, <2>4, <2>5 DEF Packets
<1>8. \A x \in Packets : In(audioCh', x) <=> In(audioCh, x)
  <2>1. audioCh \in Seq(Packets \cup {0} \cup {p})  BY AudioFacts
  <2>2. \A x : In(Append(audioCh, p), x) <=> In(audioCh, x) \/ x = p  BY <2>1, InAppend
  <2> QED BY <1>6, <1>7, <2>2
<1>9. In(audioCh', p) \/ p \in dropped'
  <2>1. audioCh \in Seq(Packets \cup {0} \cup {p})  BY AudioFacts
  <2>2. \A x : In(Append(audioCh, p), x) <=> In(audioCh, x) \/ x = p  BY <2>1, InAppend
  <2> QED BY <1>6, <2>2
<1>10. dropped \subseteq Packets /\ ~In(audioCh, p) /\ ~In(audioBekleyen, p) /\ ~InFile(p)
  BY <1>7, AudioFacts DEF AudioInv, AudioTypes, InFile
<1>11. AudioTypes'
  <2>1. arrival' \in Seq(Nat)  BY <1>2 DEF AudioInv, AudioTypes
  <2>2. dropped' \subseteq Packets'  BY <1>6, <1>7, <1>10
  <2>3. audioCh' \in Seq(Packets' \cup {0})
    <3>1. audioCh \in Seq(Packets' \cup {0})  BY <1>7, AudioFacts
    <3> QED BY <1>6, <1>7, <3>1
  <2>4. audioBekleyen' \in Seq(Packets') /\ kuyruk' \in Seq(Packets') /\ written' \in Seq(Packets')
    BY <1>4, <1>7, AudioFacts
  <2> QED BY <1>3, <1>4, <2>1, <2>2, <2>3, <2>4 DEF AudioInv, AudioTypes, Notes
<1>12. Senders'
  BY <1>2, <1>3, <1>4, <1>5 DEF AudioInv, Senders
<1>13. Stages'  BY <1>3, <1>4 DEF AudioInv, Stages
<1>14. InOrder'
  <2>1. \A i, j \in Packets' : i <= j => arrival'[i] <= arrival'[j]
    <3>1. \A i \in Packets : arrival[i] <= audioNow /\ i \in Nat  BY AudioFacts DEF AudioInv, InOrder
    <3>2. \A i, j \in Packets : i <= j => arrival[i] <= arrival[j]  BY DEF AudioInv, InOrder
    <3>3. audioNow <= audioNow  BY DEF AudioInv, AudioTypes
    <3> QED BY <1>7, <3>1, <3>2, <3>3
  <2>2. \A i \in Packets' : arrival'[i] <= audioNow'
    <3>1. audioNow' = audioNow /\ audioNow <= audioNow  BY <1>3 DEF AudioInv, AudioTypes
    <3>2. \A i \in Packets : arrival[i] <= audioNow  BY DEF AudioInv, InOrder
    <3> QED BY <1>7, <3>1, <3>2
  <2>3. Increasing(audioCh')
    <3>1. audioCh \in Seq(Nat) /\ Increasing(audioCh)  BY AudioFacts DEF AudioInv, InOrder
    <3>2. \A x \in Nat \ {0} : In(audioCh, x) => x < p  BY <1>7, AudioFacts
    <3> QED BY <1>6, <1>7, <3>1, <3>2, IncreasingAppend
  <2>4. Increasing(audioBekleyen')  BY <1>4 DEF AudioInv, InOrder
  <2>5. \A x, y \in Packets' : In(audioBekleyen', x) /\ In(audioCh', y) => x < y
    <3>1. \A x : In(audioBekleyen', x) => x \in Packets  BY <1>4, AudioFacts
    <3>2. \A x, y \in Packets : In(audioBekleyen, x) /\ In(audioCh, y) => x < y  BY DEF AudioInv, InOrder
    <3> QED BY <1>4, <1>7, <1>8, <3>1, <3>2
  <2>6. \A x \in dropped' : ~In(audioCh', x) /\ ~In(audioBekleyen', x)
    <3>1. \A x \in dropped : ~In(audioCh, x) /\ ~In(audioBekleyen, x)  BY DEF AudioInv, InOrder
    <3> QED BY <1>4, <1>6, <1>8, <1>10, <3>1
  <2> QED BY <2>1, <2>2, <2>3, <2>4, <2>5, <2>6 DEF InOrder
<1>15. NoneIsLost'
  <2> SUFFICES ASSUME ~audioVazgec, NEW x \in Packets' \ dropped'
               PROVE  \/ In(audioCh', x) \/ In(audioBekleyen, x) \/ InFile(x)
                      \/ arrival'[x] <= iz
                      \/ audioFile # "none" /\ arrival'[x] < start
    BY <1>3, <1>4 DEF NoneIsLost, InFile
  <2>1. CASE x = p  BY <1>9, <2>1
  <2>2. CASE x \in Packets \ dropped
    BY <1>7, <1>8, <2>2 DEF AudioInv, NoneIsLost
  <2> QED BY <1>6, <1>7, <2>1, <2>2
<1>16. TraceIsTrue'
  <2> SUFFICES ASSUME iz > 0
               PROVE  \E x \in Packets' \ dropped' :
                        arrival'[x] = iz /\ ~In(audioCh', x) /\ ~In(audioBekleyen, x) /\ ~InFile(x)
    BY <1>4 DEF TraceIsTrue, InFile
  <2>1. PICK x \in Packets \ dropped :
          arrival[x] = iz /\ ~In(audioCh, x) /\ ~In(audioBekleyen, x) /\ ~InFile(x)
    BY DEF AudioInv, TraceIsTrue
  <2>2. x \in Packets' \ dropped' /\ arrival'[x] = iz /\ ~In(audioCh', x)
    BY <1>6, <1>7, <1>8, <2>1
  <2> QED BY <2>1, <2>2
<1>17. NotesAreTrue'  BY <1>3, <1>4 DEF AudioInv, NotesAreTrue, LastNote
<1> QED BY <1>11, <1>12, <1>13, <1>14, <1>15, <1>16, <1>17 DEF AudioInv

-----------------------------------------------------------------------------
(* What the loop takes from the channel, and what it leaves alone.          *)
LEMMA Received ==
  ASSUME AudioInv, Audio!Receive
  PROVE  /\ Senders' /\ Packets' = Packets
         /\ audioCh' \in Seq(Packets \cup {0}) /\ Increasing(audioCh')
         /\ Head(audioCh) \in Packets \cup {0}
         /\ \A x : In(audioCh, x) <=> x = Head(audioCh) \/ In(audioCh', x)
         /\ Head(audioCh) # 0 => /\ Head(audioCh) \in Packets \ dropped
                                 /\ \A x \in Packets : In(audioCh', x) => Head(audioCh) < x
                                 /\ \A x \in Packets : In(audioBekleyen, x) => x < Head(audioCh)
<1>1. audioCh # <<>> /\ audioCh' = Tail(audioCh) /\ ~audioDone
      /\ UNCHANGED <<Audio!producers, audioDone>>
  BY DEF Audio!Receive
<1>2. Senders'  BY <1>1 DEF AudioInv, Senders, Audio!producers
<1>3. Packets' = Packets  BY <1>1 DEF Packets, Audio!producers
<1>4. audioCh \in Seq(Packets \cup {0}) /\ audioCh \in Seq(Nat) /\ Packets \subseteq Nat \ {0}
  BY AudioFacts
<1>5. audioCh' \in Seq(Packets \cup {0}) /\ Head(audioCh) \in Packets \cup {0}  BY <1>1, <1>4
<1>6. \A x : In(audioCh, x) <=> x = Head(audioCh) \/ In(audioCh', x)  BY <1>1, <1>4, InTail
<1>7. Increasing(audioCh)  BY DEF AudioInv, InOrder
<1>8. /\ Increasing(audioCh')
      /\ \A x \in Nat \ {0} : In(audioCh', x) /\ Head(audioCh) # 0 => Head(audioCh) < x
  BY <1>1, <1>4, <1>7, IncreasingTail
<1>9. ASSUME Head(audioCh) # 0
      PROVE  /\ Head(audioCh) \in Packets \ dropped
             /\ \A x \in Packets : In(audioBekleyen, x) => x < Head(audioCh)
  <2>1. Head(audioCh) \in Packets /\ In(audioCh, Head(audioCh))  BY <1>5, <1>6, <1>9
  <2> QED BY <2>1 DEF AudioInv, InOrder
<1> QED BY <1>2, <1>3, <1>4, <1>5, <1>6, <1>8, <1>9

LEMMA DiscardStep == AudioInv /\ Audio!Discard => AudioInv'
<1> SUFFICES ASSUME AudioInv, Audio!Discard PROVE AudioInv'
  OBVIOUS
<1>1. Audio!Receive /\ (Head(audioCh) = 0 \/ audioVazgec)  BY DEF Audio!Discard, Audio!SR
<1>2. UNCHANGED <<audioNow, arrival, dropped, media, rtcp, srs, audioClosed, chClosed, start, audioKeys, note, calls>>
  BY DEF Audio!Discard, Audio!Receive, Audio!producers
<1>3. UNCHANGED <<audioHedef, ilkPaketAn, audioBekleyen, iz, uyarildi, audioVazgec,
                  audioFile, kuyruk, written, lost, audioDone>>
  BY DEF Audio!Discard, Audio!Receive, Audio!output
<1>4. /\ Senders' /\ Packets' = Packets
      /\ audioCh' \in Seq(Packets \cup {0}) /\ Increasing(audioCh')
      /\ \A x : In(audioCh', x) => In(audioCh, x)
  BY <1>1, Received
<1>5. AudioTypes'  BY <1>2, <1>3, <1>4 DEF AudioInv, AudioTypes, Notes
<1>6. Stages'  BY <1>2, <1>3 DEF AudioInv, Stages
<1>7. InOrder'
  <2>1. Increasing(audioBekleyen')  BY <1>3 DEF AudioInv, InOrder
  <2>2. \A x, y \in Packets : In(audioBekleyen', x) /\ In(audioCh', y) => x < y
    BY <1>3, <1>4 DEF AudioInv, InOrder
  <2>3. \A x \in dropped : ~In(audioCh', x) /\ ~In(audioBekleyen', x)
    BY <1>3, <1>4 DEF AudioInv, InOrder
  <2> QED BY <1>2, <1>4, <2>1, <2>2, <2>3 DEF AudioInv, InOrder
<1>8. NoneIsLost'
  <2>1. audioVazgec \/ \A x \in Packets : In(audioCh, x) => In(audioCh', x)
    BY <1>1, Received, AudioFacts
  <2> QED BY <1>2, <1>3, <1>4, <2>1 DEF AudioInv, NoneIsLost, InFile
<1>9. TraceIsTrue'
  BY <1>2, <1>3, <1>4 DEF AudioInv, TraceIsTrue, InFile
<1>10. NotesAreTrue'  BY <1>2, <1>3 DEF AudioInv, NotesAreTrue, LastNote
<1> QED BY <1>4, <1>5, <1>6, <1>7, <1>8, <1>9, <1>10 DEF AudioInv

LEMMA HoldStep == AudioInv /\ Audio!Hold => AudioInv'
<1> SUFFICES ASSUME AudioInv, Audio!Hold PROVE AudioInv'
  OBVIOUS
<1>1. PICK p : p = Head(audioCh)  OBVIOUS
<1>2. PICK b : b = Append(audioBekleyen, p)  OBVIOUS
<1>3. PICK S : S = Audio!Old(arrival[p])  OBVIOUS
<1>4. PICK out : out = Audio!Cut(b, S)  OBVIOUS
<1>5. /\ Audio!Receive /\ p # 0 /\ ~audioVazgec /\ ~audioHedef
      /\ audioBekleyen' = Audio!Left(b, S)
      /\ iz' = IF out = <<>> THEN iz ELSE Audio!Newer(iz, arrival[Audio!Last(out)])
  BY <1>1, <1>2, <1>3, <1>4 DEF Audio!Hold, Audio!SR, Audio!pencereKirp, Audio!kaydet
<1>6. UNCHANGED <<audioNow, arrival, dropped, media, rtcp, srs, audioClosed, chClosed, start, audioKeys, note, calls>>
  BY DEF Audio!Hold, Audio!Receive, Audio!producers
<1>7. UNCHANGED <<audioHedef, uyarildi, audioVazgec, audioFile, kuyruk, written, lost, audioDone>>
  BY DEF Audio!Hold, Audio!Receive, Audio!output
<1>8. audioFile = "none" /\ \A x : ~InFile(x)
  <2>1. audioFile = "none" /\ written = <<>> /\ kuyruk = <<>>  BY <1>5 DEF AudioInv, Stages
  <2> QED BY <2>1, InEmpty DEF InFile
<1>9. /\ Senders' /\ Packets' = Packets
      /\ audioCh' \in Seq(Packets \cup {0}) /\ Increasing(audioCh')
      /\ \A x : In(audioCh, x) <=> x = p \/ In(audioCh', x)
      /\ p \in Packets \ dropped
      /\ \A x \in Packets : In(audioCh', x) => p < x
      /\ \A x \in Packets : In(audioBekleyen, x) => x < p
  BY <1>1, <1>5, Received
<1>10. b \in Seq(Packets) /\ \A x : In(b, x) <=> In(audioBekleyen, x) \/ x = p
  BY <1>2, <1>9, AudioFacts, InAppend, LastAppend
<1>11. Increasing(b)
  <2>1. audioBekleyen \in Seq(Nat) /\ p \in Nat /\ Packets \subseteq Nat  BY <1>9, AudioFacts
  <2>2. \A x \in Nat \ {0} : In(audioBekleyen, x) => x < p  BY <1>9, AudioFacts
  <2>3. Increasing(audioBekleyen)  BY DEF AudioInv, InOrder
  <2> QED BY <1>2, <2>1, <2>2, <2>3, IncreasingAppend
<1>12. \A x : In(b, x) => x \in Packets \ dropped /\ x <= p
  <2>1. \A x : In(audioBekleyen, x) => x \in Packets \ dropped  BY AudioFacts DEF AudioInv, InOrder
  <2>2. p <= p /\ \A x \in Packets : x < p => x <= p  BY <1>9, AudioFacts
  <2> QED BY <1>9, <1>10, <2>1, <2>2
<1>13. /\ out \in Seq(Packets) /\ audioBekleyen' \in Seq(Packets)
       /\ \A x : In(b, x) <=> In(out, x) \/ In(audioBekleyen', x)
  BY <1>4, <1>5, <1>10, CutAndLeft
<1>14. /\ Increasing(audioBekleyen')
       /\ \A x, y : In(out, x) /\ In(audioBekleyen', y) => x < y
       /\ out # <<>> => In(out, Audio!Last(out)) /\ \A x : In(out, x) => x <= Audio!Last(out)
  <2>1. b \in Seq(Nat \ {0})  BY <1>10, AudioFacts
  <2> QED BY <1>4, <1>5, <1>11, <2>1, IncreasingCut
<1>15. iz \in Nat /\ iz' \in Nat /\ iz <= iz' /\ (out # <<>> => arrival[Audio!Last(out)] <= iz')
       /\ (iz' = iz \/ (out # <<>> /\ iz' = arrival[Audio!Last(out)]))
  <2>1. iz \in Nat  BY DEF AudioInv, AudioTypes
  <2>2. out # <<>> => arrival[Audio!Last(out)] \in Nat  BY <1>12, <1>13, <1>14, AudioFacts
  <2> QED BY <1>5, <2>1, <2>2 DEF Audio!Newer
<1>16. AudioTypes'  BY <1>6, <1>7, <1>9, <1>13, <1>15 DEF AudioInv, AudioTypes, Notes
<1>17. Stages'  BY <1>6, <1>7, <1>8 DEF AudioInv, Stages
<1>18. InOrder'
  <2>1. \A x, y \in Packets : In(audioBekleyen', x) /\ In(audioCh', y) => x < y
    <3> SUFFICES ASSUME NEW x \in Packets, NEW y \in Packets, In(audioBekleyen', x), In(audioCh', y)
                 PROVE  x < y
      OBVIOUS
    <3>1. x <= p /\ p < y  BY <1>9, <1>12, <1>13
    <3>2. x \in Nat /\ y \in Nat /\ p \in Nat  BY <1>9, AudioFacts
    <3> QED BY <3>1, <3>2
  <2>2. \A x \in dropped : ~In(audioCh', x) /\ ~In(audioBekleyen', x)
    BY <1>9, <1>12, <1>13 DEF AudioInv, InOrder
  <2> QED BY <1>6, <1>9, <1>14, <2>1, <2>2 DEF AudioInv, InOrder
<1>19. NoneIsLost'
  <2> SUFFICES ASSUME NEW x \in Packets \ dropped
               PROVE  In(audioCh', x) \/ In(audioBekleyen', x) \/ arrival[x] <= iz'
    BY <1>6, <1>9 DEF NoneIsLost
  <2>1. In(audioCh, x) \/ In(audioBekleyen, x) \/ arrival[x] <= iz
    BY <1>5, <1>8 DEF AudioInv, NoneIsLost
  <2>2. CASE In(audioCh', x)  BY <2>2
  <2>3. CASE In(b, x)
    <3>1. CASE In(audioBekleyen', x)  BY <3>1
    <3>2. CASE In(out, x)
      <4>1. out # <<>>  BY <3>2, InEmpty
      <4>2. PICK l : l = Audio!Last(out)  OBVIOUS
      <4>3. x <= l /\ l \in Packets /\ arrival[l] <= iz'
        BY <1>12, <1>13, <1>14, <1>15, <3>2, <4>1, <4>2
      <4>4. arrival[x] <= arrival[l]  BY <4>3 DEF AudioInv, InOrder
      <4>5. arrival[x] \in Nat /\ arrival[l] \in Nat  BY <4>3, AudioFacts
      <4> QED BY <1>15, <4>3, <4>4, <4>5
    <3> QED BY <1>13, <2>3, <3>1, <3>2
  <2>4. CASE arrival[x] <= iz
    <3>1. arrival[x] \in Nat  BY AudioFacts
    <3> QED BY <1>15, <2>4, <3>1
  <2> QED BY <1>9, <1>10, <2>1, <2>2, <2>3, <2>4
<1>20. TraceIsTrue'
  <2> SUFFICES ASSUME iz' > 0
               PROVE  \E x \in Packets \ dropped :
                        arrival[x] = iz' /\ ~In(audioCh', x) /\ ~In(audioBekleyen', x)
    BY <1>6, <1>7, <1>8, <1>9 DEF TraceIsTrue, InFile
  <2>1. CASE iz' = iz
    <3>1. PICK x \in Packets \ dropped :
            arrival[x] = iz /\ ~In(audioCh, x) /\ ~In(audioBekleyen, x)
      BY <2>1 DEF AudioInv, TraceIsTrue
    <3>2. ~In(audioCh', x) /\ ~In(b, x)  BY <1>9, <1>10, <3>1
    <3> QED BY <1>13, <2>1, <3>1, <3>2
  <2>2. CASE out # <<>> /\ iz' = arrival[Audio!Last(out)]
    <3>1. PICK l : l = Audio!Last(out)  OBVIOUS
    <3>2. In(out, l) /\ l \in Packets \ dropped /\ l <= p  BY <1>12, <1>13, <1>14, <2>2, <3>1
    <3>3. l \in Nat /\ p \in Nat  BY <1>9, <3>2, AudioFacts
    <3>4. ~In(audioBekleyen', l)
      <4>1. In(audioBekleyen', l) => l < l  BY <1>14, <3>2
      <4> QED BY <3>3, <4>1
    <3>5. ~In(audioCh', l)
      <4>1. In(audioCh', l) => p < l  BY <1>9, <3>2
      <4> QED BY <3>2, <3>3, <4>1
    <3> QED BY <2>2, <3>1, <3>2, <3>4, <3>5
  <2> QED BY <1>15, <2>1, <2>2
<1>21. NotesAreTrue'  BY <1>6, <1>7 DEF AudioInv, NotesAreTrue, LastNote
<1> QED BY <1>9, <1>16, <1>17, <1>18, <1>19, <1>20, <1>21 DEF AudioInv

(* The packets that go into the file when it is opened: only ones from      *)
(* before the start are left behind.                                        *)
LEMMA KeptIsOfTheRecording ==
  ASSUME AudioInv, NEW p \in Packets, NEW b, b = Append(audioBekleyen, p)
  PROVE  /\ Audio!Kept(b) \in Seq(Packets)
         /\ \A x : In(Audio!Kept(b), x) => In(b, x)
         /\ \A x : In(b, x) => In(Audio!Kept(b), x) \/ arrival[x] < start
<1>1. b \in Seq(Packets) /\ b # <<>> /\ b[Len(b)] = p
  <2>1. audioBekleyen \in Seq(Packets)  BY AudioFacts
  <2>2. Append(audioBekleyen, p) \in Seq(Packets) /\ Append(audioBekleyen, p) # <<>>
        /\ Append(audioBekleyen, p)[Len(Append(audioBekleyen, p))] = p
    BY <2>1, LastAppend
  <2> QED BY <2>2
<1>2. In(b, p)  BY AudioFacts, InAppend
<1>3. /\ Audio!Left(b, Audio!Early) \in Seq(Packets)
      /\ \A x : In(b, x) <=> In(Audio!Cut(b, Audio!Early), x) \/ In(Audio!Left(b, Audio!Early), x)
      /\ \A x : In(Audio!Cut(b, Audio!Early), x) => x \in Audio!Early
  BY <1>1, CutAndLeft
<1>4. \A x \in Audio!Early : arrival[x] < start  BY DEF Audio!Early
<1>5. CASE Audio!Left(b, Audio!Early) = <<>>
  <2>1. Audio!Kept(b) = <<p>>  BY <1>1, <1>5 DEF Audio!Kept, Audio!Last
  <2>2. \A x : In(<<p>>, x) <=> x = p  BY DEF In
  <2>3. \A x : ~In(Audio!Left(b, Audio!Early), x)  BY <1>5, InEmpty
  <2>4. <<p>> \in Seq(Packets)  OBVIOUS
  <2> QED BY <1>2, <1>3, <1>4, <2>1, <2>2, <2>3, <2>4
<1>6. CASE Audio!Left(b, Audio!Early) # <<>>
  <2>1. Audio!Kept(b) = Audio!Left(b, Audio!Early)  BY <1>6 DEF Audio!Kept
  <2> QED BY <1>3, <1>4, <2>1
<1> QED BY <1>5, <1>6

LEMMA OpenStep == AudioInv /\ Audio!Open => AudioInv'
<1> SUFFICES ASSUME AudioInv, Audio!Open PROVE AudioInv'
  OBVIOUS
<1>1. PICK p : p = Head(audioCh)  OBVIOUS
<1>2. PICK b : b = Append(audioBekleyen, p)  OBVIOUS
<1>3. PICK k : k = Audio!Kept(b)  OBVIOUS
<1>4. PICK S : S = Audio!Due(arrival[p])  OBVIOUS
<1>5. /\ Audio!Receive /\ p # 0 /\ ~audioVazgec /\ audioHedef /\ audioFile = "none"
      /\ lost' = (iz > start) /\ audioBekleyen' = <<>>
      /\ \/ /\ audioFile' = "open" /\ written' = Audio!Cut(k, S) /\ kuyruk' = Audio!Left(k, S)
            /\ UNCHANGED <<calls, audioVazgec>>
         \/ /\ audioVazgec' = TRUE /\ calls' = Append(calls, "dosya-acilamadi")
            /\ UNCHANGED <<audioFile, kuyruk, written>>
  BY <1>1, <1>2, <1>3, <1>4 DEF Audio!Open, Audio!SR, Audio!kayanTamponSonucu, Audio!Calls
<1>6. UNCHANGED <<audioNow, arrival, dropped, media, rtcp, srs, audioClosed, chClosed, start, audioKeys, note>>
  BY DEF Audio!Open, Audio!Receive, Audio!producers
<1>7. UNCHANGED <<audioHedef, uyarildi, iz, audioDone>>
  BY DEF Audio!Open, Audio!Receive
<1>8. written = <<>> /\ kuyruk = <<>> /\ \A x : ~InFile(x)
  <2>1. written = <<>> /\ kuyruk = <<>>  BY <1>5 DEF AudioInv, Stages
  <2> QED BY <2>1, InEmpty DEF InFile
<1>9. /\ Senders' /\ Packets' = Packets
      /\ audioCh' \in Seq(Packets \cup {0}) /\ Increasing(audioCh')
      /\ \A x : In(audioCh, x) <=> x = p \/ In(audioCh', x)
      /\ p \in Packets \ dropped
  BY <1>1, <1>5, Received
<1>10. \A x : In(b, x) <=> In(audioBekleyen, x) \/ x = p
  BY <1>2, <1>9, AudioFacts, InAppend
<1>11. /\ k \in Seq(Packets)
       /\ \A x : In(k, x) => In(b, x)
       /\ \A x : In(b, x) => In(k, x) \/ arrival[x] < start
  BY <1>2, <1>3, <1>9, KeptIsOfTheRecording
<1>12. \A x : ~In(audioBekleyen', x)  BY <1>5, InEmpty
<1>13. InOrder'
  <2>1. Increasing(audioBekleyen')  BY <1>5 DEF Increasing
  <2>2. \A x \in dropped : ~In(audioCh', x)  BY <1>9 DEF AudioInv, InOrder
  <2> QED BY <1>6, <1>9, <1>12, <2>1, <2>2 DEF AudioInv, InOrder
<1>14. audioBekleyen' \in Seq(Packets) /\ lost' \in BOOLEAN  BY <1>5
<1>15. CASE /\ audioFile' = "open" /\ written' = Audio!Cut(k, S) /\ kuyruk' = Audio!Left(k, S)
            /\ UNCHANGED <<calls, audioVazgec>>
  <2>1. /\ written' \in Seq(Packets) /\ kuyruk' \in Seq(Packets)
        /\ \A x : In(k, x) <=> In(written', x) \/ In(kuyruk', x)
    BY <1>11, <1>15, CutAndLeft
  <2>2. AudioTypes'  BY <1>6, <1>7, <1>9, <1>14, <1>15, <2>1 DEF AudioInv, AudioTypes, Notes
  <2>3. Stages'
    <3>1. start > 0 /\ start' = start /\ iz' = iz  BY <1>5, <1>6, <1>7 DEF AudioInv, Stages
    <3> QED BY <1>5, <1>6, <1>7, <1>15, <3>1 DEF Stages
  <2>4. NoneIsLost'
    <3> SUFFICES ASSUME NEW x \in Packets \ dropped
                 PROVE  \/ In(audioCh', x) \/ In(written', x) \/ In(kuyruk', x)
                        \/ arrival[x] <= iz \/ arrival[x] < start
      BY <1>6, <1>7, <1>9, <1>15 DEF NoneIsLost, InFile
    <3>1. In(audioCh, x) \/ In(audioBekleyen, x) \/ arrival[x] <= iz
      BY <1>5, <1>8 DEF AudioInv, NoneIsLost
    <3> QED BY <1>9, <1>10, <1>11, <2>1, <3>1
  <2>5. TraceIsTrue'
    <3> SUFFICES ASSUME iz > 0
                 PROVE  \E x \in Packets \ dropped :
                          arrival[x] = iz /\ ~In(audioCh', x) /\ ~In(written', x) /\ ~In(kuyruk', x)
      BY <1>6, <1>7, <1>9, <1>12 DEF TraceIsTrue, InFile
    <3>1. PICK x \in Packets \ dropped :
            arrival[x] = iz /\ ~In(audioCh, x) /\ ~In(audioBekleyen, x)
      BY DEF AudioInv, TraceIsTrue
    <3>2. ~In(audioCh', x) /\ ~In(b, x)  BY <1>9, <1>10, <3>1
    <3> QED BY <1>11, <2>1, <3>1, <3>2
  <2>6. NotesAreTrue'  BY <1>6, <1>7, <1>15 DEF AudioInv, NotesAreTrue, LastNote
  <2> QED BY <1>9, <1>13, <2>2, <2>3, <2>4, <2>5, <2>6 DEF AudioInv
<1>16. CASE /\ audioVazgec' = TRUE /\ calls' = Append(calls, "dosya-acilamadi")
            /\ UNCHANGED <<audioFile, kuyruk, written>>
  <2>1. calls \in Seq(Notes) /\ "dosya-acilamadi" \in Notes  BY DEF AudioInv, AudioTypes, Notes
  <2>2. calls' \in Seq(Notes) /\ calls' # <<>> /\ calls'[Len(calls')] = "dosya-acilamadi"
    BY <1>16, <2>1, LastAppend
  <2>3. AudioTypes'  BY <1>6, <1>7, <1>9, <1>14, <1>16, <2>2 DEF AudioInv, AudioTypes, Notes
  <2>4. Stages'  BY <1>5, <1>6, <1>7, <1>16 DEF AudioInv, Stages
  <2>5. NoneIsLost'  BY <1>16 DEF NoneIsLost
  <2>6. TraceIsTrue'
    <3> SUFFICES ASSUME iz > 0
                 PROVE  \E x \in Packets \ dropped : arrival[x] = iz /\ ~In(audioCh', x) /\ ~InFile(x)
      BY <1>6, <1>7, <1>9, <1>12, <1>16 DEF TraceIsTrue, InFile
    <3> QED BY <1>9 DEF AudioInv, TraceIsTrue
  <2>7. NotesAreTrue'  BY <1>16, <2>2 DEF NotesAreTrue, LastNote
  <2> QED BY <1>9, <1>13, <2>3, <2>4, <2>5, <2>6, <2>7 DEF AudioInv
<1> QED BY <1>5, <1>15, <1>16

LEMMA PlaceStep == AudioInv /\ Audio!Place => AudioInv'
<1> SUFFICES ASSUME AudioInv, Audio!Place PROVE AudioInv'
  OBVIOUS
<1>1. PICK p : p = Head(audioCh)  OBVIOUS
<1>2. PICK q : q = Append(kuyruk, p)  OBVIOUS
<1>3. PICK S : S = Audio!Due(arrival[p])  OBVIOUS
<1>4. /\ Audio!Receive /\ p # 0 /\ ~audioVazgec /\ audioFile = "open"
      /\ written' = written \o Audio!Cut(q, S) /\ kuyruk' = Audio!Left(q, S)
  BY <1>1, <1>2, <1>3 DEF Audio!Place, Audio!SR
<1>5. UNCHANGED <<audioNow, arrival, dropped, media, rtcp, srs, audioClosed, chClosed, start, audioKeys, note, calls>>
  BY DEF Audio!Place, Audio!Receive, Audio!producers
<1>6. UNCHANGED <<audioHedef, uyarildi, audioBekleyen, iz, audioVazgec, audioFile, lost, audioDone>>
  BY DEF Audio!Place, Audio!Receive
<1>7. /\ Senders' /\ Packets' = Packets
      /\ audioCh' \in Seq(Packets \cup {0}) /\ Increasing(audioCh')
      /\ \A x : In(audioCh, x) <=> x = p \/ In(audioCh', x)
      /\ p \in Packets \ dropped
  BY <1>1, <1>4, Received
<1>8. q \in Seq(Packets) /\ \A x : In(q, x) <=> In(kuyruk, x) \/ x = p
  BY <1>2, <1>7, AudioFacts, InAppend, LastAppend
<1>9. /\ Audio!Cut(q, S) \in Seq(Packets) /\ kuyruk' \in Seq(Packets)
      /\ \A x : In(q, x) <=> In(Audio!Cut(q, S), x) \/ In(kuyruk', x)
  BY <1>4, <1>8, CutAndLeft
<1>10. written' \in Seq(Packets)
  <2>1. written \in Seq(Packets)  BY AudioFacts
  <2> QED BY <1>4, <1>9, <2>1
<1>11. \A x : In(written', x) \/ In(kuyruk', x) <=> InFile(x) \/ x = p
  <2>1. \A x : In(written', x) <=> In(written, x) \/ In(Audio!Cut(q, S), x)
    BY <1>4, <1>9, AudioFacts, InConcat
  <2> QED BY <1>8, <1>9, <2>1 DEF InFile
<1>12. AudioTypes'  BY <1>5, <1>6, <1>7, <1>9, <1>10 DEF AudioInv, AudioTypes, Notes
<1>13. Stages'  BY <1>4, <1>5, <1>6 DEF AudioInv, Stages
<1>14. InOrder'
  <2>1. Increasing(audioBekleyen')  BY <1>6 DEF AudioInv, InOrder
  <2>2. \A x, y \in Packets : In(audioBekleyen', x) /\ In(audioCh', y) => x < y
    BY <1>6, <1>7 DEF AudioInv, InOrder
  <2>3. \A x \in dropped : ~In(audioCh', x) /\ ~In(audioBekleyen', x)
    BY <1>6, <1>7 DEF AudioInv, InOrder
  <2> QED BY <1>5, <1>7, <2>1, <2>2, <2>3 DEF AudioInv, InOrder
<1>15. NoneIsLost'
  <2> SUFFICES ASSUME NEW x \in Packets \ dropped
               PROVE  \/ In(audioCh', x) \/ In(audioBekleyen, x) \/ In(written', x) \/ In(kuyruk', x)
                      \/ arrival[x] <= iz \/ (audioFile # "none" /\ arrival[x] < start)
    BY <1>5, <1>6, <1>7 DEF NoneIsLost, InFile
  <2> QED BY <1>4, <1>7, <1>11 DEF AudioInv, NoneIsLost
<1>16. TraceIsTrue'
  <2> SUFFICES ASSUME iz > 0
               PROVE  \E x \in Packets \ dropped :
                        /\ arrival[x] = iz /\ ~In(audioCh', x) /\ ~In(audioBekleyen, x)
                        /\ ~In(written', x) /\ ~In(kuyruk', x)
    BY <1>5, <1>6, <1>7 DEF TraceIsTrue, InFile
  <2> QED BY <1>7, <1>11 DEF AudioInv, TraceIsTrue
<1>17. NotesAreTrue'  BY <1>5, <1>6 DEF AudioInv, NotesAreTrue, LastNote
<1> QED BY <1>7, <1>12, <1>13, <1>14, <1>15, <1>16, <1>17 DEF AudioInv

LEMMA FinishStep == AudioInv /\ Audio!Finish => AudioInv'
<1> SUFFICES ASSUME AudioInv, Audio!Finish PROVE AudioInv'
  OBVIOUS
<1>1. /\ chClosed /\ audioCh = <<>> /\ audioDone' = TRUE
      /\ \/ audioFile = "open" /\ audioFile' = "closed" /\ written' = written \o kuyruk /\ kuyruk' = <<>>
         \/ audioFile # "open" /\ UNCHANGED <<audioFile, written, kuyruk>>
  BY DEF Audio!Finish, Audio!Flushed
<1>2. UNCHANGED <<audioNow, arrival, dropped, media, rtcp, srs, audioClosed, audioCh, chClosed, audioPanicked,
                  start, audioKeys, note, calls>>
  BY DEF Audio!Finish, Audio!producers, Audio!redis
<1>3. UNCHANGED <<audioHedef, uyarildi, audioBekleyen, iz, audioVazgec, lost>>
  BY DEF Audio!Finish, Audio!search
<1>4. Packets' = Packets  BY <1>2 DEF Packets
<1>5. /\ written' \in Seq(Packets) /\ kuyruk' \in Seq(Packets)
      /\ \A x : In(written', x) \/ In(kuyruk', x) <=> InFile(x)
  <2>1. written \in Seq(Packets) /\ kuyruk \in Seq(Packets)  BY AudioFacts
  <2>2. CASE written' = written \o kuyruk /\ kuyruk' = <<>>
    <3>1. \A x : In(written', x) <=> In(written, x) \/ In(kuyruk, x)  BY <2>1, <2>2, InConcat
    <3>2. written' \in Seq(Packets) /\ kuyruk' \in Seq(Packets)  BY <2>1, <2>2
    <3> QED BY <2>2, <3>1, <3>2, InEmpty DEF InFile
  <2>3. CASE UNCHANGED <<written, kuyruk>>  BY <2>1, <2>3 DEF InFile
  <2> QED BY <1>1, <2>2, <2>3
<1>6. AudioTypes'  BY <1>1, <1>2, <1>3, <1>4, <1>5 DEF AudioInv, AudioTypes, Notes
<1>7. Senders'  BY <1>1, <1>2 DEF AudioInv, Senders
<1>8. Stages'  BY <1>1, <1>2, <1>3 DEF AudioInv, Stages
<1>9. InOrder'  BY <1>2, <1>3, <1>4 DEF AudioInv, InOrder
<1>10. audioFile' = "none" <=> audioFile = "none"  BY <1>1
<1>11. NoneIsLost'
  <2> SUFFICES ASSUME ~audioVazgec, NEW x \in Packets \ dropped
               PROVE  \/ In(audioCh, x) \/ In(audioBekleyen, x) \/ In(written', x) \/ In(kuyruk', x)
                      \/ arrival[x] <= iz \/ (audioFile' # "none" /\ arrival[x] < start)
    BY <1>2, <1>3, <1>4 DEF NoneIsLost, InFile
  <2> QED BY <1>5, <1>10 DEF AudioInv, NoneIsLost
<1>12. TraceIsTrue'
  <2> SUFFICES ASSUME iz > 0
               PROVE  \E x \in Packets \ dropped :
                        /\ arrival[x] = iz /\ ~In(audioCh, x) /\ ~In(audioBekleyen, x)
                        /\ ~In(written', x) /\ ~In(kuyruk', x)
    BY <1>2, <1>3, <1>4 DEF TraceIsTrue, InFile
  <2> QED BY <1>5 DEF AudioInv, TraceIsTrue
<1>13. NotesAreTrue'  BY <1>2, <1>3 DEF AudioInv, NotesAreTrue, LastNote
<1> QED BY <1>6, <1>7, <1>8, <1>9, <1>11, <1>12, <1>13 DEF AudioInv

-----------------------------------------------------------------------------
LEMMA AudioStutter == AudioInv /\ UNCHANGED audioVars => AudioInv'
<1> SUFFICES ASSUME AudioInv, UNCHANGED audioVars PROVE AudioInv'
  OBVIOUS
<1> USE DEF audioVars
<1>1. AudioTypes'  BY DEF AudioInv, AudioTypes, Packets, Notes
<1>2. Senders'  BY DEF AudioInv, Senders
<1>3. Stages'  BY DEF AudioInv, Stages
<1>4. InOrder' /\ NoneIsLost' /\ TraceIsTrue'
  BY PlacesKept DEF AudioInv, AudioTypes, places
<1>5. NotesAreTrue'  BY DEF AudioInv, NotesAreTrue, LastNote
<1> QED BY <1>1, <1>2, <1>3, <1>4, <1>5 DEF AudioInv

LEMMA AudioNext == AudioInv /\ Audio!Next => AudioInv'
<1> SUFFICES ASSUME AudioInv, Audio!Next PROVE AudioInv'
  OBVIOUS
<1>1. CASE Audio!Write  BY <1>1, AudioWriteStep
<1>2. CASE Audio!SRBegin  BY <1>2, SRBeginStep
<1>3. CASE Audio!SRSend  BY <1>3, SRSendStep
<1>4. CASE Audio!CloseBegin  BY <1>4, CloseBeginStep
<1>5. CASE Audio!CloseChannel  BY <1>5, CloseChannelStep
<1>6. CASE Audio!CloseEnd  BY <1>6, CloseEndStep
<1>7. CASE Audio!Press  BY <1>7, PressStep
<1>8. CASE \E k \in {"track", "room"} : Audio!WriteKey(k)  BY <1>8, WriteKeyStep
<1>9. CASE Audio!CallArrives  BY <1>9, CallArrivesStep
<1>10. CASE Audio!Tick  BY <1>10, AudioTickStep
<1>11. CASE Audio!Looks  BY <1>11, LookupStep DEF Audio!Looks
<1>12. CASE Audio!Discard  BY <1>12, DiscardStep
<1>13. CASE Audio!Hold  BY <1>13, HoldStep
<1>14. CASE Audio!Open  BY <1>14, OpenStep
<1>15. CASE Audio!Place  BY <1>15, PlaceStep
<1>16. CASE Audio!Finish  BY <1>16, FinishStep
<1> QED BY <1>1, <1>2, <1>3, <1>4, <1>5, <1>6, <1>7, <1>8, <1>9, <1>10, <1>11, <1>12, <1>13,
           <1>14, <1>15, <1>16 DEF Audio!Next, Audio!Loop

LEMMA AudioInvImpliesTrue == AudioInv => AudioIsTrue
<1> SUFFICES ASSUME AudioInv PROVE AudioIsTrue
  OBVIOUS
<1>1. start \in Nat /\ iz \in Nat  BY DEF AudioInv, AudioTypes
<1>2. Audio!Packets = Packets  BY DEF Audio!Packets, Packets
<1>3. \A s, x : x \in Audio!ToSet(s) <=> \E j \in DOMAIN s : s[j] = x  BY DEF Audio!ToSet
<1>4. \A T : \A s \in Seq(T) : DOMAIN s = 1..Len(s)  OBVIOUS
<1>5. \A x : x \in Audio!Recorded <=> InFile(x)
  <2>1. DOMAIN written = 1..Len(written) /\ DOMAIN kuyruk = 1..Len(kuyruk)  BY <1>4, AudioFacts
  <2> QED BY <1>3, <2>1 DEF Audio!Recorded, InFile, In
<1>6. Audio!WholeOrMarked
  <2> SUFFICES ASSUME audioFile = "closed", ~lost, NEW x \in Packets \ dropped, arrival[x] > start
               PROVE  InFile(x)
    BY <1>2, <1>5 DEF Audio!WholeOrMarked, Audio!Wanted
  <2>1. /\ audioDone /\ audioBekleyen = <<>> /\ lost = (iz > start) /\ ~audioVazgec
    BY DEF AudioInv, Stages
  <2>2. audioCh = <<>>  BY <2>1 DEF AudioInv, Senders
  <2>3. ~In(audioCh, x) /\ ~In(audioBekleyen, x)  BY <2>1, <2>2, InEmpty
  <2>4. ~(iz > start)  BY <2>1
  <2>5. arrival[x] \in Nat  BY AudioFacts
  <2>6. ~(arrival[x] <= iz) /\ ~(arrival[x] < start)  BY <1>1, <2>4, <2>5
  <2> QED BY <2>1, <2>3, <2>6 DEF AudioInv, NoneIsLost
<1>7. Audio!MarkedOnlyIfIncomplete
  <2> SUFFICES ASSUME audioFile # "none", lost PROVE \E x \in Audio!Wanted : ~InFile(x)
    BY <1>5 DEF Audio!MarkedOnlyIfIncomplete
  <2>1. start > 0 /\ lost = (iz > start)  BY DEF AudioInv, Stages
  <2>2. iz > start  BY <2>1
  <2>3. iz > 0  BY <1>1, <2>2
  <2>4. PICK x \in Packets \ dropped : arrival[x] = iz /\ ~InFile(x)
    BY <2>3 DEF AudioInv, TraceIsTrue
  <2> QED BY <1>2, <2>1, <2>2, <2>4 DEF Audio!Wanted
<1>8. Audio!NeverPanics  BY DEF AudioInv, Senders, Audio!NeverPanics
<1>9. Env \cap {"reorder", "redisDown"} = {} => Audio!NoteIsTrue
  BY DEF AudioInv, NotesAreTrue, LastNote, Audio!NoteIsTrue
<1> QED BY <1>6, <1>7, <1>8, <1>9 DEF AudioIsTrue

(* The file of an audio track is true, however the packets, the reports,    *)
(* the end of the track, the ticker and the keys in Redis interleave: one   *)
(* that is not marked has every packet that arrived after the start and got *)
(* into the channel, a marked one misses such a packet, the note tells what *)
(* became of the track if calls to Redis arrive and in order, and nothing   *)
(* is sent on the closed channel.                                           *)
THEOREM TheAudioIsTrue == PartsSpec => []AudioIsTrue
<1>1. PartsInit => AudioInv  BY AudioInitially DEF PartsInit
<1>2. AudioInv /\ [AudioStep \/ VideoStep]_allVars => AudioInv'
  <2> SUFFICES ASSUME AudioInv, [AudioStep \/ VideoStep]_allVars PROVE AudioInv'
    OBVIOUS
  <2>1. CASE AudioStep  BY <2>1, AudioNext DEF AudioStep
  <2>2. CASE VideoStep
    <3>1. UNCHANGED audioVars  BY <2>2 DEF VideoStep
    <3> QED BY <3>1, AudioStutter
  <2>3. CASE UNCHANGED allVars
    <3>1. UNCHANGED audioVars  BY <2>3 DEF allVars
    <3> QED BY <3>1, AudioStutter
  <2> QED BY <2>1, <2>2, <2>3
<1>3. AudioInv => AudioIsTrue  BY AudioInvImpliesTrue
<1> QED BY <1>1, <1>2, <1>3, PTL DEF PartsSpec
=============================================================================
