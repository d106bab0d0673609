----------------------------- MODULE MediaProofs -----------------------------
(***************************************************************************)
(* Proofs about the parts of MCMedia, for every value of their constants.  *)
(***************************************************************************)
EXTENDS MCMedia, Sequences, FiniteSetTheorems, SequenceTheorems, WellFoundedInduction, TLAPS

-----------------------------------------------------------------------------
(* Receiver.                                                                *)
Forwarders == [layer : RLayers, gen : Nat, group : Nat, at : {"loop", "read", "write"},
               str : Nat, n : Nat]

ReadTypes ==
  /\ buffers \in [RLayers -> {"none", "open", "closed"}]
  /\ stream \in [RLayers -> Nat]
  /\ pending \in [RLayers -> BOOLEAN] /\ queued \in [RLayers -> BOOLEAN]
  /\ upTracks \subseteq RLayers /\ early \subseteq RLayers
  /\ generation \in Nat /\ waitGroup \in Nat /\ started \in Nat
  /\ forwarders \subseteq Forwarders
  /\ restart \in [at : {"rest", "mark", "wait", "restart", "tell", "advance", "release"},
                  detected : BOOLEAN]
  /\ restartInProgress \in BOOLEAN /\ recvClosed \in BOOLEAN
  /\ senders \subseteq DownTracks /\ adding \subseteq DownTracks
  /\ synced \in [DownTracks -> [RLayers -> Nat]]

(* Where a restart is tells which forwarders there are: those of the        *)
(* current generation, those it waits for, or none.                         *)
Generations ==
  /\ restartInProgress = (restart.at # "rest")
  /\ \A f \in forwarders : f.group = waitGroup
  /\ restart.at = "rest" => \A f \in forwarders : f.gen = generation
  /\ restart.at \in {"mark", "wait"} => \A f \in forwarders : f.gen # generation
  /\ restart.at \in {"restart", "tell", "advance", "release"} => forwarders = {}

(* A layer between AddBuffer and StartBuffer has no forwarder, unless a     *)
(* restart gave it one.                                                     *)
Readers ==
  /\ \A f \in forwarders : buffers[f.layer] # "none" /\ f.layer \notin upTracks \ early
  /\ \A l \in upTracks : buffers[l] # "none"
  /\ \A f, g \in forwarders : f.layer = g.layer /\ f.layer \notin early => f = g

AllRead ==
  restart.at = "rest" /\ ~recvClosed =>
    \A l \in RLayers : buffers[l] # "none" /\ l \notin upTracks =>
      \E f \in forwarders : f.layer = l

(* What is forwarded, in streams that restart only when they are told to:   *)
(* a packet read is of the current stream, and a down track has sent none   *)
(* but of the current one since it was told.                                *)
Streams ==
  "detect" \notin recvLimits.env =>
    /\ \A d \in adding : d \notin senders /\ \A l \in RLayers : synced[d][l] = 0
    /\ restart.at # "tell" =>
         \A d \in senders : \A l \in RLayers : synced[d][l] \in {0, stream[l]}
    /\ \A f \in forwarders : f.at = "write" => f.str = stream[f.layer]
    /\ foreign = FALSE

ReadInv ==
  ReadTypes /\ Generations /\ Readers /\ AllRead /\ Reading!WaitIsShort /\ Streams

(* The three ways in which forwarders and generations change.               *)
LEMMA MoveKeeps ==
  ASSUME ReadInv, NEW f \in forwarders, NEW g \in Forwarders,
         g.layer = f.layer, g.gen = f.gen, g.group = f.group,
         forwarders' = (forwarders \ {f}) \union {g},
         UNCHANGED <<buffers, upTracks, early, restart, restartInProgress, generation,
                     waitGroup, recvClosed>>
  PROVE  Generations' /\ Readers' /\ AllRead'
<1>1. Generations'
  BY DEF ReadInv, Generations
<1>2. Readers'
  BY DEF ReadInv, Readers
<1>3. AllRead'
  BY DEF ReadInv, AllRead
<1> QED BY <1>1, <1>2, <1>3

LEMMA StartedOnes ==
  ASSUME ReadTypes, NEW L \in SUBSET RLayers
  PROVE  /\ Reading!Started(L) \subseteq Forwarders
         /\ \A f \in Reading!Started(L) : /\ f.layer \in L /\ f.gen = generation
                                          /\ f.group = waitGroup /\ f.at = "loop"
         /\ \A l \in L : \E f \in Reading!Started(L) : f.layer = l
         /\ \A f, g \in Reading!Started(L) : f.layer = g.layer => f = g
<1> DEFINE new(l) == [layer |-> l, gen |-> generation, group |-> waitGroup, at |-> "loop",
                      str |-> 0, n |-> started + 1]
<1>1. Reading!Started(L) = {new(l) : l \in L}
  BY DEF Reading!Started
<1>2. \A l \in L : /\ new(l) \in Forwarders /\ new(l).layer = l /\ new(l).gen = generation
                   /\ new(l).group = waitGroup /\ new(l).at = "loop"
  BY DEF ReadTypes, Forwarders
<1> HIDE DEF new
<1>3. \A f, g \in Reading!Started(L) : f.layer = g.layer => f = g
  BY <1>1, <1>2
<1> QED BY <1>1, <1>2, <1>3

LEMMA BeginKeeps ==
  ASSUME ReadInv, NEW b \in BOOLEAN, Reading!BeginRestart(b),
         UNCHANGED <<forwarders, waitGroup>>
  PROVE  /\ generation' \in Nat /\ restartInProgress' \in BOOLEAN
         /\ restart' \in [at : {"rest", "mark", "wait", "restart", "tell", "advance",
                                "release"}, detected : BOOLEAN]
         /\ Generations'
<1>1. CASE recvClosed \/ restartInProgress
  <2>1. UNCHANGED <<restartInProgress, restart, generation>>
    BY <1>1 DEF Reading!BeginRestart
  <2> QED BY <2>1 DEF ReadInv, ReadTypes, Generations
<1>2. CASE ~(recvClosed \/ restartInProgress)
  <2> DEFINE a == IF b THEN "wait" ELSE "mark"
  <2>1. /\ restartInProgress' = TRUE /\ generation' = generation + 1
        /\ restart' = [at |-> a, detected |-> b]
    BY <1>2 DEF Reading!BeginRestart
  <2>2. a \in {"mark", "wait"}
    OBVIOUS
  <2>3. restart'.at \in {"mark", "wait"} /\ restart'.detected = b
    BY <2>1, <2>2
  <2>4. restart' \in [at : {"rest", "mark", "wait", "restart", "tell", "advance", "release"},
                      detected : BOOLEAN]
    BY <2>1, <2>2
  <2>5. restart.at = "rest"
    BY <1>2 DEF ReadInv, Generations
  <2>6. \A f \in forwarders : f.gen = generation /\ f.group = waitGroup
    BY <2>5 DEF ReadInv, Generations
  <2>7. generation \in Nat /\ generation' # generation
    BY <2>1 DEF ReadInv, ReadTypes
  <2>8. Generations'
    BY <2>1, <2>3, <2>6, <2>7 DEF Generations
  <2> QED BY <2>1, <2>4, <2>7, <2>8
<1> QED BY <1>1, <1>2

LEMMA ReadNext ==
  ASSUME ReadInv, Reading!RecvNext
  PROVE  ReadInv'
<1> USE DEF Reading!bufferVars, Reading!genVars, Reading!restartVars
<1>1. ASSUME NEW l \in RLayers, Reading!AddUpTrack(l) PROVE ReadInv'
  <2>1. ReadTypes'
    BY <1>1 DEF Reading!AddUpTrack, ReadInv, ReadTypes, Forwarders
  <2>2. Generations'
    BY <1>1 DEF Reading!AddUpTrack, ReadInv, ReadTypes, Generations
  <2>3. Readers'
    BY <1>1 DEF Reading!AddUpTrack, ReadInv, ReadTypes, Readers, Generations
  <2>4. AllRead'
    BY <1>1 DEF Reading!AddUpTrack, ReadInv, ReadTypes, AllRead, Generations, Readers
  <2>5. Reading!WaitIsShort'
    BY <1>1 DEF Reading!AddUpTrack, ReadInv, ReadTypes, Reading!WaitIsShort,
       Reading!Readable, Generations, Readers
  <2>6. Streams'
    BY <1>1 DEF Reading!AddUpTrack, ReadInv, ReadTypes, Streams, Generations, Readers,
       Reading!RecvNext
  <2> QED BY <2>1, <2>2, <2>3, <2>4, <2>5, <2>6 DEF ReadInv
<1>2. ASSUME NEW l \in RLayers, Reading!StartBuffer(l) PROVE ReadInv'
  <2>1. ReadTypes'
    BY <1>2 DEF Reading!StartBuffer, Reading!startForwarders, Reading!Started, ReadInv,
       ReadTypes, Forwarders
  <2>2. Generations'
    <3>1. CASE restartInProgress
      BY <1>2, <3>1 DEF Reading!StartBuffer, ReadInv, Generations
    <3>2. CASE ~restartInProgress
      <4>1. /\ forwarders' = forwarders \union Reading!Started({l})
            /\ UNCHANGED <<restart, restartInProgress, generation, waitGroup>>
        BY <1>2, <3>2 DEF Reading!StartBuffer, Reading!startForwarders
      <4>2. restart.at = "rest"
        BY <3>2 DEF ReadInv, Generations
      <4>3. \A f \in Reading!Started({l}) : f.gen = generation /\ f.group = waitGroup
        BY StartedOnes DEF ReadInv
      <4> QED BY <4>1, <4>2, <4>3 DEF ReadInv, Generations
    <3> QED BY <3>1, <3>2
  <2>3. Readers'
    BY <1>2 DEF Reading!StartBuffer, Reading!startForwarders, Reading!Started, ReadInv,
       ReadTypes, Readers, Generations
  <2>4. AllRead'
    <3>1. CASE restartInProgress
      BY <1>2, <3>1 DEF Reading!StartBuffer, ReadInv, Generations, AllRead
    <3>2. CASE ~restartInProgress
      BY <1>2, <3>2, StartedOnes DEF Reading!StartBuffer, Reading!startForwarders, ReadInv,
         AllRead
    <3> QED BY <3>1, <3>2
  <2>5. Reading!WaitIsShort'
    BY <1>2 DEF Reading!StartBuffer, Reading!startForwarders, Reading!Started, ReadInv,
       ReadTypes, Reading!WaitIsShort, Reading!Readable, Generations, Readers
  <2>6. Streams'
    BY <1>2 DEF Reading!StartBuffer, Reading!startForwarders, Reading!Started, ReadInv,
       ReadTypes, Streams, Generations, Readers, Reading!RecvNext
  <2> QED BY <2>1, <2>2, <2>3, <2>4, <2>5, <2>6 DEF ReadInv
<1>3. ASSUME NEW l \in RLayers, Reading!Packet(l) PROVE ReadInv'
  <2>1. ReadTypes'
    BY <1>3 DEF Reading!Packet, ReadInv, ReadTypes, Forwarders
  <2>2. Generations'
    BY <1>3 DEF Reading!Packet, ReadInv, ReadTypes, Generations
  <2>3. Readers'
    BY <1>3 DEF Reading!Packet, ReadInv, ReadTypes, Readers, Generations
  <2>4. AllRead'
    BY <1>3 DEF Reading!Packet, ReadInv, ReadTypes, AllRead, Generations, Readers
  <2>5. Reading!WaitIsShort'
    BY <1>3 DEF Reading!Packet, ReadInv, ReadTypes, Reading!WaitIsShort,
       Reading!Readable, Generations, Readers
  <2>6. Streams'
    BY <1>3 DEF Reading!Packet, ReadInv, ReadTypes, Streams, Generations, Readers,
       Reading!RecvNext
  <2> QED BY <2>1, <2>2, <2>3, <2>4, <2>5, <2>6 DEF ReadInv
<1>4. ASSUME NEW l \in RLayers, Reading!Discontinuity(l) PROVE ReadInv'
  <2>1. ReadTypes'
    BY <1>4 DEF Reading!Discontinuity, ReadInv, ReadTypes, Forwarders
  <2>2. Generations'
    BY <1>4 DEF Reading!Discontinuity, ReadInv, ReadTypes, Generations
  <2>3. Readers'
    BY <1>4 DEF Reading!Discontinuity, ReadInv, ReadTypes, Readers, Generations
  <2>4. AllRead'
    BY <1>4 DEF Reading!Discontinuity, ReadInv, ReadTypes, AllRead, Generations, Readers
  <2>5. Reading!WaitIsShort'
    BY <1>4 DEF Reading!Discontinuity, ReadInv, ReadTypes, Reading!WaitIsShort,
       Reading!Readable, Generations, Readers
  <2>6. Streams'
    BY <1>4 DEF Reading!Discontinuity, ReadInv, ReadTypes, Streams, Generations,
       Readers, Reading!RecvNext
  <2> QED BY <2>1, <2>2, <2>3, <2>4, <2>5, <2>6 DEF ReadInv
<1>5. ASSUME NEW l \in RLayers, Reading!BufferClose(l) PROVE ReadInv'
  <2>1. ReadTypes'
    BY <1>5 DEF Reading!BufferClose, ReadInv, ReadTypes, Forwarders
  <2>2. Generations'
    BY <1>5 DEF Reading!BufferClose, ReadInv, ReadTypes, Generations
  <2>3. Readers'
    BY <1>5 DEF Reading!BufferClose, ReadInv, ReadTypes, Readers, Generations
  <2>4. AllRead'
    BY <1>5 DEF Reading!BufferClose, ReadInv, ReadTypes, AllRead, Generations, Readers
  <2>5. Reading!WaitIsShort'
    BY <1>5 DEF Reading!BufferClose, ReadInv, ReadTypes, Reading!WaitIsShort,
       Reading!Readable, Generations, Readers
  <2>6. Streams'
    BY <1>5 DEF Reading!BufferClose, ReadInv, ReadTypes, Streams, Generations, Readers,
       Reading!RecvNext
  <2> QED BY <2>1, <2>2, <2>3, <2>4, <2>5, <2>6 DEF ReadInv
<1>6. ASSUME NEW l \in RLayers, Reading!OnStreamRestart(l) PROVE ReadInv'
  <2>1. ReadTypes'
    BY <1>6, BeginKeeps DEF Reading!OnStreamRestart, ReadInv, ReadTypes
  <2>2. Generations'
    BY <1>6, BeginKeeps DEF Reading!OnStreamRestart
  <2>3. Readers'
    BY <1>6 DEF Reading!OnStreamRestart, Reading!BeginRestart, ReadInv, ReadTypes,
       Readers, Generations
  <2>4. AllRead'
    BY <1>6 DEF Reading!OnStreamRestart, Reading!BeginRestart, ReadInv, ReadTypes,
       AllRead, Generations, Readers
  <2>5. Reading!WaitIsShort'
    BY <1>6 DEF Reading!OnStreamRestart, Reading!BeginRestart, ReadInv, ReadTypes,
       Reading!WaitIsShort, Reading!Readable, Generations, Readers
  <2>6. Streams'
    BY ZenonT(60), <1>6 DEF Reading!OnStreamRestart, Reading!BeginRestart, ReadInv, ReadTypes,
       Streams, Generations, Readers, Reading!RecvNext
  <2> QED BY <2>1, <2>2, <2>3, <2>4, <2>5, <2>6 DEF ReadInv
<1>7. ASSUME NEW v \in 0..recvLimits.updates, Reading!UpdateTrackInfo(v) PROVE ReadInv'
  <2>1. ReadTypes'
    <3>1. CASE v = version
      BY <1>7, <3>1 DEF Reading!UpdateTrackInfo, ReadInv, ReadTypes
    <3>2. CASE v # version
      BY <1>7, <3>2, BeginKeeps DEF Reading!UpdateTrackInfo, ReadInv, ReadTypes
    <3> QED BY <3>1, <3>2
  <2>2. Generations'
    <3>1. CASE v = version
      BY <1>7, <3>1 DEF Reading!UpdateTrackInfo, ReadInv, Generations
    <3>2. CASE v # version
      BY <1>7, <3>2, BeginKeeps DEF Reading!UpdateTrackInfo
    <3> QED BY <3>1, <3>2
  <2>3. Readers'
    BY <1>7 DEF Reading!UpdateTrackInfo, Reading!BeginRestart, ReadInv, ReadTypes,
       Readers, Generations
  <2>4. AllRead'
    BY <1>7 DEF Reading!UpdateTrackInfo, Reading!BeginRestart, ReadInv, ReadTypes,
       AllRead, Generations, Readers
  <2>5. Reading!WaitIsShort'
    BY <1>7 DEF Reading!UpdateTrackInfo, Reading!BeginRestart, ReadInv, ReadTypes,
       Reading!WaitIsShort, Reading!Readable, Generations, Readers
  <2>6. Streams'
    BY ZenonT(60), <1>7 DEF Reading!UpdateTrackInfo, Reading!BeginRestart, ReadInv, ReadTypes,
       Streams, Generations, Readers, Reading!RecvNext
  <2> QED BY <2>1, <2>2, <2>3, <2>4, <2>5, <2>6 DEF ReadInv
<1>8. ASSUME Reading!MarkForRestartStream PROVE ReadInv'
  <2>1. ReadTypes'
    BY <1>8 DEF Reading!MarkForRestartStream, Reading!RestartGoes, Reading!Present,
       ReadInv, ReadTypes, Forwarders
  <2>2. Generations'
    BY <1>8 DEF Reading!MarkForRestartStream, Reading!RestartGoes, Reading!Present,
       ReadInv, ReadTypes, Generations
  <2>3. Readers'
    BY <1>8 DEF Reading!MarkForRestartStream, Reading!RestartGoes, Reading!Present,
       ReadInv, ReadTypes, Readers, Generations
  <2>4. AllRead'
    BY <1>8 DEF Reading!MarkForRestartStream, Reading!RestartGoes, Reading!Present,
       ReadInv, ReadTypes, AllRead, Generations, Readers
  <2>5. Reading!WaitIsShort'
    <3> SUFFICES ASSUME NEW f \in forwarders PROVE Reading!Readable(f.layer)'
      BY <1>8 DEF Reading!MarkForRestartStream, Reading!WaitIsShort
    <3>1. f.layer \in RLayers /\ buffers[f.layer] # "none"
      BY DEF ReadInv, ReadTypes, Forwarders, Readers
    <3>2. pending'[f.layer]
      BY <1>8, <3>1 DEF Reading!MarkForRestartStream, Reading!Present
    <3> QED BY <3>2 DEF Reading!Readable
  <2>6. Streams'
    BY <1>8 DEF Reading!MarkForRestartStream, Reading!RestartGoes, Reading!Present,
       ReadInv, ReadTypes, Streams, Generations, Readers, Reading!RecvNext
  <2> QED BY <2>1, <2>2, <2>3, <2>4, <2>5, <2>6 DEF ReadInv
<1>9. ASSUME Reading!waitForForwardersStop PROVE ReadInv'
  <2>1. ReadTypes'
    BY <1>9 DEF Reading!waitForForwardersStop, Reading!RestartGoes, ReadInv, ReadTypes,
       Forwarders
  <2>2. Generations'
    BY <1>9 DEF Reading!waitForForwardersStop, Reading!RestartGoes, ReadInv, ReadTypes,
       Generations
  <2>3. Readers'
    BY <1>9 DEF Reading!waitForForwardersStop, Reading!RestartGoes, ReadInv, ReadTypes,
       Readers, Generations
  <2>4. AllRead'
    BY <1>9 DEF Reading!waitForForwardersStop, Reading!RestartGoes, ReadInv, ReadTypes,
       AllRead, Generations, Readers
  <2>5. Reading!WaitIsShort'
    BY <1>9 DEF Reading!waitForForwardersStop, Reading!RestartGoes, ReadInv, ReadTypes,
       Reading!WaitIsShort, Reading!Readable, Generations, Readers
  <2>6. Streams'
    BY <1>9 DEF Reading!waitForForwardersStop, Reading!RestartGoes, ReadInv, ReadTypes,
       Streams, Generations, Readers, Reading!RecvNext
  <2> QED BY <2>1, <2>2, <2>3, <2>4, <2>5, <2>6 DEF ReadInv
<1>10. ASSUME Reading!RestartStream PROVE ReadInv'
  <2>1. ReadTypes'
    BY <1>10 DEF Reading!RestartStream, Reading!RestartGoes, Reading!Present, ReadInv,
       ReadTypes, Forwarders
  <2>2. Generations'
    BY <1>10 DEF Reading!RestartStream, Reading!RestartGoes, Reading!Present, ReadInv,
       ReadTypes, Generations
  <2>3. Readers'
    BY <1>10 DEF Reading!RestartStream, Reading!RestartGoes, Reading!Present, ReadInv,
       ReadTypes, Readers, Generations
  <2>4. AllRead'
    BY <1>10 DEF Reading!RestartStream, Reading!RestartGoes, Reading!Present, ReadInv,
       ReadTypes, AllRead, Generations, Readers
  <2>5. Reading!WaitIsShort'
    BY <1>10 DEF Reading!RestartStream, Reading!RestartGoes, Reading!Present, ReadInv,
       ReadTypes, Reading!WaitIsShort, Reading!Readable, Generations, Readers
  <2>6. Streams'
    BY <1>10 DEF Reading!RestartStream, Reading!RestartGoes, Reading!Present, ReadInv,
       ReadTypes, Streams, Generations, Readers, Reading!RecvNext
  <2> QED BY <2>1, <2>2, <2>3, <2>4, <2>5, <2>6 DEF ReadInv
<1>11. ASSUME Reading!ResyncDownTracks PROVE ReadInv'
  <2>1. ReadTypes'
    BY <1>11 DEF Reading!ResyncDownTracks, Reading!RestartGoes, Reading!Unsynced,
       ReadInv, ReadTypes, Forwarders
  <2>2. Generations'
    BY <1>11 DEF Reading!ResyncDownTracks, Reading!RestartGoes, Reading!Unsynced,
       ReadInv, ReadTypes, Generations
  <2>3. Readers'
    BY <1>11 DEF Reading!ResyncDownTracks, Reading!RestartGoes, Reading!Unsynced,
       ReadInv, ReadTypes, Readers, Generations
  <2>4. AllRead'
    BY <1>11 DEF Reading!ResyncDownTracks, Reading!RestartGoes, Reading!Unsynced,
       ReadInv, ReadTypes, AllRead, Generations, Readers
  <2>5. Reading!WaitIsShort'
    BY <1>11 DEF Reading!ResyncDownTracks, Reading!RestartGoes, Reading!Unsynced,
       ReadInv, ReadTypes, Reading!WaitIsShort, Reading!Readable, Generations, Readers
  <2>6. Streams'
    BY <1>11 DEF Reading!ResyncDownTracks, Reading!RestartGoes, Reading!Unsynced,
       ReadInv, ReadTypes, Streams, Generations, Readers, Reading!RecvNext
  <2> QED BY <2>1, <2>2, <2>3, <2>4, <2>5, <2>6 DEF ReadInv
<1>12. ASSUME Reading!startForwardersGeneration PROVE ReadInv'
  <2>1. ReadTypes'
    BY <1>12 DEF Reading!startForwardersGeneration, Reading!RestartGoes, ReadInv,
       ReadTypes, Forwarders
  <2>2. Generations'
    BY <1>12 DEF Reading!startForwardersGeneration, Reading!RestartGoes, ReadInv,
       ReadTypes, Generations
  <2>3. Readers'
    BY <1>12 DEF Reading!startForwardersGeneration, Reading!RestartGoes, ReadInv,
       ReadTypes, Readers, Generations
  <2>4. AllRead'
    BY <1>12 DEF Reading!startForwardersGeneration, Reading!RestartGoes, ReadInv,
       ReadTypes, AllRead, Generations, Readers
  <2>5. Reading!WaitIsShort'
    BY <1>12 DEF Reading!startForwardersGeneration, Reading!RestartGoes, ReadInv,
       ReadTypes, Reading!WaitIsShort, Reading!Readable, Generations, Readers
  <2>6. Streams'
    BY <1>12 DEF Reading!startForwardersGeneration, Reading!RestartGoes, ReadInv,
       ReadTypes, Streams, Generations, Readers, Reading!RecvNext
  <2> QED BY <2>1, <2>2, <2>3, <2>4, <2>5, <2>6 DEF ReadInv
<1>13. ASSUME Reading!EndRestart PROVE ReadInv'
  <2>1. ReadTypes'
    <3>1. forwarders' \subseteq Forwarders
      BY <1>13, StartedOnes DEF Reading!EndRestart, Reading!startForwarders, ReadInv, ReadTypes,
         Reading!Present
    <3>2. restart' = [restart EXCEPT !.at = "rest"]
      BY <1>13 DEF Reading!EndRestart, Reading!RestartGoes
    <3>3. restart' \in [at : {"rest", "mark", "wait", "restart", "tell", "advance",
                              "release"}, detected : BOOLEAN]
      BY <3>2 DEF ReadInv, ReadTypes
    <3>4. started' \in Nat /\ early' \subseteq RLayers
      BY <1>13 DEF Reading!EndRestart, Reading!startForwarders, ReadInv, ReadTypes
    <3> QED BY <1>13, <3>1, <3>3, <3>4 DEF Reading!EndRestart, ReadInv, ReadTypes
  <2>2. Generations'
    <3>1. restart.at = "release" /\ restart'.at = "rest"
      BY <1>13 DEF Reading!EndRestart, Reading!RestartGoes, ReadInv, ReadTypes
    <3>2. forwarders' = Reading!Started(Reading!Present)
      BY <1>13, <3>1 DEF Reading!EndRestart, Reading!startForwarders, ReadInv, Generations
    <3>3. restartInProgress' = FALSE /\ UNCHANGED <<generation, waitGroup>>
      BY <1>13 DEF Reading!EndRestart
    <3>4. \A f \in forwarders' : f.gen = generation /\ f.group = waitGroup
      BY <3>2, StartedOnes DEF ReadInv, Reading!Present
    <3> QED BY <3>1, <3>3, <3>4 DEF Generations
  <2>3. Readers'
    BY <1>13 DEF Reading!EndRestart, Reading!RestartGoes, Reading!startForwarders,
       Reading!Started, Reading!Present, ReadInv, ReadTypes, Readers, Generations
  <2>4. AllRead'
    <3>1. Reading!Started(Reading!Present) \subseteq forwarders' /\ UNCHANGED buffers
      BY <1>13 DEF Reading!EndRestart, Reading!startForwarders
    <3>2. \A l \in Reading!Present : \E f \in Reading!Started(Reading!Present) : f.layer = l
      BY StartedOnes DEF ReadInv, Reading!Present
    <3> QED BY <3>1, <3>2 DEF AllRead, Reading!Present
  <2>5. Reading!WaitIsShort'
    BY <1>13 DEF Reading!EndRestart, Reading!RestartGoes, Reading!startForwarders,
       Reading!Started, Reading!Present, ReadInv, ReadTypes, Reading!WaitIsShort,
       Reading!Readable, Generations, Readers
  <2>6. Streams'
    BY <1>13 DEF Reading!EndRestart, Reading!RestartGoes, Reading!startForwarders,
       Reading!Started, Reading!Present, ReadInv, ReadTypes, Streams, Generations,
       Readers, Reading!RecvNext
  <2> QED BY <2>1, <2>2, <2>3, <2>4, <2>5, <2>6 DEF ReadInv
<1>14. ASSUME NEW f \in forwarders, Reading!ForwarderLoops(f) PROVE ReadInv'
  <2>0. f \in Forwarders
    BY DEF ReadInv, ReadTypes
  <2>1. CASE f.gen = generation
    <3> DEFINE g == [f EXCEPT !.at = "read"]
    <3>1. /\ g \in Forwarders /\ g.layer = f.layer /\ g.gen = f.gen /\ g.group = f.group
          /\ g.at = "read"
      BY <2>0 DEF Forwarders
    <3>2. /\ forwarders' = (forwarders \ {f}) \union {g}
          /\ UNCHANGED <<buffers, stream, pending, queued, upTracks, generation, waitGroup,
                         started, restart, restartInProgress, recvClosed, senders, adding,
                         synced, early, foreign, recvLimits>>
      BY <1>14, <2>1 DEF Reading!ForwarderLoops, Reading!Moves, Reading!RecvNext
    <3> HIDE DEF g
    <3>3. ReadTypes'
      BY <3>1, <3>2 DEF ReadInv, ReadTypes
    <3>4. Generations' /\ Readers' /\ AllRead'
      BY <3>1, <3>2, MoveKeeps
    <3>5. Reading!WaitIsShort'
      BY <2>1, <3>2 DEF ReadInv, Generations, Reading!WaitIsShort
    <3>6. Streams'
      BY <3>1, <3>2 DEF ReadInv, Streams
    <3> QED BY <3>3, <3>4, <3>5, <3>6 DEF ReadInv
  <2>2. CASE f.gen # generation
    <3>1. /\ forwarders' = forwarders \ {f}
          /\ UNCHANGED <<buffers, stream, pending, queued, upTracks, generation, waitGroup,
                         started, restart, restartInProgress, recvClosed, senders, adding,
                         synced, early, foreign, recvLimits>>
      BY <1>14, <2>2 DEF Reading!ForwarderLoops, Reading!RecvNext
    <3>2. ReadTypes' /\ Generations'
      BY <3>1 DEF ReadInv, ReadTypes, Generations
    <3>3. Readers' /\ Reading!WaitIsShort'
      BY <3>1 DEF ReadInv, Readers, Reading!WaitIsShort, Reading!Readable
    <3>4. AllRead'
      BY <2>2, <3>1 DEF ReadInv, AllRead, Generations
    <3>5. Streams'
      BY <3>1 DEF ReadInv, Streams
    <3> QED BY <3>2, <3>3, <3>4, <3>5 DEF ReadInv
  <2> QED BY <2>1, <2>2
<1>15. ASSUME NEW f \in forwarders, Reading!ReadExtended(f) PROVE ReadInv'
  <2>0. f \in Forwarders /\ f.layer \in RLayers
    BY DEF ReadInv, ReadTypes, Forwarders
  <2>1. /\ f.at = "read" /\ buffers[f.layer] = "open"
        /\ UNCHANGED <<buffers, stream, upTracks, generation, waitGroup, started, restart,
                       restartInProgress, recvClosed, senders, adding, synced, early,
                       foreign, recvLimits>>
    BY <1>15 DEF Reading!ReadExtended, Reading!RecvNext
  <2>2. PICK g \in Forwarders :
          /\ g.layer = f.layer /\ g.gen = f.gen /\ g.group = f.group
          /\ g.at # "read" /\ (g.at = "write" => g.str = stream[f.layer])
          /\ forwarders' = (forwarders \ {f}) \union {g}
    <3>1. stream[f.layer] \in Nat
      BY <2>0 DEF ReadInv, ReadTypes
    <3>2. CASE pending[f.layer]
      <4> DEFINE g == [f EXCEPT !.at = "loop"]
      <4>1. forwarders' = (forwarders \ {f}) \union {g}
        BY <1>15, <3>2 DEF Reading!ReadExtended, Reading!Moves
      <4>2. /\ g \in Forwarders /\ g.layer = f.layer /\ g.gen = f.gen
            /\ g.group = f.group /\ g.at = "loop"
        BY <2>0 DEF Forwarders
      <4> HIDE DEF g
      <4> QED BY <4>1, <4>2
    <3>3. CASE ~pending[f.layer]
      <4> DEFINE g == [f EXCEPT !.at = "write", !.str = stream[f.layer]]
      <4>1. forwarders' = (forwarders \ {f}) \union {g}
        BY <1>15, <3>3 DEF Reading!ReadExtended
      <4>2. /\ g \in Forwarders /\ g.layer = f.layer /\ g.gen = f.gen
            /\ g.group = f.group /\ g.at = "write" /\ g.str = stream[f.layer]
        BY <2>0, <3>1 DEF Forwarders
      <4> HIDE DEF g
      <4> QED BY <4>1, <4>2
    <3> QED BY <3>2, <3>3
  <2>3. /\ pending' \in [RLayers -> BOOLEAN] /\ queued' \in [RLayers -> BOOLEAN]
        /\ \A l \in RLayers \ {f.layer} : pending'[l] = pending[l] /\ queued'[l] = queued[l]
    BY <1>15, <2>0 DEF Reading!ReadExtended, ReadInv, ReadTypes
  <2>4. ReadTypes'
    BY <2>1, <2>2, <2>3 DEF ReadInv, ReadTypes
  <2>5. Generations' /\ Readers' /\ AllRead'
    BY <2>1, <2>2, MoveKeeps
  <2>6. Reading!WaitIsShort'
    <3> SUFFICES ASSUME restart.at = "wait", ~restart.detected, NEW h \in forwarders',
                        h.layer \notin early, h.at = "read"
                 PROVE  Reading!Readable(h.layer)'
      BY <2>1 DEF Reading!WaitIsShort
    <3>1. h \in forwarders /\ h # f
      BY <2>2
    <3>2. h.layer # f.layer
      BY <3>1 DEF ReadInv, Readers
    <3>3. Reading!Readable(h.layer)
      BY <3>1 DEF ReadInv, Reading!WaitIsShort
    <3>4. h.layer \in RLayers
      BY <3>1 DEF ReadInv, ReadTypes, Forwarders
    <3> QED BY <2>1, <2>3, <3>2, <3>3, <3>4 DEF Reading!Readable
  <2>7. Streams'
    BY <2>1, <2>2 DEF ReadInv, Streams
  <2> QED BY <2>4, <2>5, <2>6, <2>7 DEF ReadInv
<1>16. ASSUME NEW f \in forwarders, Reading!WriteRTP(f) PROVE ReadInv'
  <2>0. f \in Forwarders /\ f.layer \in RLayers /\ f.str \in Nat
    BY DEF ReadInv, ReadTypes, Forwarders
  <2> DEFINE g == [f EXCEPT !.at = "loop"]
  <2>1. /\ g \in Forwarders /\ g.layer = f.layer /\ g.gen = f.gen /\ g.group = f.group
        /\ g.at = "loop"
    BY <2>0 DEF Forwarders
  <2>2. /\ forwarders' = (forwarders \ {f}) \union {g} /\ f.at = "write"
        /\ UNCHANGED <<buffers, stream, pending, queued, upTracks, generation, waitGroup,
                       started, restart, restartInProgress, recvClosed, senders, adding,
                       early, recvLimits>>
    BY <1>16 DEF Reading!WriteRTP, Reading!Moves, Reading!RecvNext
  <2> HIDE DEF g
  <2>3. synced' \in [DownTracks -> [RLayers -> Nat]]
    BY <1>16, <2>0 DEF Reading!WriteRTP, ReadInv, ReadTypes
  <2>4. ReadTypes'
    BY <2>1, <2>2, <2>3 DEF ReadInv, ReadTypes
  <2>5. Generations' /\ Readers' /\ AllRead'
    BY <2>1, <2>2, MoveKeeps
  <2>6. Reading!WaitIsShort'
    BY <2>1, <2>2 DEF ReadInv, Reading!WaitIsShort, Reading!Readable
  <2>7. Streams'
    <3> SUFFICES ASSUME "detect" \notin recvLimits.env PROVE Streams'
      BY <2>2 DEF Streams
    <3>1. f.str = stream[f.layer] /\ restart.at # "tell"
      BY <2>2 DEF ReadInv, Streams, Generations
    <3>2. \A d \in senders : \A l \in RLayers : synced[d][l] \in {0, stream[l]}
      BY <3>1 DEF ReadInv, Streams
    <3>3. foreign' = FALSE
      <4>1. foreign = FALSE
        BY DEF ReadInv, Streams
      <4>2. ~ \E d \in senders : synced[d][f.layer] \notin {0, f.str}
        BY <2>0, <3>1, <3>2
      <4> QED BY <1>16, <4>1, <4>2 DEF Reading!WriteRTP
    <3>4. \A d \in DownTracks : \A l \in RLayers :
            synced'[d][l] = IF d \in senders /\ l = f.layer THEN f.str ELSE synced[d][l]
      BY <1>16, <2>0 DEF Reading!WriteRTP, ReadInv, ReadTypes
    <3>5. \A d \in senders : \A l \in RLayers : synced'[d][l] \in {0, stream[l]}
      BY <3>1, <3>2, <3>4 DEF ReadInv, ReadTypes
    <3>6. \A d \in adding : d \notin senders /\ \A l \in RLayers : synced'[d][l] = 0
      BY <3>4 DEF ReadInv, ReadTypes, Streams
    <3>7. \A h \in forwarders' : h.at = "write" => h.str = stream[h.layer]
      BY <2>1, <2>2 DEF ReadInv, Streams
    <3> QED BY <2>2, <3>3, <3>5, <3>6, <3>7 DEF Streams
  <2> QED BY <2>4, <2>5, <2>6, <2>7 DEF ReadInv
<1>17. ASSUME NEW f \in forwarders, Reading!CloseReceiver(f) PROVE ReadInv'
  <2>1. ReadTypes'
    BY <1>17 DEF Reading!CloseReceiver, ReadInv, ReadTypes, Forwarders
  <2>2. Generations'
    BY <1>17 DEF Reading!CloseReceiver, ReadInv, ReadTypes, Generations
  <2>3. Readers'
    BY <1>17 DEF Reading!CloseReceiver, ReadInv, ReadTypes, Readers, Generations
  <2>4. AllRead'
    BY <1>17 DEF Reading!CloseReceiver, ReadInv, ReadTypes, AllRead, Generations,
       Readers
  <2>5. Reading!WaitIsShort'
    BY <1>17 DEF Reading!CloseReceiver, ReadInv, ReadTypes, Reading!WaitIsShort,
       Reading!Readable, Generations, Readers
  <2>6. Streams'
    BY <1>17 DEF Reading!CloseReceiver, ReadInv, ReadTypes, Streams, Generations,
       Readers, Reading!RecvNext
  <2> QED BY <2>1, <2>2, <2>3, <2>4, <2>5, <2>6 DEF ReadInv
<1>18. ASSUME NEW d \in DownTracks, Reading!AddDownTrack(d) PROVE ReadInv'
  <2>1. ReadTypes'
    BY <1>18 DEF Reading!AddDownTrack, Reading!Unsynced, ReadInv, ReadTypes, Forwarders
  <2>2. Generations'
    BY <1>18 DEF Reading!AddDownTrack, Reading!Unsynced, ReadInv, ReadTypes, Generations
  <2>3. Readers'
    BY <1>18 DEF Reading!AddDownTrack, Reading!Unsynced, ReadInv, ReadTypes, Readers,
       Generations
  <2>4. AllRead'
    BY <1>18 DEF Reading!AddDownTrack, Reading!Unsynced, ReadInv, ReadTypes, AllRead,
       Generations, Readers
  <2>5. Reading!WaitIsShort'
    BY <1>18 DEF Reading!AddDownTrack, Reading!Unsynced, ReadInv, ReadTypes,
       Reading!WaitIsShort, Reading!Readable, Generations, Readers
  <2>6. Streams'
    BY <1>18 DEF Reading!AddDownTrack, Reading!Unsynced, ReadInv, ReadTypes, Streams,
       Generations, Readers, Reading!RecvNext
  <2> QED BY <2>1, <2>2, <2>3, <2>4, <2>5, <2>6 DEF ReadInv
<1>19. ASSUME NEW d \in DownTracks, Reading!StoreDownTrack(d) PROVE ReadInv'
  <2>1. ReadTypes'
    BY <1>19 DEF Reading!StoreDownTrack, ReadInv, ReadTypes, Forwarders
  <2>2. Generations'
    BY <1>19 DEF Reading!StoreDownTrack, ReadInv, ReadTypes, Generations
  <2>3. Readers'
    BY <1>19 DEF Reading!StoreDownTrack, ReadInv, ReadTypes, Readers, Generations
  <2>4. AllRead'
    BY <1>19 DEF Reading!StoreDownTrack, ReadInv, ReadTypes, AllRead, Generations,
       Readers
  <2>5. Reading!WaitIsShort'
    BY <1>19 DEF Reading!StoreDownTrack, ReadInv, ReadTypes, Reading!WaitIsShort,
       Reading!Readable, Generations, Readers
  <2>6. Streams'
    BY <1>19 DEF Reading!StoreDownTrack, ReadInv, ReadTypes, Streams, Generations,
       Readers, Reading!RecvNext
  <2> QED BY <2>1, <2>2, <2>3, <2>4, <2>5, <2>6 DEF ReadInv
<1>20. ASSUME NEW d \in DownTracks, Reading!DeleteDownTrack(d) PROVE ReadInv'
  <2>1. ReadTypes'
    BY <1>20 DEF Reading!DeleteDownTrack, ReadInv, ReadTypes, Forwarders
  <2>2. Generations'
    BY <1>20 DEF Reading!DeleteDownTrack, ReadInv, ReadTypes, Generations
  <2>3. Readers'
    BY <1>20 DEF Reading!DeleteDownTrack, ReadInv, ReadTypes, Readers, Generations
  <2>4. AllRead'
    BY <1>20 DEF Reading!DeleteDownTrack, ReadInv, ReadTypes, AllRead, Generations,
       Readers
  <2>5. Reading!WaitIsShort'
    BY <1>20 DEF Reading!DeleteDownTrack, ReadInv, ReadTypes, Reading!WaitIsShort,
       Reading!Readable, Generations, Readers
  <2>6. Streams'
    BY <1>20 DEF Reading!DeleteDownTrack, ReadInv, ReadTypes, Streams, Generations,
       Readers, Reading!RecvNext
  <2> QED BY <2>1, <2>2, <2>3, <2>4, <2>5, <2>6 DEF ReadInv
<1> QED BY <1>1, <1>2, <1>3, <1>4, <1>5, <1>6, <1>7, <1>8, <1>9, <1>10, <1>11, <1>12,
   <1>13, <1>14, <1>15, <1>16, <1>17, <1>18, <1>19, <1>20 DEF Reading!RecvNext,
   Reading!RecvSteps, Reading!RestartSteps, Reading!ForwarderSteps

LEMMA ReadStutters ==
  ASSUME ReadInv, UNCHANGED readingVars
  PROVE  ReadInv'
  BY DEF ReadInv, ReadTypes, Generations, Readers, AllRead, Reading!WaitIsShort,
     Reading!Readable, Streams, readingVars

LEMMA ReadInit == Reading!RecvInit => ReadInv
<1> SUFFICES ASSUME Reading!RecvInit PROVE ReadInv
  OBVIOUS
<1>1. ReadTypes
  BY DEF Reading!RecvInit, Reading!AtRest, Reading!Unsynced, ReadTypes
<1>2. restart.at = "rest" /\ restartInProgress = FALSE /\ forwarders = {} /\ upTracks = {}
  BY DEF Reading!RecvInit, Reading!AtRest
<1>3. /\ \A l \in RLayers : buffers[l] = "none"
      /\ senders = {} /\ adding = {} /\ foreign = FALSE
  BY DEF Reading!RecvInit
<1>4. Generations /\ Readers /\ AllRead
  BY <1>2, <1>3 DEF Generations, Readers, AllRead
<1>5. Reading!WaitIsShort /\ Streams
  BY <1>2, <1>3 DEF Reading!WaitIsShort, Streams
<1> QED BY <1>1, <1>4, <1>5 DEF ReadInv

LEMMA AtMostOne ==
  ASSUME NEW S, \A x, y \in S : x = y
  PROVE  Cardinality(S) <= 1
<1>1. CASE S = {}
  BY <1>1, FS_EmptySet
<1>2. CASE S # {}
  <2>1. PICK x \in S : TRUE
    BY <1>2
  <2>2. S = {x}
    BY <2>1
  <2> QED BY <2>2, FS_Singleton
<1> QED BY <1>1, <1>2

LEMMA ReadInvSuffices == ReadInv =>
  /\ Reading!OneReader /\ Reading!BuffersAreRead /\ Reading!WaitIsShort
  /\ "detect" \notin recvLimits.env => Reading!NothingForeign
<1> SUFFICES ASSUME ReadInv
             PROVE  /\ Reading!OneReader /\ Reading!BuffersAreRead /\ Reading!WaitIsShort
                    /\ "detect" \notin recvLimits.env => Reading!NothingForeign
  OBVIOUS
<1>1. Reading!OneReader
  <2> SUFFICES ASSUME NEW l \in RLayers \ early
               PROVE  Reading!Cardinality(Reading!Of(l)) <= 1
    BY DEF Reading!OneReader
  <2>1. \A f, g \in Reading!Of(l) : f = g
    BY DEF ReadInv, Readers, Reading!Of
  <2>2. Cardinality(Reading!Of(l)) <= 1
    BY <2>1, AtMostOne
  <2> QED BY <2>2 DEF Reading!Cardinality, Cardinality
<1>2. Reading!BuffersAreRead
  BY DEF ReadInv, ReadTypes, AllRead, Generations, Reading!BuffersAreRead, Reading!Present,
     Reading!Of
<1>3. "detect" \notin recvLimits.env => Reading!NothingForeign
  BY DEF ReadInv, Streams, Reading!NothingForeign
<1> QED BY <1>1, <1>2, <1>3 DEF ReadInv

(* However restarts, new layers and ends of streams interleave, a buffer    *)
(* has one reader and outside of a restart has one, a restart waits only    *)
(* for readers that are awake, and no packet of a new stream comes to a     *)
(* down track before it was told, for any layers, down tracks and bounds    *)
(* (restartInternal, StartBuffer, forwardRTP).                              *)
THEOREM ReceiversAreRead == PartsSpec => []BuffersAreRead
<1> DEFINE Steps == DynacastStep \/ SharingStep \/ ProbingStep \/ ReceiverStep
<1>1. PartsInit => ReadInv
  BY ReadInit DEF PartsInit
<1>2. ReadInv /\ [Steps]_allVars => ReadInv'
  <2> SUFFICES ASSUME ReadInv, [Steps]_allVars PROVE ReadInv'
    OBVIOUS
  <2>1. CASE ReceiverStep
    BY <2>1, ReadNext, ReadStutters DEF ReceiverStep
  <2>2. CASE ~ReceiverStep
    BY <2>2, ReadStutters DEF DynacastStep, SharingStep, ProbingStep, receiverVars, allVars
  <2> QED BY <2>1, <2>2
<1>3. ReadInv => BuffersAreRead
  BY ReadInvSuffices DEF BuffersAreRead
<1> QED BY <1>1, <1>2, <1>3, PTL DEF PartsSpec

-----------------------------------------------------------------------------
(* Probing.  A world is typed whatever happens; what relates its parts is   *)
(* about runs in which no cluster was added before another one had started. *)
Caps == {"none", "default", "measured"}
Congestions == {"none", "congested"}
Events ==
  [ev : {"Ping", "Allocate", "Estimate", "Switch", "SendProbe", "Complete"}, id : Nat]
  \cup [ev : {"Congestion"}, id : {0}, from : Congestions, to : Congestions, cap : Caps]
Worlds ==
  [st : {"STABLE", "DEFICIENT"}, id : Nat, goal : BOOLEAN, cong : BOOLEAN, cap : Caps,
   q : Seq(Nat), act : Nat, done : SUBSET Nat, last : Nat, in : BOOLEAN, pid : Nat,
   ended : BOOLEAN, ctl : {"none", "probing", "hangover"}, cid : Nat, bwe : Congestions,
   bcap : Caps, post : Seq(Events), run : BOOLEAN]

NoSwitch(s) == \A i \in 1..Len(s) : s[i].ev # "Switch"
OneSwitch(s) ==
  \A i, j \in 1..Len(s) : s[i].ev = "Switch" /\ s[j].ev = "Switch" => i = j /\ s[i].id # 0

(* The allocator, the pacer and the estimator have the same probe.          *)
OneProbe(w) ==
  /\ w.in => w.ctl = "probing" /\ w.cid = w.id /\ w.pid = w.id /\ w.id # 0
  /\ w.id # 0 => w.cid = w.id /\ (w.ctl = "hangover" \/ w.in)

(* The prober has one cluster at most.                                      *)
OneCluster(w) ==
  /\ w.q = <<>> => w.act = 0
  /\ w.q # <<>> => Len(w.q) = 1 /\ w.q[1] # 0 /\ w.act \in {0, w.q[1]}

(* A cluster starts when no probe is active, and is announced once.         *)
OneStart(w, s) ==
  /\ OneSwitch(s) /\ (NoSwitch(s) \/ w.id = 0)
  /\ w.q # <<>> /\ w.act = 0 => w.id = 0 /\ NoSwitch(s)

Agreed(w, s) == OneProbe(w) /\ OneCluster(w) /\ OneStart(w, s)

ProbeInv ==
  /\ pQueue \in Seq(Events) /\ Clusters!World \in Worlds
  /\ ~doubled => Agreed(Clusters!World, pQueue)

(* Events that wait.                                                        *)
LEMMA AddedEvent ==
  ASSUME NEW s \in Seq(Events), NEW e \in Events
  PROVE  /\ Append(s, e) \in Seq(Events)
         /\ e.ev # "Switch" => /\ NoSwitch(s) => NoSwitch(Append(s, e))
                               /\ OneSwitch(s) => OneSwitch(Append(s, e))
         /\ NoSwitch(s) /\ e.id # 0 => OneSwitch(Append(s, e))
<1>1. /\ Append(s, e) \in Seq(Events) /\ Len(Append(s, e)) = Len(s) + 1 /\ Len(s) \in Nat
      /\ \A i \in 1..Len(s) : Append(s, e)[i] = s[i]
      /\ Append(s, e)[Len(s) + 1] = e
  OBVIOUS
<1>2. \A i \in 1..(Len(s) + 1) : i \in 1..Len(s) \/ i = Len(s) + 1
  BY <1>1
<1>3. e.ev # "Switch" /\ NoSwitch(s) => NoSwitch(Append(s, e))
  BY <1>1, <1>2 DEF NoSwitch
<1>4. e.ev # "Switch" /\ OneSwitch(s) => OneSwitch(Append(s, e))
  BY <1>1, <1>2 DEF OneSwitch
<1>5. NoSwitch(s) /\ e.id # 0 => OneSwitch(Append(s, e))
  BY <1>1, <1>2 DEF NoSwitch, OneSwitch
<1> QED BY <1>1, <1>3, <1>4, <1>5

LEMMA TakenEvent ==
  ASSUME NEW s \in Seq(Events), s # <<>>
  PROVE  /\ Tail(s) \in Seq(Events) /\ Head(s) \in Events /\ Head(s) = s[1] /\ Len(s) \in Nat \ {0}
         /\ NoSwitch(s) => NoSwitch(Tail(s)) /\ Head(s).ev # "Switch"
         /\ OneSwitch(s) => OneSwitch(Tail(s))
         /\ OneSwitch(s) /\ Head(s).ev = "Switch" => NoSwitch(Tail(s)) /\ Head(s).id # 0
<1>1. /\ Tail(s) \in Seq(Events) /\ Head(s) \in Events /\ Head(s) = s[1] /\ Len(s) \in Nat \ {0}
      /\ Len(Tail(s)) = Len(s) - 1
      /\ \A i \in 1..Len(Tail(s)) : Tail(s)[i] = s[i + 1] /\ i + 1 \in 1..Len(s) /\ i + 1 # 1
      /\ 1 \in 1..Len(s)
  OBVIOUS
<1>2. NoSwitch(s) => NoSwitch(Tail(s)) /\ Head(s).ev # "Switch"
  BY <1>1 DEF NoSwitch
<1>3. ASSUME OneSwitch(s) PROVE OneSwitch(Tail(s))
  <2> SUFFICES ASSUME NEW i \in 1..Len(Tail(s)), NEW j \in 1..Len(Tail(s)),
                      Tail(s)[i].ev = "Switch", Tail(s)[j].ev = "Switch"
               PROVE  i = j /\ Tail(s)[i].id # 0
    BY DEF OneSwitch
  <2>1. i + 1 = j + 1 /\ s[i + 1].id # 0
    BY <1>1, <1>3 DEF OneSwitch
  <2> QED BY <1>1, <2>1
<1>4. OneSwitch(s) /\ Head(s).ev = "Switch" => NoSwitch(Tail(s)) /\ Head(s).id # 0
  BY <1>1 DEF NoSwitch, OneSwitch
<1> QED BY <1>1, <1>2, <1>3, <1>4

LEMMA JoinedEvents ==
  ASSUME NEW s \in Seq(Events), NEW p \in Seq(Events), NEW e \in Events
  PROVE  s \o <<>> = s /\ s \o p \in Seq(Events) /\ s \o Append(p, e) = Append(s \o p, e)
  OBVIOUS

(* What each of the components does to a world.                             *)
Cleared(w, d, q, a) == [w EXCEPT !.done = d, !.q = q, !.act = a]
Named(w, id) == [w EXCEPT !.id = id]

LEMMA ClearedWorld ==
  ASSUME NEW w \in Worlds, NEW d \in SUBSET Nat, NEW q \in Seq(Nat), NEW a \in Nat,
         NEW m, m = Cleared(w, d, q, a)
  PROVE  /\ m \in Worlds /\ m.id = w.id /\ m.post = w.post /\ m.last = w.last /\ m.st = w.st
         /\ m.bwe = w.bwe /\ m.run = w.run /\ m.cid = w.cid /\ m.pid = w.pid /\ m.in = w.in
         /\ m.ctl = w.ctl /\ m.q = q /\ m.act = a
  BY DEF Cleared, Worlds

LEMMA NamedWorld ==
  ASSUME NEW w \in Worlds, NEW id \in Nat, NEW m, m = Named(w, id)
  PROVE  /\ m \in Worlds /\ m.id = id /\ m.post = w.post /\ m.last = w.last /\ m.st = w.st
         /\ m.bwe = w.bwe /\ m.run = w.run /\ m.cid = w.cid /\ m.pid = w.pid /\ m.in = w.in
         /\ m.ctl = w.ctl /\ m.q = w.q /\ m.act = w.act
  BY DEF Named, Worlds

LEMMA StopKeeps ==
  ASSUME NEW w \in Worlds, NEW m, m = Clusters!maybeStopProbe(w)
  PROVE  /\ m \in Worlds /\ m.id = w.id /\ m.post = w.post /\ m.last = w.last /\ m.st = w.st
         /\ m.bwe = w.bwe /\ m.run = w.run /\ m.q \in {w.q, <<>>}
         /\ \A s \in Seq(Events) : Agreed(w, s) => Agreed(m, s)
         /\ OneProbe(w) /\ w.id # 0 => m.in = FALSE /\ m.ctl = "hangover" /\ m.q = <<>> /\ m.act = 0
         /\ OneProbe(w) => m.in = FALSE
<1>1. CASE w.id = 0
  <2>1. m = w
    BY <1>1 DEF Clusters!maybeStopProbe, Clusters!ProbeClusterIdInvalid
  <2>2. OneProbe(w) => w.in = FALSE
    BY <1>1 DEF OneProbe, Worlds
  <2> QED BY <1>1, <2>1, <2>2
<1>2. CASE w.id # 0
  <2> DEFINE id == Clusters!EndsWith(w, w.id)
             e == Clusters!EndProbeCluster(w, w.id)
             d == Clusters!ProbeClusterDone(e, id)
  <2>1. m = Clusters!Reset(d, id)
    BY <1>2 DEF Clusters!maybeStopProbe, Clusters!ProbeClusterIdInvalid
  <2>2. /\ id \in Nat /\ (w.in /\ w.pid = w.id => id = w.id) /\ (~(w.in /\ w.pid = w.id) => id = 0)
    BY DEF Clusters!EndsWith, Clusters!ProbeClusterIdInvalid, Worlds
  <2>3. /\ e \in Worlds /\ e.id = w.id /\ e.post = w.post /\ e.last = w.last /\ e.st = w.st
        /\ e.bwe = w.bwe /\ e.run = w.run /\ e.cid = w.cid /\ e.ctl = w.ctl /\ e.pid = w.pid
        /\ (w.in /\ w.pid = w.id => e.in = FALSE) /\ (~(w.in /\ w.pid = w.id) => e.in = w.in)
        /\ e.q = w.q
    BY ZenonT(60) DEF Clusters!EndProbeCluster, Worlds
  <2> HIDE DEF e, id
  <2>4. /\ d \in Worlds /\ d.id = w.id /\ d.post = w.post /\ d.last = w.last /\ d.st = w.st
        /\ d.bwe = w.bwe /\ d.run = w.run /\ d.cid = w.cid /\ d.pid = w.pid /\ d.in = e.in
        /\ (w.cid = id => d.ctl = "hangover") /\ (w.cid # id => d.ctl = w.ctl) /\ d.q = w.q
    BY SMTT(30), <2>2, <2>3 DEF Clusters!ProbeClusterDone, Worlds
  <2> HIDE DEF d
  <2>5. /\ m \in Worlds /\ m.id = w.id /\ m.post = w.post /\ m.last = w.last /\ m.st = w.st
        /\ m.bwe = w.bwe /\ m.run = w.run /\ m.cid = w.cid /\ m.pid = w.pid /\ m.in = d.in
        /\ m.ctl = d.ctl /\ m.q = <<>> /\ m.act = 0
    <3> DEFINE dn == IF d.act # 0 /\ d.act = id THEN d.done \cup {id} ELSE d.done
    <3>1. dn \in SUBSET Nat /\ <<>> \in Seq(Nat)
      BY <2>2, <2>4 DEF Worlds
    <3>2. PICK z \in Nat, n \in Seq(Nat) : z = 0 /\ n = <<>>
      BY <3>1
    <3>3. m = Cleared(d, dn, n, z)
      BY <2>1, <3>2 DEF Clusters!Reset, Cleared
    <3> HIDE DEF dn
    <3>4. /\ m \in Worlds /\ m.id = d.id /\ m.post = d.post /\ m.last = d.last /\ m.st = d.st
          /\ m.bwe = d.bwe /\ m.run = d.run /\ m.cid = d.cid /\ m.pid = d.pid /\ m.in = d.in
          /\ m.ctl = d.ctl /\ m.q = n /\ m.act = z
      BY <2>4, <3>1, <3>3, ClearedWorld
    <3> QED BY <2>4, <3>2, <3>4
  <2>6. ASSUME OneProbe(w) PROVE m.in = FALSE /\ m.ctl = "hangover" /\ OneProbe(m)
    <3>1. w.cid = w.id /\ (w.in => w.pid = w.id) /\ (w.ctl = "hangover" \/ w.in)
      BY <1>2, <2>6 DEF OneProbe
    <3>2. m.in = FALSE /\ m.ctl = "hangover"
      <4>1. CASE w.in
        BY <4>1, <3>1, <2>2, <2>3, <2>4, <2>5
      <4>2. CASE ~w.in
        BY <4>2, <3>1, <2>2, <2>3, <2>4, <2>5 DEF Worlds
      <4> QED BY <4>1, <4>2
    <3> QED BY <3>1, <3>2, <2>5 DEF OneProbe
  <2>7. ASSUME NEW s, Agreed(w, s) PROVE Agreed(m, s)
    BY <1>2, <2>5, <2>6, <2>7 DEF Agreed, OneCluster, OneStart
  <2> QED BY <2>5, <2>6, <2>7
<1> QED BY <1>1, <1>2

(* The estimator starts again and the allocator has no probe.               *)
Restarted(w) == Named(Clusters!BWEReset(Clusters!maybeStopProbe(w)), 0)

LEMMA RestartKeeps ==
  ASSUME NEW w \in Worlds, NEW m, m = Restarted(w)
  PROVE  /\ m \in Worlds /\ m.post = w.post /\ m.last = w.last /\ m.st = w.st /\ m.run = w.run
         /\ m.q \in {w.q, <<>>} /\ m.id = 0 /\ m.ctl = "none"
         /\ \A s \in Seq(Events) : Agreed(w, s) => Agreed(m, s)
<1> DEFINE p == Clusters!maybeStopProbe(w)
<1>1. /\ p \in Worlds /\ p.id = w.id /\ p.post = w.post /\ p.last = w.last /\ p.st = w.st
      /\ p.run = w.run /\ p.q \in {w.q, <<>>}
      /\ \A s \in Seq(Events) : Agreed(w, s) => Agreed(p, s)
      /\ OneProbe(w) => p.in = FALSE
  BY StopKeeps
<1> HIDE DEF p
<1> DEFINE b == Clusters!BWEReset(p)
<1>2. /\ b \in Worlds /\ b.id = p.id /\ b.post = p.post /\ b.last = p.last /\ b.st = p.st
      /\ b.run = p.run /\ b.q = p.q /\ b.act = p.act /\ b.in = p.in /\ b.ctl = "none"
  BY ZenonT(60), <1>1 DEF Clusters!BWEReset, Worlds, Caps, Congestions
<1> HIDE DEF b
<1>3. m = Named(b, 0)
  BY DEF b, p, Restarted
<1>4. /\ m \in Worlds /\ m.id = 0 /\ m.post = p.post /\ m.last = p.last /\ m.st = p.st
      /\ m.run = p.run /\ m.q = p.q /\ m.act = p.act /\ m.in = p.in /\ m.ctl = "none"
  <2>1. 0 \in Nat
    OBVIOUS
  <2>3. b \in Worlds
    BY <1>2
  <2>2. /\ m \in Worlds /\ m.id = 0 /\ m.post = b.post /\ m.last = b.last /\ m.st = b.st
        /\ m.run = b.run /\ m.in = b.in /\ m.ctl = b.ctl /\ m.q = b.q /\ m.act = b.act
    BY <2>1, <2>3, <1>3, NamedWorld
  <2> QED BY <2>2, <1>2
<1>5. ASSUME NEW s \in Seq(Events), Agreed(w, s) PROVE Agreed(m, s)
  <2>1. Agreed(p, s) /\ m.in = FALSE
    BY <1>1, <1>4, <1>5 DEF Agreed
  <2> QED BY <2>1, <1>4 DEF Agreed, OneProbe, OneCluster, OneStart
<1> QED BY <1>1, <1>4, <1>5

LEMMA SetStateKeeps ==
  ASSUME NEW w \in Worlds, NEW st \in {"STABLE", "DEFICIENT"}, NEW m, m = Clusters!setState(w, st)
  PROVE  /\ m \in Worlds /\ m.post = w.post /\ m.last = w.last /\ m.run = w.run
         /\ m.q \in {w.q, <<>>}
         /\ \A s \in Seq(Events) : Agreed(w, s) => Agreed(m, s)
<1> DEFINE n == [w EXCEPT !.st = st]
<1>1. /\ n \in Worlds /\ n.id = w.id /\ n.post = w.post /\ n.last = w.last /\ n.run = w.run
      /\ n.q = w.q /\ n.act = w.act /\ n.in = w.in /\ n.ctl = w.ctl /\ n.cid = w.cid
      /\ n.pid = w.pid
  BY DEF Worlds
<1>2. \A s \in Seq(Events) : Agreed(w, s) => Agreed(n, s)
  BY <1>1 DEF Agreed, OneProbe, OneCluster, OneStart
<1>3. CASE w.st = st
  BY <1>3 DEF Clusters!setState
<1>4. CASE w.st # st /\ st = "STABLE"
  <2>1. m = Restarted(n)
    BY <1>4 DEF Clusters!setState, Clusters!ProbeClusterIdInvalid, Restarted, Named
  <2> HIDE DEF n
  <2> QED BY <2>1, <1>1, <1>2, RestartKeeps
<1>5. CASE w.st # st /\ st # "STABLE"
  <2>1. m = n
    BY <1>5 DEF Clusters!setState
  <2> QED BY <2>1, <1>1, <1>2
<1> QED BY <1>3, <1>4, <1>5

LEMMA FrontKeeps ==
  ASSUME NEW w \in Worlds, NEW m, m = Clusters!getFrontCluster(w)
  PROVE  /\ m \in Worlds /\ m.last = w.last /\ m.run = w.run /\ m.id = w.id /\ m.in = w.in
         /\ m.q = w.q /\ m.done = w.done
         /\ \A s \in Seq(Events) : Agreed(w, s \o w.post) => Agreed(m, s \o m.post)
<1>1. CASE w.act # 0 \/ w.q = <<>>
  BY <1>1 DEF Clusters!getFrontCluster
<1>2. CASE ~(w.act # 0 \/ w.q = <<>>)
  <2> DEFINE h == Head(w.q)
             e == [ev |-> "Switch", id |-> h]
             p == Append(w.post, e)
  <2>1. h \in Nat /\ h = w.q[1] /\ w.post \in Seq(Events)
    BY <1>2 DEF Worlds
  <2>2. e \in Events /\ e.ev = "Switch" /\ e.id = h
    BY <2>1 DEF Events
  <2>3. m = [w EXCEPT !.act = h, !.post = p]
    BY <1>2 DEF Clusters!getFrontCluster
  <2> HIDE DEF h, e
  <2>4. p \in Seq(Events)
    BY <2>1, <2>2
  <2> HIDE DEF p
  <2>5. /\ m \in Worlds /\ m.last = w.last /\ m.run = w.run /\ m.id = w.id /\ m.in = w.in
        /\ m.q = w.q /\ m.done = w.done /\ m.act = h /\ m.post = p /\ m.ctl = w.ctl
        /\ m.cid = w.cid /\ m.pid = w.pid
    BY ZenonT(60), <2>1, <2>3, <2>4 DEF Worlds
  <2>6. ASSUME NEW s \in Seq(Events), Agreed(w, s \o w.post) PROVE Agreed(m, s \o m.post)
    <3>0. /\ s \o w.post \in Seq(Events)
          /\ s \o Append(w.post, e) = Append(s \o w.post, e)
      BY <2>1, <2>2, JoinedEvents
    <3>1. s \o w.post \in Seq(Events) /\ s \o m.post = Append(s \o w.post, e)
      BY <2>5, <3>0 DEF p
    <3>2. w.id = 0 /\ NoSwitch(s \o w.post) /\ h # 0
      BY <1>2, <2>1, <2>6 DEF Agreed, OneStart, OneCluster
    <3>3. OneSwitch(s \o m.post)
      BY <2>2, <3>1, <3>2, AddedEvent
    <3>4. OneStart(m, s \o m.post)
      BY <2>5, <3>2, <3>3 DEF OneStart
    <3>5. OneProbe(m) /\ OneCluster(m)
      BY <1>2, <2>1, <2>5, <2>6 DEF Agreed, OneProbe, OneCluster
    <3> QED BY <3>4, <3>5 DEF Agreed
  <2> QED BY <2>5, <2>6
<1> QED BY <1>1, <1>2

LEMMA PopKeeps ==
  ASSUME NEW w \in Worlds, NEW id \in Nat, NEW m, m = Clusters!popFrontCluster(w, id)
  PROVE  /\ m \in Worlds /\ m.last = w.last /\ m.run = w.run /\ m.post = w.post
         /\ \A s \in Seq(Events) : Agreed(w, s) => Agreed(m, s)
<1>1. CASE w.q = <<>>
  <2>1. m = [w EXCEPT !.act = 0]
    BY <1>1 DEF Clusters!popFrontCluster
  <2>2. /\ m \in Worlds /\ m.last = w.last /\ m.run = w.run /\ m.id = w.id /\ m.in = w.in
        /\ m.q = w.q /\ m.act = 0 /\ m.post = w.post /\ m.ctl = w.ctl
        /\ m.cid = w.cid /\ m.pid = w.pid
    <3>1. \A z \in Nat : z = 0 =>
            LET n == [w EXCEPT !.act = z]
            IN  /\ n \in Worlds /\ n.last = w.last /\ n.run = w.run /\ n.id = w.id /\ n.in = w.in
                /\ n.q = w.q /\ n.act = z /\ n.post = w.post /\ n.ctl = w.ctl
                /\ n.cid = w.cid /\ n.pid = w.pid
      BY DEF Worlds
    <3> QED BY <2>1, <3>1
  <2> QED BY <1>1, <2>2 DEF Agreed, OneProbe, OneCluster, OneStart
<1>2. CASE w.q # <<>>
  <2> DEFINE r == IF Head(w.q) = id THEN Tail(w.q) ELSE w.q
             a == IF w.act = id THEN 0 ELSE w.act
  <2>1. m = [w EXCEPT !.q = r, !.act = a]
    BY <1>2 DEF Clusters!popFrontCluster
  <2>2. r \in Seq(Nat) /\ a \in Nat
    BY <1>2 DEF Worlds
  <2>3. /\ m \in Worlds /\ m.last = w.last /\ m.run = w.run /\ m.id = w.id /\ m.in = w.in
        /\ m.q = r /\ m.act = a /\ m.post = w.post /\ m.ctl = w.ctl
        /\ m.cid = w.cid /\ m.pid = w.pid
    <3> HIDE DEF r, a
    <3> QED BY ZenonT(60), <2>1, <2>2 DEF Worlds
  <2>4. ASSUME NEW s \in Seq(Events), Agreed(w, s) PROVE Agreed(m, s)
    <3>1. Len(w.q) = 1 /\ Head(w.q) = w.q[1] /\ Tail(w.q) = <<>> /\ w.q[1] # 0 /\ w.act \in {0, w.q[1]}
      <4>1. w.q \in Seq(Nat)
        BY DEF Worlds
      <4>2. Len(w.q) = 1 /\ w.q[1] # 0 /\ w.act \in {0, w.q[1]}
        BY <1>2, <2>4 DEF Agreed, OneCluster
      <4>3. Tail(w.q) \in Seq(Nat) /\ Len(Tail(w.q)) = 0 /\ Head(w.q) = w.q[1]
        BY <1>2, <4>1, <4>2
      <4>4. Tail(w.q) = <<>>
        BY <4>3, EmptySeq
      <4> QED BY <4>2, <4>3, <4>4
    <3>2. CASE Head(w.q) = id
      <4>1. r = <<>> /\ a = 0
        BY <3>1, <3>2
      <4> HIDE DEF r, a
      <4> QED BY <2>3, <2>4, <4>1 DEF Agreed, OneProbe, OneCluster, OneStart
    <3>3. CASE Head(w.q) # id
      <4>1. r = w.q /\ a = w.act
        BY <3>1, <3>3
      <4> HIDE DEF r, a
      <4> QED BY <2>3, <2>4, <4>1 DEF Agreed, OneProbe, OneCluster, OneStart
    <3> QED BY <3>2, <3>3
  <2> QED BY <2>3, <2>4
<1> QED BY <1>1, <1>2

(* A handler that leaves such a world takes the first event off the queue   *)
(* and adds its own.                                                        *)
LEMMA BecomesKeeps ==
  ASSUME ProbeInv, pQueue # <<>>, NEW w \in Worlds, Clusters!Becomes(w),
         ~doubled' => Agreed(w, Tail(pQueue) \o w.post)
  PROVE  ProbeInv'
<1>1. Tail(pQueue) \in Seq(Events) /\ w.post \in Seq(Events)
  BY TakenEvent DEF ProbeInv, Worlds
<1>2. pQueue' = Tail(pQueue) \o w.post /\ pQueue' \in Seq(Events)
  BY <1>1 DEF Clusters!Becomes
<1> DEFINE n == Clusters!World'
<1>3. /\ n.st = w.st /\ n.id = w.id /\ n.goal = w.goal /\ n.cong = w.cong /\ n.cap = w.cap
      /\ n.q = w.q /\ n.act = w.act /\ n.done = w.done /\ n.last = w.last /\ n.in = w.in
      /\ n.pid = w.pid /\ n.ended = w.ended /\ n.ctl = w.ctl /\ n.cid = w.cid
      /\ n.bwe = w.bwe /\ n.bcap = w.bcap /\ n.post = <<>> /\ n.run = FALSE
  BY DEF Clusters!Becomes, Clusters!World
<1>4. n \in Worlds
  <2>1. <<>> \in Seq(Events)
    OBVIOUS
  <2>2. /\ pState' \in {"STABLE", "DEFICIENT"} /\ activeId' \in Nat /\ goalReached' \in BOOLEAN
        /\ congesting' \in BOOLEAN /\ saCapacity' \in Caps /\ clusters' \in Seq(Nat)
        /\ activeCluster' \in Nat /\ completed' \in SUBSET Nat /\ lastId' \in Nat
        /\ inProbe' \in BOOLEAN /\ pacerId' \in Nat /\ pacerEnded' \in BOOLEAN
        /\ ctl' \in {"none", "probing", "hangover"} /\ ctlId' \in Nat /\ bweState' \in Congestions
        /\ bweCapacity' \in Caps
    BY DEF Clusters!Becomes, Worlds
  <2> QED BY <2>1, <2>2 DEF Clusters!World, Worlds
<1> HIDE DEF n
<1>5. ~doubled' => Agreed(n, pQueue')
  BY <1>2, <1>3 DEF Agreed, OneProbe, OneCluster, OneStart
<1> QED BY <1>2, <1>4, <1>5 DEF ProbeInv, n

(* The world a handler begins with, the first event taken off.              *)
LEMMA BeginsAgreed ==
  ASSUME ProbeInv, pQueue # <<>>
  PROVE  /\ Clusters!World \in Worlds /\ Tail(pQueue) \in Seq(Events) /\ Clusters!Event \in Events
         /\ Clusters!World.post = <<>> /\ Tail(pQueue) \o <<>> = Tail(pQueue)
         /\ Clusters!World.q = clusters /\ Clusters!World.last = lastId /\ Clusters!World.run = FALSE
         /\ ~doubled => Agreed(Clusters!World, Tail(pQueue))
<1>1. /\ Tail(pQueue) \in Seq(Events) /\ Head(pQueue) \in Events
      /\ NoSwitch(pQueue) => NoSwitch(Tail(pQueue))
      /\ OneSwitch(pQueue) => OneSwitch(Tail(pQueue))
  BY TakenEvent DEF ProbeInv
<1>2. Tail(pQueue) \o <<>> = Tail(pQueue)
  BY <1>1
<1>3. /\ Clusters!World.post = <<>> /\ Clusters!World.q = clusters /\ Clusters!World.last = lastId
      /\ Clusters!World.run = FALSE
  BY DEF Clusters!World
<1>4. ~doubled => Agreed(Clusters!World, Tail(pQueue))
  BY <1>1 DEF ProbeInv, Agreed, OneStart
<1> QED BY <1>1, <1>2, <1>3, <1>4 DEF ProbeInv, Clusters!Event

LEMMA AllocateKeeps ==
  ASSUME ProbeInv, Clusters!HandleAllocate
  PROVE  ProbeInv'
<1> DEFINE W == Clusters!World
<1>1. pQueue # <<>>
  BY DEF Clusters!HandleAllocate, Clusters!Handles
<1>2. /\ W \in Worlds /\ W.post = <<>> /\ Tail(pQueue) \in Seq(Events)
      /\ Tail(pQueue) \o <<>> = Tail(pQueue) /\ (~doubled => Agreed(W, Tail(pQueue)))
  BY <1>1, BeginsAgreed
<1>3. PICK st \in {"STABLE", "DEFICIENT"} :
        Clusters!Becomes(Clusters!setState(Clusters!maybeStopProbe(W), st))
  BY DEF ProbeInv, Clusters!HandleAllocate, Clusters!World, Worlds
<1> HIDE DEF W
<1> DEFINE p == Clusters!maybeStopProbe(W)
<1>4. /\ p \in Worlds /\ p.post = W.post
      /\ \A s \in Seq(Events) : Agreed(W, s) => Agreed(p, s)
  BY <1>2, StopKeeps
<1> HIDE DEF p
<1> DEFINE m == Clusters!setState(p, st)
<1>5. /\ m \in Worlds /\ m.post = p.post
      /\ \A s \in Seq(Events) : Agreed(p, s) => Agreed(m, s)
  BY <1>4, SetStateKeeps
<1>6. Clusters!Becomes(m)
  BY <1>3 DEF p
<1> HIDE DEF m
<1>7. ~doubled' => Agreed(m, Tail(pQueue) \o m.post)
  <2>1. doubled => doubled'
    BY <1>6 DEF Clusters!Becomes
  <2> QED BY <2>1, <1>2, <1>4, <1>5
<1> QED BY <1>1, <1>5, <1>6, <1>7, BecomesKeeps

LEMMA SwitchKeeps ==
  ASSUME ProbeInv, Clusters!handleSignalProbeClusterSwitch
  PROVE  ProbeInv'
<1> DEFINE W == Clusters!World
           i == Clusters!Event.id
           c == [W EXCEPT !.id = i, !.goal = FALSE, !.cong = FALSE, !.ctl = "probing", !.cid = i]
           m == IF c.in THEN c ELSE [c EXCEPT !.in = TRUE, !.pid = i, !.ended = FALSE]
<1>1. pQueue # <<>> /\ Clusters!Event = Head(pQueue) /\ Head(pQueue).ev = "Switch"
  BY DEF Clusters!handleSignalProbeClusterSwitch, Clusters!Handles, Clusters!Event
<1>2. /\ W \in Worlds /\ W.post = <<>> /\ Tail(pQueue) \in Seq(Events)
      /\ Tail(pQueue) \o <<>> = Tail(pQueue) /\ (~doubled => Agreed(W, Tail(pQueue)))
      /\ Clusters!Event \in Events
  BY <1>1, BeginsAgreed
<1>3. Clusters!Becomes(m)
  BY DEF Clusters!handleSignalProbeClusterSwitch
<1>4. i \in Nat
  BY <1>2 DEF Events
<1> HIDE DEF W, i
<1>5. /\ c \in Worlds /\ c.id = i /\ c.ctl = "probing" /\ c.cid = i /\ c.in = W.in /\ c.pid = W.pid
      /\ c.q = W.q /\ c.act = W.act /\ c.post = W.post
  BY <1>2, <1>4 DEF Worlds
<1> HIDE DEF c
<1>6. /\ m \in Worlds /\ m.id = i /\ m.ctl = "probing" /\ m.cid = i /\ m.in = TRUE
      /\ (~W.in => m.pid = i) /\ m.q = W.q /\ m.act = W.act /\ m.post = <<>>
  <2>1. CASE c.in
    BY <2>1, <1>2, <1>5 DEF Worlds
  <2>2. CASE ~c.in
    BY <2>2, <1>2, <1>4, <1>5 DEF Worlds
  <2> QED BY <2>1, <2>2
<1> HIDE DEF m
<1>7. ASSUME ~doubled' PROVE Agreed(m, Tail(pQueue) \o m.post)
  <2>1. ~doubled
    BY <1>3, <1>7 DEF Clusters!Becomes
  <2>2. Agreed(W, pQueue) /\ pQueue \in Seq(Events)
    BY <2>1 DEF ProbeInv, W
  <2>3. NoSwitch(Tail(pQueue)) /\ i # 0 /\ ~NoSwitch(pQueue) /\ OneSwitch(Tail(pQueue))
    BY <1>1, <2>2, TakenEvent DEF Agreed, OneStart, i
  <2>4. W.id = 0 /\ ~(W.q # <<>> /\ W.act = 0)
    BY <2>2, <2>3 DEF Agreed, OneStart
  <2>5. ~W.in
    BY <2>2, <2>4 DEF Agreed, OneProbe
  <2>6. OneProbe(m)
    BY <1>6, <2>3, <2>5 DEF OneProbe
  <2>7. OneCluster(m)
    BY <1>6, <2>2 DEF Agreed, OneCluster
  <2>8. OneStart(m, Tail(pQueue))
    BY <1>6, <2>3, <2>4 DEF OneStart
  <2> QED BY <1>2, <1>6, <2>6, <2>7, <2>8 DEF Agreed
<1> QED BY <1>1, <1>3, <1>6, <1>7, BecomesKeeps

LEMMA SendKeeps ==
  ASSUME ProbeInv, Clusters!handleSignalSendProbe
  PROVE  ProbeInv'
<1> DEFINE W == Clusters!World
           m == Clusters!getFrontCluster(W)
<1>1. pQueue # <<>> /\ Clusters!Becomes(m)
  BY DEF Clusters!handleSignalSendProbe, Clusters!Handles
<1>2. /\ W \in Worlds /\ W.post = <<>> /\ Tail(pQueue) \in Seq(Events)
      /\ Tail(pQueue) \o <<>> = Tail(pQueue) /\ (~doubled => Agreed(W, Tail(pQueue)))
  BY <1>1, BeginsAgreed
<1> HIDE DEF W
<1>3. m \in Worlds /\ \A s \in Seq(Events) : Agreed(W, s \o W.post) => Agreed(m, s \o m.post)
  BY <1>2, FrontKeeps
<1> HIDE DEF m
<1>4. doubled => doubled'
  BY <1>1 DEF Clusters!Becomes
<1>5. ~doubled' => Agreed(m, Tail(pQueue) \o m.post)
  BY <1>2, <1>3, <1>4
<1> QED BY <1>1, <1>3, <1>5, BecomesKeeps

LEMMA CompleteKeeps ==
  ASSUME ProbeInv, Clusters!handleSignalPacerProbeObserverClusterComplete
  PROVE  ProbeInv'
<1> DEFINE W == Clusters!World
           k == Clusters!Event.id
           id == Clusters!EndsWith(W, k)
           e == Clusters!EndProbeCluster(W, k)
           d == Clusters!ProbeClusterDone(e, id)
           g == Clusters!getFrontCluster(d)
           x == [g EXCEPT !.done = @ \cup {id}]
           m == Clusters!ClusterDone(d, id)
<1>1. pQueue # <<>> /\ Clusters!Becomes(m)
  BY DEF Clusters!handleSignalPacerProbeObserverClusterComplete, Clusters!Handles
<1>2. /\ W \in Worlds /\ W.post = <<>> /\ Tail(pQueue) \in Seq(Events)
      /\ Tail(pQueue) \o <<>> = Tail(pQueue) /\ (~doubled => Agreed(W, Tail(pQueue)))
      /\ Clusters!Event \in Events
  BY <1>1, BeginsAgreed
<1>3. k \in Nat
  BY <1>2 DEF Events
<1> HIDE DEF W, k
<1>4. id \in Nat /\ (W.in /\ W.pid = k => id = k) /\ (~(W.in /\ W.pid = k) => id = 0)
  BY <1>3 DEF Clusters!EndsWith, Clusters!ProbeClusterIdInvalid
<1>5. /\ e \in Worlds /\ e.id = W.id /\ e.post = W.post /\ e.cid = W.cid /\ e.ctl = W.ctl
      /\ e.pid = W.pid /\ e.q = W.q /\ e.act = W.act
      /\ (W.in /\ W.pid = k => e.in = FALSE) /\ (~(W.in /\ W.pid = k) => e.in = W.in)
  BY ZenonT(60), <1>2 DEF Clusters!EndProbeCluster, Worlds
<1> HIDE DEF id, e
<1>6. /\ d \in Worlds /\ d.id = W.id /\ d.post = W.post /\ d.cid = W.cid /\ d.pid = W.pid
      /\ d.in = e.in /\ d.q = W.q /\ d.act = W.act
      /\ (W.cid = id => d.ctl = "hangover") /\ (W.cid # id => d.ctl = W.ctl)
  BY ZenonT(60), <1>4, <1>5 DEF Clusters!ProbeClusterDone, Worlds
<1> HIDE DEF d
<1>7. ASSUME NEW s \in Seq(Events), Agreed(W, s) PROVE Agreed(d, s)
  <2>1. OneProbe(W) /\ OneCluster(W) /\ OneStart(W, s)
    BY <1>7 DEF Agreed
  <2>2. OneCluster(d) /\ OneStart(d, s)
    BY <1>6, <2>1 DEF OneCluster, OneStart
  <2>3. OneProbe(d)
    <3>1. CASE W.in /\ W.pid = k
      <4>1. W.cid = W.id /\ W.pid = W.id /\ W.id # 0 /\ id = k /\ d.in = FALSE
        BY <3>1, <2>1, <1>4, <1>5, <1>6 DEF OneProbe
      <4>2. d.ctl = "hangover"
        BY <3>1, <4>1, <1>6
      <4> QED BY <4>1, <4>2, <1>6 DEF OneProbe
    <3>2. CASE ~(W.in /\ W.pid = k)
      <4>1. id = 0 /\ d.in = W.in
        BY <3>2, <1>4, <1>5, <1>6
      <4>2. CASE W.id = 0
        BY <4>1, <4>2, <2>1, <1>6 DEF OneProbe
      <4>3. CASE W.id # 0
        <5>1. W.cid # id
          BY <4>1, <4>3, <2>1 DEF OneProbe
        <5> QED BY <4>1, <5>1, <2>1, <1>6 DEF OneProbe
      <4> QED BY <4>2, <4>3
    <3> QED BY <3>1, <3>2
  <2> QED BY <2>2, <2>3 DEF Agreed
<1>8. g \in Worlds /\ \A s \in Seq(Events) : Agreed(d, s \o d.post) => Agreed(g, s \o g.post)
  BY <1>6, FrontKeeps
<1>9. m = (IF g.act = 0 \/ g.act # id THEN g ELSE Clusters!popFrontCluster(x, id))
  BY DEF Clusters!ClusterDone
<1> HIDE DEF g
<1>10. /\ x \in Worlds /\ x.id = g.id /\ x.post = g.post /\ x.cid = g.cid /\ x.ctl = g.ctl
       /\ x.pid = g.pid /\ x.q = g.q /\ x.act = g.act /\ x.in = g.in
  <2> DEFINE dn == g.done \cup {id}
  <2>1. dn \in SUBSET Nat /\ x = [g EXCEPT !.done = dn]
    BY <1>4, <1>8 DEF Worlds
  <2> HIDE DEF dn, x
  <2> QED BY <1>8, <2>1 DEF Worlds
<1>11. \A s \in Seq(Events) : Agreed(g, s) => Agreed(x, s)
  BY <1>10 DEF Agreed, OneProbe, OneCluster, OneStart
<1> HIDE DEF x
<1>12. m \in Worlds /\ m.post = g.post /\ \A s \in Seq(Events) : Agreed(g, s) => Agreed(m, s)
  <2>1. CASE g.act = 0 \/ g.act # id
    BY <2>1, <1>8, <1>9
  <2>2. CASE ~(g.act = 0 \/ g.act # id)
    BY SMTT(30), <2>2, <1>4, <1>9, <1>10, <1>11, PopKeeps
  <2> QED BY <2>1, <2>2
<1> HIDE DEF m
<1>13. doubled => doubled'
  BY <1>1 DEF Clusters!Becomes
<1>14. ~doubled' => Agreed(m, Tail(pQueue) \o m.post)
  <2>1. Tail(pQueue) \o g.post \in Seq(Events)
    BY <1>2, <1>8 DEF Worlds
  <2> QED BY <2>1, <1>2, <1>6, <1>7, <1>8, <1>12, <1>13
<1> QED BY <1>1, <1>12, <1>14, BecomesKeeps

LEMMA EstimateKeeps ==
  ASSUME ProbeInv, Clusters!handleSignalEstimate
  PROVE  ProbeInv'
<1> DEFINE W == Clusters!World
           M == [W EXCEPT !.bcap = "measured"]
           event(x, to) == [ev |-> "Congestion", id |-> 0, from |-> W.bwe, to |-> to, cap |-> x.bcap]
           says(x, to) == [x EXCEPT !.bwe = to, !.post = Append(@, event(x, to))]
<1>1. pQueue # <<>>
  BY DEF Clusters!handleSignalEstimate, Clusters!Handles
<1>2. /\ W \in Worlds /\ W.post = <<>> /\ Tail(pQueue) \in Seq(Events)
      /\ Tail(pQueue) \o <<>> = Tail(pQueue) /\ (~doubled => Agreed(W, Tail(pQueue)))
  BY <1>1, BeginsAgreed
<1>3. PICK m : /\ Clusters!Becomes(m)
               /\ \/ m = W
                  \/ \E x \in {W, M}, to \in Congestions : m = says(x, to)
  <2>1. PICK m \in {W} \cup (IF W.bwe = "none" /\ W.ctl # "none" THEN {says(W, "congested")} ELSE {})
              \cup (IF W.bwe = "none" /\ ~(W.ctl # "none") THEN {says(M, "congested")} ELSE {})
              \cup (IF W.bwe = "congested" /\ ~(W.ctl # "none")
                    THEN {says(M, "congested"), says(W, "none")} ELSE {}) : Clusters!Becomes(m)
    BY DEF Clusters!handleSignalEstimate
  <2> HIDE DEF W, M, says
  <2>2. \/ m = W \/ m = says(W, "congested") \/ m = says(M, "congested") \/ m = says(W, "none")
    BY <2>1
  <2> QED BY <2>1, <2>2 DEF Congestions
<1> HIDE DEF W, says
<1>4. /\ M \in Worlds /\ M.id = W.id /\ M.post = W.post /\ M.cid = W.cid /\ M.ctl = W.ctl
      /\ M.pid = W.pid /\ M.q = W.q /\ M.act = W.act /\ M.in = W.in
  BY <1>2 DEF Worlds, Caps
<1> HIDE DEF M
<1>5. \A s : Agreed(W, s) => Agreed(M, s)
  BY <1>4 DEF Agreed, OneProbe, OneCluster, OneStart
<1>6. doubled => doubled'
  BY <1>3 DEF Clusters!Becomes
<1>7. CASE m = W
  BY <1>1, <1>2, <1>3, <1>6, <1>7, BecomesKeeps
<1>8. ASSUME NEW x \in {W, M}, NEW to \in Congestions, m = says(x, to) PROVE ProbeInv'
  <2>1. x \in Worlds /\ x.post = <<>> /\ \A s : Agreed(W, s) => Agreed(x, s)
    BY <1>2, <1>4, <1>5, <1>8
  <2> DEFINE e == event(x, to)
  <2>2. e \in Events /\ e.ev = "Congestion"
    <3>1. W.bwe \in Congestions /\ x.bcap \in Caps
      BY <1>2, <2>1 DEF Worlds
    <3> QED BY <3>1 DEF Events
  <2>3. m = [x EXCEPT !.bwe = to, !.post = Append(x.post, e)]
    BY <1>8, <2>1 DEF Worlds, says
  <2> HIDE DEF e
  <2> DEFINE p == Append(x.post, e)
  <2>4. p \in Seq(Events) /\ Tail(pQueue) \o p = Append(Tail(pQueue), e)
    BY <2>1, <2>2, <1>2
  <2> HIDE DEF p
  <2>5. m = [x EXCEPT !.bwe = to, !.post = p]
    BY <2>3 DEF p
  <2>6. /\ m \in Worlds /\ m.id = x.id /\ m.post = p /\ m.cid = x.cid /\ m.ctl = x.ctl
        /\ m.pid = x.pid /\ m.q = x.q /\ m.act = x.act /\ m.in = x.in
    BY <2>1, <2>4, <2>5 DEF Worlds
  <2>7. ASSUME Agreed(x, Tail(pQueue)) PROVE Agreed(m, Tail(pQueue) \o p)
    <3>1. /\ NoSwitch(Tail(pQueue)) => NoSwitch(Append(Tail(pQueue), e))
          /\ OneSwitch(Tail(pQueue)) => OneSwitch(Append(Tail(pQueue), e))
      BY <1>2, <2>2, AddedEvent
    <3> QED BY <2>4, <2>6, <2>7, <3>1 DEF Agreed, OneProbe, OneCluster, OneStart
  <2>8. ~doubled' => Agreed(m, Tail(pQueue) \o m.post)
    BY <1>2, <1>6, <2>1, <2>6, <2>7
  <2> QED BY <1>1, <1>3, <2>6, <2>8, BecomesKeeps
<1> QED BY <1>3, <1>7, <1>8

LEMMA CongestionKeeps ==
  ASSUME ProbeInv, Clusters!handleSignalCongestionStateChange
  PROVE  ProbeInv'
<1> DEFINE W == Clusters!World
           E == Clusters!Event
           w == IF E.to # "none" THEN Clusters!maybeStopProbe(W) ELSE W
           c == [w EXCEPT !.cong = TRUE]
           k == [w EXCEPT !.cap = E.cap]
<1>1. pQueue # <<>> /\ E.ev = "Congestion"
  BY DEF Clusters!handleSignalCongestionStateChange, Clusters!Handles
<1>2. /\ W \in Worlds /\ W.post = <<>> /\ Tail(pQueue) \in Seq(Events)
      /\ Tail(pQueue) \o <<>> = Tail(pQueue) /\ (~doubled => Agreed(W, Tail(pQueue)))
      /\ E \in Events
  BY <1>1, BeginsAgreed
<1>3. \/ Clusters!Becomes(w)
      \/ Clusters!Becomes(c)
      \/ \E st \in {"STABLE", "DEFICIENT"} : Clusters!Becomes(Clusters!setState(k, st))
  BY DEF Clusters!handleSignalCongestionStateChange
<1>4. E.cap \in Caps
  BY <1>1, <1>2 DEF Events
<1> HIDE DEF W, E
<1>5. w \in Worlds /\ w.post = <<>> /\ \A s \in Seq(Events) : Agreed(W, s) => Agreed(w, s)
  BY <1>2, StopKeeps
<1> HIDE DEF w
<1>6. /\ c \in Worlds /\ c.id = w.id /\ c.post = w.post /\ c.cid = w.cid /\ c.ctl = w.ctl
      /\ c.pid = w.pid /\ c.q = w.q /\ c.act = w.act /\ c.in = w.in
  BY <1>5 DEF Worlds
<1>7. /\ k \in Worlds /\ k.id = w.id /\ k.post = w.post /\ k.cid = w.cid /\ k.ctl = w.ctl
      /\ k.pid = w.pid /\ k.q = w.q /\ k.act = w.act /\ k.in = w.in
  BY <1>4, <1>5 DEF Worlds
<1> HIDE DEF c, k
<1>8. \A s : Agreed(w, s) => Agreed(c, s) /\ Agreed(k, s)
  BY <1>6, <1>7 DEF Agreed, OneProbe, OneCluster, OneStart
<1>9. ASSUME NEW m \in Worlds, m.post = <<>>, Clusters!Becomes(m),
             \A s \in Seq(Events) : Agreed(w, s) => Agreed(m, s)
      PROVE  ProbeInv'
  <2>1. doubled => doubled'
    BY <1>9 DEF Clusters!Becomes
  <2>2. ~doubled' => Agreed(m, Tail(pQueue) \o m.post)
    BY <1>2, <1>5, <1>9, <2>1
  <2> QED BY <1>1, <1>9, <2>2, BecomesKeeps
<1>10. CASE Clusters!Becomes(w)
  BY <1>5, <1>9, <1>10
<1>11. CASE Clusters!Becomes(c)
  BY <1>5, <1>6, <1>8, <1>9, <1>11
<1>12. ASSUME NEW st \in {"STABLE", "DEFICIENT"}, Clusters!Becomes(Clusters!setState(k, st))
       PROVE  ProbeInv'
  <2> DEFINE m == Clusters!setState(k, st)
  <2>1. /\ m \in Worlds /\ m.post = k.post
        /\ \A s \in Seq(Events) : Agreed(k, s) => Agreed(m, s)
    BY <1>7, SetStateKeeps
  <2>2. Clusters!Becomes(m)
    BY <1>12
  <2> HIDE DEF m
  <2> QED BY <1>5, <1>7, <1>8, <1>9, <2>1, <2>2
<1> QED BY <1>3, <1>10, <1>11, <1>12

LEMMA FinalizeKeeps ==
  ASSUME NEW w \in Worlds, w.post = <<>>, w.last = lastId, w.run = FALSE, w.q \in {clusters, <<>>},
         NEW m \in Clusters!PingFinalizes(w)
  PROVE  /\ m \in Worlds /\ m.post = <<>> /\ m.last = lastId /\ m.run = FALSE /\ m.q \in {clusters, <<>>}
         /\ \A s \in Seq(Events) : Agreed(w, s) => Agreed(m, s)
<1> DEFINE f == [w EXCEPT !.ctl = "none", !.bwe = "none", !.id = 0]
           k(c) == [f EXCEPT !.cap = c, !.bcap = c]
<1>1. CASE m = w
  BY <1>1
<1>2. CASE m # w
  <2>1. /\ w.id # 0 /\ w.ctl = "hangover"
        /\ \/ m = f
           \/ \E c \in {w.cap, "measured"}, st \in {w.st, "STABLE"} : m = Clusters!setState(k(c), st)
    BY <1>2 DEF Clusters!PingFinalizes, Clusters!ProbeClusterIdInvalid
  <2>2. /\ f \in Worlds /\ f.id = 0 /\ f.post = w.post /\ f.last = w.last /\ f.run = w.run
        /\ f.q = w.q /\ f.act = w.act /\ f.in = w.in /\ f.ctl = "none" /\ f.st = w.st
    <3>1. 0 \in Nat /\ "none" \in {"none", "probing", "hangover"} /\ "none" \in Congestions
      BY DEF Congestions
    <3> QED BY <3>1 DEF Worlds
  <2> HIDE DEF f
  <2>3. ASSUME NEW s \in Seq(Events), Agreed(w, s) PROVE Agreed(f, s)
    <3>1. w.in = FALSE
      BY <2>1, <2>3 DEF Agreed, OneProbe, Worlds
    <3> QED BY <2>2, <2>3, <3>1 DEF Agreed, OneProbe, OneCluster, OneStart
  <2>4. CASE m = f
    BY <2>2, <2>3, <2>4
  <2>5. ASSUME NEW c \in {w.cap, "measured"}, NEW st \in {w.st, "STABLE"},
               m = Clusters!setState(k(c), st)
        PROVE  /\ m \in Worlds /\ m.post = <<>> /\ m.last = lastId /\ m.run = FALSE
               /\ m.q \in {clusters, <<>>}
               /\ \A s \in Seq(Events) : Agreed(w, s) => Agreed(m, s)
    <3>1. c \in Caps /\ st \in {"STABLE", "DEFICIENT"}
      BY DEF Worlds, Caps
    <3> DEFINE x == k(c)
    <3>2. /\ x \in Worlds /\ x.id = f.id /\ x.post = f.post /\ x.last = f.last /\ x.run = f.run
          /\ x.q = f.q /\ x.act = f.act /\ x.in = f.in /\ x.ctl = f.ctl /\ x.cid = f.cid /\ x.pid = f.pid
      BY <2>2, <3>1 DEF Worlds
    <3> HIDE DEF x
    <3>3. \A s : Agreed(f, s) => Agreed(x, s)
      BY <3>2 DEF Agreed, OneProbe, OneCluster, OneStart
    <3>4. m = Clusters!setState(x, st)
      BY <2>5 DEF x
    <3>5. /\ m \in Worlds /\ m.post = x.post /\ m.last = x.last /\ m.run = x.run
          /\ m.q \in {x.q, <<>>}
          /\ \A s \in Seq(Events) : Agreed(x, s) => Agreed(m, s)
      BY <3>1, <3>2, <3>4, SetStateKeeps
    <3> QED BY <2>2, <2>3, <3>2, <3>3, <3>5
  <2> QED BY <2>1, <2>4, <2>5
<1> QED BY <1>1, <1>2

LEMMA PingKeeps ==
  ASSUME ProbeInv, Clusters!handleSignalPeriodicPing
  PROVE  ProbeInv'
<1> DEFINE W == Clusters!World
           T == Tail(pQueue)
           Same(w) == /\ w \in Worlds /\ w.post = <<>> /\ w.last = lastId /\ w.run = FALSE
                      /\ w.q \in {clusters, <<>>} /\ (~doubled => Agreed(w, T))
<1>1. pQueue # <<>>
  BY DEF Clusters!handleSignalPeriodicPing, Clusters!Handles
<1>2. Same(W) /\ T \in Seq(Events) /\ T \o <<>> = T
  BY <1>1, BeginsAgreed
<1>3. PICK w1 \in Clusters!PingResets(W) : \E w2 \in Clusters!PingStops(w1) :
        \E w3 \in Clusters!PingFinalizes(w2) : \E w4 \in Clusters!maybeProbe(w3) : Clusters!Becomes(w4)
  BY DEF Clusters!handleSignalPeriodicPing
<1>4. PICK w2 \in Clusters!PingStops(w1) :
         \E w3 \in Clusters!PingFinalizes(w2) : \E w4 \in Clusters!maybeProbe(w3) : Clusters!Becomes(w4)
  BY <1>3
<1>5. PICK w3 \in Clusters!PingFinalizes(w2) : \E w4 \in Clusters!maybeProbe(w3) : Clusters!Becomes(w4)
  BY <1>4
<1>6. PICK w4 \in Clusters!maybeProbe(w3) : Clusters!Becomes(w4)
  BY <1>5
<1> HIDE DEF W, T
<1>7. Same(w1)
  <2>1. w1 = W \/ w1 = Restarted(W)
    BY <1>3 DEF Clusters!PingResets, Restarted, Named, Clusters!ProbeClusterIdInvalid
  <2>2. CASE w1 = W
    BY <1>2, <2>2
  <2>3. CASE w1 = Restarted(W)
    BY <1>2, <2>3, RestartKeeps
  <2> QED BY <2>1, <2>2, <2>3
<1>8. Same(w2)
  <2> DEFINE g == [w1 EXCEPT !.goal = TRUE]
  <2>1. w2 = w1 \/ w2 = Clusters!maybeStopProbe(g)
    BY <1>4 DEF Clusters!PingStops
  <2>2. /\ g \in Worlds /\ g.id = w1.id /\ g.post = w1.post /\ g.last = w1.last /\ g.run = w1.run
        /\ g.q = w1.q /\ g.act = w1.act /\ g.in = w1.in /\ g.ctl = w1.ctl
        /\ g.cid = w1.cid /\ g.pid = w1.pid
    BY <1>7 DEF Worlds
  <2> HIDE DEF g
  <2>3. Same(g)
    BY <1>7, <2>2 DEF Agreed, OneProbe, OneCluster, OneStart
  <2>4. CASE w2 = Clusters!maybeStopProbe(g)
    BY <1>2, <2>3, <2>4, StopKeeps
  <2> QED BY <1>7, <2>1, <2>4
<1>9. Same(w3)
  BY <1>2, <1>5, <1>8, FinalizeKeeps
<1>10. doubled' =
         (doubled \/ (w4.last # lastId /\ (clusters # <<>> \/ \E i \in DOMAIN pQueue : pQueue[i].ev = "Switch")))
  BY <1>6 DEF Clusters!Becomes
<1>11. CASE w4 = w3
  BY <1>1, <1>2, <1>6, <1>9, <1>10, <1>11, BecomesKeeps DEF T
<1>12. CASE w4 # w3
  <2> DEFINE n == w3.last + 1
             r == Append(w3.q, n)
             b == (w3.q = <<>>)
  <2>1. /\ w3.ctl = "none"
        /\ w4 = [w3 EXCEPT !.last = @ + 1, !.q = Append(@, w3.last + 1), !.run = (w3.q = <<>>)]
    BY <1>6, <1>12 DEF Clusters!maybeProbe, Clusters!AddCluster
  <2>2. n \in Nat /\ n # 0 /\ n # lastId /\ r \in Seq(Nat) /\ b \in BOOLEAN
    BY <1>9 DEF Worlds
  <2>3. w4 = [w3 EXCEPT !.last = n, !.q = r, !.run = b]
    BY <1>9, <2>1 DEF Worlds
  <2>4. w3.q = <<>> => r = <<n>>
    OBVIOUS
  <2> HIDE DEF n, r, b
  <2>5. /\ w4 \in Worlds /\ w4.id = w3.id /\ w4.post = w3.post /\ w4.last = n
        /\ w4.q = r /\ w4.act = w3.act /\ w4.in = w3.in /\ w4.ctl = w3.ctl /\ w4.cid = w3.cid
        /\ w4.pid = w3.pid
    BY <1>9, <2>2, <2>3 DEF Worlds
  <2>6. ASSUME ~doubled' PROVE Agreed(w4, T)
    <3>1. ~doubled /\ clusters = <<>> /\ ~\E i \in DOMAIN pQueue : pQueue[i].ev = "Switch"
      BY <1>10, <2>2, <2>5, <2>6
    <3>2. NoSwitch(pQueue)
      BY <3>1 DEF ProbeInv, NoSwitch
    <3>3. NoSwitch(T) /\ OneSwitch(T)
      BY <1>1, <3>2, TakenEvent DEF ProbeInv, T, NoSwitch, OneSwitch
    <3>4. Agreed(w3, T) /\ w3.q = <<>>
      BY <1>9, <3>1
    <3>5. w3.act = 0 /\ w3.id = 0 /\ ~w3.in
      BY <3>4, <2>1 DEF Agreed, OneProbe, OneCluster
    <3>6. r = <<n>> /\ Len(r) = 1 /\ r[1] = n /\ r # <<>>
      <4>1. r = <<n>>
        BY <2>4, <3>4
      <4>2. Len(<<n>>) = 1 /\ <<n>>[1] = n /\ <<n>> # <<>>
        OBVIOUS
      <4> QED BY <4>1, <4>2
    <3>7. OneProbe(w4)
      BY <2>5, <3>5 DEF OneProbe
    <3>8. OneCluster(w4)
      BY <2>2, <2>5, <3>5, <3>6 DEF OneCluster
    <3>9. OneStart(w4, T)
      BY <2>5, <3>3, <3>5 DEF OneStart
    <3> QED BY <3>7, <3>8, <3>9 DEF Agreed
  <2>7. w4.post = <<>>
    BY <1>9, <2>5
  <2> QED BY <1>1, <1>2, <1>6, <2>5, <2>6, <2>7, BecomesKeeps DEF T
<1> QED BY <1>11, <1>12

(* The other goroutines leave most of the world alone.                      *)
LEMMA QueueKeeps ==
  ASSUME ProbeInv, NEW e \in Events, e.ev # "Switch", pQueue' \in {pQueue, Append(pQueue, e)},
         UNCHANGED <<pState, activeId, goalReached, congesting, saCapacity, clusters, activeCluster,
                     completed, lastId, inProbe, pacerId, ctl, ctlId, bweState, bweCapacity, doubled>>,
         pacerEnded' \in BOOLEAN
  PROVE  ProbeInv'
<1> DEFINE W == Clusters!World
           n == Clusters!World'
<1>1. /\ pQueue' \in Seq(Events)
      /\ NoSwitch(pQueue) => NoSwitch(pQueue')
      /\ OneSwitch(pQueue) => OneSwitch(pQueue')
  BY AddedEvent DEF ProbeInv
<1>2. /\ n.id = W.id /\ n.q = W.q /\ n.act = W.act /\ n.in = W.in /\ n.pid = W.pid
      /\ n.ctl = W.ctl /\ n.cid = W.cid
  BY DEF Clusters!World
<1>3. n \in Worlds
  BY DEF ProbeInv, Clusters!World, Worlds
<1> HIDE DEF W, n
<1>4. \A s : Agreed(W, s) => Agreed(n, s)
  BY <1>2 DEF Agreed, OneProbe, OneCluster, OneStart
<1>5. \A s : Agreed(n, pQueue) => Agreed(n, pQueue')
  BY <1>1 DEF Agreed, OneStart
<1> QED BY <1>1, <1>3, <1>4, <1>5 DEF ProbeInv, W, n

LEMMA RunFrontKeeps ==
  ASSUME ProbeInv, NEW r \in Runners, Clusters!RunFront(r)
  PROVE  ProbeInv'
<1> DEFINE W == Clusters!World
           m == Clusters!getFrontCluster(W)
           n == Clusters!World'
<1>1. /\ W \in Worlds /\ pQueue \in Seq(Events) /\ W.post = <<>> /\ pQueue \o <<>> = pQueue
      /\ ~doubled => Agreed(W, pQueue)
  <2>1. W.post = <<>>
    BY DEF Clusters!World
  <2> QED BY <2>1 DEF ProbeInv
<1>2. /\ activeCluster' = m.act /\ pQueue' = pQueue \o m.post
      /\ UNCHANGED <<pState, activeId, goalReached, congesting, saCapacity, clusters, completed,
                     lastId, inProbe, pacerId, pacerEnded, ctl, ctlId, bweState, bweCapacity, doubled>>
  BY DEF Clusters!RunFront, Clusters!NotWorker, Clusters!saVars, Clusters!bweVars, Clusters!pacerVars
<1>3. /\ W.id = activeId /\ W.q = clusters /\ W.in = inProbe /\ W.pid = pacerId /\ W.ctl = ctl
      /\ W.cid = ctlId
  BY DEF Clusters!World
<1>4. /\ n.id = activeId /\ n.q = clusters /\ n.in = inProbe /\ n.pid = pacerId /\ n.ctl = ctl
      /\ n.cid = ctlId /\ n.act = m.act
  BY <1>2 DEF Clusters!World
<1>5. /\ m \in Worlds /\ m.id = W.id /\ m.in = W.in /\ m.q = W.q
      /\ \A s \in Seq(Events) : Agreed(W, s \o W.post) => Agreed(m, s \o m.post)
  <2> HIDE DEF W
  <2> QED BY <1>1, FrontKeeps
<1>6. m.pid = W.pid /\ m.ctl = W.ctl /\ m.cid = W.cid
  <2>1. DOMAIN W = {"st", "id", "goal", "cong", "cap", "q", "act", "done", "last", "in", "pid",
                    "ended", "ctl", "cid", "bwe", "bcap", "post", "run"}
    BY DEF Clusters!World
  <2> HIDE DEF W
  <2> QED BY <2>1 DEF Clusters!getFrontCluster
<1>7. n \in Worlds
  <2>1. m.act \in Nat
    BY <1>5 DEF Worlds
  <2> HIDE DEF m
  <2> QED BY <1>1, <1>2, <2>1 DEF Clusters!World, Worlds
<1> HIDE DEF W, m, n
<1>8. pQueue' \in Seq(Events)
  <2>1. m.post \in Seq(Events)
    BY <1>5 DEF Worlds
  <2> QED BY <1>1, <1>2, <2>1
<1>9. ~doubled' => Agreed(n, pQueue')
  <2>1. ~doubled => Agreed(m, pQueue')
    BY <1>1, <1>2, <1>5
  <2> QED BY <1>2, <1>3, <1>4, <1>5, <1>6, <2>1 DEF Agreed, OneProbe, OneCluster, OneStart
<1> QED BY <1>7, <1>8, <1>9 DEF ProbeInv, n

LEMMA RunProcessKeeps ==
  ASSUME ProbeInv, NEW r \in Runners, Clusters!RunProcess(r)
  PROVE  ProbeInv'
<1>1. CASE runner[r].id \in completed
  <2> DEFINE W == Clusters!World
             id == runner[r].id
             m == Clusters!popFrontCluster(W, id)
             n == Clusters!World'
  <2>1. /\ W \in Worlds /\ pQueue \in Seq(Events) /\ (~doubled => Agreed(W, pQueue))
    BY DEF ProbeInv
  <2>2. /\ activeCluster' = m.act /\ clusters' = m.q
        /\ UNCHANGED <<pState, activeId, goalReached, congesting, saCapacity, completed, lastId, inProbe,
                       pacerId, pacerEnded, ctl, ctlId, bweState, bweCapacity, doubled, pQueue>>
    BY <1>1 DEF Clusters!RunProcess, Clusters!NotWorker, Clusters!saVars, Clusters!bweVars,
       Clusters!pacerVars
  <2>3. id \in Nat
    BY <1>1 DEF ProbeInv, Clusters!World, Worlds
  <2>4. /\ W.id = activeId /\ W.in = inProbe /\ W.pid = pacerId /\ W.ctl = ctl /\ W.cid = ctlId
    BY DEF Clusters!World
  <2>5. /\ n.id = activeId /\ n.q = m.q /\ n.in = inProbe /\ n.pid = pacerId /\ n.ctl = ctl
        /\ n.cid = ctlId /\ n.act = m.act
    BY <2>2 DEF Clusters!World
  <2>6. m \in Worlds /\ \A s \in Seq(Events) : Agreed(W, s) => Agreed(m, s)
    <3> HIDE DEF W, id
    <3> QED BY <2>1, <2>3, PopKeeps
  <2>7. m.id = W.id /\ m.in = W.in /\ m.pid = W.pid /\ m.ctl = W.ctl /\ m.cid = W.cid
    <3>1. DOMAIN W = {"st", "id", "goal", "cong", "cap", "q", "act", "done", "last", "in", "pid",
                      "ended", "ctl", "cid", "bwe", "bcap", "post", "run"}
      BY DEF Clusters!World
    <3> HIDE DEF W, id
    <3> QED BY <3>1 DEF Clusters!popFrontCluster
  <2>8. n \in Worlds
    <3>1. m.act \in Nat /\ m.q \in Seq(Nat)
      BY <2>6 DEF Worlds
    <3> HIDE DEF m
    <3> QED BY <2>1, <2>2, <3>1 DEF Clusters!World, Worlds
  <2> HIDE DEF W, m, n
  <2>9. ~doubled' => Agreed(n, pQueue')
    <3>1. ~doubled => Agreed(m, pQueue)
      BY <2>1, <2>6
    <3> QED BY <2>2, <2>4, <2>5, <2>7, <3>1 DEF Agreed, OneProbe, OneCluster, OneStart
  <2> QED BY <2>1, <2>2, <2>8, <2>9 DEF ProbeInv, n
<1>2. CASE runner[r].id \notin completed
  <2> DEFINE e == [ev |-> "SendProbe", id |-> 0]
  <2>1. e \in Events /\ e.ev # "Switch"
    BY DEF Events
  <2>2. /\ pQueue' \in {pQueue, Append(pQueue, e)}
        /\ UNCHANGED <<pState, activeId, goalReached, congesting, saCapacity, clusters, activeCluster,
                       completed, lastId, inProbe, pacerId, pacerEnded, ctl, ctlId, bweState,
                       bweCapacity, doubled>>
    BY <1>2 DEF Clusters!RunProcess, Clusters!NotWorker, Clusters!saVars, Clusters!bweVars,
       Clusters!pacerVars
  <2>3. pacerEnded' \in BOOLEAN
    BY <2>2 DEF ProbeInv, Clusters!World, Worlds
  <2> HIDE DEF e
  <2> QED BY <2>1, <2>2, <2>3, QueueKeeps
<1> QED BY <1>1, <1>2

LEMMA EnqueueKeeps ==
  ASSUME ProbeInv, NEW v \in {"Ping", "Allocate", "Estimate"}, Clusters!Enqueue(v)
  PROVE  ProbeInv'
<1> DEFINE e == [ev |-> v, id |-> 0]
<1>1. e \in Events /\ e.ev # "Switch"
  BY DEF Events
<1>2. /\ pQueue' \in {pQueue, Append(pQueue, e)}
      /\ UNCHANGED <<pState, activeId, goalReached, congesting, saCapacity, clusters, activeCluster,
                     completed, lastId, inProbe, pacerId, pacerEnded, ctl, ctlId, bweState,
                     bweCapacity, doubled>>
  BY DEF Clusters!Enqueue, Clusters!proberVars, Clusters!pacerVars, Clusters!bweVars, Clusters!saVars
<1>3. pacerEnded' \in BOOLEAN
  BY <1>2 DEF ProbeInv, Clusters!World, Worlds
<1> HIDE DEF e
<1> QED BY <1>1, <1>2, <1>3, QueueKeeps

LEMMA RecordPacketKeeps ==
  ASSUME ProbeInv, Clusters!RecordPacket
  PROVE  ProbeInv'
<1> DEFINE e == [ev |-> "Complete", id |-> pacerId]
<1>1. e \in Events /\ e.ev # "Switch"
  BY DEF Events, ProbeInv, Clusters!World, Worlds
<1>2. /\ pQueue' \in {pQueue, Append(pQueue, e)}
      /\ UNCHANGED <<pState, activeId, goalReached, congesting, saCapacity, clusters, activeCluster,
                     completed, lastId, inProbe, pacerId, ctl, ctlId, bweState, bweCapacity, doubled>>
      /\ pacerEnded' = TRUE
  BY DEF Clusters!RecordPacket, Clusters!proberVars, Clusters!bweVars, Clusters!saVars
<1> HIDE DEF e
<1> QED BY <1>1, <1>2, QueueKeeps

LEMMA ProbeNextKeeps ==
  ASSUME ProbeInv, Clusters!ProbeNext
  PROVE  ProbeInv'
<1>1. CASE Clusters!Worker
  BY <1>1, AllocateKeeps, PingKeeps, SwitchKeeps, SendKeeps, CompleteKeeps, EstimateKeeps,
     CongestionKeeps DEF Clusters!Worker
<1>2. CASE Clusters!RecordPacket
  BY <1>2, RecordPacketKeeps
<1>3. CASE Clusters!Ping \/ Clusters!Allocate \/ Clusters!Estimate
  BY <1>3, EnqueueKeeps DEF Clusters!Ping, Clusters!Allocate, Clusters!Estimate
<1>4. ASSUME NEW r \in Runners, Clusters!RunFront(r) \/ Clusters!RunProcess(r) PROVE ProbeInv'
  BY <1>4, RunFrontKeeps, RunProcessKeeps
<1> QED BY <1>1, <1>2, <1>3, <1>4 DEF Clusters!ProbeNext

LEMMA ProbeStutters ==
  ASSUME ProbeInv, UNCHANGED probingVars
  PROVE  ProbeInv'
<1>1. pQueue' = pQueue /\ doubled' = doubled /\ Clusters!World' = Clusters!World
  BY DEF probingVars, Clusters!World
<1> QED BY <1>1 DEF ProbeInv

LEMMA ProbeInit == Clusters!ProbeInit => ProbeInv
<1> SUFFICES ASSUME Clusters!ProbeInit PROVE ProbeInv
  OBVIOUS
<1> DEFINE W == Clusters!World
<1>1. pQueue = <<>> /\ <<>> \in Seq(Events) /\ <<>> \in Seq(Nat)
  BY DEF Clusters!ProbeInit
<1>2. W \in Worlds
  BY <1>1 DEF Clusters!ProbeInit, Clusters!World, Worlds, Caps, Congestions
<1>3. W.in = FALSE /\ W.id = 0 /\ W.q = <<>> /\ W.act = 0
  BY DEF Clusters!ProbeInit, Clusters!World
<1> HIDE DEF W
<1>4. NoSwitch(pQueue) /\ OneSwitch(pQueue)
  BY <1>1 DEF NoSwitch, OneSwitch
<1>5. Agreed(W, pQueue)
  BY <1>3, <1>4 DEF Agreed, OneProbe, OneCluster, OneStart
<1> QED BY <1>1, <1>2, <1>5 DEF ProbeInv, W

(* While no cluster is added before another one has started, a probe that   *)
(* the allocator takes for active is the estimator's and can end, whatever  *)
(* order its events, the prober's goroutines and the packets come in        *)
(* (maybeStopProbe, handleSignalProbeClusterSwitch, ProbeClusterDone).      *)
THEOREM ActiveProbesEnd == PartsSpec => []ActiveCanEnd
<1> DEFINE Steps == DynacastStep \/ SharingStep \/ ProbingStep \/ ReceiverStep
<1>1. PartsInit => ProbeInv
  BY ProbeInit DEF PartsInit
<1>2. ProbeInv /\ [Steps]_allVars => ProbeInv'
  <2> SUFFICES ASSUME ProbeInv, [Steps]_allVars PROVE ProbeInv'
    OBVIOUS
  <2>1. CASE ProbingStep
    BY <2>1, ProbeNextKeeps DEF ProbingStep
  <2>2. CASE ~ProbingStep
    BY <2>2, ProbeStutters DEF DynacastStep, SharingStep, ReceiverStep, allVars
  <2> QED BY <2>1, <2>2
<1>3. ProbeInv => ActiveCanEnd
  <2> SUFFICES ASSUME ProbeInv, ~doubled, activeId # 0
               PROVE  ctlId = activeId /\ (ctl = "hangover" \/ (inProbe /\ pacerId = activeId))
    BY DEF ActiveCanEnd, Clusters!ActiveCanEnd
  <2>1. OneProbe(Clusters!World)
    BY DEF ProbeInv, Agreed
  <2> QED BY <2>1 DEF OneProbe, Clusters!World
<1> QED BY <1>1, <1>2, <1>3, PTL DEF PartsSpec

-----------------------------------------------------------------------------
(* Which layers of a video track are flowing: StreamTrackers.               *)
TLayers == 0..TopLayer
Statuses == {"stopped", "active"}
TrackerRecords ==
  [layer : TLayers, paused : BOOLEAN, gen : Nat, status : Statuses, told : Statuses,
   begun : BOOLEAN, seen : BOOLEAN, stopped : BOOLEAN]
IsNote(n) == n \in [by : {n.by}, tr : {n.tr}, at : {n.at}, status : {n.status}]

TrackTypes ==
  /\ made \in 0..MaxTrackers /\ limits \in TrackerLimits
  /\ tracker \in [1..MaxTrackers -> TrackerRecords]
  /\ trackers \in [TLayers -> 0..made]
  /\ observer \in [TLayers -> [at : {"outside", "store", "pause", "ready"}, tr : 0..made,
                               pause : BOOLEAN]]
  /\ muted \in BOOLEAN /\ maxExpected \in 0..(TopLayer + 1)
  /\ muter \in [at : {"rest", "copy", "pause"}, left : SUBSET (1..made), pause : BOOLEAN]
  /\ expecter \in [at : {"rest", "reset"}, left : SUBSET (1..made), pause : BOOLEAN]
  /\ stopping \subseteq 1..made
  /\ workers \subseteq [tr : 1..made, gen : Nat, at : {"tick", "check"}]
  /\ \A n \in tmNotes : /\ IsNote(n) /\ n.tr \in 1..made
                        /\ n.at \in {"owed", "report"} /\ n.status \in Statuses

(* A layer's forwarder has the tracker that is stored for the layer, or one *)
(* that it has yet to store; a tracker that is not stored yet is new.       *)
Stored ==
  /\ \A l \in TLayers : trackers[l] # 0 => tracker[trackers[l]].layer = l
  /\ \A l \in TLayers : observer[l].at # "outside" =>
       /\ observer[l].tr # 0 /\ tracker[observer[l].tr].layer = l
       /\ trackers[l] = IF observer[l].at = "store" THEN 0 ELSE observer[l].tr
  /\ \A l \in TLayers : observer[l].at = "store" =>
       /\ tracker[observer[l].tr].told = "stopped" /\ tracker[observer[l].tr].status = "stopped"
       /\ ~tracker[observer[l].tr].begun
  /\ \A t \in 1..MaxTrackers : t > made => tracker[t] = Tracking!NewTracker

(* A change of status is reported by somebody.                              *)
ChangeIsOwed ==
  \A t \in 1..made : tracker[t].status # tracker[t].told =>
    \E n \in tmNotes : n.tr = t /\ n.at = "owed"

(* Unless they crossed, a layer has one report on its way at most, of what  *)
(* its tracker said last, and without one the list is right.                *)
IsReport(n, l) == n.at = "report" /\ tracker[n.tr].layer = l
ReportsAreTrue ==
  \A l \in TLayers : l \notin crossed =>
    /\ \A m, n \in tmNotes : IsReport(m, l) /\ IsReport(n, l) => m = n
    /\ \A n \in tmNotes : IsReport(n, l) => n.status = tracker[n.tr].told
    /\ (\A n \in tmNotes : ~IsReport(n, l)) =>
         (l \in available <=> trackers[l] # 0 /\ tracker[trackers[l]].told = "active")

(* The mute is known to a tracker, or somebody is about to tell it.         *)
MuteIsKnown ==
  /\ muter.at # "rest" => muter.pause = muted
  /\ \A l \in TLayers : trackers[l] # 0 /\ trackers[l] \notin raced =>
       \/ tracker[trackers[l]].paused = muted
       \/ observer[l].at = "pause"
       \/ muter.at = "copy"
       \/ muter.at = "pause" /\ trackers[l] \in muter.left

(* A tracker that is active has begun, and then has a worker of its         *)
(* generation, unless it is paused or stopped.                              *)
BegunIsWatched ==
  \A t \in 1..made :
    /\ tracker[t].status = "active" => tracker[t].begun
    /\ tracker[t].begun /\ ~tracker[t].paused /\ ~tracker[t].stopped =>
         \E w \in workers : w.tr = t /\ w.gen = tracker[t].gen

TrackInv ==
  TrackTypes /\ Stored /\ ChangeIsOwed /\ ReportsAreTrue /\ MuteIsKnown /\ BegunIsWatched

-----------------------------------------------------------------------------
LEMMA LeastNat == ASSUME NEW S, S \subseteq Nat, S # {} PROVE \E x \in S : \A y \in S : x <= y
<1>1. PICK x \in S : \A y \in S : ~ (<<y, x>> \in OpToRel(<, Nat))
  BY WFMin, NatLessThanWellFounded, Zenon
<1>2. ASSUME NEW y \in S PROVE x <= y
  <2>1. <<y, x>> \in OpToRel(<, Nat) <=> y < x  BY DEF OpToRel
  <2>2. ~(y < x)  BY <1>1, <2>1, Zenon
  <2>3. x \in Nat /\ y \in Nat  OBVIOUS
  <2> QED BY <2>2, <2>3
<1> QED BY <1>2

(* The tracker that is paused, reset or stopped next is one of those left.  *)
LEMMA LowestIsOne ==
  ASSUME TrackTypes, NEW S, S \subseteq 1..made, S # {}
  PROVE  Tracking!Lowest(S) \in S
<1> DEFINE L == {tracker[u].layer : u \in S}
<1>1. \A u \in S : u \in 1..MaxTrackers
  BY TrackerBounds DEF TrackTypes
<1>2. \A u \in S : tracker[u].layer \in Nat
  BY <1>1, TrackerBounds DEF TrackTypes, TrackerRecords, TLayers
<1>3. PICK x \in L : \A y \in L : x <= y
  BY <1>2, LeastNat
<1>4. \E t \in S : \A u \in S : tracker[t].layer <= tracker[u].layer
  BY <1>3
<1> QED BY <1>4 DEF Tracking!Lowest

(* What the calls do to a tracker.                                          *)
LEMMA SetPausedFields ==
  ASSUME NEW r \in TrackerRecords, NEW p \in BOOLEAN
  PROVE  /\ Tracking!SetPaused(r, p) \in TrackerRecords
         /\ Tracking!SetPaused(r, p).layer = r.layer /\ Tracking!SetPaused(r, p).told = r.told
         /\ Tracking!SetPaused(r, p).status = "stopped"
         /\ Tracking!SetPaused(r, p).paused = p
         /\ Tracking!SetPaused(r, p).begun => p /\ r.begun
<1>1. r.gen \in Nat /\ r.gen + 1 \in Nat  BY DEF TrackerRecords
<1>2. CASE p = TRUE
  BY <1>1, <1>2 DEF Tracking!SetPaused, TrackerRecords, Statuses
<1>3. CASE p = FALSE
  BY <1>1, <1>3 DEF Tracking!SetPaused, Tracking!resetLocked, TrackerRecords, Statuses
<1> QED BY <1>2, <1>3

LEMMA ResetFields ==
  ASSUME NEW r \in TrackerRecords
  PROVE  /\ Tracking!Reset(r) \in TrackerRecords
         /\ Tracking!Reset(r).layer = r.layer /\ Tracking!Reset(r).told = r.told
         /\ Tracking!Reset(r).paused = r.paused
         /\ \/ Tracking!Reset(r) = r /\ r.stopped
            \/ Tracking!Reset(r).status = "stopped" /\ ~Tracking!Reset(r).begun
<1>1. r.gen \in Nat /\ r.gen + 1 \in Nat  BY DEF TrackerRecords
<1>2. CASE r.stopped
  BY <1>2 DEF Tracking!Reset
<1>3. CASE ~r.stopped
  BY <1>1, <1>3 DEF Tracking!Reset, Tracking!resetLocked, TrackerRecords, Statuses
<1> QED BY <1>2, <1>3

LEMMA StopFields ==
  ASSUME NEW r \in TrackerRecords
  PROVE  /\ Tracking!Stop(r) \in TrackerRecords /\ Tracking!Stop(r).stopped
         /\ Tracking!Stop(r).layer = r.layer /\ Tracking!Stop(r).told = r.told
         /\ Tracking!Stop(r).paused = r.paused /\ Tracking!Stop(r).status = r.status
         /\ Tracking!Stop(r).begun = r.begun
<1>1. r.gen \in Nat /\ r.gen + 1 \in Nat  BY DEF TrackerRecords
<1> QED BY <1>1 DEF Tracking!Stop, TrackerRecords, Statuses

-----------------------------------------------------------------------------
(* A tracker changes, but not its layer nor what it said last, and somebody *)
(* has to see whether that is a change to report.                           *)
LEMMA OwingKeeps ==
  ASSUME TrackInv, NEW t \in 1..made, NEW r \in TrackerRecords, NEW g,
         tracker' = [tracker EXCEPT ![t] = r],
         r.layer = tracker[t].layer, r.told = tracker[t].told,
         Tracking!Owes(g, t),
         UNCHANGED <<made, trackers, available, crossed>>
  PROVE  /\ tracker' \in [1..MaxTrackers -> TrackerRecords] /\ tracker'[t] = r
         /\ \A u \in 1..MaxTrackers : u # t => tracker'[u] = tracker[u]
         /\ \A u \in 1..MaxTrackers : tracker'[u].layer = tracker[u].layer
                                      /\ tracker'[u].told = tracker[u].told
         /\ \A n \in tmNotes' : /\ IsNote(n) /\ n.tr \in 1..made'
                                /\ n.at \in {"owed", "report"} /\ n.status \in Statuses
         /\ ChangeIsOwed' /\ ReportsAreTrue'
<1> DEFINE e == [by |-> g, tr |-> t, at |-> "owed", status |-> "stopped"]
<1>1. t \in 1..MaxTrackers /\ \A u \in 1..made : u \in 1..MaxTrackers
  BY TrackerBounds DEF TrackInv, TrackTypes
<1>2. /\ tracker' \in [1..MaxTrackers -> TrackerRecords] /\ tracker'[t] = r
      /\ \A u \in 1..MaxTrackers : u # t => tracker'[u] = tracker[u]
  BY <1>1 DEF TrackInv, TrackTypes
<1>3. \A u \in 1..MaxTrackers : tracker'[u].layer = tracker[u].layer
                               /\ tracker'[u].told = tracker[u].told
  BY <1>2
<1>4. /\ tmNotes' = tmNotes \cup {e} /\ e.tr = t /\ e.at = "owed" /\ e.status = "stopped"
      /\ e.by = g
  BY DEF Tracking!Owes
<1> HIDE DEF e
<1>5. \A n \in tmNotes' : /\ IsNote(n) /\ n.tr \in 1..made'
                         /\ n.at \in {"owed", "report"} /\ n.status \in Statuses
  <2>1. IsNote(e)  BY <1>4 DEF IsNote, e
  <2>2. e.tr \in 1..made /\ e.at \in {"owed", "report"} /\ e.status \in Statuses
    BY <1>4 DEF Statuses
  <2> QED BY <1>4, <2>1, <2>2 DEF TrackInv, TrackTypes
<1>6. ChangeIsOwed'
  <2> SUFFICES ASSUME NEW u \in 1..made', tracker'[u].status # tracker'[u].told
               PROVE  \E n \in tmNotes' : n.tr = u /\ n.at = "owed"
    BY DEF ChangeIsOwed
  <2>1. CASE u = t  BY <1>4, <2>1
  <2>2. CASE u # t
    <3>1. u \in 1..made /\ tracker'[u] = tracker[u]  BY <1>1, <1>2, <2>2
    <3> QED BY <1>4, <3>1 DEF TrackInv, ChangeIsOwed
  <2> QED BY <2>1, <2>2
<1>7. ReportsAreTrue'
  <2>1. \A n \in tmNotes' : n.tr \in 1..MaxTrackers
    BY <1>1, <1>5
  <2>2. \A n \in tmNotes', l \in TLayers : IsReport(n, l)' <=> n \in tmNotes /\ IsReport(n, l)
    BY <1>3, <1>4, <2>1 DEF IsReport
  <2>3. \A l \in TLayers : trackers[l] # 0 => trackers[l] \in 1..MaxTrackers
    BY <1>1 DEF TrackInv, TrackTypes
  <2>4. \A n \in tmNotes : n \in tmNotes' /\ n.tr \in 1..MaxTrackers
    BY <1>4, <2>1
  <2> SUFFICES ASSUME NEW l \in TLayers, l \notin crossed'
               PROVE /\ \A m, n \in tmNotes' : IsReport(m, l)' /\ IsReport(n, l)' => m = n
                     /\ \A n \in tmNotes' : IsReport(n, l)' => n.status = tracker'[n.tr].told
                     /\ (\A n \in tmNotes' : ~IsReport(n, l)') =>
                          (l \in available' <=> trackers'[l] # 0 /\ tracker'[trackers'[l]].told = "active")
    BY DEF ReportsAreTrue
  <2>5. \A m, n \in tmNotes' : IsReport(m, l)' /\ IsReport(n, l)' => m = n
    BY <2>2 DEF TrackInv, ReportsAreTrue
  <2>6. \A n \in tmNotes' : IsReport(n, l)' => n.status = tracker'[n.tr].told
    BY <1>3, <2>1, <2>2 DEF TrackInv, ReportsAreTrue
  <2>7. (\A n \in tmNotes' : ~IsReport(n, l)') =>
          (l \in available' <=> trackers'[l] # 0 /\ tracker'[trackers'[l]].told = "active")
    BY <1>3, <2>2, <2>3, <2>4 DEF TrackInv, ReportsAreTrue
  <2> QED BY <2>5, <2>6, <2>7
<1> QED BY <1>2, <1>3, <1>5, <1>6, <1>7

LEMMA TrackInit == ASSUME Tracking!TrackersInit PROVE TrackInv
<1> USE TrackerBounds DEF Tracking!TrackersInit, Tracking!Layers, Tracking!Trackers, TLayers
<1>1. Tracking!NewTracker \in TrackerRecords
  BY DEF Tracking!NewTracker, TrackerRecords, Statuses
<1>2. TrackTypes
  BY <1>1 DEF TrackTypes, Tracking!Outside, Tracking!Resting, Tracking!None
<1>3. Stored
  BY DEF Stored, Tracking!None, Tracking!Outside
<1>4. ChangeIsOwed  BY DEF ChangeIsOwed
<1>5. ReportsAreTrue  BY DEF ReportsAreTrue, Tracking!None
<1>6. MuteIsKnown  BY DEF MuteIsKnown, Tracking!None, Tracking!Resting
<1>7. BegunIsWatched  BY DEF BegunIsWatched
<1> QED BY <1>2, <1>3, <1>4, <1>5, <1>6, <1>7 DEF TrackInv

-----------------------------------------------------------------------------
(* The steps that leave the trackers and their reports alone.               *)
Observers(T) == [at : {"outside", "store", "pause", "ready"}, tr : T, pause : BOOLEAN]
Pausing(o, b) == [o EXCEPT !.at = "pause", !.pause = b]
LEMMA PausedFields ==
  ASSUME NEW T, NEW o \in Observers(T), NEW b \in BOOLEAN
  PROVE  /\ Pausing(o, b) \in Observers(T)
         /\ Pausing(o, b).at = "pause" /\ Pausing(o, b).tr = o.tr
BY DEF Observers, Pausing

LEMMA StoreTrackerKeeps ==
  ASSUME TrackInv, NEW l \in TLayers, Tracking!StoreTracker(l), UNCHANGED limits
  PROVE  TrackInv'
<1> DEFINE o == observer[l]
<1>1. /\ o \in [at : {"outside", "store", "pause", "ready"}, tr : 0..made, pause : BOOLEAN]
      /\ o.at = "store" /\ muted \in BOOLEAN
  BY DEF TrackInv, TrackTypes, Tracking!StoreTracker
<1> DEFINE p == Pausing(o, muted)
<1>2. observer' = [observer EXCEPT ![l] = p] /\ trackers' = [trackers EXCEPT ![l] = o.tr]
  BY DEF TrackInv, TrackTypes, Tracking!StoreTracker, Pausing
<1>a. p \in Observers(0..made) /\ p.at = "pause" /\ p.tr = o.tr
  <2>1. o \in Observers(0..made)  BY <1>1 DEF Observers
  <2> HIDE DEF o
  <2> QED BY <1>1, <2>1, PausedFields
<1> HIDE DEF p
<1>3. /\ observer'[l].at = "pause" /\ observer'[l].tr = o.tr /\ trackers'[l] = o.tr
      /\ \A k \in TLayers : k # l => observer'[k] = observer[k] /\ trackers'[k] = trackers[k]
  BY <1>2, <1>a DEF TrackInv, TrackTypes
<1>4. /\ trackers[l] = 0 /\ o.tr # 0 /\ tracker[o.tr].layer = l /\ tracker[o.tr].told = "stopped"
  BY <1>1 DEF TrackInv, Stored
<1>5. UNCHANGED <<tracker, made, available, muted, maxExpected, workers, tmNotes, muter, expecter,
                  stopping, crossed, raced>>
  BY DEF Tracking!StoreTracker
<1> HIDE DEF o
<1>6. TrackTypes'
  <2>1. observer' \in [TLayers -> [at : {"outside", "store", "pause", "ready"}, tr : 0..made,
                                   pause : BOOLEAN]]
    BY <1>2, <1>a DEF TrackInv, TrackTypes, Observers
  <2>2. trackers' \in [TLayers -> 0..made]
    BY <1>1, <1>2 DEF TrackInv, TrackTypes
  <2> QED BY <1>5, <2>1, <2>2 DEF TrackInv, TrackTypes
<1>7. Stored'
  BY <1>3, <1>4, <1>5 DEF TrackInv, Stored
<1>8. ChangeIsOwed'  BY <1>5 DEF TrackInv, ChangeIsOwed
<1>9. ReportsAreTrue'
  BY <1>3, <1>4, <1>5 DEF TrackInv, ReportsAreTrue, IsReport
<1>10. MuteIsKnown'
  BY <1>3, <1>5 DEF TrackInv, MuteIsKnown
<1>11. BegunIsWatched'  BY <1>5 DEF TrackInv, BegunIsWatched
<1> QED BY <1>6, <1>7, <1>8, <1>9, <1>10, <1>11 DEF TrackInv

LEMMA WorkerTicksKeeps ==
  ASSUME TrackInv, NEW w \in workers, Tracking!WorkerTicks(w), UNCHANGED limits
  PROVE  TrackInv'
<1>1. UNCHANGED <<tracker, made, trackers, available, muted, maxExpected, observer, tmNotes, muter, expecter,
                  stopping, crossed, raced>>
  BY DEF Tracking!WorkerTicks
<1> DEFINE v == [w EXCEPT !.at = "check"]
<1>2. /\ v \in [tr : 1..made, gen : Nat, at : {"tick", "check"}] /\ v.tr = w.tr /\ v.gen = w.gen
  <2>1. w \in [tr : 1..made, gen : Nat, at : {"tick", "check"}]  BY DEF TrackInv, TrackTypes
  <2> QED BY <2>1
<1>3. /\ workers' \subseteq workers \cup {v} /\ workers \ {w} \subseteq workers'
      /\ w.gen = tracker[w.tr].gen => v \in workers'
  BY DEF Tracking!WorkerTicks
<1> HIDE DEF v
<1>4. TrackTypes'  BY <1>1, <1>2, <1>3 DEF TrackInv, TrackTypes
<1>5. Stored'  BY <1>1 DEF TrackInv, Stored
<1>6. ChangeIsOwed'  BY <1>1 DEF TrackInv, ChangeIsOwed
<1>7. ReportsAreTrue'  BY <1>1 DEF TrackInv, ReportsAreTrue, IsReport
<1>8. MuteIsKnown'  BY <1>1 DEF TrackInv, MuteIsKnown
<1>9. BegunIsWatched'
  <2> SUFFICES ASSUME NEW t \in 1..made, NEW u \in workers, u.tr = t, u.gen = tracker[t].gen
               PROVE  \E x \in workers' : x.tr = t /\ x.gen = tracker[t].gen
    BY <1>1 DEF TrackInv, BegunIsWatched
  <2>1. CASE u = w  BY <1>2, <1>3, <2>1
  <2>2. CASE u # w  BY <1>3, <2>2
  <2> QED BY <2>1, <2>2
<1> QED BY <1>4, <1>5, <1>6, <1>7, <1>8, <1>9 DEF TrackInv

LEMMA UpdateTrackInfoKeeps ==
  ASSUME TrackInv, Tracking!UpdateTrackInfo, UNCHANGED limits
  PROVE  TrackInv'
<1>1. UNCHANGED <<tracker, made, trackers, available, maxExpected, observer, workers, tmNotes, expecter,
                  stopping, crossed, raced>>
  BY DEF Tracking!UpdateTrackInfo
<1>2. /\ muted' \in BOOLEAN /\ muter'.at = "copy" /\ muter'.pause = muted'
      /\ muter' \in [at : {"rest", "copy", "pause"}, left : SUBSET (1..made), pause : BOOLEAN]
  BY DEF Tracking!UpdateTrackInfo
<1>3. TrackTypes'  BY <1>1, <1>2 DEF TrackInv, TrackTypes
<1>4. Stored'  BY <1>1 DEF TrackInv, Stored
<1>5. ChangeIsOwed'  BY <1>1 DEF TrackInv, ChangeIsOwed
<1>6. ReportsAreTrue'  BY <1>1 DEF TrackInv, ReportsAreTrue, IsReport
<1>7. MuteIsKnown'  BY <1>2 DEF MuteIsKnown
<1>8. BegunIsWatched'  BY <1>1 DEF TrackInv, BegunIsWatched
<1> QED BY <1>3, <1>4, <1>5, <1>6, <1>7, <1>8 DEF TrackInv

LEMMA setPausedKeeps ==
  ASSUME TrackInv, Tracking!setPaused, UNCHANGED limits
  PROVE  TrackInv'
<1> DEFINE S == {trackers[l] : l \in TLayers} \ {0}
<1>1. UNCHANGED <<tracker, made, trackers, available, muted, maxExpected, observer, workers, tmNotes, expecter,
                  stopping, crossed, raced>>
  BY DEF Tracking!setPaused
<1>2. S \subseteq 1..made /\ \A l \in TLayers : trackers[l] # 0 => trackers[l] \in S
  BY DEF TrackInv, TrackTypes
<1>3. muter' = [muter EXCEPT !.at = "pause", !.left = S] /\ muter.at = "copy"
  BY DEF Tracking!setPaused, TLayers, Tracking!Layers, Tracking!None
<1> HIDE DEF S
<1>a. /\ muter'.at = "pause" /\ muter'.left = S /\ muter'.pause = muter.pause
      /\ muter' \in [at : {"rest", "copy", "pause"}, left : SUBSET (1..made), pause : BOOLEAN]
  BY <1>2, <1>3 DEF TrackInv, TrackTypes
<1>b. muter.pause = muted
  BY <1>3 DEF TrackInv, MuteIsKnown
<1>4. TrackTypes'  BY <1>1, <1>a DEF TrackInv, TrackTypes
<1>5. Stored'  BY <1>1 DEF TrackInv, Stored
<1>6. ChangeIsOwed'  BY <1>1 DEF TrackInv, ChangeIsOwed
<1>7. ReportsAreTrue'  BY <1>1 DEF TrackInv, ReportsAreTrue, IsReport
<1>8. MuteIsKnown'  BY <1>1, <1>2, <1>a, <1>b DEF MuteIsKnown
<1>9. BegunIsWatched'  BY <1>1 DEF TrackInv, BegunIsWatched
<1> QED BY <1>4, <1>5, <1>6, <1>7, <1>8, <1>9 DEF TrackInv

LEMMA SetMaxExpectedKeeps ==
  ASSUME TrackInv, NEW n \in 0..(TopLayer + 1),
         Tracking!SetMaxExpectedSpatialLayer(n), UNCHANGED limits
  PROVE  TrackInv'
<1>1. UNCHANGED <<tracker, made, trackers, available, muted, observer, workers, tmNotes, muter,
                  stopping, crossed, raced>>
  BY DEF Tracking!SetMaxExpectedSpatialLayer
<1> DEFINE S == {trackers[l] : l \in maxExpected..(n - 1)} \ {0}
<1>2. S \subseteq 1..made
  <2>1. \A l \in maxExpected..(n - 1) : l \in TLayers
    BY TrackerBounds DEF TrackInv, TrackTypes, TLayers
  <2> QED BY <2>1 DEF TrackInv, TrackTypes
<1>3. maxExpected' = n /\ expecter' \in [at : {"rest", "reset"}, left : SUBSET (1..made), pause : BOOLEAN]
  BY <1>2 DEF Tracking!SetMaxExpectedSpatialLayer, Tracking!Resting, Tracking!None
<1>4. TrackTypes'  BY <1>1, <1>3 DEF TrackInv, TrackTypes
<1>5. Stored'  BY <1>1 DEF TrackInv, Stored
<1>6. ChangeIsOwed'  BY <1>1 DEF TrackInv, ChangeIsOwed
<1>7. ReportsAreTrue'  BY <1>1 DEF TrackInv, ReportsAreTrue, IsReport
<1>8. MuteIsKnown'  BY <1>1 DEF TrackInv, MuteIsKnown
<1>9. BegunIsWatched'  BY <1>1 DEF TrackInv, BegunIsWatched
<1> QED BY <1>4, <1>5, <1>6, <1>7, <1>8, <1>9 DEF TrackInv

LEMMA RemoveAllTrackersKeeps ==
  ASSUME TrackInv, Tracking!RemoveAllTrackers, UNCHANGED limits
  PROVE  TrackInv'
<1>1. UNCHANGED <<tracker, made, muted, workers, tmNotes, muter, expecter, crossed, raced>>
  BY DEF Tracking!RemoveAllTrackers
<1>2. /\ trackers' = [l \in TLayers |-> 0] /\ observer' = [l \in TLayers |-> Tracking!Outside]
      /\ available' = {} /\ maxExpected' = TopLayer + 1
      /\ stopping' = {trackers[l] : l \in TLayers} \ {0}
  BY DEF Tracking!RemoveAllTrackers, TLayers, Tracking!Layers, Tracking!None
<1>3. TrackTypes'
  <2>1. stopping' \subseteq 1..made  BY <1>2 DEF TrackInv, TrackTypes
  <2>2. trackers' \in [TLayers -> 0..made]  BY <1>2 DEF TrackInv, TrackTypes
  <2>3. observer' \in [TLayers -> [at : {"outside", "store", "pause", "ready"}, tr : 0..made,
                                   pause : BOOLEAN]]
    <3>1. Tracking!Outside \in [at : {"outside", "store", "pause", "ready"}, tr : 0..made, pause : BOOLEAN]
      BY DEF Tracking!Outside, Tracking!None, TrackInv, TrackTypes
    <3> QED BY <1>2, <3>1
  <2>4. maxExpected' \in 0..(TopLayer + 1)  BY <1>2, TrackerBounds
  <2> QED BY <1>1, <2>1, <2>2, <2>3, <2>4 DEF TrackInv, TrackTypes
<1>4. Stored'  BY <1>1, <1>2 DEF TrackInv, Stored, Tracking!Outside
<1>5. ChangeIsOwed'  BY <1>1 DEF TrackInv, ChangeIsOwed
<1>6. ReportsAreTrue'  BY <1>1, <1>2 DEF TrackInv, ReportsAreTrue, IsReport
<1>7. MuteIsKnown'  BY <1>1, <1>2 DEF TrackInv, MuteIsKnown
<1>8. BegunIsWatched'  BY <1>1 DEF TrackInv, BegunIsWatched
<1> QED BY <1>3, <1>4, <1>5, <1>6, <1>7, <1>8 DEF TrackInv

-----------------------------------------------------------------------------
(* The steps of a tracker.  One that is not stored yet stays as it is made. *)
LEMMA StoredStays ==
  ASSUME TrackInv, NEW t \in 1..made,
         \A u \in 1..MaxTrackers : u # t => tracker'[u] = tracker[u],
         tracker'[t].layer = tracker[t].layer,
         \A l \in TLayers : observer[l].at = "store" /\ observer[l].tr = t =>
           tracker'[t].told = "stopped" /\ tracker'[t].status = "stopped" /\ ~tracker'[t].begun,
         \A l \in TLayers : /\ observer'[l].tr = observer[l].tr
                            /\ \/ observer'[l].at = observer[l].at
                               \/ observer[l].at = "pause" /\ observer'[l].at = "ready",
         UNCHANGED <<made, trackers>>
  PROVE  Stored'
<1>1. \A u \in 1..made : u \in 1..MaxTrackers
  BY TrackerBounds DEF TrackInv, TrackTypes
<1>2. \A l \in TLayers : /\ trackers[l] # 0 => trackers[l] \in 1..MaxTrackers
                         /\ observer[l].tr # 0 => observer[l].tr \in 1..MaxTrackers
  BY <1>1 DEF TrackInv, TrackTypes
<1>3. \A u \in 1..MaxTrackers : tracker'[u].layer = tracker[u].layer
  OBVIOUS
<1>4. \A l \in TLayers : trackers'[l] # 0 => tracker'[trackers'[l]].layer = l
  BY <1>2, <1>3 DEF TrackInv, Stored
<1>5. ASSUME NEW l \in TLayers, observer'[l].at # "outside"
      PROVE  /\ observer'[l].tr # 0 /\ tracker'[observer'[l].tr].layer = l
             /\ trackers'[l] = IF observer'[l].at = "store" THEN 0 ELSE observer'[l].tr
  <2>1. observer[l].at # "outside"  BY <1>5
  <2>2. /\ observer[l].tr # 0 /\ tracker[observer[l].tr].layer = l
        /\ trackers[l] = IF observer[l].at = "store" THEN 0 ELSE observer[l].tr
    BY <2>1 DEF TrackInv, Stored
  <2> QED BY <1>2, <1>3, <2>2
<1>6. ASSUME NEW l \in TLayers, observer'[l].at = "store"
      PROVE  /\ tracker'[observer'[l].tr].told = "stopped" /\ tracker'[observer'[l].tr].status = "stopped"
             /\ ~tracker'[observer'[l].tr].begun
  <2>1. observer[l].at = "store" /\ observer[l].tr # 0 /\ observer'[l].tr = observer[l].tr
    BY <1>6 DEF TrackInv, Stored
  <2>2. /\ tracker[observer[l].tr].told = "stopped" /\ tracker[observer[l].tr].status = "stopped"
        /\ ~tracker[observer[l].tr].begun
    BY <2>1 DEF TrackInv, Stored
  <2>3. CASE observer[l].tr = t  BY <2>1, <2>3
  <2>4. CASE observer[l].tr # t
    <3>1. tracker'[observer[l].tr] = tracker[observer[l].tr]  BY <1>2, <2>1, <2>4
    <3> QED BY <2>1, <2>2, <3>1
  <2> QED BY <2>3, <2>4
<1>7. \A u \in 1..MaxTrackers : u > made' => tracker'[u] = Tracking!NewTracker
  <2> SUFFICES ASSUME NEW u \in 1..MaxTrackers, u > made PROVE tracker'[u] = Tracking!NewTracker
    OBVIOUS
  <2>1. u # t  BY DEF TrackInv, TrackTypes
  <2> QED BY <2>1 DEF TrackInv, Stored
<1> QED BY <1>4, <1>5, <1>6, <1>7 DEF Stored

(* The other trackers keep their workers.                                   *)
LEMMA OthersWatched ==
  ASSUME TrackInv, NEW t \in 1..made,
         \A u \in 1..MaxTrackers : u # t => tracker'[u] = tracker[u],
         \A w \in workers : \E v \in workers' : v.tr = w.tr /\ v.gen = w.gen,
         tracker'[t].status = "active" => tracker'[t].begun,
         tracker'[t].begun /\ ~tracker'[t].paused /\ ~tracker'[t].stopped =>
           \E w \in workers' : w.tr = t /\ w.gen = tracker'[t].gen,
         made' = made
  PROVE  BegunIsWatched'
<1> SUFFICES ASSUME NEW u \in 1..made
             PROVE  /\ tracker'[u].status = "active" => tracker'[u].begun
                    /\ tracker'[u].begun /\ ~tracker'[u].paused /\ ~tracker'[u].stopped =>
                         \E w \in workers' : w.tr = u /\ w.gen = tracker'[u].gen
  BY DEF BegunIsWatched
<1>1. CASE u = t  BY <1>1
<1>2. CASE u # t
  <2>1. u \in 1..MaxTrackers  BY TrackerBounds DEF TrackInv, TrackTypes
  <2>2. tracker'[u] = tracker[u]  BY <1>2, <2>1
  <2>3. tracker[u].status = "active" => tracker[u].begun  BY DEF TrackInv, BegunIsWatched
  <2>4. ASSUME tracker[u].begun, ~tracker[u].paused, ~tracker[u].stopped
        PROVE  \E w \in workers' : w.tr = u /\ w.gen = tracker[u].gen
    <3>1. PICK w \in workers : w.tr = u /\ w.gen = tracker[u].gen
      BY <2>4 DEF TrackInv, BegunIsWatched
    <3> QED BY <3>1
  <2> QED BY <2>2, <2>3, <2>4
<1> QED BY <1>1, <1>2

LEMMA AddTrackerKeeps ==
  ASSUME TrackInv, NEW l \in TLayers, Tracking!AddTracker(l), UNCHANGED limits
  PROVE  TrackInv'
<1> DEFINE o == observer[l]
           t == observer[l].tr
           r == Tracking!SetPaused(tracker[t], o.pause)
<1>1. o \in Observers(0..made) /\ o.at = "pause" /\ o.pause \in BOOLEAN
  BY DEF TrackInv, TrackTypes, Tracking!AddTracker, Observers
<1>2. t \in 1..made /\ t \in 1..MaxTrackers /\ tracker[t] \in TrackerRecords
  <2>1. t # 0 /\ t \in 0..made  BY <1>1 DEF TrackInv, Stored, Observers
  <2> QED BY <2>1, TrackerBounds DEF TrackInv, TrackTypes
<1>3. trackers[l] = t /\ tracker[t].layer = l
  BY <1>1 DEF TrackInv, Stored
<1>4. /\ r \in TrackerRecords /\ r.layer = tracker[t].layer /\ r.told = tracker[t].told
      /\ r.status = "stopped" /\ r.paused = o.pause /\ (r.begun => o.pause)
  BY <1>1, <1>2, SetPausedFields
<1>5. /\ tracker' = [tracker EXCEPT ![t] = r] /\ Tracking!Owes(Tracking!Obs(l), t)
      /\ observer' = [observer EXCEPT ![l].at = "ready"]
      /\ raced' = IF o.pause # muted THEN raced \cup {t} ELSE raced
      /\ UNCHANGED <<made, trackers, available, muted, maxExpected, workers, muter, expecter,
                     stopping, crossed>>
  BY DEF Tracking!AddTracker
<1> DEFINE p == [o EXCEPT !.at = "ready"]
<1>6. p \in Observers(0..made) /\ p.at = "ready" /\ p.tr = t
  <2> HIDE DEF o
  <2>1. p \in Observers(0..made) /\ p.at = "ready" /\ p.tr = o.tr  BY <1>1 DEF Observers
  <2> QED BY <2>1 DEF o
<1>7. observer' = [observer EXCEPT ![l] = p]  BY <1>5
<1> HIDE DEF o, t, r, p
<1>8. /\ observer' \in [TLayers -> Observers(0..made)] /\ observer'[l] = p
      /\ \A k \in TLayers : k # l => observer'[k] = observer[k]
  BY <1>6, <1>7 DEF TrackInv, TrackTypes, Observers
<1>9. /\ tracker' \in [1..MaxTrackers -> TrackerRecords] /\ tracker'[t] = r
      /\ \A u \in 1..MaxTrackers : u # t => tracker'[u] = tracker[u]
      /\ \A n \in tmNotes' : /\ IsNote(n) /\ n.tr \in 1..made'
                             /\ n.at \in {"owed", "report"} /\ n.status \in Statuses
      /\ ChangeIsOwed' /\ ReportsAreTrue'
  BY <1>2, <1>4, <1>5, OwingKeeps
<1>10. TrackTypes'
  BY <1>5, <1>8, <1>9 DEF TrackInv, TrackTypes, Observers
<1>11. Stored'
  <2>1. \A k \in TLayers : observer[k].at = "store" => observer[k].tr # t
    BY <1>1, <1>3 DEF TrackInv, Stored, o
  <2>2. \A k \in TLayers : /\ observer'[k].tr = observer[k].tr
                           /\ \/ observer'[k].at = observer[k].at
                              \/ observer[k].at = "pause" /\ observer'[k].at = "ready"
    BY <1>1, <1>6, <1>8 DEF o, t
  <2> QED BY <1>2, <1>4, <1>5, <1>9, <2>1, <2>2, StoredStays
<1>12. MuteIsKnown'
  <2>1. muter'.at # "rest" => muter'.pause = muted'
    BY <1>5 DEF TrackInv, MuteIsKnown
  <2>2. ASSUME NEW k \in TLayers, trackers'[k] # 0, trackers'[k] \notin raced'
        PROVE  \/ tracker'[trackers'[k]].paused = muted'
               \/ observer'[k].at = "pause"
               \/ muter'.at = "copy"
               \/ muter'.at = "pause" /\ trackers'[k] \in muter'.left
    <3>1. CASE k = l
      <4>1. o.pause = muted  BY <1>3, <1>5, <2>2, <3>1
      <4> QED BY <1>3, <1>4, <1>5, <1>9, <3>1, <4>1
    <3>2. CASE k # l
      <4>1. trackers[k] # 0 /\ trackers[k] \notin raced /\ tracker[trackers[k]].layer = k
        BY <1>5, <2>2 DEF TrackInv, Stored
      <4>2. trackers[k] # t /\ trackers[k] \in 1..MaxTrackers
        <5>1. trackers[k] \in 1..made  BY <4>1 DEF TrackInv, TrackTypes
        <5>2. trackers[k] # t  BY <1>3, <3>2, <4>1
        <5> QED BY <5>1, <5>2, TrackerBounds DEF TrackInv, TrackTypes
      <4>3. tracker'[trackers[k]] = tracker[trackers[k]] /\ observer'[k] = observer[k]
        BY <1>8, <1>9, <3>2, <4>2
      <4> QED BY <1>5, <4>1, <4>3 DEF TrackInv, MuteIsKnown
    <3> QED BY <3>1, <3>2
  <2> QED BY <2>1, <2>2 DEF MuteIsKnown
<1>13. BegunIsWatched'
  <2>1. ~(r.begun /\ ~r.paused)  BY <1>4
  <2>2. r.status # "active"  BY <1>4
  <2> QED BY <1>2, <1>5, <1>9, <2>1, <2>2, OthersWatched
<1> QED BY <1>9, <1>10, <1>11, <1>12, <1>13 DEF TrackInv

LEMMA ObserveKeeps ==
  ASSUME TrackInv, NEW l \in TLayers, Tracking!Observe(l), UNCHANGED limits
  PROVE  TrackInv'
<1> DEFINE t == observer[l].tr
           r == IF tracker[t].begun THEN [tracker[t] EXCEPT !.seen = TRUE]
                ELSE [tracker[t] EXCEPT !.begun = TRUE, !.seen = TRUE, !.status = "active"]
           v == [tr |-> t, gen |-> tracker[t].gen, at |-> "tick"]
<1>1. /\ observer[l].at = "ready" /\ ~tracker[t].stopped /\ ~tracker[t].paused
      /\ tracker' = [tracker EXCEPT ![t] = r]
      /\ tracker[t].begun => UNCHANGED <<workers, tmNotes>>
      /\ ~tracker[t].begun => /\ workers' = workers \cup {v}
                              /\ Tracking!Owes(Tracking!Obs(l), t)
      /\ UNCHANGED <<made, trackers, available, muted, maxExpected, observer, muter, expecter,
                     stopping, crossed, raced>>
  BY DEF Tracking!Observe
<1>2. t \in 1..made /\ t \in 1..MaxTrackers /\ tracker[t] \in TrackerRecords
  <2>1. t # 0 /\ t \in 0..made  BY <1>1 DEF TrackInv, TrackTypes, Stored
  <2> QED BY <2>1, TrackerBounds DEF TrackInv, TrackTypes
<1>3. trackers[l] = t /\ tracker[t].layer = l
  BY <1>1 DEF TrackInv, Stored
<1>4. /\ r \in TrackerRecords /\ r.layer = tracker[t].layer /\ r.told = tracker[t].told
      /\ r.paused = tracker[t].paused /\ r.gen = tracker[t].gen /\ r.begun
      /\ tracker[t].begun => r.status = tracker[t].status
  <2>1. CASE tracker[t].begun
    BY <1>2, <2>1 DEF TrackerRecords
  <2>2. CASE ~tracker[t].begun
    BY <1>2, <2>2 DEF TrackerRecords, Statuses
  <2> QED BY <2>1, <2>2
<1>5. v \in [tr : 1..made, gen : Nat, at : {"tick", "check"}] /\ v.tr = t /\ v.gen = r.gen
  BY <1>2, <1>4 DEF TrackerRecords
<1> HIDE DEF t, r, v
<1>6. /\ tracker' \in [1..MaxTrackers -> TrackerRecords] /\ tracker'[t] = r
      /\ \A u \in 1..MaxTrackers : u # t => tracker'[u] = tracker[u]
  BY <1>1, <1>2, <1>4 DEF TrackInv, TrackTypes
<1>7. /\ \A n \in tmNotes' : /\ IsNote(n) /\ n.tr \in 1..made'
                             /\ n.at \in {"owed", "report"} /\ n.status \in Statuses
      /\ ChangeIsOwed' /\ ReportsAreTrue'
  <2>1. CASE ~tracker[t].begun
    BY <1>1, <1>2, <1>4, <2>1, OwingKeeps
  <2>2. CASE tracker[t].begun
    <3>1. UNCHANGED <<tmNotes, made, trackers, available, crossed>>  BY <1>1, <2>2
    <3>2. \A u \in 1..made : u \in 1..MaxTrackers
      BY TrackerBounds DEF TrackInv, TrackTypes
    <3>3. \A u \in 1..MaxTrackers : /\ tracker'[u].layer = tracker[u].layer
                                    /\ tracker'[u].told = tracker[u].told
                                    /\ tracker'[u].status = tracker[u].status
      BY <1>4, <1>6, <2>2
    <3>4. ChangeIsOwed'
      BY <3>1, <3>2, <3>3 DEF TrackInv, ChangeIsOwed
    <3>5. \A n \in tmNotes : n.tr \in 1..MaxTrackers
      BY <3>2 DEF TrackInv, TrackTypes
    <3>6. \A k \in TLayers : trackers[k] # 0 => trackers[k] \in 1..MaxTrackers
      BY <3>2 DEF TrackInv, TrackTypes
    <3>7. \A n \in tmNotes, k \in TLayers : IsReport(n, k)' <=> IsReport(n, k)
      BY <3>3, <3>5 DEF IsReport
    <3>8. ReportsAreTrue'
      BY <3>1, <3>3, <3>5, <3>6, <3>7 DEF TrackInv, ReportsAreTrue
    <3> QED BY <3>1, <3>4, <3>8 DEF TrackInv, TrackTypes
  <2> QED BY <2>1, <2>2
<1>8. workers' \subseteq workers \cup {v} /\ workers \subseteq workers'
  BY <1>1
<1>9. TrackTypes'
  BY <1>1, <1>5, <1>6, <1>7, <1>8 DEF TrackInv, TrackTypes
<1>10. Stored'
  <2>1. \A k \in TLayers : observer[k].at = "store" => observer[k].tr # t
    BY <1>1, <1>3 DEF TrackInv, Stored
  <2> QED BY <1>1, <1>2, <1>4, <1>6, <2>1, StoredStays
<1>11. MuteIsKnown'
  <2>1. \A k \in TLayers : trackers[k] # 0 => trackers[k] \in 1..MaxTrackers
    BY TrackerBounds DEF TrackInv, TrackTypes
  <2>2. \A u \in 1..MaxTrackers : tracker'[u].paused = tracker[u].paused
    BY <1>4, <1>6
  <2> QED BY <1>1, <2>1, <2>2 DEF TrackInv, MuteIsKnown
<1>12. BegunIsWatched'
  <2>1. \E w \in workers' : w.tr = t /\ w.gen = r.gen
    <3>1. CASE ~tracker[t].begun  BY <1>1, <1>5, <3>1
    <3>2. CASE tracker[t].begun
      <4>1. PICK w \in workers : w.tr = t /\ w.gen = tracker[t].gen
        BY <1>1, <1>2, <3>2 DEF TrackInv, BegunIsWatched
      <4> QED BY <1>4, <1>8, <4>1
    <3> QED BY <3>1, <3>2
  <2>2. \A w \in workers : \E x \in workers' : x.tr = w.tr /\ x.gen = w.gen
    BY <1>8
  <2> QED BY <1>1, <1>2, <1>4, <1>6, <2>1, <2>2, OthersWatched
<1> QED BY <1>7, <1>9, <1>10, <1>11, <1>12 DEF TrackInv

LEMMA updateStatusKeeps ==
  ASSUME TrackInv, NEW w \in workers, Tracking!updateStatus(w), UNCHANGED limits
  PROVE  TrackInv'
<1> DEFINE t == w.tr
           v == [w EXCEPT !.at = "tick"]
<1>1. w \in [tr : 1..made, gen : Nat, at : {"tick", "check"}]
  BY DEF TrackInv, TrackTypes
<1>2. v \in [tr : 1..made, gen : Nat, at : {"tick", "check"}] /\ v.tr = t /\ v.gen = w.gen
  BY <1>1
<1>3. t \in 1..made /\ t \in 1..MaxTrackers /\ tracker[t] \in TrackerRecords
  BY <1>1, TrackerBounds DEF TrackInv, TrackTypes
<1>4. PICK s \in Tracking!CheckStatus(tracker[t]) :
             tracker' = [tracker EXCEPT ![t] = [@ EXCEPT !.status = s, !.seen = FALSE]]
  BY Zenon DEF Tracking!updateStatus
<1> DEFINE r == [tracker[t] EXCEPT !.status = s, !.seen = FALSE]
<1>5. /\ s \in Statuses
      /\ tracker[t].begun \/ s = tracker[t].status
  BY <1>3, <1>4 DEF Tracking!CheckStatus, Statuses, TrackerRecords
<1>6. /\ r \in TrackerRecords /\ r.layer = tracker[t].layer /\ r.told = tracker[t].told
      /\ r.paused = tracker[t].paused /\ r.gen = tracker[t].gen /\ r.begun = tracker[t].begun
      /\ r.stopped = tracker[t].stopped /\ r.status = s
  BY <1>3, <1>5 DEF TrackerRecords
<1>7. /\ tracker' = [tracker EXCEPT ![t] = r]
      /\ workers' = (workers \ {w}) \cup {v}
      /\ Tracking!Owes(Tracking!Work(w), t)
      /\ UNCHANGED <<made, trackers, available, muted, maxExpected, observer, muter, expecter,
                     stopping, crossed, raced>>
  BY <1>4 DEF Tracking!updateStatus
<1> HIDE DEF t, r, v
<1>8. /\ tracker' \in [1..MaxTrackers -> TrackerRecords] /\ tracker'[t] = r
      /\ \A u \in 1..MaxTrackers : u # t => tracker'[u] = tracker[u]
      /\ \A n \in tmNotes' : /\ IsNote(n) /\ n.tr \in 1..made'
                             /\ n.at \in {"owed", "report"} /\ n.status \in Statuses
      /\ ChangeIsOwed' /\ ReportsAreTrue'
  BY <1>3, <1>6, <1>7, OwingKeeps
<1>9. TrackTypes'
  BY <1>2, <1>7, <1>8 DEF TrackInv, TrackTypes
<1>10. Stored'
  <2>1. \A k \in TLayers : observer[k].at = "store" /\ observer[k].tr = t =>
          r.told = "stopped" /\ r.status = "stopped" /\ ~r.begun
    BY <1>5, <1>6 DEF TrackInv, Stored
  <2> QED BY <1>3, <1>6, <1>7, <1>8, <2>1, StoredStays
<1>11. MuteIsKnown'
  <2>1. \A k \in TLayers : trackers[k] # 0 => trackers[k] \in 1..MaxTrackers
    BY TrackerBounds DEF TrackInv, TrackTypes
  <2>2. \A u \in 1..MaxTrackers : tracker'[u].paused = tracker[u].paused
    BY <1>6, <1>8
  <2> QED BY <1>7, <2>1, <2>2 DEF TrackInv, MuteIsKnown
<1>12. BegunIsWatched'
  <2>1. \A x \in workers : \E y \in workers' : y.tr = x.tr /\ y.gen = x.gen
    BY <1>2, <1>7 DEF t
  <2>2. r.status = "active" => r.begun
    BY <1>3, <1>5, <1>6 DEF TrackInv, BegunIsWatched
  <2>3. r.begun /\ ~r.paused /\ ~r.stopped => \E x \in workers' : x.tr = t /\ x.gen = r.gen
    <3> SUFFICES ASSUME tracker[t].begun, ~tracker[t].paused, ~tracker[t].stopped
                 PROVE  \E x \in workers' : x.tr = t /\ x.gen = tracker[t].gen
      BY <1>6
    <3>1. PICK x \in workers : x.tr = t /\ x.gen = tracker[t].gen
      BY <1>3 DEF TrackInv, BegunIsWatched
    <3> QED BY <2>1, <3>1
  <2> QED BY <1>3, <1>7, <1>8, <2>1, <2>2, <2>3, OthersWatched
<1> QED BY <1>8, <1>9, <1>10, <1>11, <1>12 DEF TrackInv

(* A tracker is paused or reset: it is stopped, if it changes.              *)
LEMMA RestingKeeps ==
  ASSUME TrackInv, NEW t \in 1..made, NEW r \in TrackerRecords, NEW g,
         tracker' = [tracker EXCEPT ![t] = r],
         r.layer = tracker[t].layer, r.told = tracker[t].told,
         \/ r = tracker[t]
         \/ r.status = "stopped" /\ (r.begun => r.paused /\ tracker[t].begun),
         Tracking!Owes(g, t),
         UNCHANGED <<made, trackers, available, crossed, observer, workers>>
  PROVE  /\ tracker' \in [1..MaxTrackers -> TrackerRecords] /\ tracker'[t] = r
         /\ \A u \in 1..MaxTrackers : u # t => tracker'[u] = tracker[u]
         /\ \A n \in tmNotes' : /\ IsNote(n) /\ n.tr \in 1..made'
                                /\ n.at \in {"owed", "report"} /\ n.status \in Statuses
         /\ Stored' /\ ChangeIsOwed' /\ ReportsAreTrue' /\ BegunIsWatched'
<1>1. /\ tracker' \in [1..MaxTrackers -> TrackerRecords] /\ tracker'[t] = r
      /\ \A u \in 1..MaxTrackers : u # t => tracker'[u] = tracker[u]
      /\ \A n \in tmNotes' : /\ IsNote(n) /\ n.tr \in 1..made'
                             /\ n.at \in {"owed", "report"} /\ n.status \in Statuses
      /\ ChangeIsOwed' /\ ReportsAreTrue'
  BY OwingKeeps
<1>2. \A k \in TLayers : observer[k].at = "store" /\ observer[k].tr = t =>
        r.told = "stopped" /\ r.status = "stopped" /\ ~r.begun
  BY DEF TrackInv, Stored
<1>3. Stored'
  BY <1>1, <1>2, StoredStays
<1>4. r.status = "active" => r.begun
  BY DEF TrackInv, BegunIsWatched
<1>5. r.begun /\ ~r.paused /\ ~r.stopped => \E w \in workers' : w.tr = t /\ w.gen = r.gen
  BY DEF TrackInv, BegunIsWatched
<1>6. BegunIsWatched'
  BY <1>1, <1>4, <1>5, OthersWatched
<1> QED BY <1>1, <1>3, <1>6

LEMMA PauseNextKeeps ==
  ASSUME TrackInv, Tracking!PauseNext, UNCHANGED limits
  PROVE  TrackInv'
<1>1. /\ muter.at = "pause" /\ muter.pause = muted /\ muted \in BOOLEAN
      /\ muter \in [at : {"rest", "copy", "pause"}, left : SUBSET (1..made), pause : BOOLEAN]
  BY DEF Tracking!PauseNext, TrackInv, TrackTypes, MuteIsKnown
<1>2. UNCHANGED <<made, trackers, available, muted, maxExpected, observer, workers, expecter,
                  stopping, crossed, raced>>
  BY DEF Tracking!PauseNext
<1>3. CASE muter.left = {}
  <2>1. muter' = Tracking!Resting /\ UNCHANGED <<tracker, tmNotes>>
    BY <1>3 DEF Tracking!PauseNext
  <2>2. /\ muter' \in [at : {"rest", "copy", "pause"}, left : SUBSET (1..made), pause : BOOLEAN]
        /\ muter'.at = "rest"
    BY <2>1 DEF Tracking!Resting
  <2>3. TrackTypes'  BY <1>2, <2>1, <2>2 DEF TrackInv, TrackTypes
  <2>4. Stored'  BY <1>2, <2>1 DEF TrackInv, Stored
  <2>5. ChangeIsOwed'  BY <1>2, <2>1 DEF TrackInv, ChangeIsOwed
  <2>6. ReportsAreTrue'  BY <1>2, <2>1 DEF TrackInv, ReportsAreTrue, IsReport
  <2>7. MuteIsKnown'  BY <1>1, <1>2, <1>3, <2>1, <2>2 DEF TrackInv, MuteIsKnown
  <2>8. BegunIsWatched'  BY <1>2, <2>1 DEF TrackInv, BegunIsWatched
  <2> QED BY <2>3, <2>4, <2>5, <2>6, <2>7, <2>8 DEF TrackInv
<1>4. CASE muter.left # {}
  <2> DEFINE t == Tracking!Lowest(muter.left)
             r == Tracking!SetPaused(tracker[t], muter.pause)
  <2>1. /\ tracker' = [tracker EXCEPT ![t] = r] /\ Tracking!Owes(Tracking!Muter, t)
        /\ muter' = [muter EXCEPT !.left = @ \ {t}]
    BY <1>4 DEF Tracking!PauseNext
  <2>2. t \in muter.left /\ t \in 1..made
    BY <1>1, <1>4, LowestIsOne DEF TrackInv
  <2>3. t \in 1..MaxTrackers /\ tracker[t] \in TrackerRecords /\ muter.pause \in BOOLEAN
    BY <1>1, <2>2, TrackerBounds DEF TrackInv, TrackTypes
  <2>4. /\ r \in TrackerRecords /\ r.layer = tracker[t].layer /\ r.told = tracker[t].told
        /\ r.status = "stopped" /\ r.paused = muted /\ (r.begun => r.paused /\ tracker[t].begun)
    BY <1>1, <2>3, SetPausedFields
  <2> HIDE DEF t, r
  <2>5. /\ muter' \in [at : {"rest", "copy", "pause"}, left : SUBSET (1..made), pause : BOOLEAN]
        /\ muter'.at = "pause" /\ muter'.pause = muter.pause /\ muter'.left = muter.left \ {t}
    BY <1>1, <2>1
  <2>6. /\ tracker' \in [1..MaxTrackers -> TrackerRecords] /\ tracker'[t] = r
        /\ \A u \in 1..MaxTrackers : u # t => tracker'[u] = tracker[u]
        /\ \A n \in tmNotes' : /\ IsNote(n) /\ n.tr \in 1..made'
                               /\ n.at \in {"owed", "report"} /\ n.status \in Statuses
        /\ Stored' /\ ChangeIsOwed' /\ ReportsAreTrue' /\ BegunIsWatched'
    BY <1>2, <2>1, <2>2, <2>4, RestingKeeps
  <2>7. TrackTypes'
    BY <1>2, <2>5, <2>6 DEF TrackInv, TrackTypes
  <2>8. MuteIsKnown'
    <3>1. \A k \in TLayers : trackers[k] # 0 => trackers[k] \in 1..MaxTrackers
      BY TrackerBounds DEF TrackInv, TrackTypes
    <3> SUFFICES ASSUME NEW k \in TLayers, trackers[k] # 0, trackers[k] \notin raced
                 PROVE  \/ tracker'[trackers[k]].paused = muted
                        \/ observer[k].at = "pause"
                        \/ trackers[k] \in muter'.left
      BY <1>1, <1>2, <2>5 DEF MuteIsKnown
    <3>2. CASE trackers[k] = t  BY <2>4, <2>6, <3>2
    <3>3. CASE trackers[k] # t
      <4>1. tracker'[trackers[k]] = tracker[trackers[k]]  BY <2>6, <3>1, <3>3
      <4>2. \/ tracker[trackers[k]].paused = muted
            \/ observer[k].at = "pause"
            \/ trackers[k] \in muter.left
        BY <1>1 DEF TrackInv, MuteIsKnown
      <4> QED BY <2>5, <3>3, <4>1, <4>2
    <3> QED BY <3>2, <3>3
  <2> QED BY <2>6, <2>7, <2>8 DEF TrackInv
<1> QED BY <1>3, <1>4

LEMMA ResetNextKeeps ==
  ASSUME TrackInv, Tracking!ResetNext, UNCHANGED limits
  PROVE  TrackInv'
<1>1. expecter \in [at : {"rest", "reset"}, left : SUBSET (1..made), pause : BOOLEAN]
  BY DEF TrackInv, TrackTypes
<1>2. UNCHANGED <<made, trackers, available, muted, maxExpected, observer, workers, muter,
                  stopping, crossed, raced>>
  BY DEF Tracking!ResetNext
<1>3. CASE expecter.left = {}
  <2>1. expecter' = Tracking!Resting /\ UNCHANGED <<tracker, tmNotes>>
    BY <1>3 DEF Tracking!ResetNext
  <2>2. expecter' \in [at : {"rest", "reset"}, left : SUBSET (1..made), pause : BOOLEAN]
    BY <2>1 DEF Tracking!Resting
  <2>3. TrackTypes'  BY <1>2, <2>1, <2>2 DEF TrackInv, TrackTypes
  <2>4. Stored'  BY <1>2, <2>1 DEF TrackInv, Stored
  <2>5. ChangeIsOwed'  BY <1>2, <2>1 DEF TrackInv, ChangeIsOwed
  <2>6. ReportsAreTrue'  BY <1>2, <2>1 DEF TrackInv, ReportsAreTrue, IsReport
  <2>7. MuteIsKnown'  BY <1>2, <2>1 DEF TrackInv, MuteIsKnown
  <2>8. BegunIsWatched'  BY <1>2, <2>1 DEF TrackInv, BegunIsWatched
  <2> QED BY <2>3, <2>4, <2>5, <2>6, <2>7, <2>8 DEF TrackInv
<1>4. CASE expecter.left # {}
  <2> DEFINE t == Tracking!Lowest(expecter.left)
             r == Tracking!Reset(tracker[t])
  <2>1. /\ tracker' = [tracker EXCEPT ![t] = r] /\ Tracking!Owes(Tracking!Expecter, t)
        /\ expecter' = [expecter EXCEPT !.left = @ \ {t}]
    BY <1>4 DEF Tracking!ResetNext
  <2>2. t \in 1..made
    BY <1>1, <1>4, LowestIsOne DEF TrackInv
  <2>3. t \in 1..MaxTrackers /\ tracker[t] \in TrackerRecords
    BY <2>2, TrackerBounds DEF TrackInv, TrackTypes
  <2>4. /\ r \in TrackerRecords /\ r.layer = tracker[t].layer /\ r.told = tracker[t].told
        /\ r.paused = tracker[t].paused
        /\ \/ r = tracker[t]
           \/ r.status = "stopped" /\ ~r.begun
    BY <2>3, ResetFields
  <2> HIDE DEF t, r
  <2>5. expecter' \in [at : {"rest", "reset"}, left : SUBSET (1..made), pause : BOOLEAN]
    BY <1>1, <2>1
  <2>6. /\ tracker' \in [1..MaxTrackers -> TrackerRecords] /\ tracker'[t] = r
        /\ \A u \in 1..MaxTrackers : u # t => tracker'[u] = tracker[u]
        /\ \A n \in tmNotes' : /\ IsNote(n) /\ n.tr \in 1..made'
                               /\ n.at \in {"owed", "report"} /\ n.status \in Statuses
        /\ Stored' /\ ChangeIsOwed' /\ ReportsAreTrue' /\ BegunIsWatched'
    BY <1>2, <2>1, <2>2, <2>4, RestingKeeps
  <2>7. TrackTypes'
    BY <1>2, <2>5, <2>6 DEF TrackInv, TrackTypes
  <2>8. MuteIsKnown'
    <3>1. \A k \in TLayers : trackers[k] # 0 => trackers[k] \in 1..MaxTrackers
      BY TrackerBounds DEF TrackInv, TrackTypes
    <3>2. \A u \in 1..MaxTrackers : tracker'[u].paused = tracker[u].paused
      BY <2>4, <2>6
    <3> QED BY <1>2, <3>1, <3>2 DEF TrackInv, MuteIsKnown
  <2> QED BY <2>6, <2>7, <2>8 DEF TrackInv
<1> QED BY <1>3, <1>4

LEMMA StopNextKeeps ==
  ASSUME TrackInv, Tracking!StopNext, UNCHANGED limits
  PROVE  TrackInv'
<1> DEFINE t == Tracking!Lowest(stopping)
           r == Tracking!Stop(tracker[t])
<1>1. /\ stopping # {} /\ tracker' = [tracker EXCEPT ![t] = r] /\ stopping' = stopping \ {t}
      /\ UNCHANGED <<made, trackers, available, muted, maxExpected, observer, workers, tmNotes,
                     muter, expecter, crossed, raced>>
  BY DEF Tracking!StopNext
<1>2. t \in 1..made
  BY <1>1, LowestIsOne DEF TrackInv, TrackTypes
<1>3. t \in 1..MaxTrackers /\ tracker[t] \in TrackerRecords
  BY <1>2, TrackerBounds DEF TrackInv, TrackTypes
<1>4. /\ r \in TrackerRecords /\ r.stopped /\ r.layer = tracker[t].layer /\ r.told = tracker[t].told
      /\ r.paused = tracker[t].paused /\ r.status = tracker[t].status /\ r.begun = tracker[t].begun
  BY <1>3, StopFields
<1> HIDE DEF t, r
<1>5. /\ tracker' \in [1..MaxTrackers -> TrackerRecords] /\ tracker'[t] = r
      /\ \A u \in 1..MaxTrackers : u # t => tracker'[u] = tracker[u]
  BY <1>1, <1>3, <1>4 DEF TrackInv, TrackTypes
<1>6. \A u \in 1..MaxTrackers : /\ tracker'[u].layer = tracker[u].layer
                                /\ tracker'[u].told = tracker[u].told
                                /\ tracker'[u].status = tracker[u].status
                                /\ tracker'[u].paused = tracker[u].paused
  BY <1>4, <1>5
<1>7. \A u \in 1..made : u \in 1..MaxTrackers
  BY TrackerBounds DEF TrackInv, TrackTypes
<1>8. \A n \in tmNotes : n.tr \in 1..MaxTrackers
  BY <1>7 DEF TrackInv, TrackTypes
<1>9. \A k \in TLayers : trackers[k] # 0 => trackers[k] \in 1..MaxTrackers
  BY <1>7 DEF TrackInv, TrackTypes
<1>10. TrackTypes'
  BY <1>1, <1>5 DEF TrackInv, TrackTypes
<1>11. Stored'
  <2>1. \A k \in TLayers : observer[k].at = "store" /\ observer[k].tr = t =>
          r.told = "stopped" /\ r.status = "stopped" /\ ~r.begun
    BY <1>4 DEF TrackInv, Stored
  <2> QED BY <1>1, <1>2, <1>4, <1>5, <2>1, StoredStays
<1>12. ChangeIsOwed'
  BY <1>1, <1>6, <1>7 DEF TrackInv, ChangeIsOwed
<1>13. ReportsAreTrue'
  <2>1. \A n \in tmNotes, k \in TLayers : IsReport(n, k)' <=> IsReport(n, k)
    BY <1>6, <1>8 DEF IsReport
  <2> QED BY <1>1, <1>6, <1>8, <1>9, <2>1 DEF TrackInv, ReportsAreTrue
<1>14. MuteIsKnown'
  BY <1>1, <1>6, <1>9 DEF TrackInv, MuteIsKnown
<1>15. BegunIsWatched'
  <2>1. r.status = "active" => r.begun
    BY <1>2, <1>4 DEF TrackInv, BegunIsWatched
  <2> QED BY <1>1, <1>2, <1>4, <1>5, <2>1, OthersWatched
<1> QED BY <1>10, <1>11, <1>12, <1>13, <1>14, <1>15 DEF TrackInv

(* A forwarder takes the tracker of its layer, or makes one.                *)
LEMMA FindTrackerKeeps ==
  ASSUME TrackInv, NEW l \in TLayers, Tracking!FindTracker(l), UNCHANGED limits
  PROVE  TrackInv'
<1> DEFINE o == observer[l]
<1>1. o \in Observers(0..made) /\ o.at = "outside"
  BY DEF TrackInv, TrackTypes, Tracking!FindTracker, Observers
<1>2. UNCHANGED <<trackers, available, muted, maxExpected, workers, tmNotes, muter, expecter,
                  stopping, crossed, raced>>
  BY DEF Tracking!FindTracker
<1>3. made \in Nat /\ trackers[l] \in 0..made /\ limits.trackers \in 0..MaxTrackers /\ MaxTrackers \in Nat
  BY TrackerBounds DEF TrackInv, TrackTypes
<1>4. CASE trackers[l] # 0
  <2> DEFINE p == [o EXCEPT !.at = "ready", !.tr = trackers[l]]
  <2>1. observer' = [observer EXCEPT ![l] = p] /\ UNCHANGED <<tracker, made>>
    BY <1>4 DEF Tracking!FindTracker, Tracking!None
  <2>2. p \in Observers(0..made) /\ p.at = "ready" /\ p.tr = trackers[l]
    <3> HIDE DEF o
    <3> QED BY <1>1, <1>3 DEF Observers
  <2> HIDE DEF p
  <2>3. /\ observer' \in [TLayers -> Observers(0..made)] /\ observer'[l] = p
        /\ \A k \in TLayers : k # l => observer'[k] = observer[k]
    BY <2>1, <2>2 DEF TrackInv, TrackTypes, Observers
  <2>4. TrackTypes'  BY <1>2, <2>1, <2>3 DEF TrackInv, TrackTypes, Observers
  <2>5. Stored'  BY <1>2, <1>4, <2>1, <2>2, <2>3 DEF TrackInv, Stored
  <2>6. ChangeIsOwed'  BY <1>2, <2>1 DEF TrackInv, ChangeIsOwed
  <2>7. ReportsAreTrue'  BY <1>2, <2>1 DEF TrackInv, ReportsAreTrue, IsReport
  <2>8. MuteIsKnown'
    <3>1. \A k \in TLayers : observer[k].at = "pause" => observer'[k].at = "pause"
      BY <1>1, <2>3
    <3> QED BY <1>2, <2>1, <3>1 DEF TrackInv, MuteIsKnown
  <2>9. BegunIsWatched'  BY <1>2, <2>1 DEF TrackInv, BegunIsWatched
  <2> QED BY <2>4, <2>5, <2>6, <2>7, <2>8, <2>9 DEF TrackInv
<1>5. CASE trackers[l] = 0
  <2> DEFINE t == made + 1
             p == [o EXCEPT !.at = "store", !.tr = t]
             r == [tracker[t] EXCEPT !.layer = l]
  <2>1. /\ made < limits.trackers /\ made' = t
        /\ tracker' = [tracker EXCEPT ![t] = r]
        /\ observer' = [observer EXCEPT ![l] = p]
    BY <1>5 DEF Tracking!FindTracker, Tracking!None
  <2>2. /\ t \in 1..MaxTrackers /\ t \in 0..made' /\ made' \in 0..MaxTrackers /\ t > made /\ t # 0
        /\ t \in 1..made'
    BY <1>3, <2>1
  <2>3. /\ tracker[t] \in TrackerRecords /\ tracker[t].told = "stopped"
        /\ tracker[t].status = "stopped" /\ ~tracker[t].begun
    BY <2>2 DEF TrackInv, TrackTypes, Stored, Tracking!NewTracker
  <2>4. /\ r \in TrackerRecords /\ r.layer = l /\ r.told = "stopped" /\ r.status = "stopped" /\ ~r.begun
    <3> HIDE DEF t
    <3> QED BY <2>3 DEF TrackerRecords
  <2>5. p \in Observers(0..made') /\ p.at = "store" /\ p.tr = t
    <3>1. o \in Observers(0..made')  BY <1>1, <1>3, <2>1 DEF Observers
    <3> HIDE DEF o, t
    <3> QED BY <2>2, <3>1 DEF Observers
  <2>6. \A u : u \in 1..made => u \in 1..made' /\ u \in 1..MaxTrackers /\ u # t
    BY <1>3, <2>1, <2>2
  <2>7. \A u \in 1..made' : u # t => u \in 1..made
    BY <1>3, <2>1
  <2> HIDE DEF p, r, t
  <2>8. /\ tracker' \in [1..MaxTrackers -> TrackerRecords] /\ tracker'[t] = r
        /\ \A u \in 1..MaxTrackers : u # t => tracker'[u] = tracker[u]
    BY <2>1, <2>2, <2>4 DEF TrackInv, TrackTypes
  <2>9. /\ observer' \in [TLayers -> Observers(0..made')] /\ observer'[l] = p
        /\ \A k \in TLayers : k # l => observer'[k] = observer[k]
    <3>1. observer \in [TLayers -> Observers(0..made')]
      <4>1. 0..made \subseteq 0..made'  BY <1>3, <2>1 DEF t
      <4> QED BY <4>1 DEF TrackInv, TrackTypes, Observers
    <3> QED BY <2>1, <2>5, <3>1
  <2>10. \A n \in tmNotes : n.tr \in 1..made  BY DEF TrackInv, TrackTypes
  <2>11. \A k \in TLayers : /\ trackers[k] # 0 => trackers[k] \in 1..made
                            /\ observer[k].tr # 0 => observer[k].tr \in 1..made
    BY DEF TrackInv, TrackTypes
  <2>12. \A u \in 1..made : tracker'[u] = tracker[u]
    BY <2>6, <2>8
  <2>13. TrackTypes'
    <3>1. 1..made \subseteq 1..made' /\ 0..made \subseteq 0..made'  BY <1>3, <2>1 DEF t
    <3>2. trackers' \in [TLayers -> 0..made']  BY <1>2, <3>1 DEF TrackInv, TrackTypes
    <3>3. /\ muter' \in [at : {"rest", "copy", "pause"}, left : SUBSET (1..made'), pause : BOOLEAN]
          /\ expecter' \in [at : {"rest", "reset"}, left : SUBSET (1..made'), pause : BOOLEAN]
      BY <1>2, <3>1 DEF TrackInv, TrackTypes
    <3>4. workers' \subseteq [tr : 1..made', gen : Nat, at : {"tick", "check"}]
      BY <1>2, <3>1 DEF TrackInv, TrackTypes
    <3>5. stopping' \subseteq 1..made'
      BY <1>2, <3>1 DEF TrackInv, TrackTypes
    <3>6. \A n \in tmNotes' : /\ IsNote(n) /\ n.tr \in 1..made'
                              /\ n.at \in {"owed", "report"} /\ n.status \in Statuses
      BY <1>2, <3>1 DEF TrackInv, TrackTypes
    <3>7. limits' \in TrackerLimits /\ muted' \in BOOLEAN /\ maxExpected' \in 0..(TopLayer + 1)
      BY <1>2 DEF TrackInv, TrackTypes
    <3> QED BY <2>2, <2>8, <2>9, <3>2, <3>3, <3>4, <3>5, <3>6, <3>7 DEF TrackTypes, Observers
  <2>14. Stored'
    <3>1. \A k \in TLayers : trackers'[k] # 0 => tracker'[trackers'[k]].layer = k
      BY <1>2, <2>11, <2>12 DEF TrackInv, Stored
    <3>2. ASSUME NEW k \in TLayers, observer'[k].at # "outside"
          PROVE  /\ observer'[k].tr # 0 /\ tracker'[observer'[k].tr].layer = k
                 /\ trackers'[k] = IF observer'[k].at = "store" THEN 0 ELSE observer'[k].tr
      <4>1. CASE k = l  BY <1>2, <1>5, <2>2, <2>4, <2>5, <2>8, <2>9, <4>1
      <4>2. CASE k # l
        <5>1. observer'[k] = observer[k]  BY <2>9, <4>2
        <5>2. /\ observer[k].tr # 0 /\ tracker[observer[k].tr].layer = k
              /\ trackers[k] = IF observer[k].at = "store" THEN 0 ELSE observer[k].tr
          BY <3>2, <5>1 DEF TrackInv, Stored
        <5> QED BY <1>2, <2>11, <2>12, <5>1, <5>2
      <4> QED BY <4>1, <4>2
    <3>3. ASSUME NEW k \in TLayers, observer'[k].at = "store"
          PROVE  /\ tracker'[observer'[k].tr].told = "stopped"
                 /\ tracker'[observer'[k].tr].status = "stopped"
                 /\ ~tracker'[observer'[k].tr].begun
      <4>1. CASE k = l  BY <2>4, <2>5, <2>8, <2>9, <4>1
      <4>2. CASE k # l
        <5>1. observer'[k] = observer[k]  BY <2>9, <4>2
        <5>2. /\ observer[k].tr # 0
              /\ tracker[observer[k].tr].told = "stopped" /\ tracker[observer[k].tr].status = "stopped"
              /\ ~tracker[observer[k].tr].begun
          BY <3>3, <5>1 DEF TrackInv, Stored
        <5>3. tracker'[observer[k].tr] = tracker[observer[k].tr]  BY <2>11, <2>12, <5>2
        <5> QED BY <5>1, <5>2, <5>3
      <4> QED BY <4>1, <4>2
    <3>4. ASSUME NEW u \in 1..MaxTrackers, u > made' PROVE tracker'[u] = Tracking!NewTracker
      <4>1. u # t /\ u > made  BY <1>3, <2>1, <3>4 DEF t
      <4> QED BY <2>8, <4>1 DEF TrackInv, Stored
    <3> QED BY <3>1, <3>2, <3>3, <3>4 DEF Stored
  <2>15. ChangeIsOwed'
    <3> SUFFICES ASSUME NEW u \in 1..made', tracker'[u].status # tracker'[u].told
                 PROVE  \E n \in tmNotes : n.tr = u /\ n.at = "owed"
      BY <1>2 DEF ChangeIsOwed
    <3>1. u # t  BY <2>4, <2>8
    <3>2. u \in 1..made /\ tracker'[u] = tracker[u]  BY <2>7, <2>12, <3>1
    <3> QED BY <3>2 DEF TrackInv, ChangeIsOwed
  <2>16. ReportsAreTrue'
    <3>1. \A n \in tmNotes, k \in TLayers : IsReport(n, k)' <=> IsReport(n, k)
      BY <2>10, <2>12 DEF IsReport
    <3> QED BY <1>2, <2>10, <2>11, <2>12, <3>1 DEF TrackInv, ReportsAreTrue
  <2>17. MuteIsKnown'
    <3>1. \A k \in TLayers : observer[k].at = "pause" => observer'[k].at = "pause"
      BY <1>1, <2>9
    <3> QED BY <1>2, <2>11, <2>12, <3>1 DEF TrackInv, MuteIsKnown
  <2>18. BegunIsWatched'
    <3> SUFFICES ASSUME NEW u \in 1..made'
                 PROVE  /\ tracker'[u].status = "active" => tracker'[u].begun
                        /\ tracker'[u].begun /\ ~tracker'[u].paused /\ ~tracker'[u].stopped =>
                             \E w \in workers : w.tr = u /\ w.gen = tracker'[u].gen
      BY <1>2 DEF BegunIsWatched
    <3>1. CASE u = t  BY <2>4, <2>8, <3>1
    <3>2. CASE u # t
      <4>1. u \in 1..made /\ tracker'[u] = tracker[u]  BY <2>7, <2>12, <3>2
      <4> QED BY <4>1 DEF TrackInv, BegunIsWatched
    <3> QED BY <3>1, <3>2
  <2> QED BY <2>13, <2>14, <2>15, <2>16, <2>17, <2>18 DEF TrackInv
<1> QED BY <1>4, <1>5

-----------------------------------------------------------------------------
Reported(n, s) == [n EXCEPT !.at = "report", !.status = s]
LEMMA ReportedFields ==
  ASSUME NEW n, IsNote(n), NEW s
  PROVE  /\ IsNote(Reported(n, s)) /\ Reported(n, s).tr = n.tr
         /\ Reported(n, s).at = "report" /\ Reported(n, s).status = s
<1>1. PICK a, b, c, d : n \in [by : {a}, tr : {b}, at : {c}, status : {d}]
  BY DEF IsNote
<1>2. Reported(n, s) \in [by : {a}, tr : {b}, at : {"report"}, status : {s}]
  BY <1>1 DEF Reported
<1> QED BY <1>1, <1>2 DEF IsNote

(* A change is said, or there is none, ...                                  *)
LEMMA maybeNotifyStatusKeeps ==
  ASSUME TrackInv, NEW n \in tmNotes, Tracking!maybeNotifyStatus(n), UNCHANGED limits
  PROVE  TrackInv'
<1> DEFINE t == n.tr
<1>1. UNCHANGED <<made, trackers, available, muted, maxExpected, observer, workers, muter, expecter,
                  stopping, raced>>
  BY DEF Tracking!maybeNotifyStatus
<1>2. /\ IsNote(n) /\ t \in 1..made /\ n.at = "owed" /\ t \in 1..MaxTrackers
      /\ tracker[t] \in TrackerRecords
  BY TrackerBounds DEF TrackInv, TrackTypes, Tracking!maybeNotifyStatus
<1>3. \A u \in 1..made : u \in 1..MaxTrackers
  BY TrackerBounds DEF TrackInv, TrackTypes
<1>4. CASE tracker[t].status = tracker[t].told
  <2>1. tmNotes' = tmNotes \ {n} /\ UNCHANGED <<tracker, crossed>>
    BY <1>4 DEF Tracking!maybeNotifyStatus
  <2>2. TrackTypes'  BY <1>1, <2>1 DEF TrackInv, TrackTypes
  <2>3. Stored'  BY <1>1, <2>1 DEF TrackInv, Stored
  <2>4. ChangeIsOwed'
    <3> SUFFICES ASSUME NEW u \in 1..made, tracker[u].status # tracker[u].told
                 PROVE  \E m \in tmNotes' : m.tr = u /\ m.at = "owed"
      BY <1>1, <2>1 DEF ChangeIsOwed
    <3>1. PICK m \in tmNotes : m.tr = u /\ m.at = "owed"
      BY DEF TrackInv, ChangeIsOwed
    <3>2. m # n  BY <1>4, <3>1
    <3> QED BY <2>1, <3>1, <3>2
  <2>5. ReportsAreTrue'
    <3>1. \A m \in tmNotes, l \in TLayers : IsReport(m, l) => m \in tmNotes'
      BY <1>2, <2>1 DEF IsReport
    <3>2. \A m, l : IsReport(m, l)' <=> IsReport(m, l)
      BY <2>1 DEF IsReport
    <3> QED BY <1>1, <2>1, <3>1, <3>2 DEF TrackInv, ReportsAreTrue
  <2>6. MuteIsKnown'  BY <1>1, <2>1 DEF TrackInv, MuteIsKnown
  <2>7. BegunIsWatched'  BY <1>1, <2>1 DEF TrackInv, BegunIsWatched
  <2> QED BY <2>2, <2>3, <2>4, <2>5, <2>6, <2>7 DEF TrackInv
<1>5. CASE tracker[t].status # tracker[t].told
  <2> DEFINE r == [tracker[t] EXCEPT !.told = tracker[t].status]
             k == tracker[t].layer
  <2>0. PICK e : e = Reported(n, tracker[t].status)  OBVIOUS
  <2>1. /\ tmNotes' = (tmNotes \ {n}) \cup {e}
        /\ tracker' = [tracker EXCEPT ![t] = r]
        /\ crossed' = IF \E m \in tmNotes : IsReport(m, k) THEN crossed \cup {k} ELSE crossed
    BY <1>5, <2>0 DEF Tracking!maybeNotifyStatus, IsReport, Reported
  <2>2. /\ r \in TrackerRecords /\ r.layer = k /\ r.told = r.status /\ r.status = tracker[t].status
        /\ r.paused = tracker[t].paused /\ r.gen = tracker[t].gen /\ r.begun = tracker[t].begun
        /\ r.stopped = tracker[t].stopped
    BY <1>2 DEF TrackerRecords
  <2>3. /\ IsNote(e) /\ e.tr = t /\ e.at = "report" /\ e.status = r.told
    BY <1>2, <2>0, <2>2, ReportedFields
  <2>4. r.status \in Statuses /\ k \in TLayers  BY <1>2, <2>2 DEF TrackerRecords
  <2> HIDE DEF t, r, k
  <2>5. /\ tracker' \in [1..MaxTrackers -> TrackerRecords] /\ tracker'[t] = r
        /\ \A u \in 1..MaxTrackers : u # t => tracker'[u] = tracker[u]
    BY <1>2, <2>1, <2>2 DEF TrackInv, TrackTypes
  <2>6. \A u \in 1..MaxTrackers : /\ tracker'[u].layer = tracker[u].layer
                                  /\ tracker'[u].status = tracker[u].status
                                  /\ tracker'[u].paused = tracker[u].paused
    BY <2>2, <2>5 DEF k
  <2>7. \A m \in tmNotes : m.tr \in 1..MaxTrackers /\ m.tr \in 1..made
    BY <1>3 DEF TrackInv, TrackTypes
  <2>8. \A l \in TLayers : trackers[l] # 0 => trackers[l] \in 1..MaxTrackers
    BY <1>3 DEF TrackInv, TrackTypes
  <2>9. TrackTypes'
    <3>1. \A m \in tmNotes' : /\ IsNote(m) /\ m.tr \in 1..made'
                              /\ m.at \in {"owed", "report"} /\ m.status \in Statuses
      BY <1>1, <1>2, <2>1, <2>2, <2>3, <2>4 DEF TrackInv, TrackTypes
    <3> QED BY <1>1, <2>5, <3>1 DEF TrackInv, TrackTypes
  <2>10. Stored'
    <3>1. \A l \in TLayers : observer[l].at = "store" /\ observer[l].tr = t =>
            r.told = "stopped" /\ r.status = "stopped" /\ ~r.begun
      BY <2>2 DEF TrackInv, Stored
    <3>2. r.layer = tracker[t].layer  BY <2>2 DEF k
    <3> QED BY <1>1, <1>2, <2>5, <3>1, <3>2, StoredStays
  <2>11. ChangeIsOwed'
    <3> SUFFICES ASSUME NEW u \in 1..made, tracker'[u].status # tracker'[u].told
                 PROVE  \E m \in tmNotes' : m.tr = u /\ m.at = "owed"
      BY <1>1 DEF ChangeIsOwed
    <3>1. u # t  BY <2>2, <2>5
    <3>2. tracker'[u] = tracker[u]  BY <1>3, <2>5, <3>1
    <3>3. PICK m \in tmNotes : m.tr = u /\ m.at = "owed"
      BY <3>2 DEF TrackInv, ChangeIsOwed
    <3>4. m # n  BY <3>1, <3>3 DEF t
    <3> QED BY <2>1, <3>3, <3>4
  <2>12. ReportsAreTrue'
    <3>1. \A m \in tmNotes, l \in TLayers : IsReport(m, l)' <=> IsReport(m, l)
      BY <2>6, <2>7 DEF IsReport
    <3>2. \A l \in TLayers : IsReport(e, l)' <=> l = k
      BY <2>2, <2>3, <2>5 DEF IsReport
    <3>3. \A l \in TLayers : ~IsReport(n, l)  BY <1>2 DEF IsReport
    <3> SUFFICES ASSUME NEW l \in TLayers, l \notin crossed'
                 PROVE /\ \A m, x \in tmNotes' : IsReport(m, l)' /\ IsReport(x, l)' => m = x
                       /\ \A m \in tmNotes' : IsReport(m, l)' => m.status = tracker'[m.tr].told
                       /\ (\A m \in tmNotes' : ~IsReport(m, l)') =>
                            (l \in available' <=> trackers'[l] # 0 /\ tracker'[trackers'[l]].told = "active")
      BY DEF ReportsAreTrue
    <3>4. l \notin crossed  BY <2>1
    <3>5. CASE l = k
      <4>1. \A m \in tmNotes : ~IsReport(m, l)  BY <2>1, <3>5
      <4>2. \A m \in tmNotes' : IsReport(m, l)' => m = e
        BY <2>1, <3>1, <4>1
      <4>3. e \in tmNotes' /\ IsReport(e, l)'  BY <2>1, <3>2, <3>5
      <4>4. e.status = tracker'[e.tr].told  BY <2>3, <2>5
      <4> QED BY <4>2, <4>3, <4>4
    <3>6. CASE l # k
      <4>1. \A m \in tmNotes' : IsReport(m, l)' => m \in tmNotes /\ IsReport(m, l)
        BY <2>1, <3>1, <3>2, <3>6
      <4>2. \A m \in tmNotes : IsReport(m, l) => m \in tmNotes' /\ IsReport(m, l)'
        BY <2>1, <3>1, <3>3
      <4>3. \A m \in tmNotes : IsReport(m, l) => tracker'[m.tr] = tracker[m.tr]
        <5>1. \A m \in tmNotes : IsReport(m, l) => m.tr # t  BY <3>6 DEF IsReport, k
        <5> QED BY <2>5, <2>7, <5>1
      <4>4. trackers[l] # 0 => tracker'[trackers[l]] = tracker[trackers[l]]
        <5>1. trackers[l] # 0 => trackers[l] # t  BY <3>6 DEF TrackInv, Stored, k
        <5> QED BY <2>5, <2>8, <5>1
      <4>5. \A m, x \in tmNotes' : IsReport(m, l)' /\ IsReport(x, l)' => m = x
        BY <3>4, <4>1 DEF TrackInv, ReportsAreTrue
      <4>6. \A m \in tmNotes' : IsReport(m, l)' => m.status = tracker'[m.tr].told
        BY <3>4, <4>1, <4>3 DEF TrackInv, ReportsAreTrue
      <4>7. (\A m \in tmNotes' : ~IsReport(m, l)') =>
              (l \in available' <=> trackers'[l] # 0 /\ tracker'[trackers'[l]].told = "active")
        BY <1>1, <3>4, <4>2, <4>4 DEF TrackInv, ReportsAreTrue
      <4> QED BY <4>5, <4>6, <4>7
    <3> QED BY <3>5, <3>6
  <2>13. MuteIsKnown'
    BY <1>1, <2>6, <2>8 DEF TrackInv, MuteIsKnown
  <2>14. BegunIsWatched'
    <3>1. r.status = "active" => r.begun
      BY <1>2, <2>2 DEF TrackInv, BegunIsWatched
    <3>2. r.begun /\ ~r.paused /\ ~r.stopped => \E w \in workers' : w.tr = t /\ w.gen = r.gen
      BY ZenonT(60), <1>1, <1>2, <2>2 DEF TrackInv, BegunIsWatched
    <3> QED BY <1>1, <1>2, <2>5, <3>1, <3>2, OthersWatched
  <2> QED BY <2>9, <2>10, <2>11, <2>12, <2>13, <2>14 DEF TrackInv
<1> QED BY <1>4, <1>5

(* ... and reaches the list.                                                *)
LEMMA onStatusChangedKeeps ==
  ASSUME TrackInv, NEW n \in tmNotes, Tracking!onStatusChanged(n), UNCHANGED limits
  PROVE  TrackInv'
<1> DEFINE k == tracker[n.tr].layer
<1>1. /\ n.at = "report" /\ tmNotes' = tmNotes \ {n}
      /\ available' = IF n.status = "stopped" THEN available \ {k} ELSE available \cup {k}
      /\ crossed' = IF trackers[k] # n.tr THEN crossed \cup {k} ELSE crossed
      /\ UNCHANGED <<tracker, made, trackers, muted, maxExpected, observer, workers, muter, expecter,
                     stopping, raced>>
  BY DEF Tracking!onStatusChanged
<1>2. n.status \in Statuses /\ n.tr \in 1..made  BY DEF TrackInv, TrackTypes
<1>3. IsReport(n, k)  BY <1>1 DEF IsReport
<1>4. \A l \in TLayers : l # k => ~IsReport(n, l)  BY DEF IsReport
<1> HIDE DEF k
<1>5. TrackTypes'  BY <1>1 DEF TrackInv, TrackTypes
<1>6. Stored'  BY <1>1 DEF TrackInv, Stored
<1>7. ChangeIsOwed'
  BY <1>1 DEF TrackInv, ChangeIsOwed
<1>8. ReportsAreTrue'
  <2>1. \A m, l : IsReport(m, l)' <=> IsReport(m, l)
    BY <1>1 DEF IsReport
  <2> SUFFICES ASSUME NEW l \in TLayers, l \notin crossed'
               PROVE /\ \A m, x \in tmNotes' : IsReport(m, l) /\ IsReport(x, l) => m = x
                     /\ \A m \in tmNotes' : IsReport(m, l) => m.status = tracker[m.tr].told
                     /\ (\A m \in tmNotes' : ~IsReport(m, l)) =>
                          (l \in available' <=> trackers[l] # 0 /\ tracker[trackers[l]].told = "active")
    BY <1>1, <2>1 DEF ReportsAreTrue
  <2>2. l \notin crossed  BY <1>1
  <2>3. /\ \A m, x \in tmNotes : IsReport(m, l) /\ IsReport(x, l) => m = x
        /\ \A m \in tmNotes : IsReport(m, l) => m.status = tracker[m.tr].told
        /\ (\A m \in tmNotes : ~IsReport(m, l)) =>
             (l \in available <=> trackers[l] # 0 /\ tracker[trackers[l]].told = "active")
    BY <2>2 DEF TrackInv, ReportsAreTrue
  <2>4. CASE l = k
    <3>1. trackers[l] = n.tr /\ n.tr # 0  BY <1>1, <1>2, <2>4
    <3>2. n.status = tracker[n.tr].told  BY <1>3, <2>3, <2>4
    <3>3. l \in available' <=> n.status = "active"  BY <1>1, <1>2, <2>4 DEF Statuses
    <3> QED BY <1>1, <2>3, <3>1, <3>2, <3>3
  <2>5. CASE l # k
    <3>1. l \in available' <=> l \in available  BY <1>1, <2>5
    <3>2. \A m \in tmNotes : IsReport(m, l) => m \in tmNotes'  BY <1>1, <1>4, <2>5
    <3> QED BY <1>1, <2>3, <3>1, <3>2
  <2> QED BY <2>4, <2>5
<1>9. MuteIsKnown'  BY <1>1 DEF TrackInv, MuteIsKnown
<1>10. BegunIsWatched'  BY <1>1 DEF TrackInv, BegunIsWatched
<1> QED BY <1>5, <1>6, <1>7, <1>8, <1>9, <1>10 DEF TrackInv

-----------------------------------------------------------------------------
LEMMA TrackStutters == ASSUME TrackInv, UNCHANGED trackingVars PROVE TrackInv'
<1>1. UNCHANGED <<limits, tracker, made, trackers, available, muted, maxExpected, observer, workers,
                  tmNotes, muter, expecter, stopping, crossed, raced>>
  BY DEF trackingVars
<1> QED BY <1>1 DEF TrackInv, TrackTypes, Stored, ChangeIsOwed, ReportsAreTrue, IsReport, MuteIsKnown,
                    BegunIsWatched

LEMMA TrackNext == ASSUME TrackInv, Tracking!TrackersNext PROVE TrackInv'
<1>1. UNCHANGED limits  BY DEF Tracking!TrackersNext
<1>2. ASSUME NEW l \in TLayers,
             \/ Tracking!FindTracker(l) \/ Tracking!StoreTracker(l)
             \/ Tracking!AddTracker(l) \/ Tracking!Observe(l)
      PROVE  TrackInv'
  BY <1>1, <1>2, FindTrackerKeeps, StoreTrackerKeeps, AddTrackerKeeps, ObserveKeeps
<1>3. ASSUME NEW w \in workers, Tracking!WorkerTicks(w) \/ Tracking!updateStatus(w) PROVE TrackInv'
  BY <1>1, <1>3, WorkerTicksKeeps, updateStatusKeeps
<1>4. ASSUME NEW n \in tmNotes, Tracking!maybeNotifyStatus(n) \/ Tracking!onStatusChanged(n)
      PROVE  TrackInv'
  BY <1>1, <1>4, maybeNotifyStatusKeeps, onStatusChangedKeeps
<1>5. CASE Tracking!UpdateTrackInfo \/ Tracking!setPaused \/ Tracking!PauseNext
  BY <1>1, <1>5, UpdateTrackInfoKeeps, setPausedKeeps, PauseNextKeeps
<1>6. ASSUME NEW n \in 0..(TopLayer + 1), Tracking!SetMaxExpectedSpatialLayer(n) PROVE TrackInv'
  BY <1>1, <1>6, SetMaxExpectedKeeps
<1>7. CASE Tracking!ResetNext \/ Tracking!RemoveAllTrackers \/ Tracking!StopNext
  BY <1>1, <1>7, ResetNextKeeps, RemoveAllTrackersKeeps, StopNextKeeps
<1> QED BY <1>2, <1>3, <1>4, <1>5, <1>6, <1>7
        DEF Tracking!TrackersNext, Tracking!TrackerSteps, Tracking!Layers, TLayers

LEMMA TrackInvSuffices == ASSUME TrackInv PROVE LayersAreTrue
<1>1. \A l \in TLayers : trackers[l] # 0 => trackers[l] \in 1..made
  BY DEF TrackInv, TrackTypes
<1>2. Tracking!AvailableIsActive
  <2> SUFFICES ASSUME Tracking!TrackersQuiet, NEW l \in TLayers, l \notin crossed
               PROVE  (l \in available) = Tracking!Live(l)
    BY DEF Tracking!AvailableIsActive, Tracking!Layers, TLayers
  <2>1. tmNotes = {}  BY DEF Tracking!TrackersQuiet
  <2>2. l \in available <=> trackers[l] # 0 /\ tracker[trackers[l]].told = "active"
    BY <2>1 DEF TrackInv, ReportsAreTrue
  <2>3. trackers[l] # 0 => tracker[trackers[l]].status = tracker[trackers[l]].told
    BY <1>1, <2>1 DEF TrackInv, ChangeIsOwed
  <2>4. Tracking!Live(l) <=> trackers[l] # 0 /\ tracker[trackers[l]].status = "active"
    BY DEF Tracking!Live, Tracking!None
  <2>5. (l \in available) \in BOOLEAN /\ Tracking!Live(l) \in BOOLEAN
    BY DEF Tracking!Live
  <2> QED BY <2>2, <2>3, <2>4, <2>5
<1>3. Tracking!PausedIsMuted
  <2> SUFFICES ASSUME Tracking!TrackersQuiet, NEW l \in TLayers, trackers[l] # 0, trackers[l] \notin raced
               PROVE  tracker[trackers[l]].paused = muted
    BY DEF Tracking!PausedIsMuted, Tracking!Layers, TLayers, Tracking!None
  <2>1. observer[l].at # "pause" /\ muter.at = "rest"
    BY DEF Tracking!TrackersQuiet, Tracking!Layers, TLayers
  <2> QED BY <2>1 DEF TrackInv, MuteIsKnown
<1>4. Tracking!ActiveIsWatched
  BY DEF Tracking!ActiveIsWatched, TrackInv, BegunIsWatched
<1> QED BY <1>2, <1>3, <1>4 DEF LayersAreTrue

(* However mutes, restarts, new trackers and the checks of the workers      *)
(* interleave: once nothing is on its way, a layer whose reports did not    *)
(* cross is listed exactly while its tracker takes it for active, a tracker *)
(* is paused exactly while the track is muted, and an active one has a      *)
(* worker of its generation.                                                *)
THEOREM LayersAreListed == PartsSpec => []LayersAreTrue
<1> DEFINE Steps == DynacastStep \/ SharingStep \/ ProbingStep \/ ReceiverStep
<1>1. PartsInit => TrackInv
  BY TrackInit DEF PartsInit
<1>2. TrackInv /\ [Steps]_allVars => TrackInv'
  <2> SUFFICES ASSUME TrackInv, [Steps]_allVars PROVE TrackInv'
    OBVIOUS
  <2>1. CASE ReceiverStep
    BY <2>1, TrackNext, TrackStutters DEF ReceiverStep
  <2>2. CASE ~ReceiverStep
    BY <2>2, TrackStutters DEF DynacastStep, SharingStep, ProbingStep, receiverVars, allVars
  <2> QED BY <2>1, <2>2
<1>3. TrackInv => LayersAreTrue
  BY TrackInvSuffices
<1> QED BY <1>1, <1>2, <1>3, PTL DEF PartsSpec

-----------------------------------------------------------------------------
(* Dynacast.                                                                *)
Clients == Subscribers \cup Nodes
Procs == Clients \cup Mimes \cup {"regression", "caller", "debounce"}
Qualities == {0, 2, 3}
Reports == [Mimes -> {0, 2, 3, 4}]
Places == {"idle", "compute", "force", "report", "update", "forceUpdate", "stop", "replace"}

AskedTypes ==
  /\ dynCase \in DynCases
  /\ dqs \subseteq Mimes /\ toRestart \subseteq Mimes /\ toClear \subseteq Mimes
  /\ subscribed \in [Mimes -> [Clients -> Qualities]] /\ wish \in [Mimes -> [Clients -> Qualities]]
  /\ moved \in [Clients -> Qualities]
  /\ inited \in [Mimes -> BOOLEAN] /\ timer \in [Mimes -> BOOLEAN] /\ dqMax \in [Mimes -> Qualities]
  /\ {regressTo, regressed, astray, mgrClosed, waiting} \subseteq BOOLEAN
  /\ maxQuality \in Reports /\ committed \in Reports /\ expected \in Reports
  /\ ops \in Seq(Reports)
  /\ proc \in [Procs -> [at : Places, mime : Mimes, q : Qualities]]

(* Where codec regression is.                                               *)
Regresses == proc["regression"].at
RegressionPlaces ==
  /\ Regresses \in {"idle", "update", "stop", "replace"}
  /\ regressed <=> regressTo \/ Regresses \in {"update", "stop"}
  /\ regressTo => Regresses \in {"idle", "replace"} /\ \A c \in Clients : wish[From][c] = 3
  /\ \A p \in Procs : p # "regression" => proc[p].at \notin {"stop", "replace"}
  /\ Regresses = "replace" => regressTo
  /\ regressed => maxQuality[From] = 3

(* What the clients want is in the maps, or on its way there.               *)
Better(a, b) == IF b # 3 /\ (a = 3 \/ b > a) THEN b ELSE a
MapsAreWishes ==
  \A m \in Mimes, c \in Clients :
    wish[m][c] = IF m = To /\ Regresses = "replace" THEN Better(subscribed[m][c], moved[c])
                 ELSE subscribed[m][c]

(* The maximum of a codec is that of its map, or is about to be computed,   *)
(* and the manager has it or is about to be told.                           *)
Computing(m) ==
  \/ timer[m] \/ m \in toRestart \/ (m = To /\ Regresses = "replace")
  \/ \E p \in Procs : proc[p].at \in {"compute", "force"} /\ proc[p].mime = m
Reporting(m) == \E p \in Procs : proc[p].at = "report" /\ proc[p].mime = m /\ proc[p].q = dqMax[m]
MaximaAreRight ==
  \A m \in Mimes :
    /\ m \in dqs /\ ~(regressTo /\ m = From) =>
         Computing(m) \/ (inited[m] /\ dqMax[m] = Asked!BestOf(subscribed[m]))
    /\ inited[m] /\ ~(regressed /\ m = From) => maxQuality[m] = dqMax[m] \/ Reporting(m)

(* What is told last is what the manager has, or it is about to look again. *)
LastTold == IF ops = <<>> THEN expected ELSE ops[Len(ops)]
Updating == waiting \/ \E p \in Procs : proc[p].at \in {"update", "forceUpdate"}
ToldIsCurrent ==
  /\ committed = LastTold \/ committed = Asked!NothingYet
  /\ \A m \in Mimes : LastTold[m] # 4 => maxQuality[m] # 4
  /\ LastTold = maxQuality \/ Updating

AskedInv ==
  /\ AskedTypes /\ RegressionPlaces
  /\ ~astray /\ ~mgrClosed => MapsAreWishes /\ MaximaAreRight
  /\ ~mgrClosed => ToldIsCurrent

-----------------------------------------------------------------------------
LEMMA SameCardinality == ASSUME NEW S PROVE Asked!Cardinality(S) = Cardinality(S)
BY DEF Asked!Cardinality, Cardinality

LEMMA BestOfIsOne ==
  ASSUME NEW f \in [Clients -> Qualities]
  PROVE  /\ Asked!BestOf(f) \in Qualities
         /\ Asked!BestOf(f) = 3 <=> \A c \in Clients : f[c] = 3
<1> DEFINE S == {f[c] : c \in {x \in Clients : f[x] # 3}}
<1>1. CASE \A c \in Clients : f[c] = 3
  BY <1>1 DEF Asked!BestOf, Asked!Off, Asked!Clients, Clients, Qualities
<1>2. CASE ~(\A c \in Clients : f[c] = 3)
  <2>1. S # {} /\ S \subseteq {0, 2}  BY <1>2 DEF Qualities
  <2>2. Asked!BestOf(f) = Asked!Max(S)
    BY <1>2 DEF Asked!BestOf, Asked!Off, Asked!Clients, Clients
  <2> HIDE DEF S
  <2>3. \E x \in S : \A y \in S : x >= y
    <3>1. CASE 2 \in S  BY <2>1, <3>1
    <3>2. CASE 2 \notin S
      <4>1. \A y \in S : y = 0  BY <2>1, <3>2
      <4>2. PICK y \in S : TRUE  BY <2>1
      <4>3. 0 \in S  BY <4>1, <4>2
      <4>4. \A z \in S : 0 >= z  BY <4>1
      <4> QED BY <4>3, <4>4
    <3> QED BY <3>1, <3>2
  <2>4. Asked!Max(S) \in S  BY <2>3 DEF Asked!Max
  <2>5. Asked!BestOf(f) \in {0, 2}  BY <2>1, <2>2, <2>4
  <2>6. Asked!BestOf(f) \in Qualities /\ Asked!BestOf(f) # 3  BY <2>5 DEF Qualities
  <2> QED BY <1>2, <2>6
<1> QED BY <1>1, <1>2

LEMMA BestStays ==
  ASSUME NEW m, subscribed'[m] = subscribed[m]
  PROVE  Asked!BestOf(subscribed[m])' = Asked!BestOf(subscribed[m])
BY DEF Asked!BestOf

LEMMA ProcNames ==
  /\ "regression" \in Procs /\ "caller" \in Procs /\ "debounce" \in Procs
  /\ "regression" \notin Clients \cup Mimes /\ "caller" \notin Clients \cup Mimes
  /\ Clients \subseteq Procs /\ Mimes \subseteq Procs /\ From \in Mimes /\ To \in Mimes /\ From # To
  /\ Asked!Procs = Procs /\ Asked!Clients = Clients
BY DynacastNames DEF Procs, Clients, Asked!Procs, Asked!Clients, Asked!Regression, Asked!Caller,
                     Asked!Debounce

(* A goroutine goes on, or ends.                                            *)
LEMMA MovesTo ==
  ASSUME AskedTypes, NEW p \in Procs, NEW place \in Places, NEW m \in Mimes, NEW q \in Qualities,
         proc' = Asked!At(p, place, m, q)
  PROVE  /\ proc' \in [Procs -> [at : Places, mime : Mimes, q : Qualities]]
         /\ proc'[p].at = place /\ proc'[p].mime = m /\ proc'[p].q = q
         /\ \A x \in Procs : x # p => proc'[x] = proc[x]
<1> DEFINE r == [at |-> place, mime |-> m, q |-> q]
<1>1. r \in [at : Places, mime : Mimes, q : Qualities] /\ r.at = place /\ r.mime = m /\ r.q = q
  OBVIOUS
<1>2. proc' = [proc EXCEPT ![p] = r]  BY DEF Asked!At
<1> HIDE DEF r
<1> QED BY <1>1, <1>2 DEF AskedTypes

LEMMA DoneIsIdle ==
  ASSUME AskedTypes, NEW p \in Procs, proc' = Asked!Done(p)
  PROVE  /\ proc' \in [Procs -> [at : Places, mime : Mimes, q : Qualities]]
         /\ proc'[p].at = "idle"
         /\ \A x \in Procs : x # p => proc'[x] = proc[x]
<1>1. proc' = Asked!At(p, "idle", From, 3)
  BY DEF Asked!Done, Asked!At, Asked!Idle, Asked!Off
<1> QED BY <1>1, MovesTo, ProcNames DEF Places, Qualities

LEMMA AskedStart == ASSUME Asked!Init PROVE AskedInv
<1> USE DEF Asked!Init, Asked!Off, Asked!Low, Asked!Absent, Asked!NothingYet
<1>1. /\ Asked!Clients = Clients /\ Asked!Procs = Procs /\ From \in Mimes
  BY ProcNames
<1>2. Asked!Idle \in [at : Places, mime : Mimes, q : Qualities] /\ Asked!Idle.at = "idle"
  BY <1>1 DEF Asked!Idle, Places, Qualities
<1>3. AskedTypes
  <2>1. proc \in [Procs -> [at : Places, mime : Mimes, q : Qualities]]  BY <1>1, <1>2
  <2>2. /\ maxQuality \in Reports /\ committed \in Reports /\ expected \in Reports /\ ops \in Seq(Reports)
    BY DEF Reports
  <2>3. /\ dqs \subseteq Mimes /\ toRestart \subseteq Mimes /\ toClear \subseteq Mimes
        /\ subscribed \in [Mimes -> [Clients -> Qualities]] /\ wish \in [Mimes -> [Clients -> Qualities]]
        /\ moved \in [Clients -> Qualities] /\ dqMax \in [Mimes -> Qualities]
    BY <1>1 DEF Qualities
  <2>4. /\ inited \in [Mimes -> BOOLEAN] /\ timer \in [Mimes -> BOOLEAN]
        /\ {regressTo, regressed, astray, mgrClosed, waiting} \subseteq BOOLEAN /\ dynCase \in DynCases
    OBVIOUS
  <2> QED BY <2>1, <2>2, <2>3, <2>4 DEF AskedTypes
<1>4. \A p \in Procs : proc[p].at = "idle"  BY <1>1, <1>2
<1>5. RegressionPlaces
  BY <1>4, ProcNames DEF RegressionPlaces, Regresses
<1>6. MapsAreWishes
  BY <1>1, <1>4, ProcNames DEF MapsAreWishes, Regresses
<1>7. MaximaAreRight  BY DEF MaximaAreRight
<1>8. ToldIsCurrent  BY DEF ToldIsCurrent, LastTold
<1> QED BY <1>3, <1>5, <1>6, <1>7, <1>8 DEF AskedInv

-----------------------------------------------------------------------------
(* What a step that leaves a part of the state alone leaves of the          *)
(* invariant.                                                               *)
LEMMA MapsStay ==
  ASSUME MapsAreWishes, UNCHANGED <<wish, subscribed, moved>>, Regresses' = Regresses
  PROVE  MapsAreWishes'
BY DEF MapsAreWishes

LEMMA ToldStays ==
  ASSUME ToldIsCurrent, UNCHANGED <<committed, ops, expected, maxQuality>>, Updating => Updating'
  PROVE  ToldIsCurrent'
<1>1. LastTold' = LastTold  BY DEF LastTold
<1>2. Asked!NothingYet' = Asked!NothingYet  BY DEF Asked!NothingYet
<1> QED BY <1>1, <1>2 DEF ToldIsCurrent

LEMMA MaximaStay ==
  ASSUME MaximaAreRight, UNCHANGED <<dqs, subscribed, inited, dqMax, regressTo, regressed, maxQuality>>,
         \A m \in Mimes : Computing(m) => Computing(m)',
         \A m \in Mimes : Reporting(m) => Reporting(m)'
  PROVE  MaximaAreRight'
<1>1. \A m \in Mimes : Asked!BestOf(subscribed[m])' = Asked!BestOf(subscribed[m])
  BY DEF Asked!BestOf
<1> QED BY <1>1 DEF MaximaAreRight

LEMMA PlacesStay ==
  ASSUME RegressionPlaces, Regresses' = Regresses, UNCHANGED <<regressed, regressTo>>,
         \A p \in Procs : p # "regression" => proc'[p].at \notin {"stop", "replace"},
         regressTo => \A c \in Clients : wish'[From][c] = wish[From][c],
         regressed => maxQuality'[From] = maxQuality[From]
  PROVE  RegressionPlaces'
BY DEF RegressionPlaces

(* All goroutines but one stay where they are.                              *)
LEMMA OthersGoOn ==
  ASSUME NEW p \in Procs, \A x \in Procs : x # p => proc'[x] = proc[x]
  PROVE  /\ \A m \in Mimes :
              /\ Computing(m) /\ ~(proc[p].at \in {"compute", "force"} /\ proc[p].mime = m)
              /\ timer[m] => timer'[m]
              /\ m \in toRestart => m \in toRestart'
              /\ m = To /\ Regresses = "replace" => Regresses' = "replace"
              => Computing(m)'
         /\ \A m \in Mimes :
              Reporting(m) /\ ~(proc[p].at = "report" /\ proc[p].mime = m) /\ dqMax'[m] = dqMax[m]
              => Reporting(m)'
         /\ Updating /\ (waiting => waiting') /\ proc[p].at \notin {"update", "forceUpdate"} => Updating'
         /\ p # "regression" => Regresses' = Regresses
<1>1. "regression" \in Procs  BY ProcNames
<1>2. ASSUME NEW m \in Mimes, Computing(m), ~(proc[p].at \in {"compute", "force"} /\ proc[p].mime = m),
             timer[m] => timer'[m], m \in toRestart => m \in toRestart',
             m = To /\ Regresses = "replace" => Regresses' = "replace"
      PROVE  Computing(m)'
  <2>1. CASE timer[m] \/ m \in toRestart \/ (m = To /\ Regresses = "replace")
    BY <1>2, <2>1 DEF Computing
  <2>2. CASE \E x \in Procs : proc[x].at \in {"compute", "force"} /\ proc[x].mime = m
    <3>1. PICK x \in Procs : proc[x].at \in {"compute", "force"} /\ proc[x].mime = m  BY <2>2
    <3>2. proc'[x] = proc[x]  BY <1>2, <3>1
    <3> QED BY <3>1, <3>2 DEF Computing
  <2> QED BY <1>2, <2>1, <2>2 DEF Computing
<1>3. ASSUME NEW m \in Mimes, Reporting(m), ~(proc[p].at = "report" /\ proc[p].mime = m),
             dqMax'[m] = dqMax[m]
      PROVE  Reporting(m)'
  <2>1. PICK x \in Procs : proc[x].at = "report" /\ proc[x].mime = m /\ proc[x].q = dqMax[m]
    BY <1>3 DEF Reporting
  <2>2. proc'[x] = proc[x]  BY <1>3, <2>1
  <2> QED BY <1>3, <2>1, <2>2 DEF Reporting
<1>4. ASSUME Updating, waiting => waiting', proc[p].at \notin {"update", "forceUpdate"} PROVE Updating'
  BY <1>4 DEF Updating
<1>5. p # "regression" => Regresses' = Regresses  BY <1>1 DEF Regresses
<1> QED BY <1>2, <1>3, <1>4, <1>5

LEMMA AddCodecKeeps ==
  ASSUME AskedInv, NEW m \in Mimes, Asked!AddCodec(m), UNCHANGED dynCase PROVE AskedInv'
<1>1. /\ dqs' = dqs \cup {m} /\ m \notin dqs /\ timer' = [timer EXCEPT ![m] = TRUE]
      /\ UNCHANGED <<subscribed, inited, dqMax, regressTo, proc, moved, wish, astray, expected,
                     regressed, maxQuality, committed, waiting, ops, mgrClosed, toRestart, toClear>>
  BY DEF Asked!AddCodec, Asked!getOrCreate, Asked!manager, Asked!outside, Asked!loops
<1>2. AskedTypes'
  BY <1>1 DEF AskedInv, AskedTypes
<1>3. Regresses' = Regresses /\ RegressionPlaces'
  BY <1>1 DEF AskedInv, RegressionPlaces, Regresses
<1>4. ASSUME ~astray, ~mgrClosed PROVE MapsAreWishes' /\ MaximaAreRight'
  <2>1. MapsAreWishes'
    BY <1>1, <1>3, <1>4, MapsStay DEF AskedInv
  <2>2. \A x \in Mimes : timer'[x] = IF x = m THEN TRUE ELSE timer[x]
    BY <1>1 DEF AskedInv, AskedTypes
  <2>3. \A x \in Mimes : (Computing(x) \/ x = m => Computing(x)') /\ (Reporting(x) => Reporting(x)')
    BY <1>1, <1>3, <2>2 DEF Computing, Reporting
  <2>4. \A x \in Mimes : Asked!BestOf(subscribed[x])' = Asked!BestOf(subscribed[x])
    BY <1>1 DEF Asked!BestOf
  <2>5. MaximaAreRight'
    BY <1>1, <1>4, <2>3, <2>4 DEF AskedInv, MaximaAreRight
  <2> QED BY <2>1, <2>5
<1>5. ASSUME ~mgrClosed PROVE ToldIsCurrent'
  BY <1>1, <1>5, ToldStays DEF AskedInv, Updating
<1> QED BY <1>1, <1>2, <1>3, <1>4, <1>5 DEF AskedInv

LEMMA NotifyKeeps ==
  ASSUME AskedInv, NEW c \in Clients, NEW m \in Mimes, NEW q \in Qualities, Asked!Notify(c, m, q),
         UNCHANGED dynCase
  PROVE  AskedInv'
<1>1. PICK t : t = IF regressTo /\ m = From THEN To ELSE m  OBVIOUS
<1>2. t \in Mimes /\ (regressTo => t # From)  BY <1>1, ProcNames
<1>3. /\ dqs' = dqs \cup {m} /\ timer' = IF m \in dqs THEN timer ELSE [timer EXCEPT ![m] = TRUE]
      /\ UNCHANGED <<inited, dqMax, regressTo, moved, expected, regressed, maxQuality, committed, waiting,
                     ops, mgrClosed, toRestart, toClear>>
      /\ proc[c].at = "idle"
  BY DEF Asked!Notify, Asked!getOrCreate, Asked!manager, Asked!outside, Asked!loops
<1>4. \/ UNCHANGED <<subscribed, proc, wish, astray>> /\ t # m
      \/ /\ subscribed' = [subscribed EXCEPT ![t][c] = q]
         /\ proc' = Asked!At(c, "compute", t, 3)
         /\ wish' = [wish EXCEPT ![t][c] = q]
         /\ astray' = (astray \/ (Regresses = "replace" /\ t = To /\ moved[c] # 3))
  BY <1>1 DEF Asked!Notify, Asked!Off, Regresses, Asked!Regression
<1>5. \A x \in Mimes : /\ timer'[x] = IF x = m /\ m \notin dqs THEN TRUE ELSE timer[x]
                       /\ timer'[x] \in BOOLEAN
  BY <1>3 DEF AskedInv, AskedTypes
<1>6. dqs' \subseteq Mimes /\ timer' \in [Mimes -> BOOLEAN]
  BY <1>3 DEF AskedInv, AskedTypes
<1>7. CASE UNCHANGED <<subscribed, proc, wish, astray>> /\ t # m
  <2>1. AskedTypes'  BY <1>3, <1>6, <1>7 DEF AskedInv, AskedTypes
  <2>2. Regresses' = Regresses /\ RegressionPlaces'
    BY <1>3, <1>7 DEF AskedInv, RegressionPlaces, Regresses
  <2>3. ASSUME ~astray, ~mgrClosed PROVE MapsAreWishes' /\ MaximaAreRight'
    <3>1. MapsAreWishes'
      BY <1>3, <1>7, <2>2, <2>3, MapsStay DEF AskedInv
    <3>2. \A x \in Mimes : (Computing(x) => Computing(x)') /\ (Reporting(x) => Reporting(x)')
      BY <1>3, <1>5, <1>7, <2>2 DEF Computing, Reporting
    <3>3. \A x \in Mimes : Asked!BestOf(subscribed[x])' = Asked!BestOf(subscribed[x])
      BY <1>7 DEF Asked!BestOf
    <3>4. regressTo /\ m = From  BY <1>1, <1>7
    <3>5. MaximaAreRight'
      BY <1>3, <1>7, <2>3, <3>2, <3>3, <3>4 DEF AskedInv, MaximaAreRight
    <3> QED BY <3>1, <3>5
  <2>4. ASSUME ~mgrClosed PROVE ToldIsCurrent'
    BY <1>3, <1>7, <2>4, ToldStays DEF AskedInv, Updating
  <2> QED BY <1>3, <1>7, <2>1, <2>2, <2>3, <2>4 DEF AskedInv
<1>8. CASE /\ subscribed' = [subscribed EXCEPT ![t][c] = q]
           /\ proc' = Asked!At(c, "compute", t, 3)
           /\ wish' = [wish EXCEPT ![t][c] = q]
           /\ astray' = (astray \/ (Regresses = "replace" /\ t = To /\ moved[c] # 3))
  <2>1. /\ c \in Procs /\ c # "regression"  BY ProcNames
  <2>2. /\ proc' \in [Procs -> [at : Places, mime : Mimes, q : Qualities]]
        /\ proc'[c].at = "compute" /\ proc'[c].mime = t
        /\ \A x \in Procs : x # c => proc'[x] = proc[x]
    BY <1>2, <1>8, <2>1, MovesTo DEF AskedInv, Places, Qualities
  <2>3. /\ subscribed' \in [Mimes -> [Clients -> Qualities]] /\ wish' \in [Mimes -> [Clients -> Qualities]]
        /\ \A x \in Mimes, y \in Clients :
             /\ subscribed'[x][y] = IF x = t /\ y = c THEN q ELSE subscribed[x][y]
             /\ wish'[x][y] = IF x = t /\ y = c THEN q ELSE wish[x][y]
        /\ \A x \in Mimes : x # t => subscribed'[x] = subscribed[x]
    BY <1>2, <1>8 DEF AskedInv, AskedTypes
  <2>4. astray' \in BOOLEAN /\ (~astray' => ~astray)  BY <1>8 DEF AskedInv, AskedTypes
  <2>5. AskedTypes'
    BY <1>3, <1>6, <2>2, <2>3, <2>4 DEF AskedInv, AskedTypes
  <2>6. Regresses' = Regresses  BY <2>1, <2>2, ProcNames DEF Regresses
  <2>7. RegressionPlaces'
    <3>1. \A p \in Procs : p # "regression" => proc'[p].at \notin {"stop", "replace"}
      BY <2>2 DEF AskedInv, RegressionPlaces
    <3>2. regressTo => \A y \in Clients : wish'[From][y] = wish[From][y]
      BY <1>2, <2>3, ProcNames
    <3> QED BY <1>3, <2>6, <3>1, <3>2, PlacesStay DEF AskedInv
  <2>8. ASSUME ~astray', ~mgrClosed PROVE MapsAreWishes' /\ MaximaAreRight'
    <3>1. MapsAreWishes'
      <4>1. Regresses = "replace" /\ t = To => moved[c] = 3  BY <1>8, <2>8
      <4>2. q \in {0, 2, 3}  BY DEF Qualities
      <4>3. ASSUME NEW x \in Mimes, NEW y \in Clients
            PROVE  wish'[x][y] = IF x = To /\ Regresses' = "replace" THEN Better(subscribed'[x][y], moved'[y])
                                 ELSE subscribed'[x][y]
        <5>1. CASE x = t /\ y = c
          BY <1>3, <2>3, <2>6, <4>1, <4>2, <5>1 DEF Better
        <5>2. CASE ~(x = t /\ y = c)
          BY <1>3, <2>3, <2>4, <2>6, <2>8, <5>2 DEF AskedInv, MapsAreWishes
        <5> QED BY <5>1, <5>2
      <4> QED BY <4>3 DEF MapsAreWishes
    <3>2. \A x \in Mimes : (Computing(x) => Computing(x)') /\ (Reporting(x) => Reporting(x)')
      BY <1>3, <1>5, <2>1, <2>2, <2>6, OthersGoOn
    <3>3. \A x \in Mimes : x # t => Asked!BestOf(subscribed[x])' = Asked!BestOf(subscribed[x])
      BY <2>3, BestStays
    <3>4. Computing(t)'  BY <2>1, <2>2 DEF Computing
    <3>5. m \notin dqs => Computing(m)'  BY <1>5 DEF Computing
    <3>6. MaximaAreRight'
      BY <1>3, <2>4, <2>8, <3>2, <3>3, <3>4, <3>5 DEF AskedInv, MaximaAreRight
    <3> QED BY <3>1, <3>6
  <2>9. ASSUME ~mgrClosed PROVE ToldIsCurrent'
    <3>1. Updating => Updating'  BY <1>3, <2>1, <2>2, OthersGoOn
    <3> QED BY <1>3, <2>9, <3>1, ToldStays DEF AskedInv
  <2> QED BY <1>3, <2>4, <2>5, <2>7, <2>8, <2>9 DEF AskedInv
<1> QED BY <1>4, <1>7, <1>8

LEMMA updateQualityChangeKeeps ==
  ASSUME AskedInv, NEW p \in Procs, Asked!updateQualityChange(p), UNCHANGED dynCase PROVE AskedInv'
<1>1. PICK m : m = proc[p].mime  OBVIOUS
<1>2. PICK best : best = Asked!BestOf(subscribed[m])  OBVIOUS
<1>3. m \in Mimes /\ best \in Qualities
  BY <1>1, <1>2, BestOfIsOne DEF AskedInv, AskedTypes
<1>4. /\ proc[p].at \in {"compute", "force"}
      /\ UNCHANGED <<dqs, subscribed, timer, regressTo, regressed, maxQuality, committed, waiting, ops,
                     mgrClosed, expected, toRestart, toClear, moved, wish, astray>>
  BY DEF Asked!updateQualityChange, Asked!manager, Asked!outside, Asked!loops
<1>5. \/ best = dqMax[m] /\ inited[m] /\ proc' = Asked!Done(p) /\ UNCHANGED <<inited, dqMax>>
      \/ /\ inited' = [inited EXCEPT ![m] = TRUE] /\ dqMax' = [dqMax EXCEPT ![m] = best]
         /\ proc' = Asked!At(p, "report", m, best)
  BY <1>1, <1>2 DEF Asked!updateQualityChange
<1>6. p # "regression"
  BY <1>4 DEF AskedInv, RegressionPlaces, Regresses
<1>7. /\ proc' \in [Procs -> [at : Places, mime : Mimes, q : Qualities]]
      /\ \/ best = dqMax[m] /\ inited[m] /\ UNCHANGED <<inited, dqMax>> /\ proc'[p].at = "idle"
         \/ /\ inited' = [inited EXCEPT ![m] = TRUE] /\ dqMax' = [dqMax EXCEPT ![m] = best]
            /\ proc'[p].at = "report" /\ proc'[p].mime = m /\ proc'[p].q = best
      /\ \A x \in Procs : x # p => proc'[x] = proc[x]
  <2>1. CASE best = dqMax[m] /\ inited[m] /\ proc' = Asked!Done(p) /\ UNCHANGED <<inited, dqMax>>
    BY <2>1, DoneIsIdle DEF AskedInv
  <2>2. CASE /\ inited' = [inited EXCEPT ![m] = TRUE] /\ dqMax' = [dqMax EXCEPT ![m] = best]
             /\ proc' = Asked!At(p, "report", m, best)
    BY <1>3, <2>2, MovesTo DEF AskedInv, Places
  <2> QED BY <1>5, <2>1, <2>2
<1>8. /\ inited' \in [Mimes -> BOOLEAN] /\ dqMax' \in [Mimes -> Qualities]
      /\ \A x \in Mimes : x # m => inited'[x] = inited[x] /\ dqMax'[x] = dqMax[x]
      /\ inited'[m] /\ dqMax'[m] = best
  <2>1. CASE best = dqMax[m] /\ inited[m] /\ UNCHANGED <<inited, dqMax>>
    BY <1>3, <2>1 DEF AskedInv, AskedTypes
  <2>2. CASE inited' = [inited EXCEPT ![m] = TRUE] /\ dqMax' = [dqMax EXCEPT ![m] = best]
    BY <1>3, <2>2 DEF AskedInv, AskedTypes
  <2> QED BY <1>7, <2>1, <2>2
<1>9. AskedTypes'
  BY <1>4, <1>7, <1>8 DEF AskedInv, AskedTypes
<1>10. Regresses' = Regresses  BY <1>6, <1>7, OthersGoOn
<1>11. RegressionPlaces'
  <2>1. \A x \in Procs : x # "regression" => proc'[x].at \notin {"stop", "replace"}
    BY <1>7 DEF AskedInv, RegressionPlaces
  <2> QED BY <1>4, <1>10, <2>1, PlacesStay DEF AskedInv
<1>12. ASSUME ~astray, ~mgrClosed PROVE MapsAreWishes' /\ MaximaAreRight'
  <2>1. MapsAreWishes'  BY <1>4, <1>10, <1>12, MapsStay DEF AskedInv
  <2>2. \A x \in Mimes : Asked!BestOf(subscribed[x])' = Asked!BestOf(subscribed[x])
    BY <1>4, BestStays
  <2>3. \A x \in Mimes : x # m => (Computing(x) => Computing(x)') /\ (Reporting(x) => Reporting(x)')
    BY <1>1, <1>4, <1>7, <1>8, <1>10, OthersGoOn
  <2>4. ~(regressed /\ m = From) => maxQuality[m] = dqMax'[m] \/ Reporting(m)'
    <3>1. CASE best = dqMax[m] /\ inited[m] /\ UNCHANGED <<inited, dqMax>> /\ proc'[p].at = "idle"
      <4>1. Reporting(m) => Reporting(m)'
        BY <1>3, <1>4, <1>7, <3>1, OthersGoOn
      <4> QED BY <1>3, <1>12, <3>1, <4>1 DEF AskedInv, MaximaAreRight
    <3>2. CASE proc'[p].at = "report" /\ proc'[p].mime = m /\ proc'[p].q = best
      BY <1>8, <3>2 DEF Reporting
    <3> QED BY <1>7, <3>1, <3>2
  <2>5. ASSUME NEW x \in Mimes
        PROVE  /\ x \in dqs' /\ ~(regressTo' /\ x = From) =>
                    Computing(x)' \/ (inited'[x] /\ dqMax'[x] = Asked!BestOf(subscribed[x])')
               /\ inited'[x] /\ ~(regressed' /\ x = From) => maxQuality'[x] = dqMax'[x] \/ Reporting(x)'
    <3>1. CASE x = m  BY <1>2, <1>4, <1>8, <2>2, <2>4, <3>1
    <3>2. CASE x # m
      BY <1>4, <1>8, <1>12, <2>2, <2>3, <3>2 DEF AskedInv, MaximaAreRight
    <3> QED BY <3>1, <3>2
  <2>6. MaximaAreRight'  BY <2>5 DEF MaximaAreRight
  <2> QED BY <2>1, <2>6
<1>13. ASSUME ~mgrClosed PROVE ToldIsCurrent'
  <2>1. Updating => Updating'  BY <1>4, <1>7, OthersGoOn
  <2> QED BY <1>4, <1>13, <2>1, ToldStays DEF AskedInv
<1> QED BY <1>4, <1>9, <1>11, <1>12, <1>13 DEF AskedInv

LEMMA OnUpdateMaxQualityKeeps ==
  ASSUME AskedInv, NEW p \in Procs, Asked!OnUpdateMaxQualityForMime(p), UNCHANGED dynCase PROVE AskedInv'
<1>1. PICK m, q : m = proc[p].mime /\ q = proc[p].q  OBVIOUS
<1>2. m \in Mimes /\ q \in Qualities  BY <1>1 DEF AskedInv, AskedTypes
<1>3. /\ proc[p].at = "report"
      /\ UNCHANGED <<dqs, subscribed, inited, dqMax, timer, regressTo, regressed, committed, waiting, ops,
                     mgrClosed, expected, toRestart, toClear, moved, wish>>
  BY DEF Asked!OnUpdateMaxQualityForMime, Asked!quality, Asked!outside, Asked!loops
<1>4. /\ maxQuality' = IF regressed /\ m = From THEN maxQuality ELSE [maxQuality EXCEPT ![m] = q]
      /\ proc' = Asked!At(p, "update", m, 3)
      /\ astray' = (astray \/ dqMax[m] # q)
  BY <1>1 DEF Asked!OnUpdateMaxQualityForMime, Asked!Off
<1>5. p # "regression"
  BY <1>3 DEF AskedInv, RegressionPlaces, Regresses
<1>6. /\ proc' \in [Procs -> [at : Places, mime : Mimes, q : Qualities]]
      /\ proc'[p].at = "update"
      /\ \A x \in Procs : x # p => proc'[x] = proc[x]
  BY <1>2, <1>4, MovesTo DEF AskedInv, Places, Qualities
<1>7. /\ maxQuality' \in Reports
      /\ \A x \in Mimes : maxQuality'[x] = IF x = m /\ ~(regressed /\ m = From) THEN q ELSE maxQuality[x]
  BY <1>2, <1>4 DEF AskedInv, AskedTypes, Reports, Qualities
<1>8. astray' \in BOOLEAN /\ (~astray' => ~astray /\ dqMax[m] = q)  BY <1>4 DEF AskedInv, AskedTypes
<1>9. AskedTypes'
  BY <1>3, <1>6, <1>7, <1>8 DEF AskedInv, AskedTypes
<1>10. Regresses' = Regresses  BY <1>5, <1>6, OthersGoOn
<1>11. RegressionPlaces'
  <2>1. \A x \in Procs : x # "regression" => proc'[x].at \notin {"stop", "replace"}
    BY <1>6 DEF AskedInv, RegressionPlaces
  <2>2. regressed => maxQuality'[From] = maxQuality[From]
    BY <1>7, ProcNames
  <2> QED BY <1>3, <1>10, <2>1, <2>2, PlacesStay DEF AskedInv
<1>12. ASSUME ~astray', ~mgrClosed PROVE MapsAreWishes' /\ MaximaAreRight'
  <2>1. MapsAreWishes'  BY <1>3, <1>8, <1>10, <1>12, MapsStay DEF AskedInv
  <2>2. \A x \in Mimes : Asked!BestOf(subscribed[x])' = Asked!BestOf(subscribed[x])
    BY <1>3, BestStays
  <2>3. \A x \in Mimes : Computing(x) => Computing(x)'
    BY <1>3, <1>6, <1>10, OthersGoOn
  <2>4. \A x \in Mimes : x # m /\ Reporting(x) => Reporting(x)'
    BY <1>1, <1>3, <1>6, OthersGoOn
  <2>5. \A x \in Mimes : inited[x] /\ ~(regressed /\ x = From) => maxQuality'[x] = dqMax[x] \/ Reporting(x)'
    BY <1>7, <1>8, <1>12, <2>4 DEF AskedInv, MaximaAreRight
  <2>6. MaximaAreRight'
    BY <1>3, <1>8, <1>12, <2>2, <2>3, <2>5 DEF AskedInv, MaximaAreRight
  <2> QED BY <2>1, <2>6
<1>13. ASSUME ~mgrClosed PROVE ToldIsCurrent'
  <2>1. Updating'  BY <1>6 DEF Updating
  <2>2. LastTold' = LastTold /\ Asked!NothingYet' = Asked!NothingYet
    BY <1>3 DEF LastTold, Asked!NothingYet
  <2>3. \A x \in Mimes : maxQuality[x] # 4 => maxQuality'[x] # 4
    BY <1>2, <1>7 DEF Qualities
  <2> QED BY <1>3, <1>13, <2>1, <2>2, <2>3 DEF AskedInv, ToldIsCurrent
<1> QED BY <1>3, <1>8, <1>9, <1>11, <1>12, <1>13 DEF AskedInv

LEMMA TimerFiresKeeps ==
  ASSUME AskedInv, NEW m \in Mimes, Asked!TimerFires(m), UNCHANGED dynCase PROVE AskedInv'
<1>1. /\ proc[m].at = "idle" /\ proc' = Asked!At(m, "force", m, 3)
      /\ timer' = [timer EXCEPT ![m] = FALSE]
      /\ UNCHANGED <<dqs, subscribed, inited, dqMax, regressTo, regressed, maxQuality, committed, waiting, ops,
                     mgrClosed, expected, toRestart, toClear, moved, wish, astray>>
  BY DEF Asked!TimerFires, Asked!manager, Asked!outside, Asked!loops, Asked!Off
<1>2. m \in Procs /\ m # "regression"  BY ProcNames
<1>3. /\ proc' \in [Procs -> [at : Places, mime : Mimes, q : Qualities]]
      /\ proc'[m].at = "force" /\ proc'[m].mime = m
      /\ \A x \in Procs : x # m => proc'[x] = proc[x]
  BY <1>1, <1>2, MovesTo DEF AskedInv, Places, Qualities
<1>4. timer' \in [Mimes -> BOOLEAN] /\ \A x \in Mimes : x # m => timer'[x] = timer[x]
  BY <1>1 DEF AskedInv, AskedTypes
<1>5. AskedTypes'  BY <1>1, <1>3, <1>4 DEF AskedInv, AskedTypes
<1>6. Regresses' = Regresses  BY <1>2, <1>3, OthersGoOn
<1>7. RegressionPlaces'
  <2>1. \A x \in Procs : x # "regression" => proc'[x].at \notin {"stop", "replace"}
    BY <1>3 DEF AskedInv, RegressionPlaces
  <2> QED BY <1>1, <1>6, <2>1, PlacesStay DEF AskedInv
<1>8. ASSUME ~astray, ~mgrClosed PROVE MapsAreWishes' /\ MaximaAreRight'
  <2>1. \A x \in Mimes : Computing(x) => Computing(x)'
    <3>1. Computing(m)'  BY <1>2, <1>3 DEF Computing
    <3>2. \A x \in Mimes : x # m /\ Computing(x) => Computing(x)'
      BY <1>1, <1>2, <1>3, <1>4, <1>6, OthersGoOn
    <3> QED BY <3>1, <3>2
  <2>2. \A x \in Mimes : Reporting(x) => Reporting(x)'
    BY <1>1, <1>2, <1>3, OthersGoOn
  <2> QED BY <1>1, <1>6, <1>8, <2>1, <2>2, MapsStay, MaximaStay DEF AskedInv
<1>9. ASSUME ~mgrClosed PROVE ToldIsCurrent'
  <2>1. Updating => Updating'  BY <1>1, <1>2, <1>3, OthersGoOn
  <2> QED BY <1>1, <1>9, <2>1, ToldStays DEF AskedInv
<1> QED BY <1>1, <1>5, <1>7, <1>8, <1>9 DEF AskedInv

LEMMA LastToldIsReport == ASSUME AskedTypes PROVE LastTold \in Reports
<1>1. CASE ops = <<>>  BY <1>1 DEF AskedTypes, LastTold
<1>2. CASE ops # <<>>
  <2>1. Len(ops) \in 1..Len(ops)  BY <1>2 DEF AskedTypes
  <2> QED BY <1>2, <2>1 DEF AskedTypes, LastTold
<1> QED BY <1>1, <1>2

(* update looks at how many codecs have a maximum, and at the ones that     *)
(* were committed: when it finds nothing changed, nothing is.               *)
LEMMA NothingChanged ==
  ASSUME AskedTypes, ToldIsCurrent, ~Asked!Changed
  PROVE  LastTold = maxQuality
<1> DEFINE K(f) == {m \in Mimes : f[m] # 4}
<1>1. Asked!Known(maxQuality) = K(maxQuality) /\ Asked!Known(committed) = K(committed)
  BY DEF Asked!Known, Asked!Absent
<1>2. /\ Cardinality(K(maxQuality)) = Cardinality(K(committed))
      /\ \A m \in K(maxQuality) : committed[m] = 4 \/ committed[m] = maxQuality[m]
  BY <1>1, SameCardinality DEF Asked!Changed, Asked!Absent
<1>3. maxQuality \in Reports /\ committed \in Reports /\ LastTold \in Reports
  BY LastToldIsReport DEF AskedTypes
<1>4. K(committed) \subseteq K(maxQuality)
  BY <1>3 DEF ToldIsCurrent, Asked!NothingYet, Asked!Absent
<1>5. IsFiniteSet(K(maxQuality))
  BY FS_Subset, DynacastNames
<1>6. K(committed) = K(maxQuality)
  BY <1>2, <1>4, <1>5, FS_Subset
<1>7. \A m \in Mimes : committed[m] = maxQuality[m]
  BY <1>2, <1>6
<1>8. committed = maxQuality
  BY <1>3, <1>7 DEF Reports
<1>9. CASE committed = Asked!NothingYet
  <2>1. \A m \in Mimes : maxQuality[m] = 4  BY <1>8, <1>9 DEF Asked!NothingYet, Asked!Absent
  <2>2. \A m \in Mimes : LastTold[m] = maxQuality[m]  BY <2>1 DEF ToldIsCurrent
  <2> QED BY <1>3, <2>2 DEF Reports
<1> QED BY <1>8, <1>9 DEF ToldIsCurrent

LEMMA NothingKnown ==
  ASSUME AskedTypes, ToldIsCurrent, Asked!Known(maxQuality) = {}
  PROVE  LastTold = maxQuality
<1>1. maxQuality \in Reports /\ LastTold \in Reports
  BY LastToldIsReport DEF AskedTypes
<1>2. \A m \in Mimes : maxQuality[m] = 4  BY DEF Asked!Known, Asked!Absent
<1>3. \A m \in Mimes : LastTold[m] = maxQuality[m]  BY <1>2 DEF ToldIsCurrent
<1> QED BY <1>1, <1>3 DEF Reports

LEMMA UpdatesKeeps ==
  ASSUME AskedInv, NEW p \in Procs, Asked!Updates(p), UNCHANGED dynCase PROVE AskedInv'
<1>1. /\ proc[p].at \in {"update", "forceUpdate"}
      /\ UNCHANGED <<dqs, subscribed, inited, dqMax, timer, regressTo, regressed, maxQuality, mgrClosed,
                     expected, toRestart, toClear, moved, wish, astray>>
  BY DEF Asked!Updates, Asked!quality, Asked!outside, Asked!loops
<1>2. \/ /\ Asked!Known(maxQuality) = {} \/ ~Asked!Changed
         /\ UNCHANGED <<committed, waiting, ops>>
      \/ waiting' = TRUE /\ UNCHANGED <<committed, ops>>
      \/ /\ waiting' = FALSE /\ committed' = maxQuality
         /\ ops' = IF mgrClosed THEN ops ELSE Append(ops, maxQuality)
  BY DEF Asked!Updates, Asked!update, Asked!Commit, Asked!Enqueued
<1>3. proc' = IF p = "regression" THEN Asked!At(p, "stop", From, 3) ELSE Asked!Done(p)
  BY DEF Asked!Updates, Asked!Regression, Asked!Off
<1>4. /\ proc' \in [Procs -> [at : Places, mime : Mimes, q : Qualities]]
      /\ proc'[p].at = IF p = "regression" THEN "stop" ELSE "idle"
      /\ \A x \in Procs : x # p => proc'[x] = proc[x]
  <2>1. CASE p = "regression"
    BY <1>3, <2>1, MovesTo, ProcNames DEF AskedInv, Places, Qualities
  <2>2. CASE p # "regression"
    BY <1>3, <2>2, DoneIsIdle DEF AskedInv
  <2> QED BY <2>1, <2>2
<1>5. committed' \in Reports /\ waiting' \in BOOLEAN /\ ops' \in Seq(Reports)
  <2>1. waiting \in BOOLEAN /\ committed \in Reports /\ maxQuality \in Reports /\ ops \in Seq(Reports)
    BY DEF AskedInv, AskedTypes
  <2>2. waiting' \in BOOLEAN  BY <1>2, <2>1
  <2>3. committed' \in Reports /\ ops' \in Seq(Reports)  BY <1>2, <2>1
  <2> QED BY <2>2, <2>3
<1>6. AskedTypes'
  BY <1>1, <1>4, <1>5 DEF AskedInv, AskedTypes
<1>7. /\ p # "regression" => Regresses' = Regresses
      /\ p = "regression" => Regresses' = "stop" /\ Regresses \in {"update", "forceUpdate"}
  BY <1>1, <1>4, OthersGoOn DEF Regresses
<1>8. RegressionPlaces'
  <2>1. \A x \in Procs : x # "regression" => proc'[x].at \notin {"stop", "replace"}
    BY <1>4 DEF AskedInv, RegressionPlaces
  <2>2. CASE p # "regression"
    BY <1>1, <1>7, <2>1, <2>2, PlacesStay DEF AskedInv
  <2>3. CASE p = "regression"
    <3>1. Regresses' = "stop" /\ Regresses = "update"
      BY <1>7, <2>3 DEF AskedInv, RegressionPlaces
    <3>2. regressed /\ ~regressTo /\ maxQuality[From] = 3
      BY <3>1 DEF AskedInv, RegressionPlaces
    <3> QED BY <1>1, <2>1, <3>1, <3>2 DEF RegressionPlaces
  <2> QED BY <2>2, <2>3
<1>9. ASSUME ~astray, ~mgrClosed PROVE MapsAreWishes' /\ MaximaAreRight'
  <2>1. MapsAreWishes'
    BY <1>1, <1>7, <1>9 DEF AskedInv, MapsAreWishes
  <2>2. \A x \in Mimes : (Computing(x) => Computing(x)') /\ (Reporting(x) => Reporting(x)')
    BY <1>1, <1>4, <1>7, OthersGoOn
  <2> QED BY <1>1, <1>9, <2>1, <2>2, MaximaStay DEF AskedInv
<1>10. ASSUME ~mgrClosed PROVE ToldIsCurrent'
  <2>1. Asked!NothingYet' = Asked!NothingYet  BY DEF Asked!NothingYet
  <2>2. AskedTypes /\ ToldIsCurrent  BY <1>10 DEF AskedInv
  <2>3. CASE UNCHANGED <<committed, ops>> /\ waiting' = TRUE
    <3>1. Updating'  BY <2>3 DEF Updating
    <3> QED BY <1>1, <2>2, <2>3, <3>1, ToldStays
  <2>4. CASE UNCHANGED <<committed, ops>> /\ (Asked!Known(maxQuality) = {} \/ ~Asked!Changed)
    <3>1. LastTold = maxQuality  BY <2>2, <2>4, NothingChanged, NothingKnown
    <3>2. LastTold' = LastTold  BY <1>1, <2>4 DEF LastTold
    <3> QED BY <1>1, <2>1, <2>2, <2>4, <3>1, <3>2 DEF ToldIsCurrent
  <2>5. CASE committed' = maxQuality /\ ops' = Append(ops, maxQuality)
    <3>1. maxQuality \in Reports /\ ops \in Seq(Reports)  BY <2>2 DEF AskedTypes
    <3>2. ops' # <<>> /\ ops'[Len(ops')] = maxQuality  BY <2>5, <3>1
    <3>3. LastTold' = maxQuality  BY <3>2 DEF LastTold
    <3> QED BY <1>1, <2>5, <3>3 DEF ToldIsCurrent
  <2> QED BY <1>2, <1>10, <2>3, <2>4, <2>5
<1> QED BY <1>1, <1>6, <1>8, <1>9, <1>10 DEF AskedInv

LEMMA HandleCodecRegressionKeeps ==
  ASSUME AskedInv, Asked!HandleCodecRegression, UNCHANGED dynCase PROVE AskedInv'
<1>1. /\ ~regressed /\ ~mgrClosed /\ proc["regression"].at = "idle" /\ regressed' = TRUE
      /\ proc' = Asked!At("regression", "update", From, 3)
      /\ UNCHANGED <<dqs, subscribed, inited, dqMax, timer, regressTo, mgrClosed, committed, waiting, ops,
                     expected, toRestart, toClear, moved, wish, astray>>
  BY DEF Asked!HandleCodecRegression, Asked!quality, Asked!outside, Asked!loops, Asked!Off, Asked!Regression
<1>2. maxQuality' = [maxQuality EXCEPT ![From] = 3, ![To] = IF @ = 4 THEN 2 ELSE @]
  BY DEF Asked!HandleCodecRegression, Asked!Off, Asked!Absent, Asked!High
<1>3. /\ maxQuality' \in Reports
      /\ \A x \in Mimes : maxQuality'[x] = IF x = From THEN 3
                                           ELSE IF x = To /\ maxQuality[x] = 4 THEN 2 ELSE maxQuality[x]
  BY <1>2, ProcNames DEF AskedInv, AskedTypes, Reports
<1>4. /\ "regression" \in Procs /\ From \in Mimes
      /\ proc' \in [Procs -> [at : Places, mime : Mimes, q : Qualities]]
      /\ proc'["regression"].at = "update"
      /\ \A x \in Procs : x # "regression" => proc'[x] = proc[x]
  BY <1>1, MovesTo, ProcNames DEF AskedInv, Places, Qualities
<1>5. AskedTypes'
  BY <1>1, <1>3, <1>4 DEF AskedInv, AskedTypes
<1>6. Regresses' = "update" /\ Regresses = "idle"  BY <1>1, <1>4 DEF Regresses
<1>7. RegressionPlaces'
  <2>1. \A x \in Procs : x # "regression" => proc'[x].at \notin {"stop", "replace"}
    BY <1>4 DEF AskedInv, RegressionPlaces
  <2>2. ~regressTo  BY <1>1 DEF AskedInv, RegressionPlaces
  <2> QED BY <1>1, <1>3, <1>4, <1>6, <2>1, <2>2 DEF RegressionPlaces
<1>8. ASSUME ~astray PROVE MapsAreWishes' /\ MaximaAreRight'
  <2>1. MapsAreWishes'
    BY <1>1, <1>6, <1>8 DEF AskedInv, MapsAreWishes
  <2>2. \A x \in Mimes : (Computing(x) => Computing(x)') /\ (Reporting(x) => Reporting(x)')
    BY <1>1, <1>4, <1>6, OthersGoOn DEF Regresses
  <2>3. \A x \in Mimes : Asked!BestOf(subscribed[x])' = Asked!BestOf(subscribed[x])
    BY <1>1, BestStays
  <2>4. \A x \in Mimes : dqMax[x] # 4
    <3>1. \A x \in Mimes : dqMax[x] \in Qualities  BY DEF AskedInv, AskedTypes
    <3> QED BY <3>1 DEF Qualities
  <2>5. \A x \in Mimes : inited[x] /\ x # From => maxQuality'[x] = dqMax[x] \/ Reporting(x)'
    BY <1>1, <1>3, <1>8, <2>2, <2>4 DEF AskedInv, MaximaAreRight
  <2>6. MaximaAreRight'
    BY <1>1, <1>8, <2>2, <2>3, <2>5 DEF AskedInv, MaximaAreRight
  <2> QED BY <2>1, <2>6
<1>9. ToldIsCurrent'
  <2>1. Updating'  BY <1>4 DEF Updating
  <2>2. LastTold' = LastTold /\ Asked!NothingYet' = Asked!NothingYet
    BY <1>1 DEF LastTold, Asked!NothingYet
  <2>3. \A x \in Mimes : maxQuality[x] # 4 => maxQuality'[x] # 4
    BY <1>3
  <2> QED BY <1>1, <2>1, <2>2, <2>3 DEF AskedInv, ToldIsCurrent
<1> QED BY <1>1, <1>5, <1>7, <1>8, <1>9 DEF AskedInv

LEMMA RegressToKeeps ==
  ASSUME AskedInv, Asked!RegressTo, UNCHANGED dynCase PROVE AskedInv'
<1> DEFINE nobody == [c \in Clients |-> 3]
<1>1. /\ proc["regression"].at = "stop" /\ regressTo' = TRUE /\ dqs' = dqs \cup {To}
      /\ proc' = Asked!At("regression", "replace", To, 3)
      /\ timer' = [timer EXCEPT ![From] = FALSE, ![To] = IF To \in dqs THEN @ ELSE TRUE]
      /\ moved' = subscribed[From]
      /\ UNCHANGED <<inited, dqMax, regressed, maxQuality, mgrClosed, committed, waiting, ops,
                     expected, toRestart, toClear, astray>>
  BY DEF Asked!RegressTo, Asked!manager, Asked!outside, Asked!loops, Asked!Off, Asked!Regression
<1>2. PICK asked : asked = [c \in Clients |->
        IF Asked!BestOf(wish[From]) = 3 THEN wish[To][c]
        ELSE IF wish[From][c] = 3 THEN wish[To][c]
        ELSE IF wish[To][c] = 3 \/ wish[To][c] < wish[From][c] THEN wish[From][c] ELSE wish[To][c]]
  OBVIOUS
<1>3. subscribed' = [subscribed EXCEPT ![From] = nobody]
  BY ProcNames DEF Asked!RegressTo, Asked!Off
<1>4. wish' = [wish EXCEPT ![To] = asked, ![From] = nobody]
  BY <1>2, ProcNames DEF Asked!RegressTo, Asked!Off
<1>5. /\ wish[From] \in [Clients -> Qualities] /\ wish[To] \in [Clients -> Qualities]
      /\ subscribed[From] \in [Clients -> Qualities] /\ nobody \in [Clients -> Qualities]
  BY ProcNames DEF AskedInv, AskedTypes, Qualities
<1>6. asked \in [Clients -> Qualities]
  BY <1>2, <1>5
<1>7. /\ \A c \in Clients : nobody[c] = 3
      /\ From \in Mimes /\ To \in Mimes /\ From # To /\ "regression" \in Procs
  BY ProcNames
<1> HIDE DEF nobody
<1>8. /\ subscribed' \in [Mimes -> [Clients -> Qualities]] /\ wish' \in [Mimes -> [Clients -> Qualities]]
      /\ moved' \in [Clients -> Qualities]
      /\ wish'[To] = asked /\ wish'[From] = nobody /\ subscribed'[From] = nobody
      /\ \A x \in Mimes : x # From => subscribed'[x] = subscribed[x]
      /\ \A x \in Mimes : x # From /\ x # To => wish'[x] = wish[x]
  BY <1>1, <1>3, <1>4, <1>5, <1>6, <1>7 DEF AskedInv, AskedTypes
<1>9. /\ proc' \in [Procs -> [at : Places, mime : Mimes, q : Qualities]]
      /\ proc'["regression"].at = "replace"
      /\ \A x \in Procs : x # "regression" => proc'[x] = proc[x]
  BY <1>1, <1>7, MovesTo DEF AskedInv, Places, Qualities
<1>10. timer' \in [Mimes -> BOOLEAN] /\ \A x \in Mimes : x # From /\ timer[x] => timer'[x]
  <2>1. timer \in [Mimes -> BOOLEAN]  BY DEF AskedInv, AskedTypes
  <2>2. \A x \in Mimes : timer'[x] = IF x = From THEN FALSE ELSE IF x = To /\ To \notin dqs THEN TRUE ELSE timer[x]
    BY <1>1, <1>7, <2>1
  <2>3. timer' \in [Mimes -> BOOLEAN]  BY <1>1, <1>7, <2>1
  <2> QED BY <2>2, <2>3
<1>11. AskedTypes'
  BY <1>1, <1>7, <1>8, <1>9, <1>10 DEF AskedInv, AskedTypes
<1>12. Regresses' = "replace" /\ Regresses = "stop" /\ regressed /\ ~regressTo
  BY <1>1, <1>9 DEF Regresses, AskedInv, RegressionPlaces
<1>13. RegressionPlaces'
  <2>1. \A x \in Procs : x # "regression" => proc'[x].at \notin {"stop", "replace"}
    BY <1>9 DEF AskedInv, RegressionPlaces
  <2>2. regressed /\ maxQuality[From] = 3  BY <1>12 DEF AskedInv, RegressionPlaces
  <2> QED BY <1>1, <1>7, <1>8, <1>12, <2>1, <2>2 DEF RegressionPlaces
<1>14. ASSUME ~astray, ~mgrClosed PROVE MapsAreWishes' /\ MaximaAreRight'
  <2>1. \A x \in Mimes, c \in Clients : wish[x][c] = subscribed[x][c]
    BY <1>12, <1>14 DEF AskedInv, MapsAreWishes
  <2>2. ASSUME NEW c \in Clients PROVE asked[c] = Better(subscribed[To][c], subscribed[From][c])
    <3>1. asked[c] = IF wish[From][c] = 3 THEN wish[To][c]
                     ELSE IF wish[To][c] = 3 \/ wish[To][c] < wish[From][c] THEN wish[From][c]
                     ELSE wish[To][c]
      <4>1. Asked!BestOf(wish[From]) = 3 => wish[From][c] = 3  BY <1>5, BestOfIsOne
      <4> QED BY <1>2, <4>1
    <3>2. wish[From][c] \in {0, 2, 3} /\ wish[To][c] \in {0, 2, 3}  BY <1>5 DEF Qualities
    <3>3. wish[From][c] = subscribed[From][c] /\ wish[To][c] = subscribed[To][c]  BY <1>7, <2>1
    <3> QED BY <3>1, <3>2, <3>3 DEF Better
  <2>3. ASSUME NEW x \in Mimes, NEW c \in Clients
        PROVE  wish'[x][c] = IF x = To /\ Regresses' = "replace" THEN Better(subscribed'[x][c], moved'[c])
                             ELSE subscribed'[x][c]
    <3>1. CASE x = To  BY <1>1, <1>7, <1>8, <1>12, <2>2, <3>1
    <3>2. CASE x = From  BY <1>7, <1>8, <3>2
    <3>3. CASE x # To /\ x # From  BY <1>8, <2>1, <3>3
    <3> QED BY <3>1, <3>2, <3>3
  <2>4. MapsAreWishes'  BY <2>3 DEF MapsAreWishes
  <2>5. \A x \in Mimes : x # From => Asked!BestOf(subscribed[x])' = Asked!BestOf(subscribed[x])
    BY <1>8, BestStays
  <2>6. \A x \in Mimes : x # From /\ Computing(x) => Computing(x)'
    BY <1>1, <1>7, <1>9, <1>10, <1>12, OthersGoOn
  <2>7. \A x \in Mimes : Reporting(x) => Reporting(x)'
    BY <1>1, <1>7, <1>9, OthersGoOn
  <2>8. Computing(To)'  BY <1>12 DEF Computing
  <2>9. MaximaAreRight'
    BY <1>1, <1>12, <1>14, <2>5, <2>6, <2>7, <2>8 DEF AskedInv, MaximaAreRight
  <2> QED BY <2>4, <2>9
<1>15. ASSUME ~mgrClosed PROVE ToldIsCurrent'
  <2>1. Updating => Updating'  BY <1>1, <1>7, <1>9, OthersGoOn
  <2> QED BY <1>1, <1>15, <2>1, ToldStays DEF AskedInv
<1> QED BY <1>1, <1>11, <1>13, <1>14, <1>15 DEF AskedInv

LEMMA ReplaceKeeps ==
  ASSUME AskedInv, Asked!Replace, UNCHANGED dynCase PROVE AskedInv'
<1>1. /\ proc["regression"].at = "replace" /\ proc' = Asked!Done("regression")
      /\ inited' = [inited EXCEPT ![To] = FALSE] /\ timer' = [timer EXCEPT ![To] = TRUE]
      /\ moved' = [c \in Clients |-> 3]
      /\ UNCHANGED <<dqs, dqMax, regressTo, regressed, maxQuality, mgrClosed, committed, waiting, ops,
                     expected, toRestart, toClear, astray, wish>>
  BY ProcNames DEF Asked!Replace, Asked!manager, Asked!outside, Asked!loops, Asked!Off, Asked!Regression
<1>2. PICK merged : merged = [c \in Clients |-> Better(subscribed[To][c], moved[c])]
  OBVIOUS
<1>3. subscribed' = [subscribed EXCEPT ![To] = merged]
  BY <1>2, ProcNames DEF Asked!Replace, Asked!Off, Better
<1>4. /\ From \in Mimes /\ To \in Mimes /\ From # To /\ "regression" \in Procs  BY ProcNames
<1>5. merged \in [Clients -> Qualities] /\ moved' \in [Clients -> Qualities]
  BY <1>1, <1>2, <1>4 DEF AskedInv, AskedTypes, Better, Qualities
<1>6. /\ subscribed' \in [Mimes -> [Clients -> Qualities]]
      /\ subscribed'[To] = merged
      /\ \A x \in Mimes : x # To => subscribed'[x] = subscribed[x]
  BY <1>3, <1>4, <1>5 DEF AskedInv, AskedTypes
<1>7. /\ proc' \in [Procs -> [at : Places, mime : Mimes, q : Qualities]]
      /\ proc'["regression"].at = "idle"
      /\ \A x \in Procs : x # "regression" => proc'[x] = proc[x]
  BY <1>1, <1>4, DoneIsIdle DEF AskedInv
<1>8. /\ timer' \in [Mimes -> BOOLEAN] /\ inited' \in [Mimes -> BOOLEAN]
      /\ timer'[To] /\ ~inited'[To]
      /\ \A x \in Mimes : x # To => timer'[x] = timer[x] /\ inited'[x] = inited[x]
  <2>1. timer \in [Mimes -> BOOLEAN] /\ inited \in [Mimes -> BOOLEAN]  BY DEF AskedInv, AskedTypes
  <2> QED BY <1>1, <1>4, <2>1
<1>9. AskedTypes'
  BY <1>1, <1>5, <1>6, <1>7, <1>8 DEF AskedInv, AskedTypes
<1>10. Regresses' = "idle" /\ Regresses = "replace" /\ regressed /\ regressTo
  BY <1>1, <1>7 DEF Regresses, AskedInv, RegressionPlaces
<1>11. RegressionPlaces'
  <2>1. \A x \in Procs : x # "regression" => proc'[x].at \notin {"stop", "replace"}
    BY <1>7 DEF AskedInv, RegressionPlaces
  <2>2. maxQuality[From] = 3 /\ \A c \in Clients : wish[From][c] = 3
    BY <1>10 DEF AskedInv, RegressionPlaces
  <2> QED BY <1>1, <1>10, <2>1, <2>2 DEF RegressionPlaces
<1>12. ASSUME ~astray, ~mgrClosed PROVE MapsAreWishes' /\ MaximaAreRight'
  <2>1. ASSUME NEW x \in Mimes, NEW c \in Clients PROVE wish'[x][c] = subscribed'[x][c]
    <3>1. CASE x = To
      BY <1>1, <1>2, <1>6, <1>10, <1>12, <3>1 DEF AskedInv, MapsAreWishes
    <3>2. CASE x # To
      BY <1>1, <1>6, <1>12, <3>2 DEF AskedInv, MapsAreWishes
    <3> QED BY <3>1, <3>2
  <2>2. MapsAreWishes'  BY <1>10, <2>1 DEF MapsAreWishes
  <2>3. \A x \in Mimes : x # To => Asked!BestOf(subscribed[x])' = Asked!BestOf(subscribed[x])
    BY <1>6, BestStays
  <2>4. \A x \in Mimes : x # To /\ Computing(x) => Computing(x)'
    BY <1>1, <1>4, <1>7, <1>8, OthersGoOn
  <2>5. \A x \in Mimes : Reporting(x) => Reporting(x)'
    BY <1>1, <1>4, <1>7, OthersGoOn
  <2>6. Computing(To)'  BY <1>8 DEF Computing
  <2>7. MaximaAreRight'
    BY <1>1, <1>8, <1>12, <2>3, <2>4, <2>5, <2>6 DEF AskedInv, MaximaAreRight
  <2> QED BY <2>2, <2>7
<1>13. ASSUME ~mgrClosed PROVE ToldIsCurrent'
  <2>1. Updating => Updating'  BY <1>1, <1>4, <1>7, OthersGoOn
  <2> QED BY <1>1, <1>13, <2>1, ToldStays DEF AskedInv
<1> QED BY <1>1, <1>9, <1>11, <1>12, <1>13 DEF AskedInv

LEMMA ClearOneKeeps ==
  ASSUME AskedInv, NEW m \in Mimes, Asked!ClearOne(m), UNCHANGED dynCase PROVE AskedInv'
<1>1. /\ proc["caller"].at = "idle" /\ proc' = Asked!At("caller", "compute", m, 3)
      /\ subscribed' = [subscribed EXCEPT ![m] = Asked!WithoutNodes(subscribed[m])]
      /\ wish' = [wish EXCEPT ![m] = Asked!WithoutNodes(wish[m])]
      /\ astray' = (astray \/ (Regresses = "replace" /\ \E n \in Nodes : moved[n] # 3))
      /\ toClear' = toClear \ {m}
      /\ UNCHANGED <<dqs, inited, dqMax, timer, regressTo, regressed, maxQuality, mgrClosed, committed,
                     waiting, ops, expected, toRestart, moved>>
  BY DEF Asked!ClearOne, Asked!manager, Asked!outside, Asked!Off, Asked!Caller, Asked!Regression, Regresses,
         AskedInv, AskedTypes
<1>2. \A f \in [Clients -> Qualities] :
        /\ Asked!WithoutNodes(f) \in [Clients -> Qualities]
        /\ \A c \in Clients : Asked!WithoutNodes(f)[c] = IF c \in Nodes THEN 3 ELSE f[c]
  BY ProcNames DEF Asked!WithoutNodes, Asked!Off, Qualities
<1>3. /\ subscribed' \in [Mimes -> [Clients -> Qualities]] /\ wish' \in [Mimes -> [Clients -> Qualities]]
      /\ \A x \in Mimes, c \in Clients :
           /\ subscribed'[x][c] = IF x = m /\ c \in Nodes THEN 3 ELSE subscribed[x][c]
           /\ wish'[x][c] = IF x = m /\ c \in Nodes THEN 3 ELSE wish[x][c]
      /\ \A x \in Mimes : x # m => subscribed'[x] = subscribed[x]
  <2>1. /\ subscribed \in [Mimes -> [Clients -> Qualities]] /\ wish \in [Mimes -> [Clients -> Qualities]]
    BY DEF AskedInv, AskedTypes
  <2>2. PICK f, g : f = Asked!WithoutNodes(subscribed[m]) /\ g = Asked!WithoutNodes(wish[m])  OBVIOUS
  <2>3. /\ f \in [Clients -> Qualities] /\ g \in [Clients -> Qualities]
        /\ \A c \in Clients : /\ f[c] = IF c \in Nodes THEN 3 ELSE subscribed[m][c]
                              /\ g[c] = IF c \in Nodes THEN 3 ELSE wish[m][c]
    BY <1>2, <2>1, <2>2
  <2>4. subscribed' = [subscribed EXCEPT ![m] = f] /\ wish' = [wish EXCEPT ![m] = g]
    BY <1>1, <2>2
  <2> QED BY <2>1, <2>3, <2>4
<1>4. astray' \in BOOLEAN /\ (~astray' => ~astray)  BY <1>1 DEF AskedInv, AskedTypes
<1>5. "caller" \in Procs /\ "caller" # "regression"  BY ProcNames
<1>6. /\ proc' \in [Procs -> [at : Places, mime : Mimes, q : Qualities]]
      /\ proc'["caller"].at = "compute" /\ proc'["caller"].mime = m
      /\ \A x \in Procs : x # "caller" => proc'[x] = proc[x]
  BY <1>1, <1>5, MovesTo DEF AskedInv, Places, Qualities
<1>7. AskedTypes'  BY <1>1, <1>3, <1>4, <1>6 DEF AskedInv, AskedTypes
<1>8. Regresses' = Regresses  BY <1>5, <1>6, OthersGoOn
<1>9. RegressionPlaces'
  <2>1. \A x \in Procs : x # "regression" => proc'[x].at \notin {"stop", "replace"}
    BY <1>6 DEF AskedInv, RegressionPlaces
  <2>2. regressTo => \A c \in Clients : wish'[From][c] = wish[From][c]
    BY <1>3, ProcNames DEF AskedInv, RegressionPlaces
  <2> QED BY <1>1, <1>8, <2>1, <2>2, PlacesStay DEF AskedInv
<1>10. ASSUME ~astray', ~mgrClosed PROVE MapsAreWishes' /\ MaximaAreRight'
  <2>1. ASSUME NEW x \in Mimes, NEW c \in Clients
        PROVE  wish'[x][c] = IF x = To /\ Regresses' = "replace" THEN Better(subscribed'[x][c], moved'[c])
                             ELSE subscribed'[x][c]
    <3>1. CASE x = m /\ c \in Nodes
      <4>1. Regresses = "replace" => moved[c] = 3  BY <1>1, <1>10, <3>1
      <4> QED BY <1>1, <1>3, <1>8, <3>1, <4>1 DEF Better
    <3>2. CASE ~(x = m /\ c \in Nodes)
      BY <1>1, <1>3, <1>4, <1>8, <1>10, <3>2 DEF AskedInv, MapsAreWishes
    <3> QED BY <3>1, <3>2
  <2>2. MapsAreWishes'  BY <2>1 DEF MapsAreWishes
  <2>3. \A x \in Mimes : x # m => Asked!BestOf(subscribed[x])' = Asked!BestOf(subscribed[x])
    BY <1>3, BestStays
  <2>4. \A x \in Mimes : (Computing(x) => Computing(x)') /\ (Reporting(x) => Reporting(x)')
    BY <1>1, <1>5, <1>6, <1>8, OthersGoOn
  <2>5. Computing(m)'  BY <1>5, <1>6 DEF Computing
  <2>6. MaximaAreRight'
    BY <1>1, <1>4, <1>10, <2>3, <2>4, <2>5 DEF AskedInv, MaximaAreRight
  <2> QED BY <2>2, <2>6
<1>11. ASSUME ~mgrClosed PROVE ToldIsCurrent'
  <2>1. Updating => Updating'  BY <1>1, <1>5, <1>6, OthersGoOn
  <2> QED BY <1>1, <1>11, <2>1, ToldStays DEF AskedInv
<1> QED BY <1>1, <1>4, <1>7, <1>9, <1>10, <1>11 DEF AskedInv

(* Steps that only start a goroutine at update, or leave all of them alone. *)
LEMMA UpdateBegins ==
  ASSUME AskedInv, NEW p \in {"caller", "debounce"}, proc[p].at = "idle",
         proc' = Asked!At(p, "forceUpdate", From, 3),
         UNCHANGED <<dynCase, dqs, subscribed, inited, dqMax, timer, regressTo, regressed, maxQuality, mgrClosed,
                     committed, waiting, ops, expected, toRestart, toClear, moved, wish, astray>>
  PROVE  AskedInv'
<1>1. p \in Procs /\ p # "regression" /\ From \in Mimes  BY ProcNames
<1>2. /\ proc' \in [Procs -> [at : Places, mime : Mimes, q : Qualities]]
      /\ proc'[p].at = "forceUpdate"
      /\ \A x \in Procs : x # p => proc'[x] = proc[x]
  BY <1>1, MovesTo DEF AskedInv, Places, Qualities
<1>3. AskedTypes'  BY <1>2 DEF AskedInv, AskedTypes
<1>4. Regresses' = Regresses  BY <1>1, <1>2, OthersGoOn
<1>5. RegressionPlaces'
  <2>1. \A x \in Procs : x # "regression" => proc'[x].at \notin {"stop", "replace"}
    BY <1>2 DEF AskedInv, RegressionPlaces
  <2> QED BY <1>4, <2>1, PlacesStay DEF AskedInv
<1>6. ASSUME ~astray, ~mgrClosed PROVE MapsAreWishes' /\ MaximaAreRight'
  <2>1. \A x \in Mimes : (Computing(x) => Computing(x)') /\ (Reporting(x) => Reporting(x)')
    BY <1>1, <1>2, <1>4, OthersGoOn
  <2> QED BY <1>4, <1>6, <2>1, MapsStay, MaximaStay DEF AskedInv
<1>7. ASSUME ~mgrClosed PROVE ToldIsCurrent'
  <2>1. Updating => Updating'  BY <1>1, <1>2, OthersGoOn
  <2> QED BY <1>7, <2>1, ToldStays DEF AskedInv
<1> QED BY <1>3, <1>5, <1>6, <1>7 DEF AskedInv

LEMMA AskedRest ==
  ASSUME AskedInv, toClear' \subseteq Mimes,
         UNCHANGED <<dynCase, dqs, subscribed, inited, dqMax, timer, regressTo, regressed, maxQuality, mgrClosed,
                     committed, waiting, ops, expected, toRestart, moved, wish, astray, proc>>
  PROVE  AskedInv'
<1>1. AskedTypes'  BY DEF AskedInv, AskedTypes
<1>2. Regresses' = Regresses /\ RegressionPlaces'  BY DEF AskedInv, RegressionPlaces, Regresses
<1>3. ASSUME ~astray, ~mgrClosed PROVE MapsAreWishes' /\ MaximaAreRight'
  <2>1. \A x \in Mimes : (Computing(x) => Computing(x)') /\ (Reporting(x) => Reporting(x)')
    BY <1>2 DEF Computing, Reporting
  <2> QED BY <1>2, <1>3, <2>1, MapsStay, MaximaStay DEF AskedInv
<1>4. ASSUME ~mgrClosed PROVE ToldIsCurrent'
  BY <1>4, ToldStays DEF AskedInv, Updating
<1> QED BY <1>1, <1>2, <1>3, <1>4 DEF AskedInv

LEMMA LayerRestartKeeps ==
  ASSUME AskedInv, Asked!Restart, UNCHANGED dynCase PROVE AskedInv'
<1>1. /\ toRestart = {} /\ toRestart' = dqs /\ committed' = Asked!NothingYet
      /\ UNCHANGED <<dqs, subscribed, inited, dqMax, timer, regressTo, regressed, maxQuality, mgrClosed,
                     waiting, ops, expected, toClear, moved, wish, astray, proc>>
  BY DEF Asked!Restart, Asked!Free, Asked!quality, Asked!outside
<1>2. Asked!NothingYet \in Reports  BY DEF Asked!NothingYet, Asked!Absent, Reports
<1>3. AskedTypes'  BY <1>1, <1>2 DEF AskedInv, AskedTypes
<1>4. Regresses' = Regresses /\ RegressionPlaces'  BY <1>1 DEF AskedInv, RegressionPlaces, Regresses
<1>5. ASSUME ~astray, ~mgrClosed PROVE MapsAreWishes' /\ MaximaAreRight'
  <2>1. \A x \in Mimes : (Computing(x) => Computing(x)') /\ (Reporting(x) => Reporting(x)')
    BY <1>1, <1>4 DEF Computing, Reporting
  <2> QED BY <1>1, <1>4, <1>5, <2>1, MapsStay, MaximaStay DEF AskedInv
<1>6. ASSUME ~mgrClosed PROVE ToldIsCurrent'
  <2>1. LastTold' = LastTold /\ Asked!NothingYet' = Asked!NothingYet
    BY <1>1 DEF LastTold, Asked!NothingYet
  <2>2. Updating => Updating'  BY <1>1 DEF Updating
  <2> QED BY <1>1, <1>6, <2>1, <2>2 DEF AskedInv, ToldIsCurrent
<1> QED BY <1>1, <1>3, <1>4, <1>5, <1>6 DEF AskedInv

LEMMA RestartOneKeeps ==
  ASSUME AskedInv, NEW m \in Mimes, Asked!RestartOne(m), UNCHANGED dynCase PROVE AskedInv'
<1>1. /\ inited' = [inited EXCEPT ![m] = FALSE] /\ timer' = [timer EXCEPT ![m] = TRUE]
      /\ toRestart' = toRestart \ {m}
      /\ UNCHANGED <<dqs, subscribed, dqMax, regressTo, regressed, maxQuality, mgrClosed, committed,
                     waiting, ops, expected, toClear, moved, wish, astray, proc>>
  BY DEF Asked!RestartOne, Asked!manager, Asked!outside
<1>2. /\ timer' \in [Mimes -> BOOLEAN] /\ inited' \in [Mimes -> BOOLEAN]
      /\ timer'[m] /\ ~inited'[m]
      /\ \A x \in Mimes : x # m => timer'[x] = timer[x] /\ inited'[x] = inited[x]
  <2>1. timer \in [Mimes -> BOOLEAN] /\ inited \in [Mimes -> BOOLEAN]  BY DEF AskedInv, AskedTypes
  <2> QED BY <1>1, <2>1
<1>3. AskedTypes'  BY <1>1, <1>2 DEF AskedInv, AskedTypes
<1>4. Regresses' = Regresses /\ RegressionPlaces'  BY <1>1 DEF AskedInv, RegressionPlaces, Regresses
<1>5. ASSUME ~astray, ~mgrClosed PROVE MapsAreWishes' /\ MaximaAreRight'
  <2>1. \A x \in Mimes : (Computing(x) => Computing(x)') /\ (Reporting(x) => Reporting(x)')
    BY <1>1, <1>2, <1>4 DEF Computing, Reporting
  <2>2. Computing(m)'  BY <1>2 DEF Computing
  <2>3. \A x \in Mimes : Asked!BestOf(subscribed[x])' = Asked!BestOf(subscribed[x])
    BY <1>1, BestStays
  <2>4. MaximaAreRight'
    BY <1>1, <1>2, <1>5, <2>1, <2>2, <2>3 DEF AskedInv, MaximaAreRight
  <2> QED BY <1>1, <1>4, <1>5, <2>4, MapsStay DEF AskedInv
<1>6. ASSUME ~mgrClosed PROVE ToldIsCurrent'
  BY <1>1, <1>6, ToldStays DEF AskedInv, Updating
<1> QED BY <1>1, <1>3, <1>4, <1>5, <1>6 DEF AskedInv

LEMMA CloseKeeps ==
  ASSUME AskedInv, Asked!Close, UNCHANGED dynCase PROVE AskedInv'
<1>1. /\ mgrClosed' = TRUE /\ dqs' = {} /\ timer' = [m \in Mimes |-> IF m \in dqs THEN FALSE ELSE timer[m]]
      /\ UNCHANGED <<subscribed, inited, dqMax, regressTo, regressed, maxQuality, committed,
                     waiting, ops, expected, toRestart, toClear, moved, wish, astray, proc>>
  BY DEF Asked!Close, Asked!outside, Asked!loops
<1>2. timer' \in [Mimes -> BOOLEAN]
  <2>1. timer \in [Mimes -> BOOLEAN]  BY DEF AskedInv, AskedTypes
  <2> QED BY <1>1, <2>1
<1>3. AskedTypes'  BY <1>1, <1>2 DEF AskedInv, AskedTypes
<1>4. RegressionPlaces'  BY <1>1 DEF AskedInv, RegressionPlaces, Regresses
<1> QED BY <1>1, <1>3, <1>4 DEF AskedInv

LEMMA RunOpKeeps ==
  ASSUME AskedInv, Asked!RunOp, UNCHANGED dynCase PROVE AskedInv'
<1>1. /\ ops # <<>> /\ ops' = Tail(ops) /\ expected' = Head(ops)
      /\ UNCHANGED <<dqs, subscribed, inited, dqMax, timer, regressTo, regressed, maxQuality, mgrClosed, committed,
                     waiting, toRestart, toClear, moved, wish, astray, proc>>
  BY DEF Asked!RunOp, Asked!quality, Asked!loops
<1>2. ops \in Seq(Reports)  BY DEF AskedInv, AskedTypes
<1>3. ops' \in Seq(Reports) /\ expected' \in Reports  BY <1>1, <1>2
<1>4. AskedTypes'  BY <1>1, <1>3 DEF AskedInv, AskedTypes
<1>5. Regresses' = Regresses /\ RegressionPlaces'  BY <1>1 DEF AskedInv, RegressionPlaces, Regresses
<1>6. ASSUME ~astray, ~mgrClosed PROVE MapsAreWishes' /\ MaximaAreRight'
  <2>1. \A x \in Mimes : (Computing(x) => Computing(x)') /\ (Reporting(x) => Reporting(x)')
    BY <1>1, <1>5 DEF Computing, Reporting
  <2> QED BY <1>1, <1>5, <1>6, <2>1, MapsStay, MaximaStay DEF AskedInv
<1>7. LastTold' = LastTold
  <2>1. CASE Len(ops) = 1
    <3>1. ops' = <<>> /\ expected' = ops[1]  BY <1>1, <1>2, <2>1
    <3> QED BY <1>1, <2>1, <3>1 DEF LastTold
  <2>2. CASE Len(ops) # 1
    <3>1. Len(ops) \in Nat /\ Len(ops) > 1
      <4>1. PICK n \in Nat : n = Len(ops)  BY <1>2
      <4>2. n # 0  BY <1>1, <1>2, <4>1
      <4>3. n # 1  BY <2>2, <4>1
      <4>4. n > 1  BY <4>2, <4>3
      <4> QED BY <4>1, <4>4
    <3>2. Len(ops') = Len(ops) - 1  BY <1>1, <1>2
    <3>3. ops'[Len(ops) - 1] = ops[Len(ops)]  BY <1>1, <1>2, <3>1
    <3>4. ops' # <<>>  BY <3>1, <3>2
    <3> QED BY <1>1, <3>2, <3>3, <3>4 DEF LastTold
  <2> QED BY <2>1, <2>2
<1>8. ASSUME ~mgrClosed PROVE ToldIsCurrent'
  <2>1. Asked!NothingYet' = Asked!NothingYet  BY DEF Asked!NothingYet
  <2>2. Updating => Updating'  BY <1>1 DEF Updating
  <2> QED BY <1>1, <1>7, <1>8, <2>1, <2>2 DEF AskedInv, ToldIsCurrent
<1> QED BY <1>1, <1>4, <1>5, <1>6, <1>8 DEF AskedInv

LEMMA AskedNext == ASSUME AskedInv, Asked!Next PROVE AskedInv'
<1>1. UNCHANGED dynCase  BY DEF Asked!Next
<1>2. toClear \subseteq Mimes /\ dqs \subseteq Mimes /\ dynCase \in DynCases  BY DEF AskedInv, AskedTypes
<1>3. ASSUME NEW p \in Procs, Asked!updateQualityChange(p) \/ Asked!OnUpdateMaxQualityForMime(p) \/ Asked!Updates(p)
      PROVE  AskedInv'
  BY <1>1, <1>3, updateQualityChangeKeeps, OnUpdateMaxQualityKeeps, UpdatesKeeps
<1>4. CASE Asked!RegressTo \/ Asked!Replace \/ Asked!RunOp
  BY <1>1, <1>4, RegressToKeeps, ReplaceKeeps, RunOpKeeps
<1>5. CASE Asked!UnmuteEnds \/ Asked!Mute
  BY <1>1, <1>2, <1>5, AskedRest DEF Asked!UnmuteEnds, Asked!Mute, Asked!quality, Asked!manager, Asked!loops
<1>6. ASSUME NEW m \in Mimes, Asked!RestartOne(m) \/ Asked!ClearOne(m) \/ Asked!TimerFires(m) PROVE AskedInv'
  BY <1>1, <1>6, RestartOneKeeps, ClearOneKeeps, TimerFiresKeeps
<1>7. CASE Asked!DebounceFires
  BY <1>1, <1>7, UpdateBegins DEF Asked!DebounceFires, Asked!quality, Asked!manager, Asked!outside, Asked!loops,
     Asked!Debounce, Asked!Off
<1>8. ASSUME NEW m \in dynCase.mimes,
             Asked!AddCodec(m) \/ \E c \in dynCase.clients, q \in dynCase.wishes : Asked!Notify(c, m, q)
      PROVE  AskedInv'
  <2>1. m \in Mimes /\ dynCase.clients \subseteq Clients /\ dynCase.wishes \subseteq Qualities
    BY <1>2, DynacastNames DEF Clients, Qualities
  <2> QED BY <1>1, <1>8, <2>1, AddCodecKeeps, NotifyKeeps
<1>9. CASE Asked!HandleCodecRegression \/ Asked!Restart \/ Asked!Close
  BY <1>1, <1>9, HandleCodecRegressionKeeps, LayerRestartKeeps, CloseKeeps
<1>10. CASE Asked!ClearSubscriberNodes
  BY <1>1, <1>2, <1>10, AskedRest DEF Asked!ClearSubscriberNodes, Asked!quality, Asked!manager, Asked!outside
<1>11. CASE Asked!UnmuteBegins
  BY <1>1, <1>11, UpdateBegins DEF Asked!UnmuteBegins, Asked!Free, Asked!quality, Asked!manager, Asked!Caller,
     Asked!Off
<1> QED BY <1>3, <1>4, <1>5, <1>6, <1>7, <1>8, <1>9, <1>10, <1>11, ProcNames
        DEF Asked!Next, Asked!Runs, Asked!Times, Asked!Calls

LEMMA AskedStutters == ASSUME AskedInv, UNCHANGED Asked!dynVars PROVE AskedInv'
BY AskedRest DEF Asked!dynVars, Asked!quality, Asked!manager, Asked!outside, Asked!loops, AskedInv, AskedTypes

LEMMA AskedInvSuffices == ASSUME AskedInv PROVE Asked!ToldIsWanted
<1> SUFFICES ASSUME Asked!Quiet, ~mgrClosed, ~astray
             PROVE  /\ \A m \in dqs : expected[m] = Asked!BestOf(wish[m])
                    /\ regressed => expected[From] = 3
  BY DEF Asked!ToldIsWanted, Asked!Off
<1>1. /\ \A p \in Procs : proc[p].at = "idle"
      /\ ops = <<>> /\ ~waiting /\ toRestart = {} /\ \A m \in Mimes : ~timer[m]
  BY ProcNames DEF Asked!Quiet
<1>2. expected = maxQuality
  BY <1>1 DEF AskedInv, ToldIsCurrent, Updating, LastTold
<1>3. Regresses = "idle"  BY <1>1, ProcNames DEF Regresses
<1>4. \A m \in Mimes : ~Computing(m) /\ ~Reporting(m)
  BY <1>1, <1>3 DEF Computing, Reporting
<1>5. regressed => expected[From] = 3 /\ \A c \in Clients : wish[From][c] = 3
  BY <1>2, <1>3 DEF AskedInv, RegressionPlaces
<1>6. ASSUME NEW m \in dqs PROVE expected[m] = Asked!BestOf(wish[m])
  <2>1. m \in Mimes /\ wish[m] \in [Clients -> Qualities] /\ subscribed[m] \in [Clients -> Qualities]
    BY DEF AskedInv, AskedTypes
  <2>2. wish[m] = subscribed[m]
    <3>1. \A c \in Clients : wish[m][c] = subscribed[m][c]
      BY <1>3, <2>1 DEF AskedInv, MapsAreWishes
    <3> QED BY <2>1, <3>1
  <2>3. CASE regressed /\ m = From
    BY <1>5, <2>1, <2>3, BestOfIsOne
  <2>4. CASE ~(regressed /\ m = From)
    <3>1. regressTo => regressed  BY DEF AskedInv, RegressionPlaces
    <3>2. inited[m] /\ dqMax[m] = Asked!BestOf(subscribed[m])
      BY <1>4, <2>1, <2>4, <3>1 DEF AskedInv, MaximaAreRight
    <3>3. maxQuality[m] = dqMax[m]
      BY <1>4, <2>1, <2>4, <3>2 DEF AskedInv, MaximaAreRight
    <3> QED BY <1>2, <2>2, <3>2, <3>3
  <2> QED BY <2>3, <2>4
<1> QED BY <1>5, <1>6

(* However wishes, timers, the debounce, codec regression, restarts and     *)
(* clearings of nodes interleave: when all has been said and no report was  *)
(* overtaken, the receivers expect exactly the best quality anyone wants of *)
(* each codec, and nothing of a codec that was regressed.                   *)
THEOREM ToldWhatIsWanted == PartsSpec => []ToldIsWanted
<1> DEFINE Steps == DynacastStep \/ SharingStep \/ ProbingStep \/ ReceiverStep
<1>1. PartsInit => AskedInv
  BY AskedStart DEF PartsInit
<1>2. AskedInv /\ [Steps]_allVars => AskedInv'
  <2> SUFFICES ASSUME AskedInv, [Steps]_allVars PROVE AskedInv'
    OBVIOUS
  <2>1. CASE DynacastStep
    BY <2>1, AskedNext DEF DynacastStep
  <2>2. CASE ~DynacastStep
    <3>1. UNCHANGED dynacastVars
      BY <2>2 DEF ReceiverStep, SharingStep, ProbingStep, allVars
    <3>2. UNCHANGED Asked!dynVars
      BY <3>1 DEF dynacastVars, Asked!dynVars, Asked!quality, Asked!manager, Asked!outside, Asked!loops
    <3> QED BY <3>2, AskedStutters
  <2> QED BY <2>1, <2>2
<1>3. AskedInv => ToldIsWanted
  BY AskedInvSuffices DEF ToldIsWanted
<1> QED BY <1>1, <1>2, <1>3, PTL DEF PartsSpec
=============================================================================
