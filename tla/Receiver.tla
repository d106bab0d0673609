------------------------------ MODULE Receiver ------------------------------
(***************************************************************************)
(* The receiver of a published track: the buffers of its layers, a         *)
(* forwarder goroutine per buffer that writes the packets to the down      *)
(* tracks, and the restart of all of it when the stream starts afresh,     *)
(* either because the track changed or because a buffer found its packets  *)
(* discontinuous.                                                          *)
(*                                                                         *)
(* A restart advances the generation, which the forwarders look at between *)
(* packets, wakes those that wait for a packet, waits until all are gone   *)
(* and starts new ones.  Buffers have their own lock; those of the layers  *)
(* are independent, so what a restart does to one after the other is one   *)
(* step here.  Codecs, RTCP, recording and statistics are left out.        *)
(***************************************************************************)
EXTENDS Naturals, FiniteSets

CONSTANTS
  RLayers,       \* the layers
  DownTracks,    \* the down tracks of the subscribers
  RecvLimits     \* records of bounds: the layers that come, of the starts of a stream (streams), the packets, the newer
                 \* versions of the track info (updates), and what may happen (env): "detect",
                 \* "bufferClose", "downTracks"

VARIABLES
  recvLimits,    \* the bounds of this behaviour
  buffers,       \* ReceiverBase.buffers: none, open or closed
  stream,        \* how often the stream of a buffer has started
  pending,       \* isRestartPending of the buffers
  queued,        \* whether a buffer has a packet to read
  upTracks,      \* up tracks between AddBuffer and StartBuffer
  generation, waitGroup,   \* forwardersGeneration, forwardersWaitGroup
  restartInProgress,
  restart,       \* where restartInternal is, and whether the restart was detected
  detections,    \* buffers whose goroutine is about to call restartInternal
  forwarders,    \* the goroutines of forwardRTP
  recvClosed,    \* isClosed
  senders,       \* the down tracks of the spreader
  adding,        \* down tracks in AddDownTrack
  synced,        \* the stream of a layer a down track has last sent
  version,       \* of the track info
  arrivals, started,
  early,         \* history: layers a restart gave a forwarder before StartBuffer did
  foreign        \* history: a down track got a packet of a stream it was not told of

bufferVars == <<buffers, stream, pending, queued>>
genVars == <<generation, waitGroup, forwarders, started>>
restartVars == <<restartInProgress, restart, detections>>
recvVars == <<recvLimits, bufferVars, upTracks, genVars, restartVars, recvClosed, senders, adding, synced, version,
              arrivals, early, foreign>>

Unsynced == [l \in RLayers |-> 0]
AtRest == [at |-> "rest", detected |-> FALSE]

RecvInit ==
  /\ recvLimits \in RecvLimits
  /\ buffers = [l \in RLayers |-> "none"] /\ stream = [l \in RLayers |-> 1]
  /\ pending = [l \in RLayers |-> FALSE] /\ queued = [l \in RLayers |-> FALSE]
  /\ upTracks = {} /\ generation = 1 /\ waitGroup = 1 /\ forwarders = {} /\ started = 0
  /\ restartInProgress = FALSE /\ restart = AtRest /\ detections = {}
  /\ recvClosed = FALSE /\ senders = {} /\ adding = {} /\ synced = [d \in DownTracks |-> Unsynced]
  /\ version = 0 /\ arrivals = 0 /\ early = {} /\ foreign = FALSE

-----------------------------------------------------------------------------
(* startForwarderForBufferLocked for the layers of L.                       *)
Started(L) ==
  {[layer |-> l, gen |-> generation, group |-> waitGroup, at |-> "loop", str |-> 0, n |-> started + 1] : l \in L}
startForwarders(L) == forwarders' = forwarders \cup Started(L) /\ started' = started + 1

(* AddUpTrack: AddBuffer, and StartBuffer, which leaves the forwarder to a  *)
(* restart that is in progress.                                             *)
AddUpTrack(l) ==
  /\ l \in recvLimits.layers /\ ~recvClosed /\ buffers[l] = "none"
  /\ buffers' = [buffers EXCEPT ![l] = "open"] /\ upTracks' = upTracks \cup {l}
  /\ UNCHANGED <<stream, pending, queued, genVars, restartVars, recvClosed, senders, adding, synced,
                 version, arrivals, early, foreign>>
StartBuffer(l) ==
  /\ l \in upTracks /\ upTracks' = upTracks \ {l}
  /\ IF restartInProgress THEN UNCHANGED <<forwarders, started>> ELSE startForwarders({l})
  /\ UNCHANGED <<bufferVars, generation, waitGroup, restartVars, recvClosed, senders, adding, synced,
                 version, arrivals, early, foreign>>

(* A packet comes, or one from which the buffer sees that the stream has    *)
(* started afresh: it restarts itself and starts a goroutine to restart the *)
(* receiver.  A buffer is closed when its stream ends.                      *)
Packet(l) ==
  /\ buffers[l] = "open" /\ arrivals < recvLimits.packets /\ arrivals' = arrivals + 1
  /\ queued' = [queued EXCEPT ![l] = TRUE]
  /\ UNCHANGED <<buffers, stream, pending, upTracks, genVars, restartVars, recvClosed, senders, adding,
                 synced, version, early, foreign>>
Discontinuity(l) ==
  /\ "detect" \in recvLimits.env /\ buffers[l] = "open" /\ stream[l] < recvLimits.streams /\ l \notin detections
  /\ stream' = [stream EXCEPT ![l] = @ + 1] /\ queued' = [queued EXCEPT ![l] = TRUE]
  /\ pending' = [pending EXCEPT ![l] = TRUE] /\ detections' = detections \cup {l}
  /\ UNCHANGED <<buffers, upTracks, genVars, restartInProgress, restart, recvClosed, senders, adding,
                 synced, version, arrivals, early, foreign>>
BufferClose(l) ==
  /\ "bufferClose" \in recvLimits.env /\ buffers[l] = "open"
  /\ buffers' = [buffers EXCEPT ![l] = "closed"] /\ queued' = [queued EXCEPT ![l] = FALSE]
  /\ UNCHANGED <<stream, pending, upTracks, genVars, restartVars, recvClosed, senders, adding, synced,
                 version, arrivals, early, foreign>>

-----------------------------------------------------------------------------
(* restartInternal: nothing if the receiver is closed or another restart is *)
(* in progress; else the generation is advanced and then the buffers are    *)
(* marked.                                                                  *)
(* A form of it that advances the generation with the new forwarders only.  *)
BeginKeepsGeneration(detected) ==
  IF recvClosed \/ restartInProgress THEN UNCHANGED <<restartInProgress, restart, generation>>
  ELSE /\ restartInProgress' = TRUE /\ UNCHANGED generation
       /\ restart' = [at |-> IF detected THEN "wait" ELSE "mark", detected |-> detected]
BeginRestart(detected) ==
  IF recvClosed \/ restartInProgress THEN UNCHANGED <<restartInProgress, restart, generation>>
  ELSE /\ restartInProgress' = TRUE /\ generation' = generation + 1
       /\ restart' = [at |-> IF detected THEN "wait" ELSE "mark", detected |-> detected]
OnStreamRestart(l) ==
  /\ l \in detections /\ detections' = detections \ {l} /\ BeginRestart(TRUE)
  /\ UNCHANGED <<bufferVars, upTracks, waitGroup, forwarders, started, recvClosed, senders, adding, synced,
                 version, arrivals, early, foreign>>
UpdateTrackInfo(v) ==
  /\ v \in {version, version + 1} /\ v <= recvLimits.updates
  /\ version' = v
  /\ IF v # version THEN BeginRestart(FALSE) ELSE UNCHANGED <<restartInProgress, restart, generation>>
  /\ UNCHANGED <<bufferVars, upTracks, waitGroup, forwarders, started, detections, recvClosed, senders,
                 adding, synced, arrivals, early, foreign>>

RestartGoes(from, to) == restart.at = from /\ restart' = [restart EXCEPT !.at = to]
Present == {l \in RLayers : buffers[l] # "none"}

MarkForRestartStream ==
  /\ RestartGoes("mark", "wait")
  /\ pending' = [l \in RLayers |-> pending[l] \/ l \in Present]
  /\ UNCHANGED <<buffers, stream, queued, upTracks, genVars, restartInProgress, detections, recvClosed,
                 senders, adding, synced, version, arrivals, early, foreign>>
waitForForwardersStop ==
  /\ \A f \in forwarders : f.group # waitGroup
  /\ RestartGoes("wait", IF restart.detected THEN "tell" ELSE "restart")
  /\ UNCHANGED <<bufferVars, upTracks, genVars, restartInProgress, detections, recvClosed, senders, adding,
                 synced, version, arrivals, early, foreign>>
RestartStream ==
  /\ RestartGoes("restart", "tell")
  /\ stream' = [l \in RLayers |-> IF l \in Present THEN stream[l] + 1 ELSE stream[l]]
  /\ queued' = [l \in RLayers |-> FALSE]
  /\ UNCHANGED <<buffers, pending, upTracks, genVars, restartInProgress, detections, recvClosed, senders,
                 adding, synced, version, arrivals, early, foreign>>
(* ReceiverRestart of the down tracks.                                      *)
ResyncDownTracks ==
  /\ RestartGoes("tell", "advance")
  /\ synced' = [d \in DownTracks |-> IF d \in senders THEN Unsynced ELSE synced[d]]
  /\ UNCHANGED <<bufferVars, upTracks, genVars, restartInProgress, detections, recvClosed, senders, adding,
                 version, arrivals, early, foreign>>
startForwardersGeneration ==
  /\ RestartGoes("advance", "release")
  /\ generation' = generation + 1 /\ waitGroup' = waitGroup + 1
  /\ UNCHANGED <<bufferVars, upTracks, forwarders, started, restartInProgress, detections, recvClosed,
                 senders, adding, synced, version, arrivals, early, foreign>>
EndRestart ==
  /\ RestartGoes("release", "rest") /\ restartInProgress' = FALSE
  /\ startForwarders(Present) /\ early' = early \cup upTracks
  /\ UNCHANGED <<bufferVars, upTracks, generation, waitGroup, detections, recvClosed, senders, adding,
                 synced, version, arrivals, foreign>>

-----------------------------------------------------------------------------
(* forwardRTP: the generation is looked at before every read.               *)
Moves(f, to) == forwarders' = (forwarders \ {f}) \cup {[f EXCEPT !.at = to]}
ForwarderLoops(f) ==
  /\ f.at = "loop"
  /\ IF f.gen = generation THEN Moves(f, "read") ELSE forwarders' = forwarders \ {f}
  /\ UNCHANGED <<bufferVars, upTracks, generation, waitGroup, started, restartVars, recvClosed, senders,
                 adding, synced, version, arrivals, early, foreign>>

(* ReadExtended, which waits while there is nothing to say.                 *)
Readable(l) == buffers[l] = "closed" \/ pending[l] \/ queued[l]
ReadExtended(f) ==
  LET l == f.layer
  IN  /\ f.at = "read" /\ buffers[l] = "open" /\ Readable(l)
      /\ IF pending[l]
           THEN pending' = [pending EXCEPT ![l] = FALSE] /\ Moves(f, "loop") /\ UNCHANGED queued
           ELSE /\ queued' = [queued EXCEPT ![l] = FALSE] /\ UNCHANGED pending
                /\ forwarders' = (forwarders \ {f}) \cup {[f EXCEPT !.at = "write", !.str = stream[l]]}
      /\ UNCHANGED <<buffers, stream, upTracks, generation, waitGroup, started, restartVars, recvClosed,
                     senders, adding, synced, version, arrivals, early, foreign>>

(* The packet is written to the down tracks.                                *)
WriteRTP(f) ==
  /\ f.at = "write" /\ Moves(f, "loop")
  /\ foreign' = (foreign \/ \E d \in senders : synced[d][f.layer] \notin {0, f.str})
  /\ synced' = [d \in DownTracks |-> IF d \in senders THEN [synced[d] EXCEPT ![f.layer] = f.str] ELSE synced[d]]
  /\ UNCHANGED <<bufferVars, upTracks, generation, waitGroup, started, restartVars, recvClosed, senders,
                 adding, version, arrivals, early>>

(* At the end of the stream the forwarder closes the receiver, which closes *)
(* the down tracks.                                                         *)
CloseReceiver(f) ==
  /\ f.at = "read" /\ buffers[f.layer] = "closed"
  /\ forwarders' = forwarders \ {f}
  /\ recvClosed' = TRUE /\ senders' = IF recvClosed THEN senders ELSE {}
  /\ UNCHANGED <<bufferVars, upTracks, generation, waitGroup, started, restartVars, adding, synced, version,
                 arrivals, early, foreign>>

-----------------------------------------------------------------------------
(* AddDownTrack looks whether the receiver is closed before it stores the   *)
(* down track; DeleteDownTrack.                                             *)
AddDownTrack(d) ==
  /\ "downTracks" \in recvLimits.env /\ ~recvClosed /\ d \notin senders \cup adding /\ adding' = adding \cup {d}
  /\ synced' = [synced EXCEPT ![d] = Unsynced]
  /\ UNCHANGED <<bufferVars, upTracks, genVars, restartVars, recvClosed, senders, version, arrivals, early, foreign>>
StoreDownTrack(d) ==
  /\ d \in adding /\ adding' = adding \ {d} /\ senders' = senders \cup {d}
  /\ UNCHANGED <<bufferVars, upTracks, genVars, restartVars, recvClosed, synced, version, arrivals, early, foreign>>
DeleteDownTrack(d) ==
  /\ d \in senders /\ senders' = senders \ {d}
  /\ UNCHANGED <<bufferVars, upTracks, genVars, restartVars, recvClosed, adding, synced, version, arrivals, early, foreign>>

RestartSteps ==
  MarkForRestartStream \/ waitForForwardersStop \/ RestartStream \/ ResyncDownTracks
  \/ startForwardersGeneration \/ EndRestart
ForwarderSteps(f) == ForwarderLoops(f) \/ ReadExtended(f) \/ WriteRTP(f) \/ CloseReceiver(f)

RecvSteps ==
  \/ RestartSteps \/ \E f \in forwarders : ForwarderSteps(f)
  \/ \E l \in RLayers : AddUpTrack(l) \/ StartBuffer(l) \/ Packet(l) \/ Discontinuity(l) \/ BufferClose(l)
                        \/ OnStreamRestart(l)
  \/ \E v \in 0..recvLimits.updates : UpdateTrackInfo(v)
  \/ \E d \in DownTracks : AddDownTrack(d) \/ StoreDownTrack(d) \/ DeleteDownTrack(d)

RecvNext == RecvSteps /\ UNCHANGED recvLimits
RecvSpec == RecvInit /\ [][RecvNext]_recvVars

-----------------------------------------------------------------------------
Of(l) == {f \in forwarders : f.layer = l}

(* No two forwarders read the same buffer, unless a restart ended between   *)
(* the two halves of AddUpTrack.                                            *)
OneReader == \A l \in RLayers \ early : Cardinality(Of(l)) <= 1

(* Outside of a restart every buffer that was started is being read, by a   *)
(* forwarder that goes on.                                                  *)
BuffersAreRead ==
  ~restartInProgress /\ ~recvClosed =>
    \A l \in Present \ upTracks : \E f \in Of(l) : f.gen = generation

(* A restart that was asked for waits only for forwarders that can go on:   *)
(* none waits for a packet.                                                 *)
WaitIsShort ==
  restart.at = "wait" /\ ~restart.detected =>
    \A f \in forwarders : f.layer \in early \/ f.at # "read" \/ Readable(f.layer)

(* A down track never gets a packet of a new stream before it was told.     *)
NothingForeign == ~foreign
=============================================================================
