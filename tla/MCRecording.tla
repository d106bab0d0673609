----------------------------- MODULE MCRecording -----------------------------
(***************************************************************************)
(* The raw recorders of a track, for TLC: a behaviour is about the writer  *)
(* of an audio track or that of a video track, its part; the latter comes  *)
(* with several choices of constants.                                      *)
(***************************************************************************)
EXTENDS Naturals

CONSTANTS MaxTime, MaxPackets, MaxSRs, WaitFor, NoteAfter, WriteDelay, ChanBuf, Env,
          Parts   \* those of this run

VARIABLES
  part,
  audioNow, arrival, dropped, media, rtcp, srs, audioClosed, audioCh, chClosed, audioPanicked,
  start, audioKeys, note, calls, audioHedef, ilkPaketAn, audioBekleyen, iz, uyarildi,
  audioVazgec, audioFile, kuyruk, written, lost, audioDone,
  now, sent, keys, net, losses, busy, ch, closed, panicked, hedef, bekleyen, suAnki, hedefKatman,
  sira, parca, bekliyor, vazgec, file, seen, done

audioVars ==
  <<audioNow, arrival, dropped, media, rtcp, srs, audioClosed, audioCh, chClosed, audioPanicked,
    start, audioKeys, note, calls, audioHedef, ilkPaketAn, audioBekleyen, iz, uyarildi,
    audioVazgec, audioFile, kuyruk, written, lost, audioDone>>
videoVars ==
  <<now, sent, keys, net, losses, busy, ch, closed, panicked, hedef, bekleyen, suAnki, hedefKatman,
    sira, parca, bekliyor, vazgec, file, seen, done>>
allVars == <<part, audioVars, videoVars>>

Audio ==
  INSTANCE RawAudioWriter
    WITH now <- audioNow, closed <- audioClosed, ch <- audioCh, panicked <- audioPanicked,
         keys <- audioKeys, hedef <- audioHedef, bekleyen <- audioBekleyen,
         vazgec <- audioVazgec, file <- audioFile, done <- audioDone

(* The writer of a video track: frames of three packets; three frames; two  *)
(* simulcast layers; packets that cannot be parsed and a disk that fails.   *)
(* Numbers wrap around in all of them; a packet is lost in the first two.   *)
Long ==
  INSTANCE RawVideoWriter
    WITH Layers <- {0}, Frames <- 2, Pkts <- 3, SeqSpace <- 16, FirstSeq <- 14, Wait <- 1,
         Capacity <- 3, ChanBuf <- 1, Reorder <- 1, MaxLosses <- 1, MaxTime <- 1, Env <- {}
Gaps ==
  INSTANCE RawVideoWriter
    WITH Layers <- {0}, Frames <- 3, Pkts <- 2, SeqSpace <- 16, FirstSeq <- 13, Wait <- 1,
         Capacity <- 3, ChanBuf <- 1, Reorder <- 1, MaxLosses <- 1, MaxTime <- 0, Env <- {}
Simulcast ==
  INSTANCE RawVideoWriter
    WITH Layers <- {0, 1}, Frames <- 3, Pkts <- 1, SeqSpace <- 16, FirstSeq <- 14, Wait <- 1,
         Capacity <- 2, ChanBuf <- 1, Reorder <- 0, MaxLosses <- 0, MaxTime <- 0, Env <- {}
Faulty ==
  INSTANCE RawVideoWriter
    WITH Layers <- {0}, Frames <- 3, Pkts <- 2, SeqSpace <- 16, FirstSeq <- 14, Wait <- 1,
         Capacity <- 2, ChanBuf <- 1, Reorder <- 0, MaxLosses <- 0, MaxTime <- 0,
         Env <- {"corrupt", "diskFails"}

PartsInit ==
  /\ part \in Parts /\ Audio!Init
  /\ IF part = "simulcast" THEN Simulcast!Init ELSE Long!Init

AudioStep == part = "audio" /\ Audio!Next /\ UNCHANGED <<part, videoVars>>
VideoStep ==
  /\ \/ part = "long" /\ Long!Next
     \/ part = "gaps" /\ Gaps!Next
     \/ part = "simulcast" /\ Simulcast!Next
     \/ part = "faulty" /\ Faulty!Next
  /\ UNCHANGED <<part, audioVars>>

PartsSpec == PartsInit /\ [][AudioStep \/ VideoStep]_allVars

-----------------------------------------------------------------------------
(* The file of an audio track is true: one that is not marked has every     *)
(* packet of the recording and one that is marked misses some, the note of  *)
(* a track without a file is right if calls to Redis arrive and in order,   *)
(* and nothing is sent on a closed channel.                                 *)
AudioIsTrue ==
  /\ Audio!WholeOrMarked /\ Audio!MarkedOnlyIfIncomplete /\ Audio!NeverPanics
  /\ Env \cap {"reorder", "redisDown"} = {} => Audio!NoteIsTrue

(* A frame of a video file has all its packets, each once and in order;     *)
(* after a damaged frame nothing is written until a key frame, and nothing  *)
(* is left out that came whole and in order.                                *)
VideoIsWhole ==
  /\ part = "long" => Long!WholeFrames
  /\ part = "gaps" => Gaps!WholeFrames /\ Gaps!NothingDangling /\ Gaps!NothingLeftOut
  /\ part = "simulcast" => Simulcast!NothingDangling
  /\ part = "faulty" => Faulty!WholeFrames /\ Faulty!NothingDangling
=============================================================================
