------------------------------- MODULE MCLive -------------------------------
(***************************************************************************)
(* What must happen, for TLC: the parts of MCSignalling and, beside them,  *)
(* the registry of rooms, a session of a participant, and the writer of an *)
(* audio track, each with the fairness of its module.                      *)
(***************************************************************************)
EXTENDS MCSignalling

VARIABLES
  current, recorded, status, holds, members, roomPc, seen, mine, alive, farewell, closerPc, target,
  sweeping,
  parts, source, connPc, whose, srcOpen, state, closing, listening, connFarewell, born, removing,
  sendUpdates, notes, told,
  now, arrival, dropped, media, rtcp, srs, closed, ch, chClosed, panicked, start, keys, note, calls,
  hedef, ilkPaketAn, bekleyen, iz, uyarildi, vazgec, file, kuyruk, audioWritten, lost, done

registryVars ==
  <<current, recorded, status, holds, members, roomPc, seen, mine, alive, farewell, closerPc, target,
    sweeping>>
participantVars ==
  <<parts, source, connPc, whose, srcOpen, state, closing, listening, connFarewell, born, removing,
    sendUpdates, notes, told>>
audioVars ==
  <<now, arrival, dropped, media, rtcp, srs, closed, ch, chClosed, panicked, start, keys, note, calls,
    hedef, ilkPaketAn, bekleyen, iz, uyarildi, vazgec, file, kuyruk, audioWritten, lost, done>>
liveVars == <<allVars, registryVars, participantVars, audioVars>>

(* Two rooms, a session with a participant and one that creates the room    *)
(* only; one connection to which everything happens; a writer whose disk    *)
(* and whose calls to Redis fail.                                           *)
Registry ==
  INSTANCE RoomRegistry
    WITH Sessions <- {"s1", "s2"}, CreateOnly <- {"s2"}, Rooms <- {"r1", "r2"}, Admins <- {},
         Janitor <- "janitor", None <- "none", pc <- roomPc
Alone ==
  INSTANCE ParticipantSession
    WITH Conns <- {"c1"}, None <- "none", Env <- {"resume", "close", "leave", "drop", "joinFail", "timeout"},
         pc <- connPc, farewell <- connFarewell
Audio ==
  INSTANCE RawAudioWriter
    WITH MaxTime <- 2, MaxPackets <- 2, MaxSRs <- 1, WaitFor <- 1, NoteAfter <- 1, WriteDelay <- 1,
         ChanBuf <- 2, Env <- {"diskFails", "reorder", "redisDown"}, written <- audioWritten

LiveInit ==
  /\ part \in {"relay", "offerer", "answerer", "registry", "alone", "audio"}
  /\ Init /\ Offerer!Init /\ Answerer!Init /\ Registry!Init /\ Alone!Init /\ Audio!Init

SignalStep ==
  (RelayStep \/ OffererStep \/ AnswererStep) /\ UNCHANGED <<registryVars, participantVars, audioVars>>
RegistryStep ==
  part = "registry" /\ Registry!Next /\ UNCHANGED <<allVars, participantVars, audioVars>>
AloneStep ==
  part = "alone" /\ Alone!Next /\ UNCHANGED <<allVars, registryVars, audioVars>>
AudioStep ==
  part = "audio" /\ Audio!Next /\ UNCHANGED <<allVars, registryVars, participantVars>>

(* The fairness of the modules, each for behaviours of its part.            *)
RegistryFairness ==
  /\ \A s \in {"s1", "s2"} :
       /\ WF_registryVars(part = "registry" /\ roomPc[s] # "idle" /\ Registry!StartSession(s))
       /\ WF_registryVars(part = "registry" /\ (Registry!LeaveCloses(s) \/ Registry!FarewellCheck(s)
                                                 \/ Registry!Farewell(s)))
       /\ WF_registryVars(part = "registry" /\ alive[s] = "closed" /\ Registry!Leave(s))
  /\ WF_registryVars(part = "registry" /\ Registry!RoomClose("janitor"))
  /\ WF_registryVars(part = "registry" /\ Registry!JanitorLooks)
  /\ SF_registryVars(part = "registry" /\ Registry!Expired)
  /\ WF_registryVars(part = "registry" /\ (Registry!Expired \/ Registry!NotExpired))
AloneFairness ==
  /\ WF_participantVars(part = "alone" /\ Alone!CloseSteps("c1"))
  /\ WF_participantVars(part = "alone" /\ Alone!RemoveSteps("c1"))
  /\ WF_participantVars(part = "alone" /\ Alone!NoteSteps("c1"))
  /\ WF_participantVars(part = "alone" /\ Alone!SessionSteps("c1"))
  /\ WF_participantVars(part = "alone" /\ Alone!WorkerSteps("c1"))
  /\ WF_participantVars(part = "alone" /\ Alone!JoinTimeout("c1"))
AudioFairness ==
  /\ WF_audioVars(part = "audio" /\ Audio!Loop)
  /\ SF_audioVars(part = "audio" /\ Audio!Lookup(TRUE)) /\ SF_audioVars(part = "audio" /\ Audio!Looks)
  /\ WF_audioVars(part = "audio" /\ Audio!SRSend) /\ WF_audioVars(part = "audio" /\ Audio!CloseChannel)
  /\ WF_audioVars(part = "audio" /\ Audio!CloseEnd) /\ WF_audioVars(part = "audio" /\ Audio!CallArrives)

LiveSpec ==
  /\ LiveInit /\ [][SignalStep \/ RegistryStep \/ AloneStep \/ AudioStep]_liveVars
  /\ RelayFairness /\ OffererFairness /\ AnswererFairness
  /\ RegistryFairness /\ AloneFairness /\ AudioFairness

-----------------------------------------------------------------------------
(* What somebody waits for comes.  A message accepted by the relay is       *)
(* delivered or its stream is closed; StartSession returns however rooms    *)
(* come and go; a closed participant leaves the room, whoever closed it,    *)
(* and one that never becomes active does not keep its identity; a writer   *)
(* whose keys are there finds its target or ends, and its Close returns.    *)
(* Two of each are followed.                                                *)
First(k) == k = 1
WhichSession(k) == IF First(k) THEN "s1" ELSE "s2"
Waits(k) ==
  CASE part = "relay" -> written >= k
    [] part = "registry" -> roomPc[WhichSession(k)] = "look"
    [] part = "alone" /\ First(k) -> Alone!IsClosed("c1")
    [] part = "alone" /\ ~First(k) -> parts = "c1"
    [] part = "audio" /\ First(k) -> keys = {"track", "room"} /\ ilkPaketAn > 0
    [] part = "audio" /\ ~First(k) -> media = "closing"
    [] OTHER -> FALSE
Comes(k) ==
  CASE part = "relay" -> Settled(k)
    [] part = "registry" -> roomPc[WhichSession(k)] \in {"in", "failed"}
    [] part = "alone" /\ First(k) -> parts # "c1"
    [] part = "alone" /\ ~First(k) -> parts # "c1" \/ state["c1"] = "ACTIVE"
    [] part = "audio" /\ First(k) -> hedef \/ done
    [] part = "audio" /\ ~First(k) -> media = "ended"
    [] OTHER -> TRUE
WaitsEnd == \A k \in 1..2 : Waits(k) ~> Comes(k)

(* A closed room leaves the map.                                            *)
ClosedRoomLeavesTheMap == part = "registry" => Registry!ClosedRoomLeavesTheMap

(* Negotiation converges, or the session fails and starts anew.             *)
Converges == part = "offerer" => Offerer!Converges

(* Again and again nothing is owed to a client: a resumed session has had   *)
(* its ICE restart, and the latest offer of a client its answer.            *)
NothingIsOwed ==
  []<>CASE part = "offerer" -> failed \/ silent \/ ~link \/ ~restartDue
        [] part = "answerer" -> Answerer!Answered
        [] OTHER -> TRUE
=============================================================================
