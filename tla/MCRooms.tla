------------------------------- MODULE MCRooms -------------------------------
(***************************************************************************)
(* A room and the participants in it, for TLC: the registry of rooms of a  *)
(* node, the sessions of one identity, and what others are told of it.     *)
(* The modules do not share state, so a behaviour is about one of them,    *)
(* its part; some modules come with more than one choice of constants.     *)
(***************************************************************************)
EXTENDS RoomRegistry

CONSTANTS Parts,   \* those of this run
          Conns,   \* of ParticipantSession
          Tasks,   \* of ParticipantBroadcast
          Others,  \* of ParticipantUpdateCache
          Few      \* some of them, for a part with less

ASSUME ConnsAssumption == None \notin Conns /\ IsFiniteSet(Conns)

VARIABLES
  part,
  parts, source, connPc, whose, srcOpen, state, closing, listening, connFarewell, born,
  removing, sendUpdates, notes, told,
  here, life, content, dirty, version, skippable, batched, task, watching, known, view,
  info, updates, cache, link, answered, clientView

participantVars ==
  <<parts, source, connPc, whose, srcOpen, state, closing, listening, connFarewell, born,
    removing, sendUpdates, notes, told>>
broadcastVars ==
  <<here, life, content, dirty, version, skippable, batched, task, watching, known, view>>
cacheVars == <<info, updates, cache, link, answered, clientView>>
allVars == <<part, vars, participantVars, broadcastVars, cacheVars>>

(* Sessions that the server closes; sessions that leave or are resumed.     *)
Closing   == INSTANCE ParticipantSession
               WITH Env <- {"close", "joinFail"}, pc <- connPc, farewell <- connFarewell
Leaving   == INSTANCE ParticipantSession
               WITH Env <- {"leave", "resume", "timeout"}, pc <- connPc, farewell <- connFarewell

(* An observer that comes later, and two sessions of the one it is told of; *)
(* an observer from the start, and one session.                             *)
Newcomer == INSTANCE ParticipantBroadcast
              WITH Last <- 2, Publishers <- {2}, MaxChanges <- 1, ByIdentity <- FALSE,
                   Witness <- FALSE
Observer == INSTANCE ParticipantBroadcast
              WITH Last <- 1, Publishers <- {}, MaxChanges <- 2, ByIdentity <- FALSE,
                   Witness <- TRUE

(* Updates on time with a cache for all; late ones with one that is small.  *)
Timely == INSTANCE ParticipantUpdateCache
            WITH CacheSize <- 3, MaxVersion <- 3, Env <- {}, view <- clientView
Late   == INSTANCE ParticipantUpdateCache
            WITH Others <- Few, CacheSize <- 1, MaxVersion <- 3, Env <- {"verify", "late", "again"},
                 view <- clientView

PartsInit ==
  /\ part \in Parts /\ Init /\ Closing!Init /\ Timely!Init
  /\ IF part = "observer" THEN Observer!Init ELSE Newcomer!Init

RegistryStep ==
  part = "registry" /\ Next /\ UNCHANGED <<part, participantVars, broadcastVars, cacheVars>>
SessionStep ==
  /\ \/ part = "closing" /\ Closing!Next
     \/ part = "leaving" /\ Leaving!Next
  /\ UNCHANGED <<part, vars, broadcastVars, cacheVars>>
BroadcastStep ==
  /\ \/ part = "newcomer" /\ Newcomer!Next
     \/ part = "observer" /\ Observer!Next
  /\ UNCHANGED <<part, vars, participantVars, cacheVars>>
CacheStep ==
  /\ \/ part = "timely" /\ Timely!Next
     \/ part = "late" /\ Late!Next
  /\ UNCHANGED <<part, vars, participantVars, broadcastVars>>

PartsSpec == PartsInit /\ [][RegistryStep \/ SessionStep \/ BroadcastStep \/ CacheStep]_allVars

-----------------------------------------------------------------------------
(* A goroutine that cleans up after a session takes out that session only.  *)
CleansUpItsOwn == Closing!CleansUpItsOwn

(* Others learn that the last session of an identity has gone.              *)
DepartureIsAnnounced == part = "leaving" => Leaving!DepartureIsAnnounced

(* Once all updates are sent, an observer sees the participant as it is,    *)
(* and sees none that has left; also a client whose signal connection broke *)
(* and was resumed shows everyone who is in the room and, if updates are on *)
(* time, no one else.                                                       *)
ViewIsTrue ==
  /\ part = "newcomer" => Newcomer!ShowsWhoIsHere
  /\ part = "observer" => Observer!ShowsWhoIsHere /\ Observer!HidesWhoLeft
  /\ part = "timely" => Timely!NoGhosts /\ Timely!EveryoneIsShown
  /\ part = "late" => Late!EveryoneIsShown
=============================================================================
