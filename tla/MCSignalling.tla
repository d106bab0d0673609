---------------------------- MODULE MCSignalling ----------------------------
(***************************************************************************)
(* The signal path of a participant, for TLC: the relay of signal          *)
(* messages between nodes, and the negotiations of the two                 *)
(* PeerConnections whose offers and answers it carries.  The three do not  *)
(* share state, so a behaviour is about one of them, its part.             *)
(***************************************************************************)
EXTENDS SignalRelay

CONSTANTS MaxVersion, MaxReconnects, MaxForced,  \* bounds of PCOfferer
          MaxOffers, MaxCandidates,              \* bounds of PCAnswerer
          QueueMax                               \* bound of both

(* Something is negotiated.                                                 *)
ASSUME NegotiationBounds ==
  MaxVersion \in Nat \ {0} /\ MaxOffers \in Nat /\ MaxCandidates \in Nat

VARIABLES
  part,
  wanted, negotiationState, pc, gatheringState, restartAfterGathering, restartAtNextOffer,
  eventsQueue, debouncePending, negotiateCounter, timer, firing, connected, failed, link,
  toClient, toServer, silent, restartDue, mispaired, reconnects, forced,
  lastOffer, answererQueue, remoteOfferId, localAnswerId, currentOfferIceCredential,
  pendingRestartIceOffer, remote, generation, answererGathering, gathered,
  cacheLocalCandidates, cachedLocalCandidates, trickled

Offerer  == INSTANCE PCOfferer
Answerer == INSTANCE PCAnswerer
              WITH eventsQueue <- answererQueue, gatheringState <- answererGathering

offererVars ==
  <<wanted, negotiationState, pc, gatheringState, restartAfterGathering, restartAtNextOffer,
    eventsQueue, debouncePending, negotiateCounter, timer, firing, connected, failed, link,
    toClient, toServer, silent, restartDue, mispaired, reconnects, forced>>
answererVars ==
  <<lastOffer, answererQueue, remoteOfferId, localAnswerId, currentOfferIceCredential,
    pendingRestartIceOffer, remote, generation, answererGathering, gathered,
    cacheLocalCandidates, cachedLocalCandidates, trickled>>
allVars == <<part, vars, offererVars, answererVars>>

PartsInit == part \in {"relay", "offerer", "answerer"} /\ Init /\ Offerer!Init /\ Answerer!Init

RelayStep    == part = "relay" /\ Next /\ UNCHANGED <<part, offererVars, answererVars>>
OffererStep  == part = "offerer" /\ Offerer!Next /\ UNCHANGED <<part, vars, answererVars>>
AnswererStep == part = "answerer" /\ Answerer!Next /\ UNCHANGED <<part, vars, offererVars>>

PartsSpec == PartsInit /\ [][RelayStep \/ OffererStep \/ AnswererStep]_allVars

(* The fairness of the modules, each for behaviours of its part.            *)
RelayFairness ==
  /\ WF_vars(part = "relay" /\ Writer) /\ WF_vars(part = "relay" /\ Reader)
  /\ WF_vars(part = "relay" /\ Session) /\ WF_vars(part = "relay" /\ (Arrives \/ Lost))
  /\ WF_vars(part = "relay" /\ CloseArrives)
  /\ WF_vars(part = "relay" /\ (SendSucceeds \/ SendFails \/ GiveUp))
  /\ SF_vars(part = "relay" /\ (SendSucceeds \/ GiveUp))
OffererFairness ==
  /\ WF_offererVars(part = "offerer" /\ Offerer!EventLoop)
  /\ WF_offererVars(part = "offerer" /\ Offerer!DebounceFires)
  /\ WF_offererVars(part = "offerer" /\ Offerer!GatheringCompletes)
  /\ WF_offererVars(part = "offerer" /\ Offerer!Connects)
  /\ WF_offererVars(part = "offerer" /\ Offerer!ClientAnswers)
  /\ WF_offererVars(part = "offerer" /\ Offerer!HandleRemoteDescription)
  /\ WF_offererVars(part = "offerer" /\ Offerer!ResumeParticipant)
  /\ WF_offererVars(part = "offerer" /\ Offerer!TimerFires)
  /\ WF_offererVars(part = "offerer" /\ \E v \in firing : Offerer!TimerFunction(v))
AnswererFairness ==
  /\ WF_answererVars(part = "answerer" /\ Answerer!EventLoop)
  /\ WF_answererVars(part = "answerer" /\ Answerer!GatheringCompletes)

-----------------------------------------------------------------------------
(* The code's negotiation state is that of the PeerConnection, and an ICE   *)
(* restart left to the next offer has a next offer.                         *)
StateMatchesPC == Offerer!StateMatchesPC /\ Offerer!RestartHasNextOffer

(* No candidate of the ICE generation in use is lost, and a restart that    *)
(* was put off until gathering is complete is taken up.                     *)
NoCandidateLost == Answerer!NoCandidateLost /\ Answerer!PendingIsTakenUp
=============================================================================
