------------------------------ MODULE PCAnswerer ------------------------------
(***************************************************************************)
(* rtc/transport.go in the role of the answerer: the publisher             *)
(* PeerConnection of one participant.  The client offers, and may restart  *)
(* ICE with a new credential before its last offer is answered (it does so *)
(* when it resumes); the server answers, puts a restart off while it is    *)
(* still gathering candidates, and trickles its candidates.                *)
(*                                                                         *)
(* An offer is its number (offers are numbered by the client) and its ICE  *)
(* credential.  A local candidate is the ICE generation it was gathered in *)
(* and its number there: pion starts a new generation when it applies a    *)
(* new remote credential.                                                  *)
(***************************************************************************)
EXTENDS Naturals, Sequences

CONSTANTS MaxOffers,      \* bound on the client's offers
          MaxCandidates,  \* bound on candidates gathered per generation
          QueueMax        \* bound on eventsQueue

VARIABLES
  lastOffer,                  \* the client's last offer
  eventsQueue,
  remoteOfferId, localAnswerId,
  currentOfferIceCredential,  \* 0 when empty
  pendingRestartIceOffer,     \* NoOffer when nil
  remote,                     \* pc.RemoteDescription()
  generation,                 \* ICE generation of the local description
  gatheringState, gathered,   \* pion: gathering, and candidates of it so far
  cacheLocalCandidates, cachedLocalCandidates,
  trickled                    \* candidates sent to the client

pcVars   == <<remote, generation, gatheringState, gathered>>
idVars   == <<remoteOfferId, localAnswerId, currentOfferIceCredential>>
sendVars == <<cacheLocalCandidates, cachedLocalCandidates, trickled>>
vars     == <<lastOffer, eventsQueue, idVars, pendingRestartIceOffer, pcVars, sendVars>>

NoOffer == [id |-> 0, cred |-> 0]
Offers  == [id : 1..MaxOffers, cred : 1..MaxOffers]
Candidates == Nat \X (1..MaxCandidates)
Events  == [signal : {"offer"}, offer : Offers]
           \cup [signal : {"candidate"}, c : Candidates]
           \cup [signal : {"gatheringComplete"}]

TypeOK ==
  /\ lastOffer \in Offers \cup {NoOffer}
  /\ eventsQueue \in Seq(Events)
  /\ remoteOfferId \in 0..MaxOffers /\ localAnswerId \in 0..MaxOffers
  /\ currentOfferIceCredential \in 0..MaxOffers
  /\ pendingRestartIceOffer \in Offers \cup {NoOffer}
  /\ remote \in Offers \cup {NoOffer}
  /\ generation \in Nat
  /\ gatheringState \in {"new", "gathering", "complete"} /\ gathered \in 0..MaxCandidates
  /\ cacheLocalCandidates \in BOOLEAN /\ cachedLocalCandidates \in SUBSET Candidates
  /\ trickled \in SUBSET Candidates

Init ==
  /\ lastOffer = NoOffer /\ eventsQueue = <<>>
  /\ remoteOfferId = 0 /\ localAnswerId = 0 /\ currentOfferIceCredential = 0
  /\ pendingRestartIceOffer = NoOffer
  /\ remote = NoOffer /\ generation = 0 /\ gatheringState = "new" /\ gathered = 0
  /\ cacheLocalCandidates = FALSE /\ cachedLocalCandidates = {}
  /\ trickled = {}

-----------------------------------------------------------------------------
CanPost == Len(eventsQueue) < QueueMax
postEvent(e) == eventsQueue' = Append(eventsQueue, e)

(* The client offers again once it is answered, or restarts ICE at any      *)
(* time.  An offer that is lost with its signal connection is one the       *)
(* client leaves behind.                                                    *)
ClientOffers(restart) ==
  LET o == [id |-> lastOffer.id + 1,
            cred |-> IF restart THEN lastOffer.cred + 1 ELSE lastOffer.cred] IN
  /\ lastOffer.id < MaxOffers /\ CanPost
  /\ restart \/ (lastOffer # NoOffer /\ localAnswerId = lastOffer.id)
  /\ lastOffer' = o
  /\ \/ postEvent([signal |-> "offer", offer |-> o])
     \/ restart /\ UNCHANGED eventsQueue
  /\ UNCHANGED <<idVars, pendingRestartIceOffer, pcVars, sendVars>>

(* pion gathers: a candidate, or the end of it.                             *)
GatherCandidate ==
  /\ gatheringState = "gathering" /\ gathered < MaxCandidates /\ CanPost
  /\ gathered' = gathered + 1
  /\ postEvent([signal |-> "candidate", c |-> <<generation, gathered + 1>>])
  /\ UNCHANGED <<lastOffer, idVars, pendingRestartIceOffer, remote, generation,
                 gatheringState, sendVars>>

GatheringCompletes ==
  /\ gatheringState = "gathering" /\ CanPost
  /\ gatheringState' = "complete"
  /\ postEvent([signal |-> "gatheringComplete"])
  /\ UNCHANGED <<lastOffer, idVars, pendingRestartIceOffer, remote, generation, gathered,
                 sendVars>>

-----------------------------------------------------------------------------
Process(s) == /\ eventsQueue # <<>> /\ Head(eventsQueue).signal = s
              /\ eventsQueue' = Tail(eventsQueue)

(* SetRemoteDescription(o), and the SetLocalDescription of the answer: a    *)
(* new credential starts a new ICE generation and its gathering.            *)
Apply(o) ==
  /\ remote' = o
  /\ IF o.cred # remote.cred
     THEN generation' = generation + 1 /\ gatheringState' = "gathering" /\ gathered' = 0
     ELSE UNCHANGED <<generation, gatheringState, gathered>>

(* createAndSendAnswer, with the candidates cached at the call: the answer  *)
(* carries the number of the last offer received; then localDescriptionSent *)
(* sends the cached candidates.                                             *)
createAndSendAnswer(cached) ==
  /\ localAnswerId' = remoteOfferId'
  /\ cacheLocalCandidates' = FALSE /\ cachedLocalCandidates' = {}
  /\ trickled' = trickled \cup cached

isRemoteOfferRestartICE(o) ==
  currentOfferIceCredential # 0 /\ currentOfferIceCredential # o.cred

(* Mutant: clearLocalDescriptionSent for every restart.                     *)
ClearsAlways(o) == IF isRemoteOfferRestartICE(o) THEN {} ELSE cachedLocalCandidates

(* clearLocalDescriptionSent unless a restart is pending already.           *)
CachedAt(o) == IF isRemoteOfferRestartICE(o) /\ pendingRestartIceOffer = NoOffer
               THEN {} ELSE cachedLocalCandidates

(* A restart while gathering is put off to the end of it.                   *)
DeferRestart(o) ==
  /\ pendingRestartIceOffer' = o
  /\ cacheLocalCandidates' = (cacheLocalCandidates \/ pendingRestartIceOffer = NoOffer)
  /\ cachedLocalCandidates' = CachedAt(o)
  /\ UNCHANGED <<localAnswerId, currentOfferIceCredential, pcVars, trickled>>

AcceptOffer(o) ==
  /\ Apply(o)
  /\ currentOfferIceCredential' =
       IF currentOfferIceCredential = 0 \/ isRemoteOfferRestartICE(o)
       THEN o.cred ELSE currentOfferIceCredential
  /\ createAndSendAnswer(CachedAt(o))
  /\ UNCHANGED pendingRestartIceOffer

(* An offer is recorded as the last one received, then put off or accepted. *)
handleRemoteOfferReceived ==
  /\ Process("offer")
  /\ LET o == Head(eventsQueue).offer
         defer == isRemoteOfferRestartICE(o) /\ gatheringState = "gathering" IN
     /\ remoteOfferId' = o.id
     /\ \/ defer /\ DeferRestart(o)
        \/ ~defer /\ AcceptOffer(o)
  /\ UNCHANGED lastOffer

(* Mutant: the pending restart is forgotten.                                *)
GatheringDropsRestart ==
  /\ Process("gatheringComplete")
  /\ pendingRestartIceOffer' = NoOffer
  /\ UNCHANGED <<lastOffer, idVars, pcVars, sendVars>>

(* handleICEGatheringCompleteAnswerer: the restart put off is accepted, if  *)
(* there is one.                                                            *)
handleICEGatheringComplete ==
  /\ Process("gatheringComplete")
  /\ \/ /\ pendingRestartIceOffer = NoOffer
        /\ UNCHANGED <<idVars, pendingRestartIceOffer, pcVars, sendVars>>
     \/ /\ pendingRestartIceOffer # NoOffer
        /\ pendingRestartIceOffer' = NoOffer
        /\ Apply(pendingRestartIceOffer)
        /\ UNCHANGED <<remoteOfferId, currentOfferIceCredential>>
        /\ createAndSendAnswer(cachedLocalCandidates)
  /\ UNCHANGED lastOffer

handleLocalICECandidate ==
  /\ Process("candidate")
  /\ LET g == Head(eventsQueue).c IN
     IF cacheLocalCandidates
     THEN cachedLocalCandidates' = cachedLocalCandidates \cup {g} /\ UNCHANGED trickled
     ELSE trickled' = trickled \cup {g} /\ UNCHANGED cachedLocalCandidates
  /\ UNCHANGED <<lastOffer, idVars, pendingRestartIceOffer, pcVars, cacheLocalCandidates>>

-----------------------------------------------------------------------------
EventLoop == \/ handleRemoteOfferReceived \/ handleICEGatheringComplete
             \/ handleLocalICECandidate

Next == \/ EventLoop
        \/ \E restart \in BOOLEAN : ClientOffers(restart)
        \/ GatherCandidate \/ GatheringCompletes

Spec == Init /\ [][Next]_vars
FairSpec == Spec /\ WF_vars(EventLoop) /\ WF_vars(GatheringCompletes)

-----------------------------------------------------------------------------
(* No candidate of the ICE generation in use is lost: it was sent to the    *)
(* client, is cached until the next answer, or is an event still to be      *)
(* handled.  clearLocalDescriptionSent throws the cache away, so it must    *)
(* only run when the generation it belongs to is over.                      *)
NoCandidateLost ==
  \A n \in 1..gathered :
    LET c == <<generation, n>> IN
    \/ c \in trickled
    \/ cacheLocalCandidates /\ c \in cachedLocalCandidates
    \/ \E i \in 1..Len(eventsQueue) : eventsQueue[i] = [signal |-> "candidate", c |-> c]

(* A restart that was put off is taken up: pending, it has a                *)
(* gathering-complete event to come.                                        *)
PendingIsTakenUp ==
  pendingRestartIceOffer # NoOffer =>
    \/ gatheringState = "gathering"
    \/ \E i \in 1..Len(eventsQueue) : eventsQueue[i].signal = "gatheringComplete"

(* Every offer that reaches the server is answered, or overtaken by a later *)
(* one that is; and no candidate stays in the cache.                        *)
Answered ==
  \/ ENABLED EventLoop
  \/ gatheringState = "gathering"
  \/ localAnswerId = remoteOfferId /\ ~cacheLocalCandidates
OffersAreAnswered == []<>Answered

-----------------------------------------------------------------------------
(* "ice credential changed, remote offer restart ice": the credential       *)
(* compared with is that of the offer in use.                               *)
CredentialIsCurrent ==
  remote # NoOffer => currentOfferIceCredential = remote.cred

(* "used to check for offer/answer pairing": an answer carries the number   *)
(* of the offer it answers.  createAndSendAnswer stamps it with the last    *)
(* offer received, which need not be the one just applied.                  *)
AnswerIdIsOfOffer == remote # NoOffer /\ localAnswerId # 0 => localAnswerId = remote.id
=============================================================================
