------------------------------ MODULE PCOfferer ------------------------------
(***************************************************************************)
(* rtc/transport.go in the role of the offerer: the subscriber             *)
(* PeerConnection of one participant, its negotiation with the client over *)
(* a signal connection that may break and be resumed, ICE restarts and the *)
(* negotiation timeout.                                                    *)
(*                                                                         *)
(* What is negotiated is abstracted to a version number: every change of   *)
(* the local transceivers makes a new version, an offer carries the        *)
(* version it was created from and an answer the version of the offer it   *)
(* answers.                                                                *)
(***************************************************************************)
EXTENDS Naturals, Sequences

CONSTANTS MaxVersion,     \* bound on changes of the transceivers
          MaxReconnects,  \* bound on breaks of the signal connection
          MaxForced,      \* bound on Negotiate(true) calls
          QueueMax        \* bound on eventsQueue

VARIABLES
  wanted,                \* version of the local transceivers
  negotiationState,
  pc,                    \* pion's PeerConnection: see PCType
  gatheringState,        \* pc.ICEGatheringState()
  restartAfterGathering,
  restartAtNextOffer,
  eventsQueue,
  debouncePending,
  negotiateCounter,
  timer,                 \* signalStateCheckTimer: the version it checks, 0 none
  firing,                \* versions whose timer function is about to run
  connected,             \* pc.ConnectionState() is Connected
  failed,                \* OnNegotiationFailed was called: the session is closed
  link,                  \* the signal connection is up
  toClient, toServer,    \* messages under way, in order
  silent,                \* the client has stopped answering
  restartDue,            \* history: an ICE restart was asked for and not offered yet
  mispaired,             \* history: an answer was applied to another offer
  reconnects, forced     \* counters for the bounds

(* What createAndSendOffer and doICERestart may change.                     *)
negVars  == <<negotiationState, pc, restartAtNextOffer, negotiateCounter, timer,
              toClient, restartDue, gatheringState>>
(* What the event handlers never change.                                    *)
envVars  == <<wanted, connected, link, silent, reconnects, forced, debouncePending,
              firing, toServer>>
vars     == <<negVars, envVars, restartAfterGathering, eventsQueue, failed, mispaired>>

(* local and remote are the versions of LocalDescription and                *)
(* CurrentRemoteDescription, 0 when there is none; desc tells local         *)
(* descriptions of one version apart; pending is have-local-offer.          *)
PCType == [local : 0..MaxVersion, desc : Nat, remote : 0..MaxVersion, pending : BOOLEAN]

Descriptions == [ver : 1..MaxVersion, desc : Nat]
Events == [signal : {"sendOffer", "iceRestart", "gatheringComplete"}]
          \cup [signal : {"answer"}, sd : Descriptions]

TypeOK ==
  /\ wanted \in 1..MaxVersion
  /\ negotiationState \in {"none", "remote", "retry"}
  /\ pc \in PCType
  /\ gatheringState \in {"new", "gathering", "complete"}
  /\ restartAfterGathering \in BOOLEAN /\ restartAtNextOffer \in BOOLEAN
  /\ eventsQueue \in Seq(Events)
  /\ debouncePending \in BOOLEAN
  /\ negotiateCounter \in Nat /\ timer \in Nat /\ firing \in SUBSET Nat
  /\ connected \in BOOLEAN /\ failed \in BOOLEAN /\ link \in BOOLEAN /\ silent \in BOOLEAN
  /\ toClient \in Seq(Descriptions)
  /\ toServer \in Seq(Descriptions)
  /\ restartDue \in BOOLEAN /\ mispaired \in BOOLEAN
  /\ reconnects \in Nat /\ forced \in Nat

Init ==
  /\ wanted = 1
  /\ negotiationState = "none"
  /\ pc = [local |-> 0, desc |-> 0, remote |-> 0, pending |-> FALSE]
  /\ gatheringState = "new"
  /\ restartAfterGathering = FALSE /\ restartAtNextOffer = FALSE
  /\ eventsQueue = <<>> /\ debouncePending = TRUE
  /\ negotiateCounter = 0 /\ timer = 0 /\ firing = {}
  /\ connected = FALSE /\ failed = FALSE /\ link = TRUE /\ silent = FALSE
  /\ toClient = <<>> /\ toServer = <<>>
  /\ restartDue = FALSE /\ mispaired = FALSE
  /\ reconnects = 0 /\ forced = 0

-----------------------------------------------------------------------------
CanPost == Len(eventsQueue) < QueueMax
postEvent(e) == eventsQueue' = Append(eventsQueue, e)
postSignal(s) == postEvent([signal |-> s])

(* A signal message is lost while the connection is down.                   *)
Send(sd) == toClient' = IF link THEN Append(toClient, sd) ELSE toClient

(* A transceiver is added or removed, and Negotiate(false) debounced.       *)
Change ==
  /\ ~failed /\ wanted < MaxVersion
  /\ wanted' = wanted + 1
  /\ debouncePending' = TRUE
  /\ UNCHANGED <<negVars, connected, link, silent, reconnects, forced, firing, toServer,
                 restartAfterGathering, eventsQueue, failed, mispaired>>

(* Negotiate(true) cancels a pending debounce.                              *)
NegotiateForced ==
  /\ ~failed /\ forced < MaxForced /\ CanPost
  /\ forced' = forced + 1
  /\ debouncePending' = FALSE
  /\ postSignal("sendOffer")
  /\ UNCHANGED <<negVars, wanted, connected, link, silent, reconnects, firing, toServer,
                 restartAfterGathering, failed, mispaired>>

DebounceFires ==
  /\ ~failed /\ debouncePending /\ CanPost
  /\ debouncePending' = FALSE
  /\ postSignal("sendOffer")
  /\ UNCHANGED <<negVars, wanted, connected, link, silent, reconnects, forced, firing,
                 toServer, restartAfterGathering, failed, mispaired>>

-----------------------------------------------------------------------------
(* Mutant: a negotiation asked for during another one is forgotten.         *)
ForgetsRetry(remote) ==
  /\ negotiationState' = negotiationState
  /\ pc' = [pc EXCEPT !.remote = remote]
  /\ UNCHANGED <<restartAtNextOffer, negotiateCounter, timer, toClient, restartDue,
                 gatheringState>>

(* createAndSendOffer during a negotiation: it is left to finish and        *)
(* another one follows it.                                                  *)
retryLater(remote) ==
  /\ negotiationState' = "retry"
  /\ pc' = [pc EXCEPT !.remote = remote]
  /\ UNCHANGED <<restartAtNextOffer, negotiateCounter, timer, toClient, restartDue,
                 gatheringState>>

(* Else an offer is created and set, which starts gathering the first time  *)
(* and after an ICE restart, its timeout is armed, and it is sent.          *)
createAndSendOffer(remote, iceRestart) ==
  LET restart == iceRestart \/ restartAtNextOffer
      desc == negotiateCounter + 1 IN
  /\ pc' = [local |-> wanted, desc |-> desc, remote |-> remote, pending |-> TRUE]
  /\ negotiationState' = "remote"
  /\ restartAtNextOffer' = FALSE
  /\ restartDue' = (restartDue /\ ~restart)
  /\ gatheringState' = IF restart \/ gatheringState = "new" THEN "gathering" ELSE gatheringState
  /\ negotiateCounter' = desc
  /\ timer' = desc
  /\ Send([ver |-> wanted, desc |-> desc])

(* The event loop takes the next event, with the given signal.              *)
Process(s) == /\ ~failed /\ eventsQueue # <<>> /\ Head(eventsQueue).signal = s
              /\ eventsQueue' = Tail(eventsQueue)

handleSendOffer ==
  /\ Process("sendOffer")
  /\ \/ negotiationState # "none" /\ retryLater(pc.remote)
     \/ negotiationState = "none" /\ createAndSendOffer(pc.remote, FALSE)
  /\ UNCHANGED <<envVars, restartAfterGathering, failed, mispaired>>

(* Mutant: the negotiation state is not reset.                              *)
AnswerKeepsState ==
  /\ Process("answer")
  /\ pc' = [pc EXCEPT !.remote = Head(eventsQueue).sd.ver, !.pending = FALSE]
  /\ timer' = 0
  /\ UNCHANGED <<negotiationState, restartAtNextOffer, negotiateCounter, toClient, restartDue,
                 gatheringState, envVars, restartAfterGathering, failed, mispaired>>

(* handleRemoteAnswerReceived.  pion refuses an answer when no offer is     *)
(* pending, which fails the negotiation; otherwise it takes whatever answer *)
(* comes, as a wrong offer ID is only logged.                               *)
handleRemoteAnswerReceived ==
  /\ Process("answer")
  /\ LET sd == Head(eventsQueue).sd IN
     \/ /\ ~pc.pending
        /\ failed' = TRUE /\ timer' = 0
        /\ UNCHANGED <<negotiationState, pc, restartAtNextOffer, negotiateCounter,
                       toClient, restartDue, gatheringState, mispaired>>
     \/ /\ pc.pending
        /\ mispaired' = (mispaired \/ sd.desc # pc.desc)
        /\ \/ negotiationState = "retry" /\ createAndSendOffer(sd.ver, FALSE)
           \/ /\ negotiationState # "retry"
              /\ negotiationState' = "none"
              /\ pc' = [pc EXCEPT !.remote = sd.ver, !.pending = FALSE]
              /\ timer' = 0
              /\ UNCHANGED <<restartAtNextOffer, negotiateCounter, toClient, restartDue,
                             gatheringState>>
        /\ UNCHANGED failed
  /\ UNCHANGED <<envVars, restartAfterGathering>>

(* doICERestart without a current remote description: the local description *)
(* is sent again and the restart left to the offer after it.                *)
ResendLocalDescription ==
  /\ negotiationState' = "retry" /\ restartAtNextOffer' = TRUE
  /\ Send([ver |-> pc.local, desc |-> pc.desc])
  /\ UNCHANGED <<pc, negotiateCounter, timer, restartDue, gatheringState>>

(* doICERestart: nothing before the first offer, put off while candidates   *)
(* are gathered; else an offer, for which an unfinished negotiation is      *)
(* ended by re-applying the last answer, when there is one.  flag is        *)
(* restartAfterGathering at the call.                                       *)
doICERestart(flag) ==
  /\ restartAfterGathering' = (flag \/ gatheringState = "gathering")
  /\ \/ /\ gatheringState = "new"
        /\ restartDue' = FALSE
        /\ UNCHANGED <<negotiationState, pc, restartAtNextOffer, negotiateCounter, timer,
                       toClient, gatheringState>>
     \/ gatheringState = "gathering" /\ UNCHANGED negVars
     \/ /\ gatheringState = "complete"
        /\ negotiationState = "none" \/ pc.remote # 0
        /\ createAndSendOffer(pc.remote, TRUE)
     \/ /\ gatheringState = "complete"
        /\ negotiationState # "none" /\ pc.remote = 0
        /\ ResendLocalDescription

handleICERestart ==
  /\ Process("iceRestart")
  /\ doICERestart(restartAfterGathering)
  /\ UNCHANGED <<envVars, failed, mispaired>>

handleICEGatheringComplete ==
  /\ Process("gatheringComplete")
  /\ \/ ~restartAfterGathering /\ UNCHANGED <<negVars, restartAfterGathering>>
     \/ restartAfterGathering /\ doICERestart(FALSE)
  /\ UNCHANGED <<envVars, failed, mispaired>>

-----------------------------------------------------------------------------
(* pion: gathering ends, and its callback posts an event; the connection    *)
(* is made once an answer has been applied.                                 *)
GatheringCompletes ==
  /\ ~failed /\ gatheringState = "gathering" /\ CanPost
  /\ gatheringState' = "complete"
  /\ postSignal("gatheringComplete")
  /\ UNCHANGED <<negotiationState, pc, restartAtNextOffer, negotiateCounter, timer, toClient,
                 restartDue, envVars, restartAfterGathering, failed, mispaired>>

Connects ==
  /\ ~failed /\ ~connected /\ pc.remote # 0 /\ gatheringState = "complete"
  /\ connected' = TRUE
  /\ UNCHANGED <<negVars, wanted, link, silent, reconnects, forced, debouncePending, firing,
                 toServer, restartAfterGathering, eventsQueue, failed, mispaired>>

(* The timer of setupSignalStateCheckTimer fires ...                        *)
TimerFires ==
  /\ ~failed /\ timer # 0 /\ timer \notin firing
  /\ firing' = firing \cup {timer}
  /\ UNCHANGED <<negVars, wanted, connected, link, silent, reconnects, forced,
                 debouncePending, toServer, restartAfterGathering, eventsQueue, failed,
                 mispaired>>

(* ... and its function, in a goroutine of its own, first clears the timer  *)
(* of the transport, whichever that is by now.                              *)
TimerFunction(v) ==
  /\ ~failed /\ v \in firing
  /\ firing' = firing \ {v}
  /\ timer' = 0
  /\ failed' = (negotiateCounter = v /\ negotiationState # "none" /\ connected)
  /\ UNCHANGED <<negotiationState, pc, restartAtNextOffer, negotiateCounter, toClient,
                 restartDue, gatheringState, wanted, connected, link, silent, reconnects,
                 forced, debouncePending, toServer, restartAfterGathering, eventsQueue,
                 mispaired>>

-----------------------------------------------------------------------------
(* The client answers the offers it gets, in order, until it falls silent.  *)
ClientAnswers ==
  /\ ~failed /\ ~silent /\ link /\ toClient # <<>>
  /\ toClient' = Tail(toClient)
  /\ toServer' = Append(toServer, Head(toClient))
  /\ UNCHANGED <<negotiationState, pc, restartAtNextOffer, negotiateCounter, timer,
                 restartDue, gatheringState, wanted, connected, link, silent, reconnects,
                 forced, debouncePending, firing, restartAfterGathering, eventsQueue, failed,
                 mispaired>>

ClientFallsSilent ==
  /\ ~failed /\ ~silent
  /\ silent' = TRUE
  /\ UNCHANGED <<negVars, wanted, connected, link, reconnects, forced, debouncePending,
                 firing, toServer, restartAfterGathering, eventsQueue, failed, mispaired>>

(* HandleRemoteDescription posts the answer.                                *)
HandleRemoteDescription ==
  /\ ~failed /\ link /\ toServer # <<>> /\ CanPost
  /\ toServer' = Tail(toServer)
  /\ postEvent([signal |-> "answer", sd |-> Head(toServer)])
  /\ UNCHANGED <<negVars, wanted, connected, link, silent, reconnects, forced,
                 debouncePending, firing, restartAfterGathering, failed, mispaired>>

(* The signal connection breaks: what was under way to the client is lost,  *)
(* an answer may still come through later.  Resuming it always restarts ICE *)
(* (Room.ResumeParticipant).                                                *)
LinkBreaks ==
  /\ ~failed /\ link /\ reconnects < MaxReconnects
  /\ link' = FALSE
  /\ reconnects' = reconnects + 1
  /\ toClient' = <<>>
  /\ toServer' \in {toServer, <<>>}
  /\ UNCHANGED <<negotiationState, pc, restartAtNextOffer, negotiateCounter, timer,
                 restartDue, gatheringState, wanted, connected, silent, forced,
                 debouncePending, firing, restartAfterGathering, eventsQueue, failed,
                 mispaired>>

ResumeParticipant ==
  /\ ~failed /\ ~link /\ CanPost
  /\ link' = TRUE
  /\ restartDue' = TRUE
  /\ postSignal("iceRestart")
  /\ UNCHANGED <<negotiationState, pc, restartAtNextOffer, negotiateCounter, timer, toClient,
                 gatheringState, wanted, connected, silent, reconnects, forced,
                 debouncePending, firing, toServer, restartAfterGathering, failed,
                 mispaired>>

-----------------------------------------------------------------------------
EventLoop == \/ handleSendOffer \/ handleRemoteAnswerReceived \/ handleICERestart
             \/ handleICEGatheringComplete

Terminated == failed /\ UNCHANGED vars

Next == \/ EventLoop
        \/ Change \/ NegotiateForced \/ DebounceFires
        \/ GatheringCompletes \/ Connects
        \/ TimerFires \/ \E v \in firing : TimerFunction(v)
        \/ ClientAnswers \/ ClientFallsSilent \/ HandleRemoteDescription
        \/ LinkBreaks \/ ResumeParticipant
        \/ Terminated

Spec == Init /\ [][Next]_vars

(* The event loop and pion run; debounces fire; the client, while it is not *)
(* silent, answers and reconnects.  That a timer is slower than an answer   *)
(* is not assumed: a session may fail at any time after it is armed.        *)
Fairness ==
  /\ WF_vars(EventLoop) /\ WF_vars(DebounceFires) /\ WF_vars(GatheringCompletes)
  /\ WF_vars(Connects) /\ WF_vars(ClientAnswers) /\ WF_vars(HandleRemoteDescription)
  /\ WF_vars(ResumeParticipant) /\ WF_vars(TimerFires)
  /\ WF_vars(\E v \in firing : TimerFunction(v))

FairSpec == Spec /\ Fairness

-----------------------------------------------------------------------------
(* negotiationState is the code's own idea of what pion's signalling state  *)
(* is: it waits for an answer exactly when an offer is pending, so an       *)
(* answer is never waited for in vain nor an offer made over a pending one. *)
StateMatchesPC == ~failed => (negotiationState = "none") = ~pc.pending

(* A restart left to the next offer is not lost: there is a next offer.     *)
RestartHasNextOffer == restartAtNextOffer => negotiationState = "retry"

(* Negotiation converges: once transceivers stop changing and the client    *)
(* keeps answering over an unbroken connection, client and server agree on  *)
(* the current version, or the session has failed and starts anew.          *)
Agreed == pc.remote = wanted /\ negotiationState = "none" /\ ~debouncePending
Converges == <>[](~silent /\ link) => <>(failed \/ []Agreed)

(* Resuming restarts ICE in the end: an offer with new ICE credentials is   *)
(* made, however the restart request meets gathering, unfinished            *)
(* negotiations and further breaks.                                         *)
ResumeRestartsICE == []<>(failed \/ silent \/ ~link \/ ~restartDue)

-----------------------------------------------------------------------------
(* "used to check for offer/answer pairing, i. e. every offer should have   *)
(* an answer before another offer can be sent": an answer is applied to the *)
(* offer it answers.                                                        *)
AnswersPaired == ~mispaired

(* The test of the timeout: when the client falls silent with an offer      *)
(* pending on a connected session, the negotiation is reported failed.      *)
SilenceIsNoticed ==
  (silent /\ connected /\ negotiationState # "none")
     ~> (failed \/ negotiationState = "none" \/ ~link)
=============================================================================
