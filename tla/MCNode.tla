------------------------------- MODULE MCNode -------------------------------
(***************************************************************************)
(* What a node does for its participants and with the cluster, for TLC: how *)
(* tracks come to be published (Publication), how data messages reach those *)
(* they are for (DataMessages), how data tracks are subscribed to           *)
(* (DataTracks), how down tracks are bound and told what to send            *)
(* (DownTrackBinding, SubscribedTrackSettings), how agents get their jobs   *)
(* (Agents), and the records of ingresses and egresses (IngressRecords,     *)
(* EgressRecords).  The modules do not share state, so a behaviour is about *)
(* one of them, its part.                                                   *)
(***************************************************************************)
EXTENDS Integers

CONSTANTS
  Parts,       \* those of this run
  AgWorkers, AgJobs, AgLimits,               \* of Agents
  IgRooms, IgCallers, IgRetries, IgLimits,   \* of IngressRecords
  EgCallers, EgLimits                        \* of EgressRecords

(* The word for no worker is no worker's name, and job 1 is that of the     *)
(* room.                                                                    *)
ASSUME AgentNames == "nobody" \notin AgWorkers /\ 1 \in AgJobs

(* Words for what is not there are no names of rooms; a record is created   *)
(* by the launcher or by the egress server.                                 *)
ASSUME RecordNames ==
  /\ "no room" \notin IgRooms /\ "no info" \notin IgRooms
  /\ \A l \in EgLimits : l.creates \subseteq {"launcher", "server"}

VARIABLES
  part,
  pubLimits, pendingTracks, pendingRemoteTracks, pendingPublishing, mediaTracks, publishedTracks,
  roomTracks, stacks, canPublish, disconnected, migration, publications, connected, removable,
  lastSid, used, answered, muteWish, mismatched, late, hasty,
  dataLimits, outbox, wire, resend, resumes, lastPub, migCache, todo, casting, roomCache, dedup,
  rState, canWrite, firstSeqs, lastWritten, got, owed, rpc,
  dtLimits, upTracks, dtClosed, dtRoom, published, listening, threads, notifiers, unobserving, removals,
  objects, subsMap, reconcileCh, calls, callCount, worker, canSubscribe, managerClosed, registered, spreader,
  handle, downCount, handleOf, told, excused,
  agLimits, agConn, agReg, agFull, agAvail, agRunning, agJobTo, agEvent, agCur, agAns, agSnap, agJob,
  agDisp, agAdding, agDispJobs, agMember, agAgent, agTerm, agUpd, agLeft, agDel, agExcused, agUsed,
  igLimits, igInfo, igKey, igIndex, igState, igCall, igSession, igSent, igTold, igExcused, igPanicked, igUsed,
  egLimits, egInfo, egListed, egEnded, egOld, egCall, egServer, egSent, egStarted, egAnswer, egExcused, egUsed,
  bindEnv, bindState, isReceiverReady, bindOnReceiverReady, codec, fwdCodec, isConnected, writable,
  writeStopped, isClosed, bindLock, receiver, chosen, wrappedReady, real, held, dummyReady, attached,
  regressed, bindTodo, binds, bindExcused,
  setEnv, settings, settingsVersion, settingsLock, debounced, layout, fwdMuted, fwdPubMuted, fwdMax,
  trackMuted, dtListed, dtBound, stClosed, dtWritable, notifyCh, notifyClosed, notifier, toldMax, teller,
  blankGen, blanks, steps, setCalls, forgiven

publishingVars ==
  <<pubLimits, pendingTracks, pendingRemoteTracks, pendingPublishing, mediaTracks, publishedTracks,
    roomTracks, stacks, canPublish, disconnected, migration, publications, connected, removable,
    lastSid, used, answered, muteWish, mismatched, late, hasty>>
dataVars ==
  <<dataLimits, outbox, wire, resend, resumes, lastPub, migCache, todo, casting, roomCache, dedup,
    rState, canWrite, firstSeqs, lastWritten, got, owed, rpc>>
dtVars ==
  <<dtLimits, upTracks, dtClosed, dtRoom, published, listening, threads, notifiers, unobserving, removals,
    objects, subsMap, reconcileCh, calls, callCount, worker, canSubscribe, managerClosed, registered, spreader,
    handle, downCount, handleOf, told, excused>>
agentVars ==
  <<agLimits, agConn, agReg, agFull, agAvail, agRunning, agJobTo, agEvent, agCur, agAns, agSnap, agJob,
    agDisp, agAdding, agDispJobs, agMember, agAgent, agTerm, agUpd, agLeft, agDel, agExcused, agUsed>>
ingressVars ==
  <<igLimits, igInfo, igKey, igIndex, igState, igCall, igSession, igSent, igTold, igExcused, igPanicked, igUsed>>
egressVars ==
  <<egLimits, egInfo, egListed, egEnded, egOld, egCall, egServer, egSent, egStarted, egAnswer, egExcused, egUsed>>
bindingVars ==
  <<bindEnv, bindState, isReceiverReady, bindOnReceiverReady, codec, fwdCodec, isConnected, writable,
    writeStopped, isClosed, bindLock, receiver, chosen, wrappedReady, real, held, dummyReady, attached,
    regressed, bindTodo, binds, bindExcused>>
settingsVars ==
  <<setEnv, settings, settingsVersion, settingsLock, debounced, layout, fwdMuted, fwdPubMuted, fwdMax,
    trackMuted, dtListed, dtBound, stClosed, dtWritable, notifyCh, notifyClosed, notifier, toldMax, teller,
    blankGen, blanks, steps, setCalls, forgiven>>
downVars == <<bindingVars, settingsVars>>
allVars == <<part, publishingVars, dataVars, dtVars, agentVars, ingressVars, egressVars, downVars>>

(* Requests and media of two tracks: with a client that leaves; with a      *)
(* permission that is taken back; with mutes; of a migrated participant;    *)
(* watched by the supervisor; with a second codec and ids that only the     *)
(* offer has; with media that has no id yet.                                *)
Bounds(requests, media, closes, mutes, permissions, migrated, env) ==
  [requests |-> requests, media |-> media, closes |-> closes, mutes |-> mutes,
   permissions |-> permissions, migrated |-> migrated, env |-> env]
Publishing == INSTANCE Publication
  WITH PubIds <- {"a", "b"}, Kind <- [a |-> "video", b |-> "video"],
       PubLimits <- {Bounds(2, 2, 1, 0, 0, {}, {"close"}), Bounds(2, 1, 0, 0, 1, {}, {"permission"}),
                     Bounds(1, 2, 1, 2, 0, {}, {"mute"}), Bounds(1, 1, 1, 0, 0, {"a"}, {"mismatch"}),
                     Bounds(0, 1, 1, 0, 0, {"a", "b"}, {}), Bounds(2, 1, 1, 0, 0, {}, {"supervise"}),
                     Bounds(1, 1, 0, 1, 0, {}, {"supervise", "mute"}),
                     Bounds(3, 2, 0, 0, 0, {}, {"offer", "codecs"}),
                     Bounds(1, 1, 0, 0, 0, {"a"}, {"noMid", "timeout"})}

(* Messages of a publisher: for all or for some, with a resume; to a slow   *)
(* reader; to one that joins after some were forgotten; of a publisher that *)
(* migrated in; with nonces, some of them of the API.  And one call of a    *)
(* method.                                                                  *)
Sending(messages, again, last, env) ==
  [messages |-> messages, resumes |-> again, last |-> last, env |-> env]
Data == INSTANCE DataMessages
  WITH Publishers <- {"p"}, DedupMax <- 3,
       DataLimits <- {Sending(3, 1, 0, {"dest"}), Sending(3, 1, 0, {"slow"}), Sending(3, 0, 0, {"sids", "expire"}),
                      Sending(4, 0, 1, {}), Sending(4, 0, 1, {"timeout"}),
                      Sending(3, 0, 0, {"nonce", "api", "established"}),
                      Sending(0, 0, 0, {"rpc"}), Sending(0, 0, 0, {"rpc", "quick"}), Sending(0, 0, 0, {"rpc", "slowSend"})}

(* A data track and one subscriber: who subscribes and unsubscribes at any  *)
(* time, with a publisher that unpublishes, loses its permission, is        *)
(* removed or closes; then two tracks.                                      *)
Tracks(number, calling, env) == [tracks |-> number, calls |-> calling, env |-> env]
DataTracking == INSTANCE DataTracks
  WITH TrackMax <- 2, PubHandles <- {1}, HandleMod <- 3, ReconcileMax <- 2,
       DtLimits <- {Tracks(1, 1, {"auto"}), Tracks(1, 2, {"existing"}), Tracks(1, 3, {}), Tracks(1, 1, {"remove"}),
                    Tracks(1, 1, {"close"}), Tracks(1, 1, {"revoke"}), Tracks(1, 2, {"permission"}),
                    Tracks(1, 2, {"timeout"}), Tracks(1, 1, {"end"}), Tracks(2, 0, {"auto"})}

(* A dispatch: with two jobs; with a worker that comes and goes, an agent   *)
(* that leaves and calls that are lost; with two workers, one of which      *)
(* refuses or is full.                                                      *)
Dispatching(workers, jobs, lost, drops, asks, ops) ==
  [workers |-> workers, jobs |-> jobs, lost |-> lost, drops |-> drops, asks |-> asks, ops |-> ops]
AgentCases == {Dispatching({"w1"}, {1, 2}, 0, 0, 1, {}),
               Dispatching({"w1"}, {1}, 1, 1, 2, {"leave", "terminate"}),
               Dispatching({"w1", "w2"}, {1}, 0, 0, 1, {"not available", "full"})}
Jobs == INSTANCE Agents

(* An ingress: updates and a delete at once; a stream that reports while it *)
(* is updated, or deleted; one that pulls; and Redis failing.               *)
Records(callers, kind, ops, number, sessions, reports, foreign, faults) ==
  [callers |-> 1 .. callers, kind |-> kind, ops |-> ops, calls |-> number, sessions |-> sessions,
   reports |-> reports, foreign |-> foreign, faults |-> faults]
IngressCases == {Records(3, "push", {"create", "update", "delete"}, 3, 0, 0, 1, 0),
                 Records(2, "push", {"create", "delete"}, 2, 1, 2, 0, 0),
                 Records(2, "url", {"create", "update"}, 2, 1, 1, 0, 0),
                 Records(2, "push", {"create", "update", "delete"}, 3, 0, 0, 0, 1)}
Ingress == INSTANCE IngressRecords

(* An egress: created by launcher and server, with a server that waits for  *)
(* answers; by the launcher alone, with one that does not.                  *)
EgressCases == {[serial |-> TRUE, creates |-> {"launcher", "server"}, faults |-> 1, sweeps |-> 2,
                 stops |-> 1, bar |-> TRUE],
                [serial |-> FALSE, creates |-> {"launcher"}, faults |-> 1, sweeps |-> 2,
                 stops |-> 1, bar |-> FALSE]}
Egress == INSTANCE EgressRecords

(* A down track of a publisher with two codecs, of which the second is to   *)
(* replace the first: bound, unbound and bound again while it connects or   *)
(* is stopped; moved while it is closed; moved while its receiver restarts; *)
(* of a client that cannot change codecs, or has the second only.           *)
Bindings(codecs, dummy, number, env) == [codecs |-> codecs, dummy |-> dummy, binds |-> number, env |-> env]
Binding == INSTANCE DownTrackBinding
  WITH todo <- bindTodo, excused <- bindExcused,
       BindEnvs <- {Bindings({"p", "b"}, {"p"}, 2, {"connect", "unbind", "stop"}),
                    Bindings({"p", "b"}, {"p", "b"}, 1, {"connect", "regress", "close"}),
                    Bindings({"p", "b"}, {"b"}, 2, {"unbind", "regress", "restart"}),
                    Bindings({"p", "b"}, {"p"}, 1, {"regress", "fixedCodec"}),
                    Bindings({"b"}, {"p", "b"}, 2, {"regress", "close", "unbind"})}

(* The settings of a track: changed before and after its bind, by a client  *)
(* that adapts; with a publisher that changes its layers; closed or paused; *)
(* of an audio track that is muted by both sides.                           *)
Settings(kind, updates, infos, mutes, env) ==
  [kind |-> kind, updates |-> updates, infos |-> infos, mutes |-> mutes, env |-> env]
Wishes == INSTANCE SubscribedTrackSettings
  WITH dtClosed <- stClosed, BlankFrames <- 1,
       SettingsEnvs <- {Settings("video", 2, 0, 0, {"adaptive"}), Settings("video", 1, 1, 0, {}),
                        Settings("video", 1, 0, 0, {"close", "paused"}), Settings("audio", 0, 0, 2, {"replace"}),
                        Settings("audio", 1, 0, 1, {})}

PartsInit ==
  /\ part \in Parts
  /\ Publishing!PublicationInit /\ (part # "publishing" => pubLimits.env = {"noMid", "timeout"})
  /\ Data!DataInit /\ (part # "data" => dataLimits.env = {"rpc"})
  /\ DataTracking!DtInit /\ (part # "dataTracks" => dtLimits.env = {"end"})
  /\ Jobs!AgInit /\ (part # "agents" => agLimits.lost = 1)
  /\ Ingress!IgInit /\ (part # "ingress" => igLimits.faults = 1)
  /\ Egress!EgInit /\ (part # "egress" => egLimits.serial)
  /\ Binding!BindInit /\ (part # "binding" => bindEnv.binds = 1 /\ bindEnv.dummy = {"p"})
  /\ Wishes!SettingsInit /\ (part # "settings" => setEnv.infos = 1)

PublishingStep == /\ part = "publishing" /\ Publishing!PublicationNext
                  /\ UNCHANGED <<part, dataVars, dtVars, agentVars, ingressVars, egressVars, downVars>>
DataStep == /\ part = "data" /\ Data!DataNext
            /\ UNCHANGED <<part, publishingVars, dtVars, agentVars, ingressVars, egressVars, downVars>>
DataTrackStep == /\ part = "dataTracks" /\ DataTracking!DtNext
                 /\ UNCHANGED <<part, publishingVars, dataVars, agentVars, ingressVars, egressVars, downVars>>
AgentStep == /\ part = "agents" /\ Jobs!AgNext
             /\ UNCHANGED <<part, publishingVars, dataVars, dtVars, ingressVars, egressVars, downVars>>
IngressStep == /\ part = "ingress" /\ Ingress!IgNext
               /\ UNCHANGED <<part, publishingVars, dataVars, dtVars, agentVars, egressVars, downVars>>
EgressStep == /\ part = "egress" /\ Egress!EgNext
              /\ UNCHANGED <<part, publishingVars, dataVars, dtVars, agentVars, ingressVars, downVars>>

DownTrackStep ==
  /\ \/ part = "binding" /\ Binding!BindNext /\ UNCHANGED settingsVars
     \/ part = "settings" /\ Wishes!SettingsNext /\ UNCHANGED bindingVars
  /\ UNCHANGED <<part, publishingVars, dataVars, dtVars, agentVars, ingressVars, egressVars>>

PartsNext ==
  \/ PublishingStep \/ DataStep \/ DataTrackStep \/ AgentStep \/ IngressStep \/ EgressStep
  \/ DownTrackStep
PartsSpec == PartsInit /\ [][PartsNext]_allVars

-----------------------------------------------------------------------------
(* However a request, its media and the end of the track before it follow   *)
(* on each other, media does not wait beside a request it belongs to, a     *)
(* request is queued only while a track has its id, an accepted mute is in  *)
(* force, a migration is complete only when the room knows the tracks, and  *)
(* the tracks the participant lists, those the room finds and those the     *)
(* supervisor knows are the ones that are open.                             *)
PublishingAgrees ==
  part = "publishing" => /\ Publishing!MediaIsMatched /\ Publishing!QueueMoves
                         /\ Publishing!MuteIsKept /\ Publishing!MigrationWaits
                         /\ Publishing!ListedIsOpen /\ Publishing!RoomHasTheOpen
                         /\ Publishing!SupervisorIsTrue

(* However binds, receivers, a change of codec and the end of a down track  *)
(* fall together, it writes only while it may, does not wait for what is    *)
(* there, and is with the receiver of its codec or with none; it does what  *)
(* was asked for last, and what the publisher's side was told is so.        *)
DownTracksAgree ==
  /\ part = "binding" => /\ Binding!WritesWhenItMay /\ Binding!BindDoesNotWait /\ Binding!OneCodec
                         /\ Binding!OneReceiver /\ Binding!ClosedIsDetached
  /\ part = "settings" => /\ Wishes!SettingsAreApplied /\ Wishes!PubMuteIsKnown /\ Wishes!ToldIsMax
                          /\ Wishes!OneBlankWriter

(* A participant that joins while others send gets their messages in order, *)
(* none twice and none missing, through its joining, resumes and            *)
(* migrations; what has the same nonce comes once; and a call of a method   *)
(* is answered.                                                             *)
DataArrives ==
  part = "data" => /\ Data!GotInOrder /\ Data!NothingIsMissed /\ Data!NumbersContinue
                   /\ Data!OncePerNonce /\ Data!RemembersEnough /\ Data!RpcIsAnswered

(* The room has the data tracks that are published, packets go only to down *)
(* tracks of subscriptions, and a subscriber knows the handles of its       *)
(* subscriptions.                                                           *)
DataTracksAgree ==
  part = "dataTracks" => /\ DataTracking!RoomHasDataTracks /\ DataTracking!ForwardsToSubscribed
                         /\ DataTracking!HandlesAreTrue

(* A job runs on only for a dispatch that is there and an agent that has    *)
(* not left, every job that runs can be terminated, and clients learn of    *)
(* the workers there are.                                                   *)
AgentsAgree ==
  part = "agents" => /\ Jobs!DeletedIsOver /\ Jobs!LeftIsOver /\ Jobs!RunningIsKnown
                     /\ Jobs!CacheIsTrue

(* However calls on several nodes and failures fall together, a record is   *)
(* found by all its keys, its state and what telemetry was told are those   *)
(* of the last report, and what is left of an ended egress will be swept.   *)
RecordsAgree ==
  /\ part = "ingress" => /\ Ingress!StoredIsFound /\ Ingress!ListedIsStored
                         /\ Ingress!LastReportWins /\ Ingress!ToldIsStored /\ Ingress!InfoHasState
  /\ part = "egress" => /\ Egress!LeftIsSwept /\ Egress!ListedIsKnown /\ Egress!StatusIsNewest
                        /\ Egress!StartedOnce /\ Egress!RefusalIsTrue
=============================================================================
