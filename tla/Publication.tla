----------------------------- MODULE Publication -----------------------------
(***************************************************************************)
(* How tracks of a participant come to be published (rtc/participant.go,   *)
(* participant_sdp.go, uptrackmanager.go): a client asks with AddTrack,    *)
(* media comes as a remote track of the PeerConnection, in either order,   *)
(* and where they meet a MediaTrack is made and announced to the room.  A  *)
(* request for a client id that is in use is queued until the track that   *)
(* has it closes.  The supervisor (rtc/supervisor) watches that what was   *)
(* asked for is published, and a participant that migrated in is complete  *)
(* when the tracks it brought are.                                         *)
(*                                                                         *)
(* Calls that run in one goroutine, one after the other and within each    *)
(* other, are the stack of its thread: the first is the one that runs.     *)
(***************************************************************************)
EXTENDS Integers, Sequences, FiniteSets, SequencesExt

CONSTANTS PubIds,      \* ids of tracks at the client: of requests and of media
          Kind,        \* the kind of each
          PubLimits    \* bounds: requests, media, closes, mutes, and the environment

NoId == "none"
PubThreads == {"signal", "pc", "receiver", "closer", "supervisor"}

VARIABLES
  pubLimits,
  pendingTracks,           \* per client id: the track infos waiting, queued, migrated
  pendingRemoteTracks,     \* media nobody asked for yet
  pendingPublishing,       \* pendingPublishingTracks: <<sid, migrated>>
  mediaTracks,             \* the MediaTrack objects, in the order they were made
  publishedTracks,         \* UpTrackManager.publishedTracks: per sid an index, or 0
  roomTracks,              \* RoomTrackManager.tracks: per sid the indices, in order
  stacks,                  \* per thread: the calls that remain
  canPublish, disconnected,
  migration,               \* "in", "complete", "told": how far SetMigrateState came
  publications,            \* ParticipantSupervisor.publications: per sid a monitor
  connected,               \* ParticipantSupervisor.isPublisherConnected
  removable,               \* publications checkPublications found idle
  lastSid, used,           \* sids given out; calls of the environment so far
  answered,                \* sids the client was told of (TrackPublished)
  muteWish,                \* per sid: the mute that was last accepted
  mismatched,              \* clearPublishedTrack logged its error
  late,                    \* sids that were announced after their track had closed
  hasty                    \* a request left the queue although a track has its id

tableVars == <<pendingTracks, pendingRemoteTracks, pendingPublishing>>
trackVars == <<mediaTracks, publishedTracks>>
superVars == <<publications, connected, removable, mismatched>>
ghostVars == <<lastSid, used, answered, muteWish, late, hasty>>
pubVars == <<pubLimits, tableVars, trackVars, roomTracks, stacks, canPublish, disconnected,
             migration, superVars, ghostVars>>

Sids == 1..(pubLimits.requests + Cardinality(pubLimits.migrated))
NoEntry == [infos |-> <<>>, queued |-> FALSE, migrated |-> FALSE]
NoMonitor == [desired |-> <<>>, track |-> 0, muted |-> FALSE, timer |-> "off", err |-> "no", there |-> FALSE]

Has(c) == pendingTracks[c].infos # <<>>
FirstInfo(c) == Head(pendingTracks[c].infos)
CidsOf(info) == {info.codecs[k].cid : k \in DOMAIN info.codecs} \ {NoId}
SdpCidsOf(info) == {info.codecs[k].sdp : k \in DOMAIN info.codecs} \ {NoId}

(* The calls of a thread: the running one is done, and calls ts in turn.    *)
Calls(t, ts) == stacks' = [stacks EXCEPT ![t] = ts \o Tail(@)]
Running(t, op) == stacks[t] # <<>> /\ Head(stacks[t])[1] = op
Arg(t) == Head(stacks[t])[2]
Idle(t) == stacks[t] = <<>>
Starts(t, ts) == Idle(t) /\ stacks' = [stacks EXCEPT ![t] = ts]

May(what) == used[what] < pubLimits[what]
Uses(what) == May(what) /\ used' = [used EXCEPT ![what] = @ + 1]
InEnv(e) == e \in pubLimits.env

-----------------------------------------------------------------------------
(* The monitor of a publication (supervisor/publication_monitor.go).  What  *)
(* is desired is a queue of starts (TRUE) and ends (FALSE), of which those  *)
(* that are so already are dropped; its timer runs ("fresh") since the      *)
(* track could last have come, and is "old" after publishWaitDuration.      *)
update(m) ==
  LET left == {k \in DOMAIN m.desired : m.desired[k] # (m.track # 0)} IN
    [m EXCEPT !.desired = IF left = {} THEN <<>> ELSE SubSeq(@, Min(left), Len(@))]

maybeStartMonitor(m, conn) == IF conn /\ ~m.muted THEN [m EXCEPT !.timer = "fresh"] ELSE m

(* AddPublication, a new monitor if there is none, and SetPublicationMute.  *)
AddPublication(ms, sid, muted) ==
  [ms EXCEPT ![sid] =
     maybeStartMonitor(
       [update([@ EXCEPT !.there = TRUE, !.desired = @ \o <<TRUE, FALSE>>]) EXCEPT !.muted = muted],
       connected)]

SetPublicationMute(ms, sid, muted) ==
  IF ms[sid].there THEN [ms EXCEPT ![sid] = maybeStartMonitor([@ EXCEPT !.muted = muted], connected)]
  ELSE ms

SetPublishedTrack(ms, sid, i) ==
  IF ms[sid].there THEN [ms EXCEPT ![sid] = update([@ EXCEPT !.track = i])] ELSE ms

ClearPublishedTrack(ms, sid, i) ==
  IF ms[sid].there
    THEN [ms EXCEPT ![sid] = update([@ EXCEPT !.track = IF @ = i THEN 0 ELSE @])]
    ELSE ms

CheckFails(m) == m.there /\ m.desired # <<>> /\ Head(m.desired) /\ ~m.muted /\ m.timer = "old"
IsIdle(m) == m.there /\ m.desired = <<>> /\ m.track = 0

-----------------------------------------------------------------------------
(* Looking for a track.  Maps are walked in any order, so the first match   *)
(* is any of them.                                                          *)

(* getPendingTrack: by the id of the request, else by that of a codec, else *)
(* any request of the same kind.                                            *)
getPendingTrack(id) ==
  LET byCodec == {c \in PubIds : Has(c) /\ id \in CidsOf(FirstInfo(c))}
      byKind == {c \in PubIds : Has(c) /\ Kind[c] = Kind[id]} IN
    IF Has(id) THEN {id} ELSE IF byCodec # {} THEN byCodec ELSE byKind

Published == {publishedTracks[s] : s \in Sids} \ {0}
getPublishedTrackBySignalCid(id) == {i \in Published : id \in CidsOf(mediaTracks[i].info)}
getPublishedTrackBySdpCid(id) ==
  {i \in Published : id \in CidsOf(mediaTracks[i].info) \cup SdpCidsOf(mediaTracks[i].info)}

(* addMediaTrack: the first request for c becomes a MediaTrack, which       *)
(* UpTrackManager lists unless there is one with its sid; the next request  *)
(* is queued.  st holds the tables.                                         *)
Tables == [pending |-> pendingTracks, publishing |-> pendingPublishing, tracks |-> mediaTracks,
           published |-> publishedTracks, monitors |-> publications]
addMediaTrack(st, c, synthesized) ==
  LET entry == st.pending[c]
      info == Head(entry.infos)
      i == Len(st.tracks) + 1
      rest == Tail(entry.infos) IN
    [pending |-> [st.pending EXCEPT ![c] =
                    IF rest = <<>> THEN NoEntry ELSE [@ EXCEPT !.infos = rest, !.queued = TRUE]],
     publishing |-> {x \in st.publishing : x[1] # info.sid} \cup {<<info.sid, entry.migrated>>},
     tracks |-> Append(st.tracks, [info |-> info, cid |-> c, state |-> "open", receiver |-> FALSE,
                                   announced |-> "due", migrated |-> entry.migrated,
                                   synthesized |-> synthesized]),
     published |-> [st.published EXCEPT ![info.sid] = IF @ = 0 THEN i ELSE @],
     monitors |-> SetPublishedTrack(st.monitors, info.sid, i)]
Becomes(st) ==
  /\ pendingTracks' = st.pending /\ pendingPublishing' = st.publishing
  /\ mediaTracks' = st.tracks /\ publishedTracks' = st.published /\ publications' = st.monitors

-----------------------------------------------------------------------------
(* Requests of the client.                                                  *)

(* The track a request for id c asks for: one with a second codec (whose id *)
(* comes with a request of its own) or without.  A request for an id that   *)
(* waits has its sid.                                                       *)
RequestedTrack(c, two, muted) ==
  LET primary == [cid |-> c, sdp |-> NoId] IN
    [sid |-> IF Has(c) THEN FirstInfo(c).sid ELSE lastSid + 1, muted |-> muted,
     codecs |-> IF two THEN <<primary, [cid |-> NoId, sdp |-> NoId]>> ELSE <<primary>>]

InUse(c) == getPublishedTrackBySignalCid(c) # {} \/ getPublishedTrackBySdpCid(c) # {} \/ Has(c)

(* addPendingTrackLocked: a request for an id that is in use is queued.     *)
addPendingTrackLocked(c, info) ==
  pendingTracks' = [pendingTracks EXCEPT ![c] =
                      IF Has(c) THEN [@ EXCEPT !.infos = Append(@, info)]
                      ELSE [infos |-> <<info>>, queued |-> InUse(c), migrated |-> FALSE]]

(* AddTrack: the client is told of a request that is not queued.            *)
AddTrack(c, two, muted) ==
  LET info == RequestedTrack(c, two, muted) IN
    /\ ~disconnected /\ canPublish /\ Uses("requests")
    /\ pendingTracks[c].migrated => InEnv("again")
    /\ lastSid' = IF Has(c) THEN lastSid ELSE lastSid + 1
    /\ publications' = AddPublication(publications, info.sid, muted)
    /\ addPendingTrackLocked(c, info)
    /\ Starts("signal", IF InUse(c) THEN <<>> ELSE <<<<"take", 0>>>>)
    /\ answered' = IF InUse(c) THEN answered ELSE answered \cup {info.sid}
    /\ UNCHANGED <<pubLimits, pendingRemoteTracks, pendingPublishing, trackVars, roomTracks, canPublish,
                   disconnected, migration, connected, removable, mismatched, muteWish, late, hasty>>

(* AddTrack with the sid of a published track: UpdateCodecInfo gives its    *)
(* second codec the client id c.                                            *)
AddCodec(i, c) ==
  /\ ~disconnected /\ canPublish /\ i \in Published /\ Len(mediaTracks[i].info.codecs) = 2
  /\ Uses("requests")
  /\ mediaTracks' = [mediaTracks EXCEPT ![i].info.codecs[2].cid = c]
  /\ Starts("signal", <<<<"take", 0>>>>)
  /\ UNCHANGED <<pubLimits, tableVars, publishedTracks, roomTracks, canPublish, disconnected, migration,
                 superVars, lastSid, answered, muteWish, late, hasty>>

(* setTrackMuted: the supervisor and the published track first, then the    *)
(* requests; it is accepted if the track was found in either place.         *)
SetTrackMuted(sid, muted) ==
  LET i == publishedTracks[sid] IN
    /\ InEnv("mute") /\ sid <= lastSid /\ ~disconnected /\ Uses("mutes")
    /\ publications' = SetPublicationMute(publications, sid, muted)
    /\ mediaTracks' = IF i = 0 THEN mediaTracks ELSE [mediaTracks EXCEPT ![i].info.muted = muted]
    /\ Starts("signal", <<<<"mutePending", [sid |-> sid, muted |-> muted, found |-> i # 0]>>>>)
    /\ UNCHANGED <<pubLimits, tableVars, publishedTracks, roomTracks, canPublish, disconnected, migration,
                   connected, removable, mismatched, lastSid, answered, muteWish, late, hasty>>

MutePending(t) ==
  LET a == Arg(t)
      Of(info) == info.sid = a.sid
      waits == \E c \in PubIds : \E k \in DOMAIN pendingTracks[c].infos : Of(pendingTracks[c].infos[k]) IN
    /\ Running(t, "mutePending") /\ Calls(t, <<>>)
    /\ pendingTracks' = [c \in PubIds |->
         [pendingTracks[c] EXCEPT !.infos = [k \in DOMAIN @ |->
            IF Of(@[k]) THEN [@[k] EXCEPT !.muted = a.muted] ELSE @[k]]]]
    /\ muteWish' = IF a.found \/ waits THEN [muteWish EXCEPT ![a.sid] = ToString(a.muted)] ELSE muteWish
    /\ UNCHANGED <<pubLimits, pendingRemoteTracks, pendingPublishing, trackVars, roomTracks, canPublish,
                   disconnected, migration, superVars, lastSid, used, answered, late, hasty>>

(* HandleOffer looks at the media that waits again.                         *)
HandleOffer ==
  /\ InEnv("offer") /\ pendingRemoteTracks # <<>> /\ ~disconnected /\ Starts("signal", <<<<"take", 0>>>>)
  /\ UNCHANGED <<pubLimits, tableVars, trackVars, roomTracks, canPublish, disconnected, migration,
                 superVars, ghostVars>>

(* populateSdpCid, when an offer with media of a new id is set: the request *)
(* it is for, queued or not, notes the id if it is another than that of its *)
(* codec; without a request it may be for a codec of a published track that *)
(* has no such id yet.                                                      *)
populateSdpCid(id) ==
  LET New(x) == /\ x \notin ToSet(pendingRemoteTracks)
                /\ \A t \in PubThreads : \A k \in DOMAIN stacks[t] :
                     ~(stacks[t][k][1] = "media" /\ stacks[t][k][2] = x)
      NeedsSdp(i, k) == /\ k \in DOMAIN mediaTracks[i].info.codecs
                        /\ mediaTracks[i].info.codecs[k].cid # NoId
                        /\ mediaTracks[i].info.codecs[k].sdp = NoId IN
    /\ InEnv("offer") /\ Idle("pc") /\ ~disconnected /\ New(id)
    /\ \/ \E c \in getPendingTrack(id) :
            /\ ~pendingTracks[c].migrated /\ FirstInfo(c).codecs[1].cid # id
            /\ pendingTracks' = [pendingTracks EXCEPT ![c].infos[1].codecs[1].sdp = id]
            /\ UNCHANGED mediaTracks
       \/ /\ getPendingTrack(id) = {} /\ UNCHANGED pendingTracks
          /\ ~\E i \in Published, k \in 1..2 : NeedsSdp(i, k) /\ mediaTracks[i].info.codecs[k].cid = id
          /\ \E i \in Published, k \in 1..2 :
               /\ NeedsSdp(i, k)
               /\ mediaTracks' = [mediaTracks EXCEPT ![i].info.codecs[k].sdp = id]
    /\ UNCHANGED <<pubLimits, pendingRemoteTracks, pendingPublishing, publishedTracks, roomTracks, stacks,
                   canPublish, disconnected, migration, superVars, ghostVars>>

-----------------------------------------------------------------------------
(* Media.                                                                   *)

(* OnTrack of the PeerConnection.                                           *)
OnTrack(id) ==
  /\ Uses("media") /\ Starts("pc", <<<<"media", id>>>>)
  /\ UNCHANGED <<pubLimits, tableVars, trackVars, roomTracks, canPublish, disconnected, migration,
                 superVars, lastSid, answered, muteWish, late, hasty>>

(* handlePendingRemoteTracks.                                               *)
TakePending(t) ==
  /\ Running(t, "take")
  /\ Calls(t, [k \in DOMAIN pendingRemoteTracks |-> <<"media", pendingRemoteTracks[k]>>])
  /\ pendingRemoteTracks' = <<>>
  /\ UNCHANGED <<pubLimits, pendingTracks, pendingPublishing, trackVars, roomTracks, canPublish,
                 disconnected, migration, superVars, ghostVars>>

(* onMediaTrack up to the end of mediaTrackReceived.  Media for a published *)
(* track is a layer or codec of it; what nobody asked for, or only a        *)
(* request that is queued, waits; a migrated track has to have the codecs   *)
(* it had.                                                                  *)
MediaParked(t) ==
  /\ \/ InEnv("noMid")
     \/ /\ getPublishedTrackBySdpCid(Arg(t)) = {}
        /\ \/ getPendingTrack(Arg(t)) = {}
           \/ \E c \in getPendingTrack(Arg(t)) : pendingTracks[c].queued
  /\ pendingRemoteTracks' = Append(pendingRemoteTracks, Arg(t)) /\ Calls(t, <<>>)
  /\ UNCHANGED <<pendingTracks, pendingPublishing, trackVars, publications>>
MediaOfPublished(t) ==
  /\ \E i \in getPublishedTrackBySdpCid(Arg(t)) : Calls(t, <<<<"received", i>>>>)
  /\ UNCHANGED <<tableVars, trackVars, publications>>
MediaPublishes(t) ==
  /\ getPublishedTrackBySdpCid(Arg(t)) = {}
  /\ \E c \in getPendingTrack(Arg(t)) :
       /\ ~pendingTracks[c].queued
       /\ \/ /\ Becomes(addMediaTrack(Tables, c, FALSE))
             /\ Calls(t, <<<<"received", Len(mediaTracks) + 1>>>>)
          \/ /\ InEnv("mismatch") /\ pendingTracks[c].migrated /\ Calls(t, <<<<"leave", 0>>>>)
             /\ UNCHANGED <<pendingTracks, pendingPublishing, trackVars, publications>>
  /\ UNCHANGED pendingRemoteTracks
onMediaTrack(t) ==
  /\ Running(t, "media")
  /\ IF disconnected THEN Calls(t, <<>>) /\ UNCHANGED <<tableVars, trackVars, publications>>
     ELSE MediaParked(t) \/ MediaOfPublished(t) \/ MediaPublishes(t)
  /\ UNCHANGED <<pubLimits, roomTracks, canPublish, disconnected, migration, connected, removable,
                 mismatched, ghostVars>>

(* The rest of onMediaTrack: MediaTrack.AddReceiver, which a track that     *)
(* closed in between refuses, and a last look at the permission.            *)
Received(t) ==
  LET i == Arg(t) IN
    /\ Running(t, "received")
    /\ mediaTracks' = [mediaTracks EXCEPT ![i].receiver = @ \/ mediaTracks[i].state = "open"]
    /\ Calls(t, IF canPublish THEN <<>> ELSE <<<<"close", i>>, <<"delist", mediaTracks[i].info.sid>>>>)
    /\ UNCHANGED <<pubLimits, tableVars, publishedTracks, roomTracks, canPublish, disconnected, migration,
                   superVars, ghostVars>>

-----------------------------------------------------------------------------
(* The end of a track.                                                      *)

(* The receiver of a track ends, and with it the track.                     *)
ReceiverEnds(i) ==
  /\ mediaTracks[i].receiver /\ mediaTracks[i].state = "open" /\ Uses("closes")
  /\ Starts("receiver", <<<<"close", i>>>>)
  /\ UNCHANGED <<pubLimits, tableVars, trackVars, roomTracks, canPublish, disconnected, migration,
                 superVars, lastSid, answered, muteWish, late, hasty>>

(* MediaTrack.Close: the first caller runs the callbacks, which are those   *)
(* of UpTrackManager and of addMediaTrack.                                  *)
CloseTrack(t) ==
  LET i == Arg(t) IN
    /\ Running(t, "close")
    /\ IF mediaTracks[i].state # "open" THEN Calls(t, <<>>) /\ UNCHANGED mediaTracks
       ELSE /\ mediaTracks' = [mediaTracks EXCEPT ![i].state = "closed"]
            /\ Calls(t, <<<<"delist", mediaTracks[i].info.sid>>, <<"onClose", i>>, <<"take", 0>>,
                          <<"unpublished", i>>>>)
    /\ UNCHANGED <<pubLimits, tableVars, publishedTracks, roomTracks, canPublish, disconnected, migration,
                   superVars, ghostVars>>

(* UpTrackManager forgets what it has under the sid: in its callback, and   *)
(* again at the end of RemovePublishedTrack.                                *)
Delist(t) ==
  /\ Running(t, "delist") /\ Calls(t, <<>>)
  /\ publishedTracks' = [publishedTracks EXCEPT ![Arg(t)] = 0]
  /\ UNCHANGED <<pubLimits, tableVars, mediaTracks, roomTracks, canPublish, disconnected, migration,
                 superVars, ghostVars>>

(* A form of OnClose that leaves the next request in the queue.             *)
OnCloseKeepsQueue(t) ==
  LET i == Arg(t) c == mediaTracks[i].cid sid == mediaTracks[i].info.sid IN
    /\ Running(t, "onClose") /\ Calls(t, <<>>)
    /\ publications' = ClearPublishedTrack(publications, sid, i)
    /\ mismatched' = (mismatched \/ (publications[sid].there /\ publications[sid].track # i))
    /\ answered' = IF Has(c) THEN answered \cup {FirstInfo(c).sid} ELSE answered
    /\ UNCHANGED <<pubLimits, tableVars, trackVars, roomTracks, canPublish, disconnected, migration,
                   connected, removable, lastSid, used, muteWish, late, hasty>>

(* The callback of addMediaTrack: the client is told of the request that    *)
(* waited for the id.                                                       *)
OnClose(t) ==
  LET i == Arg(t) c == mediaTracks[i].cid sid == mediaTracks[i].info.sid IN
    /\ Running(t, "onClose") /\ Calls(t, <<>>)
    /\ publications' = ClearPublishedTrack(publications, sid, i)
    /\ mismatched' = (mismatched \/ (publications[sid].there /\ publications[sid].track # i))
    /\ pendingTracks' = [pendingTracks EXCEPT ![c].queued = FALSE]
    /\ answered' = IF Has(c) THEN answered \cup {FirstInfo(c).sid} ELSE answered
    /\ hasty' = (hasty \/ (Has(c) /\ getPublishedTrackBySignalCid(c) # {}))
    /\ UNCHANGED <<pubLimits, pendingRemoteTracks, pendingPublishing, trackVars, roomTracks, canPublish,
                   disconnected, migration, connected, removable, lastSid, used, muteWish, late>>

(* Its end, Room.onTrackUnpublished: RoomTrackManager.RemoveTrack.          *)
Unpublished(t) ==
  LET i == Arg(t) sid == mediaTracks[i].info.sid IN
    /\ Running(t, "unpublished") /\ Calls(t, <<>>)
    /\ roomTracks' = [roomTracks EXCEPT ![sid] = SelectSeq(@, LAMBDA j : j # i)]
    /\ mediaTracks' = [mediaTracks EXCEPT ![i].state = "gone"]
    /\ UNCHANGED <<pubLimits, tableVars, publishedTracks, canPublish, disconnected, migration, superVars,
                   ghostVars>>

(* SetPermission: without the permission every published track is removed.  *)
SetPermission ==
  LET all == SetToSeq(Published)
      Removal(i) == <<<<"close", i>>, <<"delist", mediaTracks[i].info.sid>>>> IN
    /\ InEnv("permission") /\ Uses("permissions") /\ canPublish' = ~canPublish
    /\ Starts("closer", IF canPublish THEN FlattenSeq([k \in DOMAIN all |-> Removal(all[k])]) ELSE <<>>)
    /\ UNCHANGED <<pubLimits, tableVars, trackVars, roomTracks, disconnected, migration, superVars,
                   lastSid, answered, muteWish, late, hasty>>

(* The participant closes: UpTrackManager.Close.                            *)
Leave(t) ==
  LET all == SetToSeq(Published) IN
    /\ Running(t, "leave") /\ disconnected' = TRUE
    /\ Calls(t, IF disconnected THEN <<>> ELSE [k \in DOMAIN all |-> <<"close", all[k]>>])
    /\ publishedTracks' = [s \in Sids |-> IF disconnected THEN publishedTracks[s] ELSE 0]
    /\ UNCHANGED <<pubLimits, tableVars, mediaTracks, roomTracks, canPublish, migration, superVars,
                   ghostVars>>
Disconnect ==
  /\ InEnv("close") /\ ~disconnected /\ Starts("closer", <<<<"leave", 0>>>>)
  /\ UNCHANGED <<pubLimits, tableVars, trackVars, roomTracks, canPublish, disconnected, migration,
                 superVars, ghostVars>>

-----------------------------------------------------------------------------
(* handleTrackPublished, in a goroutine of its own for media, and one after *)
(* the other for migrated tracks: the room is told, then the track is no    *)
(* longer about to be published.                                            *)
Turn(i) ==
  mediaTracks[i].synthesized =>
    \A j \in 1..(i - 1) : mediaTracks[j].synthesized => mediaTracks[j].announced = "done"

Announce(i) ==
  LET sid == mediaTracks[i].info.sid IN
    /\ mediaTracks[i].announced = "due" /\ Turn(i)
    /\ mediaTracks' = [mediaTracks EXCEPT ![i].announced = "told"]
    /\ roomTracks' = [roomTracks EXCEPT ![sid] = Append(@, i)]
    /\ late' = IF mediaTracks[i].state = "gone" THEN late \cup {sid} ELSE late
    /\ UNCHANGED <<pubLimits, tableVars, publishedTracks, stacks, canPublish, disconnected, migration,
                   superVars, lastSid, used, answered, muteWish, hasty>>

Announced(i) ==
  /\ mediaTracks[i].announced = "told"
  /\ mediaTracks' = [mediaTracks EXCEPT ![i].announced = "done"]
  /\ pendingPublishing' = {x \in pendingPublishing : x[1] # mediaTracks[i].info.sid}
  /\ UNCHANGED <<pubLimits, pendingTracks, pendingRemoteTracks, publishedTracks, roomTracks, stacks,
                 canPublish, disconnected, migration, superVars, ghostVars>>

(* addMigratedTrack, with the receiver its media will come to.              *)
addMigratedTrack(c, st) == addMediaTrack(st, c, TRUE)

(* SetMigrateState(Complete): handleMigrateTracks publishes what was        *)
(* brought along; a receiver that is missing means a full reconnect.        *)
SetMigrateState ==
  LET brought == {c \in PubIds : Has(c) /\ pendingTracks[c].migrated} IN
    /\ migration = "in" /\ migration' = "complete"
    /\ \/ /\ Becomes(FoldSet(addMigratedTrack, Tables, brought))
          /\ UNCHANGED stacks
       \/ /\ InEnv("mismatch") /\ brought # {} /\ Starts("closer", <<<<"leave", 0>>>>)
          /\ UNCHANGED <<pendingTracks, pendingPublishing, trackVars, publications>>
    /\ UNCHANGED <<pubLimits, pendingRemoteTracks, roomTracks, canPublish, disconnected, connected,
                   removable, mismatched, ghostVars>>

hasPendingMigratedTrack ==
  \/ \E c \in PubIds : Has(c) /\ pendingTracks[c].migrated
  \/ \E x \in pendingPublishing : x[2]

(* It waits for them, and calls OnMigrateStateChange.                       *)
OnMigrateStateChange ==
  /\ migration = "complete" /\ migration' = "told"
  /\ \A i \in DOMAIN mediaTracks : mediaTracks[i].synthesized => mediaTracks[i].announced = "done"
  /\ ~hasPendingMigratedTrack \/ disconnected \/ InEnv("timeout")
  /\ UNCHANGED <<pubLimits, tableVars, trackVars, roomTracks, stacks, canPublish, disconnected, superVars,
                 ghostVars>>

-----------------------------------------------------------------------------
(* The supervisor.                                                          *)

SetPublisherConnected ==
  /\ InEnv("supervise") /\ ~connected /\ connected' = TRUE
  /\ publications' = [s \in Sids |-> IF publications[s].there THEN maybeStartMonitor(publications[s], TRUE)
                                     ELSE publications[s]]
  /\ UNCHANGED <<pubLimits, tableVars, trackVars, roomTracks, stacks, canPublish, disconnected, migration,
                 removable, mismatched, ghostVars>>

Expires(sid) ==
  /\ publications[sid].timer = "fresh"
  /\ publications' = [publications EXCEPT ![sid].timer = "old"]
  /\ UNCHANGED <<pubLimits, tableVars, trackVars, roomTracks, stacks, canPublish, disconnected, migration,
                 connected, removable, mismatched, ghostVars>>

(* checkPublications: errors are noted and idle monitors collected ...      *)
CheckPublications ==
  /\ InEnv("supervise") /\ ~disconnected /\ Starts("supervisor", <<<<"remove", 0>>>>)
  /\ publications' = [s \in Sids |-> [publications[s] EXCEPT !.err =
                        IF CheckFails(publications[s]) THEN (IF @ = "no" THEN "new" ELSE @) ELSE "no"]]
  /\ removable' = {s \in Sids : IsIdle(publications[s])}
  /\ UNCHANGED <<pubLimits, tableVars, trackVars, roomTracks, canPublish, disconnected, migration,
                 connected, mismatched, ghostVars>>

(* ... which are then removed; an error means a full reconnect.             *)
RemoveIdle(t) ==
  /\ Running(t, "remove") /\ removable' = {}
  /\ Calls(t, IF \E s \in Sids \ removable : publications[s].err = "new" THEN <<<<"leave", 0>>>> ELSE <<>>)
  /\ publications' = [s \in Sids |-> IF s \in removable THEN NoMonitor
                        ELSE [publications[s] EXCEPT !.err = IF @ = "new" THEN "old" ELSE @]]
  /\ UNCHANGED <<pubLimits, tableVars, trackVars, roomTracks, canPublish, disconnected, migration,
                 connected, mismatched, ghostVars>>

-----------------------------------------------------------------------------
(* SetMigrateInfo for the tracks that are brought, of which each has its    *)
(* number for a sid.                                                        *)
PublicationInit ==
  /\ pubLimits \in PubLimits
  /\ LET brought == SetToSeq(pubLimits.migrated)
         Sid(c) == CHOOSE k \in DOMAIN brought : brought[k] = c
         Info(c) == [sid |-> Sid(c), muted |-> FALSE, codecs |-> <<[cid |-> c, sdp |-> NoId]>>] IN
       /\ pendingTracks = [c \in PubIds |->
            IF c \in pubLimits.migrated THEN [infos |-> <<Info(c)>>, queued |-> FALSE, migrated |-> TRUE]
            ELSE NoEntry]
       /\ publications = [s \in Sids |->
            IF s \in DOMAIN brought THEN [NoMonitor EXCEPT !.there = TRUE, !.desired = <<TRUE, FALSE>>]
            ELSE NoMonitor]
       /\ lastSid = Len(brought)
       /\ migration = IF brought = <<>> THEN "told" ELSE "in"
  /\ pendingRemoteTracks = <<>> /\ pendingPublishing = {}
  /\ mediaTracks = <<>> /\ publishedTracks = [s \in Sids |-> 0] /\ roomTracks = [s \in Sids |-> <<>>]
  /\ stacks = [t \in PubThreads |-> <<>>] /\ canPublish = TRUE /\ disconnected = FALSE
  /\ connected = FALSE /\ removable = {} /\ mismatched = FALSE
  /\ used = [k \in {"requests", "media", "closes", "mutes", "permissions"} |-> 0]
  /\ answered = {} /\ muteWish = [s \in Sids |-> "none"] /\ late = {} /\ hasty = FALSE

ThreadSteps(t) ==
  \/ MutePending(t) \/ TakePending(t) \/ onMediaTrack(t) \/ Received(t) \/ CloseTrack(t) \/ Delist(t)
  \/ OnClose(t) \/ Unpublished(t) \/ Leave(t) \/ RemoveIdle(t)

PublicationNext ==
  \/ \E c \in PubIds, muted \in BOOLEAN : AddTrack(c, InEnv("codecs"), muted)
  \/ \E c \in PubIds, i \in Published : AddCodec(i, c)
  \/ \E sid \in Sids, muted \in BOOLEAN : SetTrackMuted(sid, muted)
  \/ HandleOffer \/ \E id \in PubIds : populateSdpCid(id) \/ OnTrack(id)
  \/ \E t \in PubThreads : ThreadSteps(t)
  \/ \E i \in DOMAIN mediaTracks : ReceiverEnds(i) \/ Announce(i) \/ Announced(i)
  \/ SetPermission \/ Disconnect \/ SetMigrateState \/ OnMigrateStateChange
  \/ SetPublisherConnected \/ CheckPublications \/ \E sid \in Sids : Expires(sid)

PublicationSpec == PublicationInit /\ [][PublicationNext]_pubVars

-----------------------------------------------------------------------------
Open(i) == mediaTracks[i].state = "open"
AtRest ==
  /\ \A t \in PubThreads : Idle(t)
  /\ \A i \in DOMAIN mediaTracks : mediaTracks[i].announced = "done"
  /\ ~hasty

(* However a request, its media and the end of the track before it follow   *)
(* on each other, media does not go on waiting (pendingRemoteTracks) beside *)
(* a request by its id that may be published.                               *)
MediaIsMatched ==
  AtRest /\ ~disconnected /\ ~InEnv("noMid") =>
    \A k \in DOMAIN pendingRemoteTracks :
      LET id == pendingRemoteTracks[k] IN
        /\ getPublishedTrackBySdpCid(id) = {}
        /\ ~(Has(id) /\ ~pendingTracks[id].queued)

(* A request is queued only while a track has its id whose end will let it  *)
(* go on, and one that may go on was answered; one that is queued for an id *)
(* only a later codec or the offer gave to a track is forgotten.            *)
QueueMoves ==
  AtRest /\ ~disconnected /\ ~InEnv("offer") /\ ~InEnv("codecs") =>
    \A c \in PubIds : Has(c) =>
      IF pendingTracks[c].queued THEN \E i \in DOMAIN mediaTracks : Open(i) /\ mediaTracks[i].cid = c
      ELSE pendingTracks[c].migrated \/ FirstInfo(c).sid \in answered

(* The tracks the participant lists are the open ones, unless the           *)
(* permission was given back while tracks were still removed for it.        *)
ListedIsOpen ==
  AtRest /\ used.permissions < 2 => \A i \in DOMAIN mediaTracks : Open(i) <=> publishedTracks[mediaTracks[i].info.sid] = i

(* Subscribers find every open track in the room, and no other, unless one  *)
(* was announced after it had ended.                                        *)
RoomHasTheOpen ==
  AtRest /\ late = {} =>
    \A s \in Sids : ToSet(roomTracks[s]) = {i \in DOMAIN mediaTracks : Open(i) /\ mediaTracks[i].info.sid = s}

(* The supervisor follows: of every publication it knows the open track,    *)
(* and waits for as many starts and ends as requests and tracks have yet to *)
(* see.  The track that closes is the one it knows, unless a request left   *)
(* the queue too early.                                                     *)
Waiting(s) == {x \in PubIds \X (1..pubLimits.requests + 1) :
                 x[2] \in DOMAIN pendingTracks[x[1]].infos /\ pendingTracks[x[1]].infos[x[2]].sid = s}
SupervisorIsTrue ==
  /\ mismatched => hasty
  /\ AtRest => \A s \in Sids :
       LET open == {i \in DOMAIN mediaTracks : Open(i) /\ mediaTracks[i].info.sid = s} IN
         /\ publications[s].there => {publications[s].track} \ {0} = open
         /\ Len(publications[s].desired) = 2 * Cardinality(Waiting(s)) + Cardinality(open)

(* A mute that was accepted is in force.                                    *)
MuteIsKept ==
  AtRest => \A i \in DOMAIN mediaTracks :
    Open(i) /\ muteWish[mediaTracks[i].info.sid] # "none" =>
      muteWish[mediaTracks[i].info.sid] = ToString(mediaTracks[i].info.muted)

(* When the others are told that the migration is complete, the tracks that *)
(* were brought are in the room, whichever way they were published.         *)
MigrationWaits ==
  migration = "told" /\ ~disconnected /\ ~InEnv("timeout") =>
    \A i \in DOMAIN mediaTracks : mediaTracks[i].migrated => mediaTracks[i].announced # "due"
=============================================================================
