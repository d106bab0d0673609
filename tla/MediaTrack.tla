------------------------------ MODULE MediaTrack ------------------------------
(***************************************************************************)
(* The publishing side of a media subscription, as one subscriber sees it: *)
(* the state of every publication (rtc/mediatrackreceiver.go), the tracks  *)
(* the room can resolve (rtc/roomtrackmanager.go), the entry this          *)
(* subscriber has in MediaTrackSubscriptions.subscribedTracks              *)
(* (rtc/mediatracksubscriptions.go) and the SubscribedTrack/DownTrack      *)
(* pairs created for it (rtc/subscribedtrack.go, sfu/downtrack.go).        *)
(*                                                                         *)
(* A publication is one MediaTrack object.  Two publications may carry the *)
(* same track ID: a track that is re-published, or resumed after a         *)
(* migration, is a new object under the old ID.                            *)
(***************************************************************************)
EXTENDS Naturals, Sequences, FiniteSets

CONSTANTS Tracks,      \* track IDs
          Pubs,        \* MediaTrack objects
          TrackOf,     \* the track ID of each MediaTrack object
          SubTracks,   \* SubscribedTrack objects (a closed one is reused)
          None         \* Go's nil

ASSUME TrackOfType == TrackOf \in [Pubs -> Tracks]
ASSUME TracksExist == Tracks # {} /\ Pubs # {}
ASSUME NoneIsNil   == None \notin SubTracks /\ None \notin Pubs

VARIABLES
  pubState,          \* MediaTrackReceiver.state, and whether it has receivers
  expectResume,      \* MediaTrackReceiver.isExpectedToResume
  tracks,            \* RoomTrackManager.tracks: per ID, in order of addition
  permitted,         \* tracks whose publisher lets this subscriber subscribe
  subscribedTracks,  \* per MediaTrack: this subscriber's map entry
  pubOf,             \* per SubscribedTrack: its MediaTrack
  phase,             \* per SubscribedTrack: how far its DownTrack has closed
  resume,            \* per SubscribedTrack: isExpectedToResume of its close
  sdp,               \* SubscribedTracks holding a sender of the PeerConnection
  cached             \* ParticipantImpl.cachedDownTracks

pubVars  == <<pubState, expectResume, tracks, permitted>>
downVars == <<subscribedTracks, pubOf, phase, resume, sdp, cached>>

PubStates == {"new", "noreceiver", "open", "closing", "cleared", "closed"}

(* "closed" ends a close; between "detached" and "closed" lie the steps of *)
(* SubscriptionManager.handleSubscribedTrackClose.                         *)
Phases == {"open", "closing", "detached", "uncount", "release", "releaseAll",
           "closed"}

MediaTrackTypeOK ==
  /\ pubState \in [Pubs -> PubStates]
  /\ expectResume \in [Pubs -> BOOLEAN]
  /\ tracks \in [Tracks -> Seq(Pubs)]
  /\ permitted \in SUBSET Tracks
  /\ subscribedTracks \in [Pubs -> SubTracks \cup {None}]
  /\ pubOf \in [SubTracks -> Pubs]
  /\ phase \in [SubTracks -> Phases]
  /\ resume \in [SubTracks -> BOOLEAN]
  /\ sdp \in SUBSET SubTracks
  /\ cached \in [Tracks -> SubTracks \cup {None}]

MediaTrackInit ==
  /\ pubState = [p \in Pubs |-> "new"]
  /\ expectResume = [p \in Pubs |-> FALSE]
  /\ tracks = [t \in Tracks |-> <<>>]
  /\ permitted = Tracks
  /\ subscribedTracks = [p \in Pubs |-> None]
  /\ pubOf \in [SubTracks -> {CHOOSE p \in Pubs : TRUE}]
  /\ phase = [k \in SubTracks |-> "closed"]
  /\ resume = [k \in SubTracks |-> FALSE]
  /\ sdp = {}
  /\ cached = [t \in Tracks |-> None]

-----------------------------------------------------------------------------
(* MediaTrackReceiver.state = mediaTrackReceiverStateOpen.                  *)
StateOpen(p) == pubState[p] \in {"noreceiver", "open"}

(* RoomTrackManager.GetTrackInfo: the earliest added publication, unless it *)
(* is about to close.                                                       *)
GetTrackInfo(t) ==
  IF tracks[t] # <<>> /\ StateOpen(Head(tracks[t])) THEN Head(tracks[t]) ELSE None

(* closeSubscribedTrack and the head of DownTrack.CloseWithFlush: the first *)
(* close wins, its isExpectedToResume flag is the one reported.  ks are the *)
(* SubscribedTracks to close and r the flag of the call.                    *)
CloseWithFlush(ks, r) ==
  /\ phase' = [k \in SubTracks |->
                 IF k \in ks /\ phase[k] = "open" THEN "closing" ELSE phase[k]]
  /\ resume' = [k \in SubTracks |->
                 IF k \in ks /\ phase[k] = "open" THEN r ELSE resume[k]]

(* MediaTrackSubscriptions.RemoveSubscriber: errNotFound when this          *)
(* subscriber has no entry.                                                 *)
RemoveSubscriber(p, r) ==
  CloseWithFlush({subscribedTracks[p]} \cap SubTracks, r)

-----------------------------------------------------------------------------
(* Publisher operations.  Each leaves the notification of the subscriber to *)
(* the module that composes them with the subscription manager.             *)

(* RoomTrackManager.AddTrack, called by Room.onTrackPublished.              *)
AddTrack(p) ==
  /\ pubState[p] = "new"
  /\ \E s \in {"noreceiver", "open"} : pubState' = [pubState EXCEPT ![p] = s]
  /\ tracks' = [tracks EXCEPT ![TrackOf[p]] = Append(@, p)]
  /\ UNCHANGED <<expectResume, permitted, downVars>>

(* MediaTrackReceiver.SetupReceiver: the first receiver arrives.            *)
SetupReceiver(p) ==
  /\ pubState[p] = "noreceiver"
  /\ pubState' = [pubState EXCEPT ![p] = "open"]
  /\ UNCHANGED <<expectResume, tracks, permitted, downVars>>

(* MediaTrackReceiver.SetClosing, the first step of MediaTrack.Close and of *)
(* the close handler of the last receiver.                                  *)
SetClosing(p, r) ==
  /\ StateOpen(p)
  /\ pubState' = [pubState EXCEPT ![p] = "closing"]
  /\ expectResume' = [expectResume EXCEPT ![p] = r]
  /\ UNCHANGED <<tracks, permitted, downVars>>

(* MediaTrackReceiver.ClearAllReceivers: every subscriber is removed.       *)
ClearAllReceivers(p) ==
  /\ pubState[p] = "closing"
  /\ pubState' = [pubState EXCEPT ![p] = "cleared"]
  /\ RemoveSubscriber(p, expectResume[p])
  /\ UNCHANGED <<expectResume, tracks, permitted, subscribedTracks, pubOf, sdp,
                 cached>>

(* The compaction loop of RoomTrackManager.RemoveTrack.                     *)
Without(seq, p) ==
  IF \E i \in 1..Len(seq) : seq[i] = p
  THEN LET i == CHOOSE i \in 1..Len(seq) : seq[i] = p
       IN  [j \in 1..(Len(seq) - 1) |-> IF j < i THEN seq[j] ELSE seq[j + 1]]
  ELSE seq

(* MediaTrackReceiver.Close and its onClose callback, which ends in         *)
(* RoomTrackManager.RemoveTrack.                                            *)
RemoveTrack(p) ==
  /\ pubState[p] = "cleared"
  /\ pubState' = [pubState EXCEPT ![p] = "closed"]
  /\ tracks' = [tracks EXCEPT ![TrackOf[p]] = Without(@, p)]
  /\ UNCHANGED <<expectResume, permitted, downVars>>

(* UpTrackManager.UpdateSubscriptionPermission withdraws the permission and *)
(* maybeRevokeSubscriptions closes the subscription of every published      *)
(* track concerned.                                                         *)
RevokePermission(t) ==
  /\ t \in permitted
  /\ permitted' = permitted \ {t}
  /\ CloseWithFlush({k \in SubTracks : \E p \in Pubs : /\ TrackOf[p] = t
                                                       /\ StateOpen(p)
                                                       /\ subscribedTracks[p] = k},
                    FALSE)
  /\ UNCHANGED <<pubState, expectResume, tracks, subscribedTracks, pubOf, sdp, cached>>

GrantPermission(t) ==
  /\ t \notin permitted
  /\ permitted' = permitted \cup {t}
  /\ UNCHANGED <<pubState, expectResume, tracks, downVars>>

-----------------------------------------------------------------------------
(* Mutant: the map entry is not deleted.                                    *)
OnDownTrackCloseKeepsEntry(k) ==
  /\ phase[k] = "closing"
  /\ phase' = [phase EXCEPT ![k] = "detached"]
  /\ UNCHANGED <<cached, subscribedTracks, pubOf, resume, sdp>>

(* SubscribedTrack.OnDownTrackClose, after the DownTrack has flushed: a     *)
(* transceiver to resume with is cached, then the map entry is deleted (by  *)
(* subscriber ID, whatever it holds by now).                                *)
OnDownTrackClose(k) ==
  /\ phase[k] = "closing"
  /\ phase' = [phase EXCEPT ![k] = "detached"]
  /\ cached' = IF resume[k] THEN [cached EXCEPT ![TrackOf[pubOf[k]]] = k] ELSE cached
  /\ subscribedTracks' = [subscribedTracks EXCEPT ![pubOf[k]] = None]
  /\ UNCHANGED <<pubOf, resume, sdp>>

(* The creating half of MediaTrackSubscriptions.AddSubscriber: SubscribedTrack *)
(* k is created for p, takes over a cached transceiver of the track when       *)
(* ReplaceTrack succeeds (reuse: impossible once it is stopped), else stops    *)
(* the cached one and gets a new sender, and is entered in the map.            *)
(* UncacheDownTrack is passed the transceiver now in use, so a stopped one     *)
(* stays cached.                                                               *)
NewSubscribedTrack(p, k, reuse) ==
  LET c == {cached[TrackOf[p]]} \cap sdp IN
  /\ reuse => c # {}
  /\ pubOf' = [pubOf EXCEPT ![k] = p]
  /\ phase' = [phase EXCEPT ![k] = "open"]
  /\ resume' = [resume EXCEPT ![k] = FALSE]
  /\ subscribedTracks' = [subscribedTracks EXCEPT ![p] = k]
  /\ sdp' = (sdp \ c) \cup {k}
  /\ cached' = IF reuse THEN [cached EXCEPT ![TrackOf[p]] = None] ELSE cached
=============================================================================
