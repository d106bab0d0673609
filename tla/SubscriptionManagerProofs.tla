---------------------- MODULE SubscriptionManagerProofs ----------------------
(***************************************************************************)
(* Proofs about SubscriptionManager, for all sets of tracks, publications, *)
(* callers and goroutines.                                                 *)
(***************************************************************************)
EXTENDS SubscriptionManager, TLAPS, FiniteSetTheorems, SequenceTheorems

LEMMA WithoutType ==
  ASSUME NEW S, NEW s \in Seq(S), NEW p
  PROVE  Without(s, p) \in Seq(S)
<1>1. CASE \E i \in 1..Len(s) : s[i] = p
  <2> DEFINE i == CHOOSE i \in 1..Len(s) : s[i] = p
  <2>1. i \in 1..Len(s)
    BY <1>1
  <2>2. Len(s) \in Nat /\ \A j \in 1..Len(s) : s[j] \in S
    OBVIOUS
  <2> DEFINE r == [j \in 1..(Len(s) - 1) |-> IF j < i THEN s[j] ELSE s[j + 1]]
  <2>3. Len(s) - 1 \in Nat
    BY <2>1, <2>2
  <2>4. r \in [1..(Len(s) - 1) -> S]
    BY <2>1, <2>2
  <2>5. r \in Seq(S)
    BY <2>3, <2>4, SeqDef
  <2> QED BY <1>1, <2>5 DEF Without
<1>2. CASE ~ \E i \in 1..Len(s) : s[i] = p
  BY <1>2 DEF Without
<1> QED BY <1>1, <1>2

LEMMA TypeInit == Init => TypeOK
  BY TracksExist DEF Init, MediaTrackInit, TypeOK, MediaTrackTypeOK, SubscriptionTypeOK,
     PubStates, Phases

LEMMA QueueType ==
  ASSUME NEW T, NEW ch \in SUBSET T, NEW t \in T
  PROVE  Queue(ch, t) \in SUBSET T
  BY DEF Queue

LEMMA ClearNotifiersType ==
  ASSUME TypeOK, NEW S \in SUBSET Subs, ClearNotifiers(S)
  PROVE  /\ removedNotifier' \in [Subs -> {"nil", "current", "old"}]
         /\ unobserve' \in SUBSET Tracks
  BY DEF ClearNotifiers, TypeOK, SubscriptionTypeOK

LEMMA setDesiredType ==
  ASSUME TypeOK, NEW S \in SUBSET Subs, NEW d \in BOOLEAN, setDesired(S, d)
  PROVE  /\ desired' \in [Subs -> BOOLEAN]
         /\ removedNotifier' \in [Subs -> {"nil", "current", "old"}]
         /\ unobserve' \in SUBSET Tracks
<1>1. desired' \in [Subs -> BOOLEAN]
  BY DEF setDesired, TypeOK, SubscriptionTypeOK
<1>2. CASE d
  BY <1>1, <1>2 DEF setDesired, TypeOK, SubscriptionTypeOK
<1>3. CASE ~d
  <2>1. ClearNotifiers({s \in S : desired[s]})
    BY <1>3 DEF setDesired
  <2> QED BY <1>1, <2>1, ClearNotifiersType
<1> QED BY <1>2, <1>3

LEMMA CloseWithFlushType ==
  ASSUME TypeOK, NEW ks, NEW r \in BOOLEAN, CloseWithFlush(ks, r)
  PROVE  phase' \in [SubTracks -> Phases] /\ resume' \in [SubTracks -> BOOLEAN]
  BY DEF CloseWithFlush, TypeOK, MediaTrackTypeOK, Phases

LEMMA queueReconcileType ==
  ASSUME TypeOK, NEW t \in Tracks \cup {All}, queueReconcile(t)
  PROVE  reconcileCh' \in SUBSET (Tracks \cup {All})
  BY DEF queueReconcile, Queue, TypeOK, SubscriptionTypeOK

LEMMA NotifyTrackChangedType ==
  ASSUME TypeOK, NEW t \in Tracks, NotifyTrackChanged(t)
  PROVE  reconcileCh' \in SUBSET (Tracks \cup {All})
  BY DEF NotifyTrackChanged, Queue, TypeOK, SubscriptionTypeOK

LEMMA UnsubscribeType ==
  ASSUME TypeOK, NEW t \in Tracks, Unsubscribe(t)
  PROVE  /\ desired' \in [Subs -> BOOLEAN]
         /\ removedNotifier' \in [Subs -> {"nil", "current", "old"}]
         /\ unobserve' \in SUBSET Tracks
         /\ reconcileCh' \in SUBSET (Tracks \cup {All})
<1> DEFINE S == {s \in Subs : subscriptions[t] = s /\ desired[s]}
<1>1. setDesired(S, FALSE)
  BY DEF Unsubscribe
<1>2. reconcileCh' \in SUBSET (Tracks \cup {All})
  BY queueReconcileType DEF Unsubscribe, TypeOK, SubscriptionTypeOK
<1> QED BY <1>1, <1>2, setDesiredType

LEMMA RemoveSubscriberType ==
  ASSUME TypeOK, NEW p \in Pubs, NEW r \in BOOLEAN, RemoveSubscriber(p, r)
  PROVE  phase' \in [SubTracks -> Phases] /\ resume' \in [SubTracks -> BOOLEAN]
  BY CloseWithFlushType DEF RemoveSubscriber

-----------------------------------------------------------------------------
(* What holds between steps of the goroutines, besides the types.           *)
CallersHoldTrack == \A c \in Callers : callPc[c] # "idle" => callTrack[c] \in Tracks

Subscribing == {"check", "insert", "recheck", "hook", "attach", "inc", "mark"}

WorkerHolds ==
  /\ wpc \in Subscribing => wsub \in Subs /\ wpub \in Pubs
  /\ wpc \in {"hook", "attach", "inc"} => wst \in SubTracks
  /\ wpc \in Subscribing \ {"check", "insert"} /\ wst # None => pubOf[wst] = wpub

HandlersKnown ==
  \A k \in SubTracks : phase[k] \in {"uncount", "release", "releaseAll"} => onClose[k] \in Subs

StructInv == /\ TypeOK /\ CallersHoldTrack /\ WorkerHolds /\ HandlersKnown
             /\ MapHoldsLiveTracks /\ ClosedTrackIsReleased

(* The tuples of variables are always expanded from here on.                *)
USE DEF pubVars, downVars, subVars, obsVars, workerVars, callVars

LEMMA SubscribeToTrackKeeps ==
  ASSUME StructInv, NEW c \in Callers, NEW t \in Tracks, SubscribeToTrack(c, t)
  PROVE  StructInv'
<1>1. TypeOK'
  <2>1. CASE subscriptions[t] # None
    <3>1. setDesired({subscriptions[t]}, TRUE) /\ queueReconcile(t)
      BY <2>1 DEF SubscribeToTrack
    <3>2. {subscriptions[t]} \in SUBSET Subs
      BY <2>1 DEF StructInv, TypeOK, MediaTrackTypeOK, SubscriptionTypeOK
    <3>3. /\ desired' \in [Subs -> BOOLEAN]
          /\ removedNotifier' \in [Subs -> {"nil", "current", "old"}]
          /\ unobserve' \in SUBSET Tracks
      BY <3>1, <3>2, setDesiredType DEF StructInv
    <3>4. reconcileCh' \in SUBSET (Tracks \cup {All})
      BY <3>1, queueReconcileType DEF StructInv
    <3> QED BY ZenonT(60), <2>1, <3>3, <3>4 DEF SubscribeToTrack, StructInv, TypeOK, MediaTrackTypeOK,
       SubscriptionTypeOK, PubStates, Phases
  <2>2. CASE subscriptions[t] = None
    <3>1. /\ callPc' = [callPc EXCEPT ![c] = "create"]
          /\ callTrack' = [callTrack EXCEPT ![c] = t]
          /\ UNCHANGED <<desired, removedNotifier, unobserve, reconcileCh>>
      BY <2>2 DEF SubscribeToTrack
    <3> QED BY <3>1 DEF SubscribeToTrack, StructInv, TypeOK, MediaTrackTypeOK,
       SubscriptionTypeOK, PubStates, Phases
  <2> QED BY <2>1, <2>2
<1>2. (CallersHoldTrack /\ WorkerHolds /\ HandlersKnown)'
  BY ZenonT(60), NoneIsNil, NoneIsNoSub, AllIsNoTrack, TrackOfType, WithoutType DEF StructInv, TypeOK,
     MediaTrackTypeOK, SubscriptionTypeOK, CallersHoldTrack, WorkerHolds, HandlersKnown,
     Subscribing, SubscribeToTrack, setDesired, queueReconcile, Queue
<1>3. MapHoldsLiveTracks'
  BY NoneIsNil, NoneIsNoSub, AllIsNoTrack, TrackOfType, WithoutType DEF StructInv, TypeOK,
     MediaTrackTypeOK, SubscriptionTypeOK, MapHoldsLiveTracks, WorkerHolds, Subscribing,
     SubscribeToTrack, setDesired, queueReconcile, Queue
<1>4. ClosedTrackIsReleased'
  BY NoneIsNil, NoneIsNoSub, AllIsNoTrack, TrackOfType, WithoutType DEF StructInv, TypeOK,
     MediaTrackTypeOK, SubscriptionTypeOK, ClosedTrackIsReleased, MapHoldsLiveTracks,
     WorkerHolds, Subscribing, SubscribeToTrack, setDesired, queueReconcile, Queue
<1> QED BY <1>1, <1>2, <1>3, <1>4 DEF StructInv

LEMMA SubscribeInsertKeeps ==
  ASSUME StructInv, NEW c \in Callers, SubscribeInsert(c)
  PROVE  StructInv'
<1>1. TypeOK'
  <2>1. callTrack[c] \in Tracks
    BY DEF SubscribeInsert, StructInv, CallersHoldTrack
  <2>2. PICK s \in Subs : newMediaTrackSubscription(s, callTrack[c])
    BY DEF SubscribeInsert
  <2> QED BY <2>1, <2>2 DEF SubscribeInsert, newMediaTrackSubscription, StructInv, TypeOK,
     MediaTrackTypeOK, SubscriptionTypeOK, PubStates, Phases
<1>2. (CallersHoldTrack /\ WorkerHolds /\ HandlersKnown)'
  BY NoneIsNil, NoneIsNoSub, AllIsNoTrack, TrackOfType, WithoutType DEF StructInv, TypeOK,
     MediaTrackTypeOK, SubscriptionTypeOK, CallersHoldTrack, WorkerHolds, HandlersKnown,
     Subscribing, SubscribeInsert, newMediaTrackSubscription, Unreferenced
<1>3. MapHoldsLiveTracks'
  BY NoneIsNil, NoneIsNoSub, AllIsNoTrack, TrackOfType, WithoutType DEF StructInv, TypeOK,
     MediaTrackTypeOK, SubscriptionTypeOK, MapHoldsLiveTracks, WorkerHolds, Subscribing,
     SubscribeInsert, newMediaTrackSubscription, Unreferenced
<1>4. ClosedTrackIsReleased'
  BY NoneIsNil, NoneIsNoSub, AllIsNoTrack, TrackOfType, WithoutType DEF StructInv, TypeOK,
     MediaTrackTypeOK, SubscriptionTypeOK, ClosedTrackIsReleased, MapHoldsLiveTracks,
     WorkerHolds, Subscribing, SubscribeInsert, newMediaTrackSubscription, Unreferenced
<1> QED BY <1>1, <1>2, <1>3, <1>4 DEF StructInv

LEMMA SubscribeDesireKeeps ==
  ASSUME StructInv, NEW c \in Callers, SubscribeDesire(c)
  PROVE  StructInv'
<1>1. TypeOK'
  <2>1. callTrack[c] \in Tracks
    BY DEF SubscribeDesire, StructInv, CallersHoldTrack
  <2>2. {subscriptions[callTrack[c]]} \ {None} \in SUBSET Subs
    BY <2>1 DEF StructInv, TypeOK, MediaTrackTypeOK, SubscriptionTypeOK
  <2>3. setDesired({subscriptions[callTrack[c]]} \ {None}, TRUE)
    BY DEF SubscribeDesire
  <2>4. /\ desired' \in [Subs -> BOOLEAN]
        /\ removedNotifier' \in [Subs -> {"nil", "current", "old"}]
        /\ unobserve' \in SUBSET Tracks
    BY <2>2, <2>3, setDesiredType DEF StructInv
  <2>5. reconcileCh' \in SUBSET (Tracks \cup {All})
    BY <2>1, queueReconcileType DEF SubscribeDesire, StructInv
  <2> QED BY <2>4, <2>5 DEF SubscribeDesire, StructInv, TypeOK, MediaTrackTypeOK,
     SubscriptionTypeOK, PubStates, Phases
<1>2. (CallersHoldTrack /\ WorkerHolds /\ HandlersKnown)'
  BY NoneIsNil, NoneIsNoSub, AllIsNoTrack, TrackOfType, WithoutType DEF StructInv, TypeOK,
     MediaTrackTypeOK, SubscriptionTypeOK, CallersHoldTrack, WorkerHolds, HandlersKnown,
     Subscribing, SubscribeDesire, setDesired, queueReconcile, Queue
<1>3. MapHoldsLiveTracks'
  BY NoneIsNil, NoneIsNoSub, AllIsNoTrack, TrackOfType, WithoutType DEF StructInv, TypeOK,
     MediaTrackTypeOK, SubscriptionTypeOK, MapHoldsLiveTracks, WorkerHolds, Subscribing,
     SubscribeDesire, setDesired, queueReconcile, Queue
<1>4. ClosedTrackIsReleased'
  BY NoneIsNil, NoneIsNoSub, AllIsNoTrack, TrackOfType, WithoutType DEF StructInv, TypeOK,
     MediaTrackTypeOK, SubscriptionTypeOK, ClosedTrackIsReleased, MapHoldsLiveTracks,
     WorkerHolds, Subscribing, SubscribeDesire, setDesired, queueReconcile, Queue
<1> QED BY <1>1, <1>2, <1>3, <1>4 DEF StructInv

LEMMA UnsubscribeFromTrackKeeps ==
  ASSUME StructInv, NEW c \in Callers, NEW t \in Tracks, UnsubscribeFromTrack(c, t)
  PROVE  StructInv'
<1>1. TypeOK'
  <2>1. Unsubscribe(t)
    BY DEF UnsubscribeFromTrack
  <2> QED BY <2>1, UnsubscribeType DEF UnsubscribeFromTrack, StructInv, TypeOK,
     MediaTrackTypeOK, SubscriptionTypeOK, PubStates, Phases
<1>2. (CallersHoldTrack /\ WorkerHolds /\ HandlersKnown)'
  BY NoneIsNil, NoneIsNoSub, AllIsNoTrack, TrackOfType, WithoutType DEF StructInv, TypeOK,
     MediaTrackTypeOK, SubscriptionTypeOK, CallersHoldTrack, WorkerHolds, HandlersKnown,
     Subscribing, UnsubscribeFromTrack, Unsubscribe, setDesired, ClearNotifiers, queueReconcile,
     Queue
<1>3. MapHoldsLiveTracks'
  BY NoneIsNil, NoneIsNoSub, AllIsNoTrack, TrackOfType, WithoutType DEF StructInv, TypeOK,
     MediaTrackTypeOK, SubscriptionTypeOK, MapHoldsLiveTracks, WorkerHolds, Subscribing,
     UnsubscribeFromTrack, Unsubscribe, setDesired, ClearNotifiers, queueReconcile, Queue
<1>4. ClosedTrackIsReleased'
  BY NoneIsNil, NoneIsNoSub, AllIsNoTrack, TrackOfType, WithoutType DEF StructInv, TypeOK,
     MediaTrackTypeOK, SubscriptionTypeOK, ClosedTrackIsReleased, MapHoldsLiveTracks,
     WorkerHolds, Subscribing, UnsubscribeFromTrack, Unsubscribe, setDesired, ClearNotifiers,
     queueReconcile, Queue
<1> QED BY <1>1, <1>2, <1>3, <1>4 DEF StructInv

LEMMA ClearAllSubscriptionsKeeps ==
  ASSUME StructInv, NEW c \in Callers, ClearAllSubscriptions(c)
  PROVE  StructInv'
<1>1. TypeOK'
  <2>1. setDesired(({subscriptions[t] : t \in Tracks} \ {None}), FALSE)
    BY DEF ClearAllSubscriptions
  <2>2. ({subscriptions[t] : t \in Tracks} \ {None}) \in SUBSET Subs
    BY DEF StructInv, TypeOK, MediaTrackTypeOK, SubscriptionTypeOK
  <2>3. /\ desired' \in [Subs -> BOOLEAN]
        /\ removedNotifier' \in [Subs -> {"nil", "current", "old"}]
        /\ unobserve' \in SUBSET Tracks
    BY <2>1, <2>2, setDesiredType DEF StructInv
  <2>4. reconcileCh' \in SUBSET (Tracks \cup {All})
    BY queueReconcileType DEF ClearAllSubscriptions, StructInv
  <2> QED BY <2>3, <2>4 DEF ClearAllSubscriptions, StructInv, TypeOK, MediaTrackTypeOK,
     SubscriptionTypeOK, PubStates, Phases
<1>2. (CallersHoldTrack /\ WorkerHolds /\ HandlersKnown)'
  BY NoneIsNil, NoneIsNoSub, AllIsNoTrack, TrackOfType, WithoutType DEF StructInv, TypeOK,
     MediaTrackTypeOK, SubscriptionTypeOK, CallersHoldTrack, WorkerHolds, HandlersKnown,
     Subscribing, ClearAllSubscriptions, setDesired, ClearNotifiers, queueReconcile, Queue
<1>3. MapHoldsLiveTracks'
  BY NoneIsNil, NoneIsNoSub, AllIsNoTrack, TrackOfType, WithoutType DEF StructInv, TypeOK,
     MediaTrackTypeOK, SubscriptionTypeOK, MapHoldsLiveTracks, WorkerHolds, Subscribing,
     ClearAllSubscriptions, setDesired, ClearNotifiers, queueReconcile, Queue
<1>4. ClosedTrackIsReleased'
  BY NoneIsNil, NoneIsNoSub, AllIsNoTrack, TrackOfType, WithoutType DEF StructInv, TypeOK,
     MediaTrackTypeOK, SubscriptionTypeOK, ClosedTrackIsReleased, MapHoldsLiveTracks,
     WorkerHolds, Subscribing, ClearAllSubscriptions, setDesired, ClearNotifiers,
     queueReconcile, Queue
<1> QED BY <1>1, <1>2, <1>3, <1>4 DEF StructInv

LEMMA UpdateSubscribedTrackSettingsKeeps ==
  ASSUME StructInv, NEW c \in Callers, NEW t \in Tracks,
     UpdateSubscribedTrackSettings(c, t)
  PROVE  StructInv'
<1>1. TypeOK'
  BY NoneIsNil, NoneIsNoSub, AllIsNoTrack, TrackOfType, WithoutType DEF StructInv, TypeOK,
     MediaTrackTypeOK, SubscriptionTypeOK, PubStates, Phases, UpdateSubscribedTrackSettings,
     newMediaTrackSubscription
<1>2. (CallersHoldTrack /\ WorkerHolds /\ HandlersKnown)'
  BY NoneIsNil, NoneIsNoSub, AllIsNoTrack, TrackOfType, WithoutType DEF StructInv, TypeOK,
     MediaTrackTypeOK, SubscriptionTypeOK, CallersHoldTrack, WorkerHolds, HandlersKnown,
     Subscribing, UpdateSubscribedTrackSettings, newMediaTrackSubscription
<1>3. MapHoldsLiveTracks'
  BY NoneIsNil, NoneIsNoSub, AllIsNoTrack, TrackOfType, WithoutType DEF StructInv, TypeOK,
     MediaTrackTypeOK, SubscriptionTypeOK, MapHoldsLiveTracks, WorkerHolds, Subscribing,
     UpdateSubscribedTrackSettings, newMediaTrackSubscription
<1>4. ClosedTrackIsReleased'
  BY NoneIsNil, NoneIsNoSub, AllIsNoTrack, TrackOfType, WithoutType DEF StructInv, TypeOK,
     MediaTrackTypeOK, SubscriptionTypeOK, ClosedTrackIsReleased, MapHoldsLiveTracks,
     WorkerHolds, Subscribing, UpdateSubscribedTrackSettings, newMediaTrackSubscription
<1> QED BY <1>1, <1>2, <1>3, <1>4 DEF StructInv

LEMMA WorkerTickKeeps ==
  ASSUME StructInv, WorkerTick
  PROVE  StructInv'
<1>1. TypeOK'
  BY NoneIsNil, NoneIsNoSub, AllIsNoTrack, TrackOfType, WithoutType DEF StructInv, TypeOK,
     MediaTrackTypeOK, SubscriptionTypeOK, PubStates, Phases, WorkerTick, NeedsReconcile
<1>2. (CallersHoldTrack /\ WorkerHolds /\ HandlersKnown)'
  BY NoneIsNil, NoneIsNoSub, AllIsNoTrack, TrackOfType, WithoutType DEF StructInv, TypeOK,
     MediaTrackTypeOK, SubscriptionTypeOK, CallersHoldTrack, WorkerHolds, HandlersKnown,
     Subscribing, WorkerTick, NeedsReconcile
<1>3. MapHoldsLiveTracks'
  BY NoneIsNil, NoneIsNoSub, AllIsNoTrack, TrackOfType, WithoutType DEF StructInv, TypeOK,
     MediaTrackTypeOK, SubscriptionTypeOK, MapHoldsLiveTracks, WorkerHolds, Subscribing,
     WorkerTick, NeedsReconcile
<1>4. ClosedTrackIsReleased'
  BY NoneIsNil, NoneIsNoSub, AllIsNoTrack, TrackOfType, WithoutType DEF StructInv, TypeOK,
     MediaTrackTypeOK, SubscriptionTypeOK, ClosedTrackIsReleased, MapHoldsLiveTracks,
     WorkerHolds, Subscribing, WorkerTick, NeedsReconcile
<1> QED BY <1>1, <1>2, <1>3, <1>4 DEF StructInv

LEMMA WorkerReceiveKeeps ==
  ASSUME StructInv, NEW t \in Tracks \cup {All}, WorkerReceive(t)
  PROVE  StructInv'
<1>1. TypeOK'
  BY NoneIsNil, NoneIsNoSub, AllIsNoTrack, TrackOfType, WithoutType DEF StructInv, TypeOK,
     MediaTrackTypeOK, SubscriptionTypeOK, PubStates, Phases, WorkerReceive, NeedsReconcile
<1>2. (CallersHoldTrack /\ WorkerHolds /\ HandlersKnown)'
  BY NoneIsNil, NoneIsNoSub, AllIsNoTrack, TrackOfType, WithoutType DEF StructInv, TypeOK,
     MediaTrackTypeOK, SubscriptionTypeOK, CallersHoldTrack, WorkerHolds, HandlersKnown,
     Subscribing, WorkerReceive, NeedsReconcile
<1>3. MapHoldsLiveTracks'
  BY NoneIsNil, NoneIsNoSub, AllIsNoTrack, TrackOfType, WithoutType DEF StructInv, TypeOK,
     MediaTrackTypeOK, SubscriptionTypeOK, MapHoldsLiveTracks, WorkerHolds, Subscribing,
     WorkerReceive, NeedsReconcile
<1>4. ClosedTrackIsReleased'
  BY NoneIsNil, NoneIsNoSub, AllIsNoTrack, TrackOfType, WithoutType DEF StructInv, TypeOK,
     MediaTrackTypeOK, SubscriptionTypeOK, ClosedTrackIsReleased, MapHoldsLiveTracks,
     WorkerHolds, Subscribing, WorkerReceive, NeedsReconcile
<1> QED BY <1>1, <1>2, <1>3, <1>4 DEF StructInv

LEMMA WorkerExitKeeps ==
  ASSUME StructInv, WorkerExit
  PROVE  StructInv'
<1>1. TypeOK'
  BY NoneIsNil, NoneIsNoSub, AllIsNoTrack, TrackOfType, WithoutType DEF StructInv, TypeOK,
     MediaTrackTypeOK, SubscriptionTypeOK, PubStates, Phases, WorkerExit
<1>2. (CallersHoldTrack /\ WorkerHolds /\ HandlersKnown)'
  BY NoneIsNil, NoneIsNoSub, AllIsNoTrack, TrackOfType, WithoutType DEF StructInv, TypeOK,
     MediaTrackTypeOK, SubscriptionTypeOK, CallersHoldTrack, WorkerHolds, HandlersKnown,
     Subscribing, WorkerExit
<1>3. MapHoldsLiveTracks'
  BY NoneIsNil, NoneIsNoSub, AllIsNoTrack, TrackOfType, WithoutType DEF StructInv, TypeOK,
     MediaTrackTypeOK, SubscriptionTypeOK, MapHoldsLiveTracks, WorkerHolds, Subscribing,
     WorkerExit
<1>4. ClosedTrackIsReleased'
  BY NoneIsNil, NoneIsNoSub, AllIsNoTrack, TrackOfType, WithoutType DEF StructInv, TypeOK,
     MediaTrackTypeOK, SubscriptionTypeOK, ClosedTrackIsReleased, MapHoldsLiveTracks,
     WorkerHolds, Subscribing, WorkerExit
<1> QED BY <1>1, <1>2, <1>3, <1>4 DEF StructInv

LEMMA WorkerLoopEndKeeps ==
  ASSUME StructInv, WorkerLoopEnd
  PROVE  StructInv'
<1>1. TypeOK'
  BY NoneIsNil, NoneIsNoSub, AllIsNoTrack, TrackOfType, WithoutType DEF StructInv, TypeOK,
     MediaTrackTypeOK, SubscriptionTypeOK, PubStates, Phases, WorkerLoopEnd
<1>2. (CallersHoldTrack /\ WorkerHolds /\ HandlersKnown)'
  BY NoneIsNil, NoneIsNoSub, AllIsNoTrack, TrackOfType, WithoutType DEF StructInv, TypeOK,
     MediaTrackTypeOK, SubscriptionTypeOK, CallersHoldTrack, WorkerHolds, HandlersKnown,
     Subscribing, WorkerLoopEnd
<1>3. MapHoldsLiveTracks'
  BY NoneIsNil, NoneIsNoSub, AllIsNoTrack, TrackOfType, WithoutType DEF StructInv, TypeOK,
     MediaTrackTypeOK, SubscriptionTypeOK, MapHoldsLiveTracks, WorkerHolds, Subscribing,
     WorkerLoopEnd
<1>4. ClosedTrackIsReleased'
  BY NoneIsNil, NoneIsNoSub, AllIsNoTrack, TrackOfType, WithoutType DEF StructInv, TypeOK,
     MediaTrackTypeOK, SubscriptionTypeOK, ClosedTrackIsReleased, MapHoldsLiveTracks,
     WorkerHolds, Subscribing, WorkerLoopEnd
<1> QED BY <1>1, <1>2, <1>3, <1>4 DEF StructInv

LEMMA ReconcileSkipKeeps ==
  ASSUME StructInv, NEW s \in Subs, ReconcileSkip(s)
  PROVE  StructInv'
<1>1. TypeOK'
  BY NoneIsNil, NoneIsNoSub, AllIsNoTrack, TrackOfType, WithoutType DEF StructInv, TypeOK,
     MediaTrackTypeOK, SubscriptionTypeOK, PubStates, Phases, ReconcileSkip, queueReconcile,
     Queue
<1>2. (CallersHoldTrack /\ WorkerHolds /\ HandlersKnown)'
  BY NoneIsNil, NoneIsNoSub, AllIsNoTrack, TrackOfType, WithoutType DEF StructInv, TypeOK,
     MediaTrackTypeOK, SubscriptionTypeOK, CallersHoldTrack, WorkerHolds, HandlersKnown,
     Subscribing, ReconcileSkip, queueReconcile, Queue
<1>3. MapHoldsLiveTracks'
  BY NoneIsNil, NoneIsNoSub, AllIsNoTrack, TrackOfType, WithoutType DEF StructInv, TypeOK,
     MediaTrackTypeOK, SubscriptionTypeOK, MapHoldsLiveTracks, WorkerHolds, Subscribing,
     ReconcileSkip, queueReconcile, Queue
<1>4. ClosedTrackIsReleased'
  BY NoneIsNil, NoneIsNoSub, AllIsNoTrack, TrackOfType, WithoutType DEF StructInv, TypeOK,
     MediaTrackTypeOK, SubscriptionTypeOK, ClosedTrackIsReleased, MapHoldsLiveTracks,
     WorkerHolds, Subscribing, ReconcileSkip, queueReconcile, Queue
<1> QED BY <1>1, <1>2, <1>3, <1>4 DEF StructInv

LEMMA ReconcileCleanupKeeps ==
  ASSUME StructInv, NEW s \in Subs, ReconcileCleanup(s)
  PROVE  StructInv'
<1>1. TypeOK'
  BY NoneIsNil, NoneIsNoSub, AllIsNoTrack, TrackOfType, WithoutType DEF StructInv, TypeOK,
     MediaTrackTypeOK, SubscriptionTypeOK, PubStates, Phases, ReconcileCleanup
<1>2. (CallersHoldTrack /\ WorkerHolds /\ HandlersKnown)'
  BY NoneIsNil, NoneIsNoSub, AllIsNoTrack, TrackOfType, WithoutType DEF StructInv, TypeOK,
     MediaTrackTypeOK, SubscriptionTypeOK, CallersHoldTrack, WorkerHolds, HandlersKnown,
     Subscribing, ReconcileCleanup
<1>3. MapHoldsLiveTracks'
  BY NoneIsNil, NoneIsNoSub, AllIsNoTrack, TrackOfType, WithoutType DEF StructInv, TypeOK,
     MediaTrackTypeOK, SubscriptionTypeOK, MapHoldsLiveTracks, WorkerHolds, Subscribing,
     ReconcileCleanup
<1>4. ClosedTrackIsReleased'
  BY NoneIsNil, NoneIsNoSub, AllIsNoTrack, TrackOfType, WithoutType DEF StructInv, TypeOK,
     MediaTrackTypeOK, SubscriptionTypeOK, ClosedTrackIsReleased, MapHoldsLiveTracks,
     WorkerHolds, Subscribing, ReconcileCleanup
<1> QED BY <1>1, <1>2, <1>3, <1>4 DEF StructInv

LEMMA ReconcileUnsubscribeKeeps ==
  ASSUME StructInv, NEW s \in Subs, ReconcileUnsubscribe(s)
  PROVE  StructInv'
<1>1. TypeOK'
  BY NoneIsNil, NoneIsNoSub, AllIsNoTrack, TrackOfType, WithoutType DEF StructInv, TypeOK,
     MediaTrackTypeOK, SubscriptionTypeOK, PubStates, Phases, ReconcileUnsubscribe,
     needsUnsubscribe
<1>2. (CallersHoldTrack /\ WorkerHolds /\ HandlersKnown)'
  BY NoneIsNil, NoneIsNoSub, AllIsNoTrack, TrackOfType, WithoutType DEF StructInv, TypeOK,
     MediaTrackTypeOK, SubscriptionTypeOK, CallersHoldTrack, WorkerHolds, HandlersKnown,
     Subscribing, ReconcileUnsubscribe, needsUnsubscribe
<1>3. MapHoldsLiveTracks'
  BY NoneIsNil, NoneIsNoSub, AllIsNoTrack, TrackOfType, WithoutType DEF StructInv, TypeOK,
     MediaTrackTypeOK, SubscriptionTypeOK, MapHoldsLiveTracks, WorkerHolds, Subscribing,
     ReconcileUnsubscribe, needsUnsubscribe
<1>4. ClosedTrackIsReleased'
  BY NoneIsNil, NoneIsNoSub, AllIsNoTrack, TrackOfType, WithoutType DEF StructInv, TypeOK,
     MediaTrackTypeOK, SubscriptionTypeOK, ClosedTrackIsReleased, MapHoldsLiveTracks,
     WorkerHolds, Subscribing, ReconcileUnsubscribe, needsUnsubscribe
<1> QED BY <1>1, <1>2, <1>3, <1>4 DEF StructInv

LEMMA SubscribeFailsKeeps ==
  ASSUME StructInv, NEW s \in Subs, SubscribeFails(s)
  PROVE  StructInv'
<1>1. TypeOK'
  <2>1. subTrackID[s] \in Tracks /\ {s} \in SUBSET Subs
    BY DEF StructInv, TypeOK, MediaTrackTypeOK, SubscriptionTypeOK
  <2>2. \/ UNCHANGED <<desired, removedNotifier, unobserve, observed, reconcileCh>>
        \/ setDesired({s}, FALSE) /\ queueReconcile(subTrackID[s]) /\ UNCHANGED observed
        \/ ObserveRemoval(s) /\ UNCHANGED <<desired, unobserve, reconcileCh>>
    BY DEF SubscribeFails
  <2>3. /\ desired' \in [Subs -> BOOLEAN]
        /\ removedNotifier' \in [Subs -> {"nil", "current", "old"}]
        /\ unobserve' \in SUBSET Tracks
        /\ observed' \in SUBSET Tracks
        /\ reconcileCh' \in SUBSET (Tracks \cup {All})
    <3>1. CASE setDesired({s}, FALSE) /\ queueReconcile(subTrackID[s]) /\ UNCHANGED
       observed
      BY <2>1, <3>1, setDesiredType, queueReconcileType DEF StructInv, TypeOK, MediaTrackTypeOK,
         SubscriptionTypeOK
    <3> QED BY <2>1, <2>2, <3>1 DEF ObserveRemoval, StructInv, TypeOK, MediaTrackTypeOK,
       SubscriptionTypeOK
  <2> QED BY <2>3 DEF SubscribeFails, StructInv, TypeOK, MediaTrackTypeOK, SubscriptionTypeOK,
     PubStates, Phases
<1>2. (CallersHoldTrack /\ WorkerHolds /\ HandlersKnown)'
  BY NoneIsNil, NoneIsNoSub, AllIsNoTrack, TrackOfType, WithoutType DEF StructInv, TypeOK,
     MediaTrackTypeOK, SubscriptionTypeOK, CallersHoldTrack, WorkerHolds, HandlersKnown,
     Subscribing, SubscribeFails, setDesired, ClearNotifiers, queueReconcile, Queue,
     ObserveRemoval
<1>3. MapHoldsLiveTracks'
  BY NoneIsNil, NoneIsNoSub, AllIsNoTrack, TrackOfType, WithoutType DEF StructInv, TypeOK,
     MediaTrackTypeOK, SubscriptionTypeOK, MapHoldsLiveTracks, WorkerHolds, Subscribing,
     SubscribeFails, setDesired, ClearNotifiers, queueReconcile, Queue, ObserveRemoval
<1>4. ClosedTrackIsReleased'
  BY NoneIsNil, NoneIsNoSub, AllIsNoTrack, TrackOfType, WithoutType DEF StructInv, TypeOK,
     MediaTrackTypeOK, SubscriptionTypeOK, ClosedTrackIsReleased, MapHoldsLiveTracks,
     WorkerHolds, Subscribing, SubscribeFails, setDesired, ClearNotifiers, queueReconcile,
     Queue, ObserveRemoval
<1> QED BY <1>1, <1>2, <1>3, <1>4 DEF StructInv

LEMMA SubscribeResolvesKeeps ==
  ASSUME StructInv, NEW s \in Subs, SubscribeResolves(s)
  PROVE  StructInv'
<1>1. TypeOK'
  BY NoneIsNil, NoneIsNoSub, AllIsNoTrack, TrackOfType, WithoutType DEF StructInv, TypeOK,
     MediaTrackTypeOK, SubscriptionTypeOK, PubStates, Phases, SubscribeResolves, ObserveRemoval,
     GetTrackInfo, StateOpen
<1>2. (CallersHoldTrack /\ WorkerHolds /\ HandlersKnown)'
  BY NoneIsNil, NoneIsNoSub, AllIsNoTrack, TrackOfType, WithoutType DEF StructInv, TypeOK,
     MediaTrackTypeOK, SubscriptionTypeOK, CallersHoldTrack, WorkerHolds, HandlersKnown,
     Subscribing, SubscribeResolves, ObserveRemoval, GetTrackInfo, StateOpen
<1>3. MapHoldsLiveTracks'
  BY NoneIsNil, NoneIsNoSub, AllIsNoTrack, TrackOfType, WithoutType DEF StructInv, TypeOK,
     MediaTrackTypeOK, SubscriptionTypeOK, MapHoldsLiveTracks, WorkerHolds, Subscribing,
     SubscribeResolves, ObserveRemoval, GetTrackInfo, StateOpen
<1>4. ClosedTrackIsReleased'
  BY NoneIsNil, NoneIsNoSub, AllIsNoTrack, TrackOfType, WithoutType DEF StructInv, TypeOK,
     MediaTrackTypeOK, SubscriptionTypeOK, ClosedTrackIsReleased, MapHoldsLiveTracks,
     WorkerHolds, Subscribing, SubscribeResolves, ObserveRemoval, GetTrackInfo, StateOpen
<1> QED BY <1>1, <1>2, <1>3, <1>4 DEF StructInv

LEMMA AddCheckKeeps ==
  ASSUME StructInv, AddCheck
  PROVE  StructInv'
<1>1. TypeOK'
  BY NoneIsNil, NoneIsNoSub, AllIsNoTrack, TrackOfType, WithoutType DEF StructInv, TypeOK,
     MediaTrackTypeOK, SubscriptionTypeOK, PubStates, Phases, AddCheck, AddUnchanged,
     SubscribeDone
<1>2. (CallersHoldTrack /\ WorkerHolds /\ HandlersKnown)'
  BY NoneIsNil, NoneIsNoSub, AllIsNoTrack, TrackOfType, WithoutType DEF StructInv, TypeOK,
     MediaTrackTypeOK, SubscriptionTypeOK, CallersHoldTrack, WorkerHolds, HandlersKnown,
     Subscribing, AddCheck, AddUnchanged, SubscribeDone
<1>3. MapHoldsLiveTracks'
  BY NoneIsNil, NoneIsNoSub, AllIsNoTrack, TrackOfType, WithoutType DEF StructInv, TypeOK,
     MediaTrackTypeOK, SubscriptionTypeOK, MapHoldsLiveTracks, WorkerHolds, Subscribing,
     AddCheck, AddUnchanged, SubscribeDone
<1>4. ClosedTrackIsReleased'
  BY NoneIsNil, NoneIsNoSub, AllIsNoTrack, TrackOfType, WithoutType DEF StructInv, TypeOK,
     MediaTrackTypeOK, SubscriptionTypeOK, ClosedTrackIsReleased, MapHoldsLiveTracks,
     WorkerHolds, Subscribing, AddCheck, AddUnchanged, SubscribeDone
<1> QED BY <1>1, <1>2, <1>3, <1>4 DEF StructInv

LEMMA AddInsertKeeps ==
  ASSUME StructInv, AddInsert
  PROVE  StructInv'
<1>1. TypeOK'
  <2>1. wpub \in Pubs
    BY DEF AddInsert, StructInv, WorkerHolds, Subscribing
  <2>2. CASE subscribedTracks[wpub] # None
    BY <2>2 DEF AddInsert, AddUnchanged, StructInv, TypeOK, MediaTrackTypeOK,
       SubscriptionTypeOK, PubStates, Phases
  <2>3. CASE subscribedTracks[wpub] = None
    <3>1. PICK k \in SubTracks, reuse \in BOOLEAN :
            /\ NewSubscribedTrack(wpub, k, reuse)
            /\ onClose' = [onClose EXCEPT ![k] = None]
            /\ binding' = [binding EXCEPT ![k] = "none"]
            /\ wst' = k
      BY <2>3 DEF AddInsert
    <3>2. MediaTrackTypeOK'
      BY ZenonT(60), <2>1, <3>1, TrackOfType DEF AddInsert, AddUnchanged, NewSubscribedTrack, StructInv,
         TypeOK, MediaTrackTypeOK, SubscriptionTypeOK, PubStates, Phases
    <3>3. SubscriptionTypeOK'
      BY <2>1, <3>1 DEF AddInsert, AddUnchanged, StructInv, TypeOK, MediaTrackTypeOK,
         SubscriptionTypeOK, PubStates, Phases
    <3> QED BY <3>2, <3>3 DEF TypeOK
  <2> QED BY <2>2, <2>3
<1>2. (CallersHoldTrack /\ WorkerHolds /\ HandlersKnown)'
  <2>1. CASE wst' = None
    BY <2>1, NoneIsNil DEF AddInsert, AddUnchanged, NewSubscribedTrack, StructInv, TypeOK,
       MediaTrackTypeOK, SubscriptionTypeOK, CallersHoldTrack, WorkerHolds, HandlersKnown,
       Subscribing
  <2>2. CASE wst' # None
    <3>1. PICK k \in SubTracks, reuse \in BOOLEAN :
            ClosedForGood(k) /\ NewSubscribedTrack(wpub, k, reuse) /\ wst' = k
            /\ onClose' = [onClose EXCEPT ![k] = None]
      BY <2>2 DEF AddInsert
    <3> QED BY ZenonT(60), <3>1 DEF AddInsert, AddUnchanged, NewSubscribedTrack, ClosedForGood, StructInv,
       TypeOK, MediaTrackTypeOK, SubscriptionTypeOK, CallersHoldTrack, WorkerHolds,
       HandlersKnown, Subscribing
  <2> QED BY <2>1, <2>2
<1>3. MapHoldsLiveTracks'
  BY NoneIsNil, NoneIsNoSub, AllIsNoTrack, TrackOfType, WithoutType DEF StructInv, TypeOK,
     MediaTrackTypeOK, SubscriptionTypeOK, MapHoldsLiveTracks, WorkerHolds, Subscribing,
     AddInsert, AddUnchanged, NewSubscribedTrack, ClosedForGood
<1>4. ClosedTrackIsReleased'
  BY NoneIsNil, NoneIsNoSub, AllIsNoTrack, TrackOfType, WithoutType DEF StructInv, TypeOK,
     MediaTrackTypeOK, SubscriptionTypeOK, ClosedTrackIsReleased, MapHoldsLiveTracks,
     WorkerHolds, Subscribing, AddInsert, AddUnchanged, NewSubscribedTrack, ClosedForGood
<1> QED BY <1>1, <1>2, <1>3, <1>4 DEF StructInv

LEMMA AddRecheckKeeps ==
  ASSUME StructInv, AddRecheck
  PROVE  StructInv'
<1>1. TypeOK'
  <2>1. wpub \in Pubs
    BY DEF AddRecheck, StructInv, WorkerHolds, Subscribing
  <2>2. phase' \in [SubTracks -> Phases] /\ resume' \in [SubTracks -> BOOLEAN]
    BY <2>1, RemoveSubscriberType DEF AddRecheck, StructInv, TypeOK, MediaTrackTypeOK,
       SubscriptionTypeOK
  <2> QED BY <2>1, <2>2 DEF AddRecheck, AddUnchanged, SubscribeDone, StructInv, TypeOK,
     MediaTrackTypeOK, SubscriptionTypeOK, PubStates, Phases
<1>2. (CallersHoldTrack /\ WorkerHolds /\ HandlersKnown)'
  BY NoneIsNil, NoneIsNoSub, AllIsNoTrack, TrackOfType, WithoutType DEF StructInv, TypeOK,
     MediaTrackTypeOK, SubscriptionTypeOK, CallersHoldTrack, WorkerHolds, HandlersKnown,
     Subscribing, AddRecheck, AddUnchanged, SubscribeDone, StateOpen, RemoveSubscriber,
     CloseWithFlush
<1>3. MapHoldsLiveTracks'
  BY NoneIsNil, NoneIsNoSub, AllIsNoTrack, TrackOfType, WithoutType DEF StructInv, TypeOK,
     MediaTrackTypeOK, SubscriptionTypeOK, MapHoldsLiveTracks, WorkerHolds, Subscribing,
     AddRecheck, AddUnchanged, SubscribeDone, StateOpen, RemoveSubscriber, CloseWithFlush
<1>4. ClosedTrackIsReleased'
  BY NoneIsNil, NoneIsNoSub, AllIsNoTrack, TrackOfType, WithoutType DEF StructInv, TypeOK,
     MediaTrackTypeOK, SubscriptionTypeOK, ClosedTrackIsReleased, MapHoldsLiveTracks,
     WorkerHolds, Subscribing, AddRecheck, AddUnchanged, SubscribeDone, StateOpen,
     RemoveSubscriber, CloseWithFlush
<1> QED BY <1>1, <1>2, <1>3, <1>4 DEF StructInv

LEMMA AddHookKeeps ==
  ASSUME StructInv, AddHook
  PROVE  StructInv'
<1>1. TypeOK'
  BY NoneIsNil, NoneIsNoSub, AllIsNoTrack, TrackOfType, WithoutType DEF StructInv, TypeOK,
     MediaTrackTypeOK, SubscriptionTypeOK, PubStates, Phases, AddHook, AddUnchanged
<1>2. (CallersHoldTrack /\ WorkerHolds /\ HandlersKnown)'
  BY NoneIsNil, NoneIsNoSub, AllIsNoTrack, TrackOfType, WithoutType DEF StructInv, TypeOK,
     MediaTrackTypeOK, SubscriptionTypeOK, CallersHoldTrack, WorkerHolds, HandlersKnown,
     Subscribing, AddHook, AddUnchanged
<1>3. MapHoldsLiveTracks'
  BY NoneIsNil, NoneIsNoSub, AllIsNoTrack, TrackOfType, WithoutType DEF StructInv, TypeOK,
     MediaTrackTypeOK, SubscriptionTypeOK, MapHoldsLiveTracks, WorkerHolds, Subscribing,
     AddHook, AddUnchanged
<1>4. ClosedTrackIsReleased'
  BY NoneIsNil, NoneIsNoSub, AllIsNoTrack, TrackOfType, WithoutType DEF StructInv, TypeOK,
     MediaTrackTypeOK, SubscriptionTypeOK, ClosedTrackIsReleased, MapHoldsLiveTracks,
     WorkerHolds, Subscribing, AddHook, AddUnchanged
<1> QED BY <1>1, <1>2, <1>3, <1>4 DEF StructInv

LEMMA AddAttachKeeps ==
  ASSUME StructInv, AddAttach
  PROVE  StructInv'
<1>1. TypeOK'
  BY NoneIsNil, NoneIsNoSub, AllIsNoTrack, TrackOfType, WithoutType DEF StructInv, TypeOK,
     MediaTrackTypeOK, SubscriptionTypeOK, PubStates, Phases, AddAttach, AddUnchanged
<1>2. (CallersHoldTrack /\ WorkerHolds /\ HandlersKnown)'
  BY NoneIsNil, NoneIsNoSub, AllIsNoTrack, TrackOfType, WithoutType DEF StructInv, TypeOK,
     MediaTrackTypeOK, SubscriptionTypeOK, CallersHoldTrack, WorkerHolds, HandlersKnown,
     Subscribing, AddAttach, AddUnchanged
<1>3. MapHoldsLiveTracks'
  BY NoneIsNil, NoneIsNoSub, AllIsNoTrack, TrackOfType, WithoutType DEF StructInv, TypeOK,
     MediaTrackTypeOK, SubscriptionTypeOK, MapHoldsLiveTracks, WorkerHolds, Subscribing,
     AddAttach, AddUnchanged
<1>4. ClosedTrackIsReleased'
  BY NoneIsNil, NoneIsNoSub, AllIsNoTrack, TrackOfType, WithoutType DEF StructInv, TypeOK,
     MediaTrackTypeOK, SubscriptionTypeOK, ClosedTrackIsReleased, MapHoldsLiveTracks,
     WorkerHolds, Subscribing, AddAttach, AddUnchanged
<1> QED BY <1>1, <1>2, <1>3, <1>4 DEF StructInv

LEMMA AddCountKeeps ==
  ASSUME StructInv, AddCount
  PROVE  StructInv'
<1>1. TypeOK'
  BY NoneIsNil, NoneIsNoSub, AllIsNoTrack, TrackOfType, WithoutType DEF StructInv, TypeOK,
     MediaTrackTypeOK, SubscriptionTypeOK, PubStates, Phases, AddCount, AddUnchanged
<1>2. (CallersHoldTrack /\ WorkerHolds /\ HandlersKnown)'
  BY NoneIsNil, NoneIsNoSub, AllIsNoTrack, TrackOfType, WithoutType DEF StructInv, TypeOK,
     MediaTrackTypeOK, SubscriptionTypeOK, CallersHoldTrack, WorkerHolds, HandlersKnown,
     Subscribing, AddCount, AddUnchanged
<1>3. MapHoldsLiveTracks'
  BY NoneIsNil, NoneIsNoSub, AllIsNoTrack, TrackOfType, WithoutType DEF StructInv, TypeOK,
     MediaTrackTypeOK, SubscriptionTypeOK, MapHoldsLiveTracks, WorkerHolds, Subscribing,
     AddCount, AddUnchanged
<1>4. ClosedTrackIsReleased'
  BY NoneIsNil, NoneIsNoSub, AllIsNoTrack, TrackOfType, WithoutType DEF StructInv, TypeOK,
     MediaTrackTypeOK, SubscriptionTypeOK, ClosedTrackIsReleased, MapHoldsLiveTracks,
     WorkerHolds, Subscribing, AddCount, AddUnchanged
<1> QED BY <1>1, <1>2, <1>3, <1>4 DEF StructInv

LEMMA AddMarkKeeps ==
  ASSUME StructInv, AddMark
  PROVE  StructInv'
<1>1. TypeOK'
  <2>1. wsub \in Subs
    BY DEF AddMark, StructInv, WorkerHolds, Subscribing
  <2> QED BY <2>1 DEF AddMark, AddUnchanged, SubscribeDone, StructInv, TypeOK, MediaTrackTypeOK,
     SubscriptionTypeOK, PubStates, Phases
<1>2. (CallersHoldTrack /\ WorkerHolds /\ HandlersKnown)'
  BY NoneIsNil, NoneIsNoSub, AllIsNoTrack, TrackOfType, WithoutType DEF StructInv, TypeOK,
     MediaTrackTypeOK, SubscriptionTypeOK, CallersHoldTrack, WorkerHolds, HandlersKnown,
     Subscribing, AddMark, AddUnchanged, SubscribeDone
<1>3. MapHoldsLiveTracks'
  BY NoneIsNil, NoneIsNoSub, AllIsNoTrack, TrackOfType, WithoutType DEF StructInv, TypeOK,
     MediaTrackTypeOK, SubscriptionTypeOK, MapHoldsLiveTracks, WorkerHolds, Subscribing,
     AddMark, AddUnchanged, SubscribeDone
<1>4. ClosedTrackIsReleased'
  BY NoneIsNil, NoneIsNoSub, AllIsNoTrack, TrackOfType, WithoutType DEF StructInv, TypeOK,
     MediaTrackTypeOK, SubscriptionTypeOK, ClosedTrackIsReleased, MapHoldsLiveTracks,
     WorkerHolds, Subscribing, AddMark, AddUnchanged, SubscribeDone
<1> QED BY <1>1, <1>2, <1>3, <1>4 DEF StructInv

LEMMA RemoverKeeps ==
  ASSUME StructInv, NEW p \in Pubs, Remover(p)
  PROVE  StructInv'
<1>1. TypeOK'
  <2>1. phase' \in [SubTracks -> Phases] /\ resume' \in [SubTracks -> BOOLEAN]
    BY RemoveSubscriberType DEF Remover, StructInv
  <2>2. removers' \in [Pubs -> Nat]
    BY DEF Remover, StructInv, TypeOK, MediaTrackTypeOK, SubscriptionTypeOK
  <2> QED BY <2>1, <2>2 DEF Remover, StructInv, TypeOK, MediaTrackTypeOK, SubscriptionTypeOK,
     PubStates, Phases
<1>2. (CallersHoldTrack /\ WorkerHolds /\ HandlersKnown)'
  BY NoneIsNil, NoneIsNoSub, AllIsNoTrack, TrackOfType, WithoutType DEF StructInv, TypeOK,
     MediaTrackTypeOK, SubscriptionTypeOK, CallersHoldTrack, WorkerHolds, HandlersKnown,
     Subscribing, Remover, RemoveSubscriber, CloseWithFlush
<1>3. MapHoldsLiveTracks'
  BY NoneIsNil, NoneIsNoSub, AllIsNoTrack, TrackOfType, WithoutType DEF StructInv, TypeOK,
     MediaTrackTypeOK, SubscriptionTypeOK, MapHoldsLiveTracks, WorkerHolds, Subscribing,
     Remover, RemoveSubscriber, CloseWithFlush
<1>4. ClosedTrackIsReleased'
  BY NoneIsNil, NoneIsNoSub, AllIsNoTrack, TrackOfType, WithoutType DEF StructInv, TypeOK,
     MediaTrackTypeOK, SubscriptionTypeOK, ClosedTrackIsReleased, MapHoldsLiveTracks,
     WorkerHolds, Subscribing, Remover, RemoveSubscriber, CloseWithFlush
<1> QED BY <1>1, <1>2, <1>3, <1>4 DEF StructInv

LEMMA DownTrackClosesKeeps ==
  ASSUME StructInv, NEW k \in SubTracks, DownTrackCloses(k)
  PROVE  StructInv'
<1>1. TypeOK'
  BY ZenonT(60), NoneIsNil, NoneIsNoSub, AllIsNoTrack, TrackOfType, WithoutType DEF StructInv, TypeOK,
     MediaTrackTypeOK, SubscriptionTypeOK, PubStates, Phases, DownTrackCloses, OnDownTrackClose
<1>2. (CallersHoldTrack /\ WorkerHolds /\ HandlersKnown)'
  BY NoneIsNil, NoneIsNoSub, AllIsNoTrack, TrackOfType, WithoutType DEF StructInv, TypeOK,
     MediaTrackTypeOK, SubscriptionTypeOK, CallersHoldTrack, WorkerHolds, HandlersKnown,
     Subscribing, DownTrackCloses, OnDownTrackClose
<1>3. MapHoldsLiveTracks'
  BY NoneIsNil, NoneIsNoSub, AllIsNoTrack, TrackOfType, WithoutType DEF StructInv, TypeOK,
     MediaTrackTypeOK, SubscriptionTypeOK, MapHoldsLiveTracks, WorkerHolds, Subscribing,
     DownTrackCloses, OnDownTrackClose
<1>4. ClosedTrackIsReleased'
  BY NoneIsNil, NoneIsNoSub, AllIsNoTrack, TrackOfType, WithoutType DEF StructInv, TypeOK,
     MediaTrackTypeOK, SubscriptionTypeOK, ClosedTrackIsReleased, MapHoldsLiveTracks,
     WorkerHolds, Subscribing, DownTrackCloses, OnDownTrackClose
<1> QED BY <1>1, <1>2, <1>3, <1>4 DEF StructInv

LEMMA CloseCallbackKeeps ==
  ASSUME StructInv, NEW k \in SubTracks, CloseCallback(k)
  PROVE  StructInv'
<1>1. TypeOK'
  <2>1. /\ subscribedTrack' \in [Subs -> SubTracks \cup {None}]
        /\ bound' \in [Subs -> BOOLEAN]
        /\ removedNotifier' \in [Subs -> {"nil", "current", "old"}]
        /\ unobserve' \in SUBSET Tracks
    <3>1. CASE subscribedTrack' = subscribedTrack
      BY <3>1, ClearNotifiersType DEF CloseCallback, StructInv, TypeOK, MediaTrackTypeOK,
         SubscriptionTypeOK
    <3>2. CASE onClose[k] # None /\ subscribedTrack[onClose[k]] # None
      <4>1. onClose[k] \in Subs
        BY <3>2 DEF StructInv, TypeOK, MediaTrackTypeOK, SubscriptionTypeOK
      <4>2. ClearNotifiers({onClose[k]})
        BY <3>2 DEF CloseCallback
      <4> QED BY ZenonT(60), <3>2, <4>1, <4>2, ClearNotifiersType DEF CloseCallback, StructInv, TypeOK,
         MediaTrackTypeOK, SubscriptionTypeOK
    <3>3. CASE onClose[k] = None \/ subscribedTrack[onClose[k]] = None
      BY <3>3 DEF CloseCallback, StructInv, TypeOK, MediaTrackTypeOK, SubscriptionTypeOK
    <3> QED BY <3>2, <3>3
  <2>2. phase' \in [SubTracks -> Phases] /\ sdp' \in SUBSET SubTracks
    BY DEF CloseCallback, StructInv, TypeOK, MediaTrackTypeOK, SubscriptionTypeOK, Phases
  <2> QED BY <2>1, <2>2 DEF CloseCallback, StructInv, TypeOK, MediaTrackTypeOK,
     SubscriptionTypeOK, PubStates, Phases
<1>2. (CallersHoldTrack /\ WorkerHolds /\ HandlersKnown)'
  BY NoneIsNil, NoneIsNoSub, AllIsNoTrack, TrackOfType, WithoutType DEF StructInv, TypeOK,
     MediaTrackTypeOK, SubscriptionTypeOK, CallersHoldTrack, WorkerHolds, HandlersKnown,
     Subscribing, CloseCallback, ClearNotifiers
<1>3. MapHoldsLiveTracks'
  BY NoneIsNil, NoneIsNoSub, AllIsNoTrack, TrackOfType, WithoutType DEF StructInv, TypeOK,
     MediaTrackTypeOK, SubscriptionTypeOK, MapHoldsLiveTracks, WorkerHolds, Subscribing,
     CloseCallback, ClearNotifiers
<1>4. ClosedTrackIsReleased'
  BY NoneIsNil, NoneIsNoSub, AllIsNoTrack, TrackOfType, WithoutType DEF StructInv, TypeOK,
     MediaTrackTypeOK, SubscriptionTypeOK, ClosedTrackIsReleased, MapHoldsLiveTracks,
     WorkerHolds, Subscribing, CloseCallback, ClearNotifiers
<1> QED BY <1>1, <1>2, <1>3, <1>4 DEF StructInv

LEMMA CloseUncountKeeps ==
  ASSUME StructInv, NEW k \in SubTracks, CloseUncount(k)
  PROVE  StructInv'
<1>1. TypeOK'
  BY NoneIsNil, NoneIsNoSub, AllIsNoTrack, TrackOfType, WithoutType DEF StructInv, TypeOK,
     MediaTrackTypeOK, SubscriptionTypeOK, PubStates, Phases, CloseUncount
<1>2. (CallersHoldTrack /\ WorkerHolds /\ HandlersKnown)'
  BY NoneIsNil, NoneIsNoSub, AllIsNoTrack, TrackOfType, WithoutType DEF StructInv, TypeOK,
     MediaTrackTypeOK, SubscriptionTypeOK, CallersHoldTrack, WorkerHolds, HandlersKnown,
     Subscribing, CloseUncount
<1>3. MapHoldsLiveTracks'
  BY NoneIsNil, NoneIsNoSub, AllIsNoTrack, TrackOfType, WithoutType DEF StructInv, TypeOK,
     MediaTrackTypeOK, SubscriptionTypeOK, MapHoldsLiveTracks, WorkerHolds, Subscribing,
     CloseUncount
<1>4. ClosedTrackIsReleased'
  BY NoneIsNil, NoneIsNoSub, AllIsNoTrack, TrackOfType, WithoutType DEF StructInv, TypeOK,
     MediaTrackTypeOK, SubscriptionTypeOK, ClosedTrackIsReleased, MapHoldsLiveTracks,
     WorkerHolds, Subscribing, CloseUncount
<1> QED BY <1>1, <1>2, <1>3, <1>4 DEF StructInv

LEMMA CloseReleaseKeeps ==
  ASSUME StructInv, NEW k \in SubTracks, CloseRelease(k)
  PROVE  StructInv'
<1>1. TypeOK'
  <2>1. onClose[k] \in Subs
    BY DEF CloseRelease, StructInv, HandlersKnown
  <2>2. reconcileCh' \in SUBSET (Tracks \cup {All})
    BY <2>1, queueReconcileType DEF CloseRelease, StructInv, TypeOK, MediaTrackTypeOK,
       SubscriptionTypeOK
  <2> QED BY <2>2 DEF CloseRelease, StructInv, TypeOK, MediaTrackTypeOK, SubscriptionTypeOK,
     PubStates, Phases
<1>2. (CallersHoldTrack /\ WorkerHolds /\ HandlersKnown)'
  BY NoneIsNil, NoneIsNoSub, AllIsNoTrack, TrackOfType, WithoutType DEF StructInv, TypeOK,
     MediaTrackTypeOK, SubscriptionTypeOK, CallersHoldTrack, WorkerHolds, HandlersKnown,
     Subscribing, CloseRelease, queueReconcile, Queue
<1>3. MapHoldsLiveTracks'
  BY NoneIsNil, NoneIsNoSub, AllIsNoTrack, TrackOfType, WithoutType DEF StructInv, TypeOK,
     MediaTrackTypeOK, SubscriptionTypeOK, MapHoldsLiveTracks, WorkerHolds, Subscribing,
     CloseRelease, queueReconcile, Queue
<1>4. ClosedTrackIsReleased'
  BY NoneIsNil, NoneIsNoSub, AllIsNoTrack, TrackOfType, WithoutType DEF StructInv, TypeOK,
     MediaTrackTypeOK, SubscriptionTypeOK, ClosedTrackIsReleased, MapHoldsLiveTracks,
     WorkerHolds, Subscribing, CloseRelease, queueReconcile, Queue
<1> QED BY <1>1, <1>2, <1>3, <1>4 DEF StructInv

LEMMA BindKeeps ==
  ASSUME StructInv, NEW k \in SubTracks, NEW o \in {"bound", "failed"}, Bind(k, o)
  PROVE  StructInv'
<1>1. TypeOK'
  BY NoneIsNil, NoneIsNoSub, AllIsNoTrack, TrackOfType, WithoutType DEF StructInv, TypeOK,
     MediaTrackTypeOK, SubscriptionTypeOK, PubStates, Phases, Bind
<1>2. (CallersHoldTrack /\ WorkerHolds /\ HandlersKnown)'
  BY NoneIsNil, NoneIsNoSub, AllIsNoTrack, TrackOfType, WithoutType DEF StructInv, TypeOK,
     MediaTrackTypeOK, SubscriptionTypeOK, CallersHoldTrack, WorkerHolds, HandlersKnown,
     Subscribing, Bind
<1>3. MapHoldsLiveTracks'
  BY NoneIsNil, NoneIsNoSub, AllIsNoTrack, TrackOfType, WithoutType DEF StructInv, TypeOK,
     MediaTrackTypeOK, SubscriptionTypeOK, MapHoldsLiveTracks, WorkerHolds, Subscribing, Bind
<1>4. ClosedTrackIsReleased'
  BY NoneIsNil, NoneIsNoSub, AllIsNoTrack, TrackOfType, WithoutType DEF StructInv, TypeOK,
     MediaTrackTypeOK, SubscriptionTypeOK, ClosedTrackIsReleased, MapHoldsLiveTracks,
     WorkerHolds, Subscribing, Bind
<1> QED BY <1>1, <1>2, <1>3, <1>4 DEF StructInv

LEMMA BindCallbackKeeps ==
  ASSUME StructInv, NEW k \in SubTracks, BindCallback(k)
  PROVE  StructInv'
<1>1. TypeOK'
  <2>1. onClose[k] \in Subs /\ subTrackID[onClose[k]] \in Tracks
    BY DEF BindCallback, StructInv, TypeOK, MediaTrackTypeOK, SubscriptionTypeOK
  <2>2. CASE binding[k] = "bound"
    BY ZenonT(60), <2>1, <2>2 DEF BindCallback, StructInv, TypeOK, MediaTrackTypeOK, SubscriptionTypeOK,
       PubStates, Phases
  <2>3. CASE binding[k] # "bound"
    <3>1. Unsubscribe(subTrackID[onClose[k]])
      BY <2>3 DEF BindCallback
    <3> QED BY <2>1, <2>3, <3>1, UnsubscribeType DEF BindCallback, StructInv, TypeOK,
       MediaTrackTypeOK, SubscriptionTypeOK, PubStates, Phases
  <2> QED BY <2>2, <2>3
<1>2. (CallersHoldTrack /\ WorkerHolds /\ HandlersKnown)'
  BY NoneIsNil, NoneIsNoSub, AllIsNoTrack, TrackOfType, WithoutType DEF StructInv, TypeOK,
     MediaTrackTypeOK, SubscriptionTypeOK, CallersHoldTrack, WorkerHolds, HandlersKnown,
     Subscribing, BindCallback, Unsubscribe, setDesired, ClearNotifiers, queueReconcile, Queue
<1>3. MapHoldsLiveTracks'
  BY NoneIsNil, NoneIsNoSub, AllIsNoTrack, TrackOfType, WithoutType DEF StructInv, TypeOK,
     MediaTrackTypeOK, SubscriptionTypeOK, MapHoldsLiveTracks, WorkerHolds, Subscribing,
     BindCallback, Unsubscribe, setDesired, ClearNotifiers, queueReconcile, Queue
<1>4. ClosedTrackIsReleased'
  BY NoneIsNil, NoneIsNoSub, AllIsNoTrack, TrackOfType, WithoutType DEF StructInv, TypeOK,
     MediaTrackTypeOK, SubscriptionTypeOK, ClosedTrackIsReleased, MapHoldsLiveTracks,
     WorkerHolds, Subscribing, BindCallback, Unsubscribe, setDesired, ClearNotifiers,
     queueReconcile, Queue
<1> QED BY <1>1, <1>2, <1>3, <1>4 DEF StructInv

LEMMA PublishKeeps ==
  ASSUME StructInv, NEW p \in Pubs, Publish(p)
  PROVE  StructInv'
<1>1. TypeOK'
  <2>1. reconcileCh' \in SUBSET (Tracks \cup {All})
    BY NotifyTrackChangedType, TrackOfType DEF Publish, StructInv, TypeOK, MediaTrackTypeOK,
       SubscriptionTypeOK
  <2>2. tracks' \in [Tracks -> Seq(Pubs)]
    <3>1. tracks' = [tracks EXCEPT ![TrackOf[p]] = Append(@, p)]
      BY DEF Publish, AddTrack
    <3>2. TrackOf[p] \in Tracks /\ tracks[TrackOf[p]] \in Seq(Pubs)
      BY TrackOfType DEF StructInv, TypeOK, MediaTrackTypeOK, SubscriptionTypeOK
    <3>3. Append(tracks[TrackOf[p]], p) \in Seq(Pubs)
      BY <3>2
    <3> QED BY <3>1, <3>2, <3>3 DEF StructInv, TypeOK, MediaTrackTypeOK, SubscriptionTypeOK
  <2> QED BY <2>1, <2>2 DEF Publish, AddTrack, managerUnchanged, StructInv, TypeOK,
     MediaTrackTypeOK, SubscriptionTypeOK, PubStates, Phases
<1>2. (CallersHoldTrack /\ WorkerHolds /\ HandlersKnown)'
  BY NoneIsNil, NoneIsNoSub, AllIsNoTrack, TrackOfType, WithoutType DEF StructInv, TypeOK,
     MediaTrackTypeOK, SubscriptionTypeOK, CallersHoldTrack, WorkerHolds, HandlersKnown,
     Subscribing, Publish, AddTrack, NotifyTrackChanged, Queue, managerUnchanged
<1>3. MapHoldsLiveTracks'
  BY NoneIsNil, NoneIsNoSub, AllIsNoTrack, TrackOfType, WithoutType DEF StructInv, TypeOK,
     MediaTrackTypeOK, SubscriptionTypeOK, MapHoldsLiveTracks, WorkerHolds, Subscribing,
     Publish, AddTrack, NotifyTrackChanged, Queue, managerUnchanged
<1>4. ClosedTrackIsReleased'
  BY NoneIsNil, NoneIsNoSub, AllIsNoTrack, TrackOfType, WithoutType DEF StructInv, TypeOK,
     MediaTrackTypeOK, SubscriptionTypeOK, ClosedTrackIsReleased, MapHoldsLiveTracks,
     WorkerHolds, Subscribing, Publish, AddTrack, NotifyTrackChanged, Queue, managerUnchanged
<1> QED BY <1>1, <1>2, <1>3, <1>4 DEF StructInv

LEMMA PublisherStepsKeeps ==
  ASSUME StructInv, NEW p \in Pubs, PublisherSteps(p)
  PROVE  StructInv'
<1>1. TypeOK'
  <2>1. CASE SetupReceiver(p)
    BY <2>1 DEF PublisherSteps, SetupReceiver, managerUnchanged, StructInv, TypeOK,
       MediaTrackTypeOK, SubscriptionTypeOK, PubStates, Phases
  <2>2. ASSUME NEW r \in BOOLEAN, SetClosing(p, r) PROVE TypeOK'
    BY <2>2 DEF PublisherSteps, SetClosing, managerUnchanged, StructInv, TypeOK,
       MediaTrackTypeOK, SubscriptionTypeOK, PubStates, Phases
  <2>3. CASE ClearAllReceivers(p)
    <3>1. expectResume[p] \in BOOLEAN
      BY DEF StructInv, TypeOK, MediaTrackTypeOK, SubscriptionTypeOK
    <3>2. phase' \in [SubTracks -> Phases] /\ resume' \in [SubTracks -> BOOLEAN]
      BY <2>3, <3>1, RemoveSubscriberType DEF ClearAllReceivers, StructInv
    <3> QED BY <2>3, <3>2 DEF PublisherSteps, ClearAllReceivers, managerUnchanged, StructInv,
       TypeOK, MediaTrackTypeOK, SubscriptionTypeOK, PubStates, Phases
  <2> QED BY <2>1, <2>2, <2>3 DEF PublisherSteps
<1>2. (CallersHoldTrack /\ WorkerHolds /\ HandlersKnown)'
  <2>1. CASE SetupReceiver(p)
    BY <2>1, NoneIsNil DEF PublisherSteps, SetupReceiver, managerUnchanged, StructInv, TypeOK,
       MediaTrackTypeOK, SubscriptionTypeOK, CallersHoldTrack, WorkerHolds, HandlersKnown,
       Subscribing
  <2>2. ASSUME NEW r \in BOOLEAN, SetClosing(p, r) PROVE (CallersHoldTrack /\
     WorkerHolds /\ HandlersKnown)'
    BY <2>2, NoneIsNil DEF PublisherSteps, SetClosing, StateOpen, managerUnchanged, StructInv,
       TypeOK, MediaTrackTypeOK, SubscriptionTypeOK, CallersHoldTrack, WorkerHolds,
       HandlersKnown, Subscribing
  <2>3. CASE ClearAllReceivers(p)
    BY <2>3, NoneIsNil DEF PublisherSteps, ClearAllReceivers, RemoveSubscriber, CloseWithFlush,
       managerUnchanged, StructInv, TypeOK, MediaTrackTypeOK, SubscriptionTypeOK,
       CallersHoldTrack, WorkerHolds, HandlersKnown, Subscribing
  <2> QED BY <2>1, <2>2, <2>3 DEF PublisherSteps
<1>3. MapHoldsLiveTracks'
  <2>1. CASE SetupReceiver(p)
    BY <2>1, NoneIsNil DEF PublisherSteps, SetupReceiver, managerUnchanged, StructInv, TypeOK,
       MediaTrackTypeOK, SubscriptionTypeOK, MapHoldsLiveTracks, WorkerHolds, Subscribing
  <2>2. ASSUME NEW r \in BOOLEAN, SetClosing(p, r) PROVE MapHoldsLiveTracks'
    BY <2>2, NoneIsNil DEF PublisherSteps, SetClosing, StateOpen, managerUnchanged, StructInv,
       TypeOK, MediaTrackTypeOK, SubscriptionTypeOK, MapHoldsLiveTracks, WorkerHolds,
       Subscribing
  <2>3. CASE ClearAllReceivers(p)
    BY <2>3, NoneIsNil DEF PublisherSteps, ClearAllReceivers, RemoveSubscriber, CloseWithFlush,
       managerUnchanged, StructInv, TypeOK, MediaTrackTypeOK, SubscriptionTypeOK,
       MapHoldsLiveTracks, WorkerHolds, Subscribing
  <2> QED BY <2>1, <2>2, <2>3 DEF PublisherSteps
<1>4. ClosedTrackIsReleased'
  <2>1. CASE SetupReceiver(p)
    BY <2>1, NoneIsNil DEF PublisherSteps, SetupReceiver, managerUnchanged, StructInv, TypeOK,
       MediaTrackTypeOK, SubscriptionTypeOK, ClosedTrackIsReleased, MapHoldsLiveTracks,
       WorkerHolds, Subscribing
  <2>2. ASSUME NEW r \in BOOLEAN, SetClosing(p, r) PROVE ClosedTrackIsReleased'
    BY <2>2, NoneIsNil DEF PublisherSteps, SetClosing, StateOpen, managerUnchanged, StructInv,
       TypeOK, MediaTrackTypeOK, SubscriptionTypeOK, ClosedTrackIsReleased, MapHoldsLiveTracks,
       WorkerHolds, Subscribing
  <2>3. CASE ClearAllReceivers(p)
    BY <2>3, NoneIsNil DEF PublisherSteps, ClearAllReceivers, RemoveSubscriber, CloseWithFlush,
       managerUnchanged, StructInv, TypeOK, MediaTrackTypeOK, SubscriptionTypeOK,
       ClosedTrackIsReleased, MapHoldsLiveTracks, WorkerHolds, Subscribing
  <2> QED BY <2>1, <2>2, <2>3 DEF PublisherSteps
<1> QED BY <1>1, <1>2, <1>3, <1>4 DEF StructInv

LEMMA RevokeKeeps ==
  ASSUME StructInv, NEW t \in Tracks, Revoke(t)
  PROVE  StructInv'
<1>1. TypeOK'
  BY ZenonT(60), NoneIsNil, NoneIsNoSub, AllIsNoTrack, TrackOfType, WithoutType DEF StructInv, TypeOK,
     MediaTrackTypeOK, SubscriptionTypeOK, PubStates, Phases, Revoke, RevokePermission,
     CloseWithFlush, NotifyTrackChanged, Queue, managerUnchanged
<1>2. (CallersHoldTrack /\ WorkerHolds /\ HandlersKnown)'
  BY NoneIsNil, NoneIsNoSub, AllIsNoTrack, TrackOfType, WithoutType DEF StructInv, TypeOK,
     MediaTrackTypeOK, SubscriptionTypeOK, CallersHoldTrack, WorkerHolds, HandlersKnown,
     Subscribing, Revoke, RevokePermission, CloseWithFlush, NotifyTrackChanged, Queue,
     managerUnchanged
<1>3. MapHoldsLiveTracks'
  BY NoneIsNil, NoneIsNoSub, AllIsNoTrack, TrackOfType, WithoutType DEF StructInv, TypeOK,
     MediaTrackTypeOK, SubscriptionTypeOK, MapHoldsLiveTracks, WorkerHolds, Subscribing, Revoke,
     RevokePermission, CloseWithFlush, NotifyTrackChanged, Queue, managerUnchanged
<1>4. ClosedTrackIsReleased'
  BY NoneIsNil, NoneIsNoSub, AllIsNoTrack, TrackOfType, WithoutType DEF StructInv, TypeOK,
     MediaTrackTypeOK, SubscriptionTypeOK, ClosedTrackIsReleased, MapHoldsLiveTracks,
     WorkerHolds, Subscribing, Revoke, RevokePermission, CloseWithFlush, NotifyTrackChanged,
     Queue, managerUnchanged
<1> QED BY <1>1, <1>2, <1>3, <1>4 DEF StructInv

LEMMA GrantKeeps ==
  ASSUME StructInv, NEW t \in Tracks, Grant(t)
  PROVE  StructInv'
<1>1. TypeOK'
  BY NoneIsNil, NoneIsNoSub, AllIsNoTrack, TrackOfType, WithoutType DEF StructInv, TypeOK,
     MediaTrackTypeOK, SubscriptionTypeOK, PubStates, Phases, Grant, GrantPermission,
     NotifyTrackChanged, Queue, managerUnchanged
<1>2. (CallersHoldTrack /\ WorkerHolds /\ HandlersKnown)'
  BY NoneIsNil, NoneIsNoSub, AllIsNoTrack, TrackOfType, WithoutType DEF StructInv, TypeOK,
     MediaTrackTypeOK, SubscriptionTypeOK, CallersHoldTrack, WorkerHolds, HandlersKnown,
     Subscribing, Grant, GrantPermission, NotifyTrackChanged, Queue, managerUnchanged
<1>3. MapHoldsLiveTracks'
  BY NoneIsNil, NoneIsNoSub, AllIsNoTrack, TrackOfType, WithoutType DEF StructInv, TypeOK,
     MediaTrackTypeOK, SubscriptionTypeOK, MapHoldsLiveTracks, WorkerHolds, Subscribing, Grant,
     GrantPermission, NotifyTrackChanged, Queue, managerUnchanged
<1>4. ClosedTrackIsReleased'
  BY NoneIsNil, NoneIsNoSub, AllIsNoTrack, TrackOfType, WithoutType DEF StructInv, TypeOK,
     MediaTrackTypeOK, SubscriptionTypeOK, ClosedTrackIsReleased, MapHoldsLiveTracks,
     WorkerHolds, Subscribing, Grant, GrantPermission, NotifyTrackChanged, Queue,
     managerUnchanged
<1> QED BY <1>1, <1>2, <1>3, <1>4 DEF StructInv

LEMMA UnpublishKeeps ==
  ASSUME StructInv, NEW p \in Pubs, Unpublish(p)
  PROVE  StructInv'
<1>1. TypeOK'
  BY ZenonT(60), NoneIsNil, NoneIsNoSub, AllIsNoTrack, TrackOfType, WithoutType DEF StructInv, TypeOK,
     MediaTrackTypeOK, SubscriptionTypeOK, PubStates, Phases, Unpublish, RemoveTrack
<1>2. (CallersHoldTrack /\ WorkerHolds /\ HandlersKnown)'
  BY NoneIsNil, NoneIsNoSub, AllIsNoTrack, TrackOfType, WithoutType DEF StructInv, TypeOK,
     MediaTrackTypeOK, SubscriptionTypeOK, CallersHoldTrack, WorkerHolds, HandlersKnown,
     Subscribing, Unpublish, RemoveTrack
<1>3. MapHoldsLiveTracks'
  BY NoneIsNil, NoneIsNoSub, AllIsNoTrack, TrackOfType, WithoutType DEF StructInv, TypeOK,
     MediaTrackTypeOK, SubscriptionTypeOK, MapHoldsLiveTracks, WorkerHolds, Subscribing,
     Unpublish, RemoveTrack
<1>4. ClosedTrackIsReleased'
  BY NoneIsNil, NoneIsNoSub, AllIsNoTrack, TrackOfType, WithoutType DEF StructInv, TypeOK,
     MediaTrackTypeOK, SubscriptionTypeOK, ClosedTrackIsReleased, MapHoldsLiveTracks,
     WorkerHolds, Subscribing, Unpublish, RemoveTrack
<1> QED BY <1>1, <1>2, <1>3, <1>4 DEF StructInv

LEMMA RemoveObserverKeeps ==
  ASSUME StructInv, NEW t \in Tracks, RemoveObserver(t)
  PROVE  StructInv'
<1>1. TypeOK'
  BY NoneIsNil, NoneIsNoSub, AllIsNoTrack, TrackOfType, WithoutType DEF StructInv, TypeOK,
     MediaTrackTypeOK, SubscriptionTypeOK, PubStates, Phases, RemoveObserver
<1>2. (CallersHoldTrack /\ WorkerHolds /\ HandlersKnown)'
  BY NoneIsNil, NoneIsNoSub, AllIsNoTrack, TrackOfType, WithoutType DEF StructInv, TypeOK,
     MediaTrackTypeOK, SubscriptionTypeOK, CallersHoldTrack, WorkerHolds, HandlersKnown,
     Subscribing, RemoveObserver
<1>3. MapHoldsLiveTracks'
  BY NoneIsNil, NoneIsNoSub, AllIsNoTrack, TrackOfType, WithoutType DEF StructInv, TypeOK,
     MediaTrackTypeOK, SubscriptionTypeOK, MapHoldsLiveTracks, WorkerHolds, Subscribing,
     RemoveObserver
<1>4. ClosedTrackIsReleased'
  BY NoneIsNil, NoneIsNoSub, AllIsNoTrack, TrackOfType, WithoutType DEF StructInv, TypeOK,
     MediaTrackTypeOK, SubscriptionTypeOK, ClosedTrackIsReleased, MapHoldsLiveTracks,
     WorkerHolds, Subscribing, RemoveObserver
<1> QED BY <1>1, <1>2, <1>3, <1>4 DEF StructInv

LEMMA RemovedResolveKeeps ==
  ASSUME StructInv, NEW t \in Tracks, RemovedResolve(t)
  PROVE  StructInv'
<1>1. TypeOK'
  BY NoneIsNil, NoneIsNoSub, AllIsNoTrack, TrackOfType, WithoutType DEF StructInv, TypeOK,
     MediaTrackTypeOK, SubscriptionTypeOK, PubStates, Phases, RemovedResolve
<1>2. (CallersHoldTrack /\ WorkerHolds /\ HandlersKnown)'
  BY NoneIsNil, NoneIsNoSub, AllIsNoTrack, TrackOfType, WithoutType DEF StructInv, TypeOK,
     MediaTrackTypeOK, SubscriptionTypeOK, CallersHoldTrack, WorkerHolds, HandlersKnown,
     Subscribing, RemovedResolve
<1>3. MapHoldsLiveTracks'
  BY NoneIsNil, NoneIsNoSub, AllIsNoTrack, TrackOfType, WithoutType DEF StructInv, TypeOK,
     MediaTrackTypeOK, SubscriptionTypeOK, MapHoldsLiveTracks, WorkerHolds, Subscribing,
     RemovedResolve
<1>4. ClosedTrackIsReleased'
  BY NoneIsNil, NoneIsNoSub, AllIsNoTrack, TrackOfType, WithoutType DEF StructInv, TypeOK,
     MediaTrackTypeOK, SubscriptionTypeOK, ClosedTrackIsReleased, MapHoldsLiveTracks,
     WorkerHolds, Subscribing, RemovedResolve
<1> QED BY <1>1, <1>2, <1>3, <1>4 DEF StructInv

LEMMA handleSourceTrackRemovedKeeps ==
  ASSUME StructInv, NEW t \in Tracks, handleSourceTrackRemoved(t)
  PROVE  StructInv'
<1>1. TypeOK'
  <2>1. ClearNotifiers({subscriptions[t]} \ {None})
    BY DEF handleSourceTrackRemoved
  <2>2. {subscriptions[t]} \ {None} \in SUBSET Subs
    BY DEF StructInv, TypeOK, MediaTrackTypeOK, SubscriptionTypeOK
  <2> QED BY ZenonT(60), <2>1, <2>2, ClearNotifiersType DEF handleSourceTrackRemoved, StructInv, TypeOK,
     MediaTrackTypeOK, SubscriptionTypeOK, PubStates, Phases
<1>2. (CallersHoldTrack /\ WorkerHolds /\ HandlersKnown)'
  BY NoneIsNil, NoneIsNoSub, AllIsNoTrack, TrackOfType, WithoutType DEF StructInv, TypeOK,
     MediaTrackTypeOK, SubscriptionTypeOK, CallersHoldTrack, WorkerHolds, HandlersKnown,
     Subscribing, handleSourceTrackRemoved, ClearNotifiers
<1>3. MapHoldsLiveTracks'
  BY NoneIsNil, NoneIsNoSub, AllIsNoTrack, TrackOfType, WithoutType DEF StructInv, TypeOK,
     MediaTrackTypeOK, SubscriptionTypeOK, MapHoldsLiveTracks, WorkerHolds, Subscribing,
     handleSourceTrackRemoved, ClearNotifiers
<1>4. ClosedTrackIsReleased'
  BY NoneIsNil, NoneIsNoSub, AllIsNoTrack, TrackOfType, WithoutType DEF StructInv, TypeOK,
     MediaTrackTypeOK, SubscriptionTypeOK, ClosedTrackIsReleased, MapHoldsLiveTracks,
     WorkerHolds, Subscribing, handleSourceTrackRemoved, ClearNotifiers
<1> QED BY <1>1, <1>2, <1>3, <1>4 DEF StructInv

LEMMA CloseBeginKeeps ==
  ASSUME StructInv, CloseBegin
  PROVE  StructInv'
<1>1. TypeOK'
  BY NoneIsNil, NoneIsNoSub, AllIsNoTrack, TrackOfType, WithoutType DEF StructInv, TypeOK,
     MediaTrackTypeOK, SubscriptionTypeOK, PubStates, Phases, CloseBegin
<1>2. (CallersHoldTrack /\ WorkerHolds /\ HandlersKnown)'
  BY NoneIsNil, NoneIsNoSub, AllIsNoTrack, TrackOfType, WithoutType DEF StructInv, TypeOK,
     MediaTrackTypeOK, SubscriptionTypeOK, CallersHoldTrack, WorkerHolds, HandlersKnown,
     Subscribing, CloseBegin
<1>3. MapHoldsLiveTracks'
  BY NoneIsNil, NoneIsNoSub, AllIsNoTrack, TrackOfType, WithoutType DEF StructInv, TypeOK,
     MediaTrackTypeOK, SubscriptionTypeOK, MapHoldsLiveTracks, WorkerHolds, Subscribing,
     CloseBegin
<1>4. ClosedTrackIsReleased'
  BY NoneIsNil, NoneIsNoSub, AllIsNoTrack, TrackOfType, WithoutType DEF StructInv, TypeOK,
     MediaTrackTypeOK, SubscriptionTypeOK, ClosedTrackIsReleased, MapHoldsLiveTracks,
     WorkerHolds, Subscribing, CloseBegin
<1> QED BY <1>1, <1>2, <1>3, <1>4 DEF StructInv

LEMMA CloseFinishKeeps ==
  ASSUME StructInv, NEW r \in BOOLEAN, CloseFinish(r)
  PROVE  StructInv'
<1>1. TypeOK'
  <2>1. /\ removedNotifier' \in [Subs -> {"nil", "current", "old"}]
        /\ unobserve' \in SUBSET Tracks
    <3>1. ClearNotifiers({subscriptions[t] : t \in Tracks} \ {None})
      BY DEF CloseFinish
    <3>2. {subscriptions[t] : t \in Tracks} \ {None} \in SUBSET Subs
      BY DEF StructInv, TypeOK, MediaTrackTypeOK, SubscriptionTypeOK
    <3> QED BY <3>1, <3>2, ClearNotifiersType DEF StructInv
  <2>2. phase' \in [SubTracks -> Phases] /\ resume' \in [SubTracks -> BOOLEAN]
    BY CloseWithFlushType DEF CloseFinish, StructInv
  <2>3. desired' \in [Subs -> BOOLEAN]
    BY DEF CloseFinish, StructInv, TypeOK, MediaTrackTypeOK, SubscriptionTypeOK
  <2> QED BY <2>1, <2>2, <2>3 DEF CloseFinish, StructInv, TypeOK, MediaTrackTypeOK,
     SubscriptionTypeOK, PubStates, Phases
<1>2. (CallersHoldTrack /\ WorkerHolds /\ HandlersKnown)'
  BY NoneIsNil, NoneIsNoSub, AllIsNoTrack, TrackOfType, WithoutType DEF StructInv, TypeOK,
     MediaTrackTypeOK, SubscriptionTypeOK, CallersHoldTrack, WorkerHolds, HandlersKnown,
     Subscribing, CloseFinish, ClearNotifiers, CloseWithFlush
<1>3. MapHoldsLiveTracks'
  BY NoneIsNil, NoneIsNoSub, AllIsNoTrack, TrackOfType, WithoutType DEF StructInv, TypeOK,
     MediaTrackTypeOK, SubscriptionTypeOK, MapHoldsLiveTracks, WorkerHolds, Subscribing,
     CloseFinish, ClearNotifiers, CloseWithFlush
<1>4. ClosedTrackIsReleased'
  BY NoneIsNil, NoneIsNoSub, AllIsNoTrack, TrackOfType, WithoutType DEF StructInv, TypeOK,
     MediaTrackTypeOK, SubscriptionTypeOK, ClosedTrackIsReleased, MapHoldsLiveTracks,
     WorkerHolds, Subscribing, CloseFinish, ClearNotifiers, CloseWithFlush
<1> QED BY <1>1, <1>2, <1>3, <1>4 DEF StructInv

LEMMA StutterKeeps ==
  ASSUME StructInv, UNCHANGED vars
  PROVE  StructInv'
  BY DEF StructInv, TypeOK, MediaTrackTypeOK, SubscriptionTypeOK, CallersHoldTrack, WorkerHolds,
     HandlersKnown, Subscribing, MapHoldsLiveTracks, ClosedTrackIsReleased, vars

LEMMA StructNext ==
  ASSUME StructInv, [Next]_vars
  PROVE  StructInv'
<1>1. CASE UNCHANGED vars
  BY <1>1, StutterKeeps
<1>2. CASE WorkerStep
  BY <1>2, WorkerTickKeeps, WorkerReceiveKeeps, WorkerExitKeeps, WorkerLoopEndKeeps,
     ReconcileSkipKeeps, ReconcileCleanupKeeps, ReconcileUnsubscribeKeeps, SubscribeFailsKeeps,
     SubscribeResolvesKeeps, AddCheckKeeps, AddInsertKeeps, AddRecheckKeeps, AddHookKeeps,
     AddAttachKeeps, AddCountKeeps, AddMarkKeeps DEF WorkerStep, ReconcileStep, AddStep
<1>3. CASE \E k \in SubTracks : CloserStep(k)
  BY <1>3, DownTrackClosesKeeps, CloseCallbackKeeps, CloseUncountKeeps, CloseReleaseKeeps DEF
     CloserStep
<1>4. CASE \E c \in Callers : CallerStep(c)
  BY <1>4, SubscribeInsertKeeps, SubscribeDesireKeeps DEF CallerStep
<1>5. CASE \E p \in Pubs : Remover(p)
  BY <1>5, RemoverKeeps
<1>6. CASE \E t \in Tracks : NotifierStep(t)
  BY <1>6, RemoveObserverKeeps, RemovedResolveKeeps, handleSourceTrackRemovedKeeps DEF
     NotifierStep
<1>7. CASE ClientStep
  BY <1>7, SubscribeToTrackKeeps, UnsubscribeFromTrackKeeps, UpdateSubscribedTrackSettingsKeeps,
     ClearAllSubscriptionsKeeps DEF ClientStep
<1>8. CASE PublisherStep \/ PermissionStep
  BY <1>8, PublishKeeps, PublisherStepsKeeps, UnpublishKeeps, RevokeKeeps, GrantKeeps DEF
     PublisherStep, PermissionStep
<1>9. CASE BindStep \/ CloseStep
  BY <1>9, BindKeeps, BindCallbackKeeps, CloseBeginKeeps, CloseFinishKeeps DEF BindStep,
     CloseStep
<1> QED BY <1>1, <1>2, <1>3, <1>4, <1>5, <1>6, <1>7, <1>8, <1>9 DEF Next

LEMMA StructInit == Init => StructInv
<1> SUFFICES ASSUME Init PROVE StructInv
  OBVIOUS
<1>1. TypeOK
  BY TypeInit
<1> QED BY <1>1, NoneIsNil DEF Init, MediaTrackInit, StructInv, CallersHoldTrack, WorkerHolds,
   HandlersKnown, Subscribing, MapHoldsLiveTracks, ClosedTrackIsReleased

(* The structural invariant holds in every reachable state.                 *)
THEOREM StructInvariant == Spec => []StructInv
  BY StructInit, StructNext, PTL DEF Spec

(* Every variable stays in its type.                                        *)
THEOREM TypeCorrect == Spec => []TypeOK
<1>1. StructInv => TypeOK
  BY DEF StructInv
<1> QED BY <1>1, StructInvariant, PTL

(* The entries of MediaTrackSubscriptions.subscribedTracks are exactly the  *)
(* SubscribedTracks whose close has not been reported: the deletion by      *)
(* subscriber ID never deletes the entry of a newer SubscribedTrack.        *)
THEOREM MapExact == Spec => []MapHoldsLiveTracks
<1>1. StructInv => MapHoldsLiveTracks
  BY DEF StructInv
<1> QED BY <1>1, StructInvariant, PTL

(* The second look of MediaTrackReceiver.AddSubscriber closes the race with *)
(* SetClosing and ClearAllReceivers, for any number of publications and     *)
(* subscribers' goroutines.                                                 *)
THEOREM ClosedTrackReleased == Spec => []ClosedTrackIsReleased
<1>1. StructInv => ClosedTrackIsReleased
  BY DEF StructInv
<1> QED BY <1>1, StructInvariant, PTL

-----------------------------------------------------------------------------
(* The counter against the tracks actually attached: it lags by the track   *)
(* being added and leads by those being detached.  From the check of the    *)
(* limit to the attach the subscription being added has no track and the    *)
(* counter stays below the limit.                                           *)
Uncounting == {k \in SubTracks : phase[k] = "uncount"}
Uncounted  == IF wpc = "inc" THEN 1 ELSE 0
Adding     == {"check", "insert", "recheck", "hook", "attach"}

CountExact == count = Cardinality(Attached) + Cardinality(Uncounting) - Uncounted

AddingInv ==
  /\ wpc \in Adding => subscribedTrack[wsub] = None
  /\ Limit > 0 => /\ wpc \in Adding \cup {"inc"} => count < Limit
                  /\ count <= Limit

LimitInv == CountExact /\ AddingInv

LEMMA CardsAreNat ==
  ASSUME TypeOK
  PROVE  /\ IsFiniteSet(Attached) /\ Cardinality(Attached) \in Nat
         /\ IsFiniteSet(Uncounting) /\ Cardinality(Uncounting) \in Nat
         /\ count \in Int
<1>1. IsFiniteSet(Attached) /\ IsFiniteSet(Uncounting)
  BY ObjectsFinite, FS_Subset DEF Attached, Uncounting
<1> QED BY <1>1, FS_CardinalityType DEF TypeOK, SubscriptionTypeOK

(* Steps that neither attach nor detach nor count.                          *)
LEMMA LimitFrame ==
  ASSUME TypeOK, LimitInv, UNCHANGED <<subscribedTrack, count>>,
         \A k \in SubTracks : (phase'[k] = "uncount") <=> (phase[k] = "uncount"),
         (wpc' = "inc") <=> (wpc = "inc"),
         wpc' \in Adding => wpc \in Adding /\ wsub' = wsub
  PROVE  LimitInv'
<1>1. Attached' = Attached /\ Uncounting' = Uncounting /\ Uncounted' = Uncounted
  BY DEF Attached, Uncounting, Uncounted
<1> QED BY <1>1 DEF LimitInv, CountExact, AddingInv, Adding

LEMMA LimitNext ==
  ASSUME StructInv, LimitInv, [Next]_vars
  PROVE  LimitInv'
<1>0. TypeOK /\ Limit \in Nat
  BY LimitIsNat DEF StructInv
<1>1. ASSUME NEW c \in Callers, NEW t \in Tracks, SubscribeToTrack(c, t) PROVE LimitInv'
  BY <1>0, <1>1, LimitFrame DEF SubscribeToTrack, setDesired, queueReconcile, Queue, TypeOK,
     MediaTrackTypeOK, SubscriptionTypeOK, Adding
<1>2. ASSUME NEW c \in Callers, SubscribeInsert(c) PROVE LimitInv'
  BY <1>0, <1>2, LimitFrame DEF SubscribeInsert, newMediaTrackSubscription, Unreferenced,
     TypeOK, MediaTrackTypeOK, SubscriptionTypeOK, Adding
<1>3. ASSUME NEW c \in Callers, SubscribeDesire(c) PROVE LimitInv'
  BY <1>0, <1>3, LimitFrame DEF SubscribeDesire, setDesired, queueReconcile, Queue, TypeOK,
     MediaTrackTypeOK, SubscriptionTypeOK, Adding
<1>4. ASSUME NEW c \in Callers, NEW t \in Tracks, UnsubscribeFromTrack(c, t) PROVE
   LimitInv'
  BY <1>0, <1>4, LimitFrame DEF UnsubscribeFromTrack, Unsubscribe, setDesired, ClearNotifiers,
     queueReconcile, Queue, TypeOK, MediaTrackTypeOK, SubscriptionTypeOK, Adding
<1>5. ASSUME NEW c \in Callers, ClearAllSubscriptions(c) PROVE LimitInv'
  BY <1>0, <1>5, LimitFrame DEF ClearAllSubscriptions, setDesired, ClearNotifiers,
     queueReconcile, Queue, TypeOK, MediaTrackTypeOK, SubscriptionTypeOK, Adding
<1>6. ASSUME NEW c \in Callers, NEW t \in Tracks, UpdateSubscribedTrackSettings(c, t)
   PROVE LimitInv'
  BY <1>0, <1>6, LimitFrame DEF UpdateSubscribedTrackSettings, newMediaTrackSubscription,
     TypeOK, MediaTrackTypeOK, SubscriptionTypeOK, Adding
<1>7. ASSUME WorkerTick PROVE LimitInv'
  BY <1>0, <1>7, LimitFrame DEF WorkerTick, NeedsReconcile, TypeOK, MediaTrackTypeOK,
     SubscriptionTypeOK, Adding
<1>8. ASSUME NEW t \in Tracks \cup {All}, WorkerReceive(t) PROVE LimitInv'
  BY <1>0, <1>8, LimitFrame DEF WorkerReceive, NeedsReconcile, TypeOK, MediaTrackTypeOK,
     SubscriptionTypeOK, Adding
<1>9. ASSUME WorkerExit PROVE LimitInv'
  BY <1>0, <1>9, LimitFrame DEF WorkerExit, TypeOK, MediaTrackTypeOK, SubscriptionTypeOK, Adding
<1>10. ASSUME WorkerLoopEnd PROVE LimitInv'
  BY <1>0, <1>10, LimitFrame DEF WorkerLoopEnd, TypeOK, MediaTrackTypeOK, SubscriptionTypeOK,
     Adding
<1>11. ASSUME NEW s \in Subs, ReconcileSkip(s) PROVE LimitInv'
  BY <1>0, <1>11, LimitFrame DEF ReconcileSkip, queueReconcile, Queue, TypeOK, MediaTrackTypeOK,
     SubscriptionTypeOK, Adding
<1>12. ASSUME NEW s \in Subs, ReconcileCleanup(s) PROVE LimitInv'
  BY <1>0, <1>12, LimitFrame DEF ReconcileCleanup, TypeOK, MediaTrackTypeOK, SubscriptionTypeOK,
     Adding
<1>13. ASSUME NEW s \in Subs, ReconcileUnsubscribe(s) PROVE LimitInv'
  BY <1>0, <1>13, LimitFrame DEF ReconcileUnsubscribe, needsUnsubscribe, TypeOK,
     MediaTrackTypeOK, SubscriptionTypeOK, Adding
<1>14. ASSUME NEW s \in Subs, SubscribeFails(s) PROVE LimitInv'
  BY <1>0, <1>14, LimitFrame DEF SubscribeFails, setDesired, ClearNotifiers, queueReconcile,
     Queue, ObserveRemoval, TypeOK, MediaTrackTypeOK, SubscriptionTypeOK, Adding
<1>15. ASSUME AddCheck PROVE LimitInv'
  BY <1>0, <1>15, LimitFrame DEF AddCheck, AddUnchanged, SubscribeDone, TypeOK,
     MediaTrackTypeOK, SubscriptionTypeOK, Adding
<1>16. ASSUME AddInsert PROVE LimitInv'
  BY <1>0, <1>16, LimitFrame DEF AddInsert, AddUnchanged, NewSubscribedTrack, ClosedForGood,
     TypeOK, MediaTrackTypeOK, SubscriptionTypeOK, Adding
<1>17. ASSUME AddRecheck PROVE LimitInv'
  BY <1>0, <1>17, LimitFrame DEF AddRecheck, AddUnchanged, SubscribeDone, StateOpen,
     RemoveSubscriber, CloseWithFlush, TypeOK, MediaTrackTypeOK, SubscriptionTypeOK, Adding
<1>18. ASSUME AddHook PROVE LimitInv'
  BY <1>0, <1>18, LimitFrame DEF AddHook, AddUnchanged, TypeOK, MediaTrackTypeOK,
     SubscriptionTypeOK, Adding
<1>19. ASSUME AddMark PROVE LimitInv'
  BY <1>0, <1>19, LimitFrame DEF AddMark, AddUnchanged, SubscribeDone, TypeOK, MediaTrackTypeOK,
     SubscriptionTypeOK, Adding
<1>20. ASSUME NEW p \in Pubs, Remover(p) PROVE LimitInv'
  BY <1>0, <1>20, LimitFrame DEF Remover, RemoveSubscriber, CloseWithFlush, TypeOK,
     MediaTrackTypeOK, SubscriptionTypeOK, Adding
<1>21. ASSUME NEW k \in SubTracks, DownTrackCloses(k) PROVE LimitInv'
  BY <1>0, <1>21, LimitFrame DEF DownTrackCloses, OnDownTrackClose, TypeOK, MediaTrackTypeOK,
     SubscriptionTypeOK, Adding
<1>22. ASSUME NEW k \in SubTracks, CloseRelease(k) PROVE LimitInv'
  BY <1>0, <1>22, LimitFrame DEF CloseRelease, queueReconcile, Queue, TypeOK, MediaTrackTypeOK,
     SubscriptionTypeOK, Adding
<1>23. ASSUME NEW k \in SubTracks, NEW o \in {"bound", "failed"}, Bind(k, o) PROVE
   LimitInv'
  BY <1>0, <1>23, LimitFrame DEF Bind, TypeOK, MediaTrackTypeOK, SubscriptionTypeOK, Adding
<1>24. ASSUME NEW k \in SubTracks, BindCallback(k) PROVE LimitInv'
  BY <1>0, <1>24, LimitFrame DEF BindCallback, Unsubscribe, setDesired, ClearNotifiers,
     queueReconcile, Queue, TypeOK, MediaTrackTypeOK, SubscriptionTypeOK, Adding
<1>25. ASSUME NEW p \in Pubs, Publish(p) PROVE LimitInv'
  BY <1>0, <1>25, LimitFrame DEF Publish, AddTrack, NotifyTrackChanged, Queue, managerUnchanged,
     TypeOK, MediaTrackTypeOK, SubscriptionTypeOK, Adding
<1>26. ASSUME NEW p \in Pubs, PublisherSteps(p) PROVE LimitInv'
  <2>1. \A k \in SubTracks : (phase'[k] = "uncount") <=> (phase[k] = "uncount")
    <3>1. CASE ClearAllReceivers(p)
      BY <1>0, <3>1 DEF ClearAllReceivers, RemoveSubscriber, CloseWithFlush, TypeOK,
         MediaTrackTypeOK
    <3> QED BY <1>26, <3>1 DEF PublisherSteps, SetupReceiver, SetClosing
  <2> QED BY <1>0, <1>26, <2>1, LimitFrame DEF PublisherSteps, managerUnchanged, Adding
<1>27. ASSUME NEW t \in Tracks, Revoke(t) PROVE LimitInv'
  BY <1>0, <1>27, LimitFrame DEF Revoke, RevokePermission, CloseWithFlush, NotifyTrackChanged,
     Queue, managerUnchanged, TypeOK, MediaTrackTypeOK, SubscriptionTypeOK, Adding
<1>28. ASSUME NEW t \in Tracks, Grant(t) PROVE LimitInv'
  BY <1>0, <1>28, LimitFrame DEF Grant, GrantPermission, NotifyTrackChanged, Queue,
     managerUnchanged, TypeOK, MediaTrackTypeOK, SubscriptionTypeOK, Adding
<1>29. ASSUME NEW p \in Pubs, Unpublish(p) PROVE LimitInv'
  BY <1>0, <1>29, LimitFrame DEF Unpublish, RemoveTrack, TypeOK, MediaTrackTypeOK,
     SubscriptionTypeOK, Adding
<1>30. ASSUME NEW t \in Tracks, RemoveObserver(t) PROVE LimitInv'
  BY <1>0, <1>30, LimitFrame DEF RemoveObserver, TypeOK, MediaTrackTypeOK, SubscriptionTypeOK,
     Adding
<1>31. ASSUME NEW t \in Tracks, RemovedResolve(t) PROVE LimitInv'
  BY <1>0, <1>31, LimitFrame DEF RemovedResolve, TypeOK, MediaTrackTypeOK, SubscriptionTypeOK,
     Adding
<1>32. ASSUME NEW t \in Tracks, handleSourceTrackRemoved(t) PROVE LimitInv'
  BY <1>0, <1>32, LimitFrame DEF handleSourceTrackRemoved, ClearNotifiers, TypeOK,
     MediaTrackTypeOK, SubscriptionTypeOK, Adding
<1>33. ASSUME CloseBegin PROVE LimitInv'
  BY <1>0, <1>33, LimitFrame DEF CloseBegin, TypeOK, MediaTrackTypeOK, SubscriptionTypeOK,
     Adding
<1>34. ASSUME NEW r \in BOOLEAN, CloseFinish(r) PROVE LimitInv'
  BY <1>0, <1>34, LimitFrame DEF CloseFinish, ClearNotifiers, CloseWithFlush, TypeOK,
     MediaTrackTypeOK, SubscriptionTypeOK, Adding
<1>35. ASSUME NEW s \in Subs, SubscribeResolves(s) PROVE LimitInv'
  <2>1. subscribedTrack[s] = None /\ (Limit > 0 => count < Limit) /\ wpc = "loop"
    BY <1>0, <1>35 DEF SubscribeResolves, needsSubscribe, hasCapacityForSubscription
  <2>2. Attached' = Attached /\ Uncounting' = Uncounting /\ Uncounted' = Uncounted
    BY <1>35, <2>1 DEF SubscribeResolves, Attached, Uncounting, Uncounted
  <2> QED BY <1>0, <1>35, <2>1, <2>2 DEF SubscribeResolves, LimitInv, CountExact, AddingInv,
     Adding
<1>36. ASSUME AddAttach PROVE LimitInv'
  <2>1. wsub \in Subs /\ wst # None /\ wst \in SubTracks
    BY <1>36, NoneIsNil DEF AddAttach, StructInv, WorkerHolds, Subscribing
  <2>2. wsub \notin Attached
    BY <1>36 DEF AddAttach, LimitInv, AddingInv, Adding, Attached
  <2>3. Attached' = Attached \cup {wsub}
    BY <1>0, <1>36, <2>1 DEF AddAttach, Attached, TypeOK, MediaTrackTypeOK, SubscriptionTypeOK
  <2>4. Cardinality(Attached') = Cardinality(Attached) + 1
    BY <1>0, <2>2, <2>3, CardsAreNat, FS_AddElement
  <2>5. Uncounting' = Uncounting /\ Uncounted = 0 /\ Uncounted' = 1
    BY <1>36 DEF AddAttach, Uncounting, Uncounted
  <2> QED BY <1>0, <1>36, <2>4, <2>5, CardsAreNat DEF AddAttach, LimitInv, CountExact,
     AddingInv, Adding
<1>37. ASSUME AddCount PROVE LimitInv'
  <2>1. Attached' = Attached /\ Uncounting' = Uncounting /\ Uncounted = 1 /\
     Uncounted' = 0
    BY <1>37 DEF AddCount, Attached, Uncounting, Uncounted
  <2> QED BY <1>0, <1>37, <2>1, CardsAreNat DEF AddCount, LimitInv, CountExact, AddingInv,
     Adding
<1>38. ASSUME NEW k \in SubTracks, CloseCallback(k) PROVE LimitInv'
  <2>1. CASE onClose[k] = None \/ subscribedTrack[onClose[k]] = None
    <3>1. /\ UNCHANGED <<subscribedTrack, count, wpc, wsub>>
          /\ phase[k] = "detached" /\ phase' = [phase EXCEPT ![k] = "closed"]
      BY <1>38, <2>1 DEF CloseCallback
    <3> QED BY <1>0, <3>1, LimitFrame DEF TypeOK, MediaTrackTypeOK
  <2>2. CASE onClose[k] # None /\ subscribedTrack[onClose[k]] # None
    <3> DEFINE s == onClose[k]
    <3>1. s \in Attached
      BY <1>0, <2>2 DEF Attached, TypeOK, MediaTrackTypeOK, SubscriptionTypeOK
    <3>2. /\ phase[k] = "detached" /\ phase' = [phase EXCEPT ![k] = "uncount"]
          /\ subscribedTrack' = [subscribedTrack EXCEPT ![s] = None]
          /\ UNCHANGED <<count, wpc, wsub>>
      BY <1>38, <2>2 DEF CloseCallback
    <3>3. Attached' = Attached \ {s}
      BY <1>0, <3>1, <3>2 DEF Attached, TypeOK, MediaTrackTypeOK, SubscriptionTypeOK
    <3>4. Uncounting' = Uncounting \cup {k} /\ k \notin Uncounting
      BY <1>0, <3>2 DEF Uncounting, TypeOK, MediaTrackTypeOK, SubscriptionTypeOK
    <3>5. /\ Cardinality(Attached') = Cardinality(Attached) - 1
          /\ Cardinality(Uncounting') = Cardinality(Uncounting) + 1
      BY <1>0, <3>1, <3>3, <3>4, CardsAreNat, FS_AddElement, FS_RemoveElement
    <3>6. CountExact'
      BY <1>0, <3>2, <3>5, CardsAreNat DEF LimitInv, CountExact, Uncounted
    <3>7. AddingInv'
      BY <1>0, <3>2 DEF LimitInv, AddingInv, Adding, TypeOK, MediaTrackTypeOK,
         SubscriptionTypeOK
    <3> QED BY <3>6, <3>7 DEF LimitInv
  <2> QED BY <2>1, <2>2
<1>39. ASSUME NEW k \in SubTracks, CloseUncount(k) PROVE LimitInv'
  <2>1. /\ phase[k] = "uncount" /\ count' = count - 1
        /\ phase'[k] # "uncount" /\ \A j \in SubTracks \ {k} : phase'[j] = phase[j]
        /\ UNCHANGED <<subscribedTrack, wpc, wsub>>
    BY <1>0, <1>39 DEF CloseUncount, TypeOK, MediaTrackTypeOK, SubscriptionTypeOK
  <2>2. Attached' = Attached /\ Uncounting' = Uncounting \ {k} /\ k \in Uncounting
    BY <2>1 DEF Attached, Uncounting
  <2>3. Cardinality(Uncounting') = Cardinality(Uncounting) - 1
    BY <1>0, <2>2, CardsAreNat, FS_RemoveElement
  <2>4. CountExact'
    BY <1>0, <2>1, <2>2, <2>3, CardsAreNat DEF LimitInv, CountExact, Uncounted
  <2>5. AddingInv'
    BY <1>0, <2>1, CardsAreNat DEF LimitInv, AddingInv, Adding
  <2> QED BY <2>4, <2>5 DEF LimitInv
<1>40. CASE UNCHANGED vars
  BY <1>0, <1>40, LimitFrame DEF vars
<1> QED BY <1>1, <1>2, <1>3, <1>4, <1>5, <1>6, <1>7, <1>8, <1>9, <1>10, <1>11, <1>12,
   <1>13, <1>14, <1>15, <1>16, <1>17, <1>18, <1>19, <1>20, <1>21, <1>22, <1>23, <1>24,
   <1>25, <1>26, <1>27, <1>28, <1>29, <1>30, <1>31, <1>32, <1>33, <1>34, <1>35, <1>36,
   <1>37, <1>38, <1>39, <1>40 DEF Next, WorkerStep, ReconcileStep, AddStep,
   CloserStep, CallerStep, NotifierStep, ClientStep, PublisherStep, PermissionStep,
   BindStep, CloseStep

LEMMA LimitInit == Init => LimitInv
<1> SUFFICES ASSUME Init PROVE LimitInv
  OBVIOUS
<1>1. Attached = {} /\ Uncounting = {} /\ Uncounted = 0
  BY DEF Init, MediaTrackInit, Attached, Uncounting, Uncounted
<1> QED BY <1>1, FS_EmptySet, LimitIsNat DEF Init, LimitInv, CountExact, AddingInv, Adding

(* The subscription limit holds for the tracks attached, for every limit    *)
(* and any numbers of subscriptions, tracks and closing goroutines.         *)
THEOREM LimitHolds == Spec => []LimitRespected
<1>1. StructInv /\ LimitInv => LimitRespected
  <2> SUFFICES ASSUME StructInv, LimitInv, Limit > 0 PROVE Cardinality(Attached) <=
     Limit
    BY DEF LimitRespected
  <2> QED BY CardsAreNat, LimitIsNat DEF StructInv, LimitInv, CountExact, AddingInv, Uncounted
<1>2. StructInv /\ LimitInv /\ [Next]_vars => (StructInv /\ LimitInv)'
  BY StructNext, LimitNext
<1> QED BY <1>1, <1>2, StructInit, LimitInit, PTL DEF Spec

-----------------------------------------------------------------------------
(* Which subscription a SubscribedTrack that has not run its close handler  *)
(* belongs to: the one that holds it, or the one the worker is about to     *)
(* give it to.                                                              *)
Live(k) == phase[k] \in {"open", "closing", "detached"}

OwnInv ==
  \A k \in SubTracks : \A s \in Subs :
    Live(k) /\ onClose[k] = s
      => subscribedTrack[s] = k \/ (wpc = "attach" /\ wsub = s /\ wst = k)

(* Steps that attach and detach nothing, hook nothing and open nothing.     *)
LEMMA OwnFrame ==
  ASSUME OwnInv, UNCHANGED <<subscribedTrack, onClose>>,
         \A k \in SubTracks : phase'[k] \in {"open", "closing", "detached"} => Live(k),
         wpc = "attach" => UNCHANGED <<wpc, wsub, wst>>
  PROVE  OwnInv'
  BY DEF OwnInv, Live

LEMMA OwnNext ==
  ASSUME StructInv, LimitInv, OwnInv, [Next]_vars
  PROVE  OwnInv'
<1>0. TypeOK
  BY DEF StructInv
<1>1. ASSUME NEW c \in Callers, NEW t \in Tracks, SubscribeToTrack(c, t) PROVE OwnInv'
  BY <1>0, <1>1, OwnFrame DEF SubscribeToTrack, setDesired, queueReconcile, Queue, TypeOK,
     MediaTrackTypeOK, SubscriptionTypeOK, Live
<1>2. ASSUME NEW c \in Callers, SubscribeInsert(c) PROVE OwnInv'
  BY <1>0, <1>2, OwnFrame DEF SubscribeInsert, newMediaTrackSubscription, Unreferenced,
     TypeOK, MediaTrackTypeOK, SubscriptionTypeOK, Live
<1>3. ASSUME NEW c \in Callers, SubscribeDesire(c) PROVE OwnInv'
  BY <1>0, <1>3, OwnFrame DEF SubscribeDesire, setDesired, queueReconcile, Queue, TypeOK,
     MediaTrackTypeOK, SubscriptionTypeOK, Live
<1>4. ASSUME NEW c \in Callers, NEW t \in Tracks, UnsubscribeFromTrack(c, t) PROVE
   OwnInv'
  BY <1>0, <1>4, OwnFrame DEF UnsubscribeFromTrack, Unsubscribe, setDesired, ClearNotifiers,
     queueReconcile, Queue, TypeOK, MediaTrackTypeOK, SubscriptionTypeOK, Live
<1>5. ASSUME NEW c \in Callers, ClearAllSubscriptions(c) PROVE OwnInv'
  BY <1>0, <1>5, OwnFrame DEF ClearAllSubscriptions, setDesired, ClearNotifiers,
     queueReconcile, Queue, TypeOK, MediaTrackTypeOK, SubscriptionTypeOK, Live
<1>6. ASSUME NEW c \in Callers, NEW t \in Tracks, UpdateSubscribedTrackSettings(c, t)
   PROVE OwnInv'
  BY <1>0, <1>6, OwnFrame DEF UpdateSubscribedTrackSettings, newMediaTrackSubscription,
     TypeOK, MediaTrackTypeOK, SubscriptionTypeOK, Live
<1>7. ASSUME WorkerTick PROVE OwnInv'
  BY <1>0, <1>7, OwnFrame DEF WorkerTick, NeedsReconcile, TypeOK, MediaTrackTypeOK,
     SubscriptionTypeOK, Live
<1>8. ASSUME NEW t \in Tracks \cup {All}, WorkerReceive(t) PROVE OwnInv'
  BY <1>0, <1>8, OwnFrame DEF WorkerReceive, NeedsReconcile, TypeOK, MediaTrackTypeOK,
     SubscriptionTypeOK, Live
<1>9. ASSUME WorkerExit PROVE OwnInv'
  BY <1>0, <1>9, OwnFrame DEF WorkerExit, TypeOK, MediaTrackTypeOK, SubscriptionTypeOK, Live
<1>10. ASSUME WorkerLoopEnd PROVE OwnInv'
  BY <1>0, <1>10, OwnFrame DEF WorkerLoopEnd, TypeOK, MediaTrackTypeOK, SubscriptionTypeOK, Live
<1>11. ASSUME NEW s \in Subs, ReconcileSkip(s) PROVE OwnInv'
  BY <1>0, <1>11, OwnFrame DEF ReconcileSkip, queueReconcile, Queue, TypeOK, MediaTrackTypeOK,
     SubscriptionTypeOK, Live
<1>12. ASSUME NEW s \in Subs, ReconcileCleanup(s) PROVE OwnInv'
  BY <1>0, <1>12, OwnFrame DEF ReconcileCleanup, TypeOK, MediaTrackTypeOK, SubscriptionTypeOK, Live
<1>13. ASSUME NEW s \in Subs, ReconcileUnsubscribe(s) PROVE OwnInv'
  BY <1>0, <1>13, OwnFrame DEF ReconcileUnsubscribe, needsUnsubscribe, TypeOK,
     MediaTrackTypeOK, SubscriptionTypeOK, Live
<1>14. ASSUME NEW s \in Subs, SubscribeFails(s) PROVE OwnInv'
  BY <1>0, <1>14, OwnFrame DEF SubscribeFails, setDesired, ClearNotifiers, queueReconcile,
     Queue, ObserveRemoval, TypeOK, MediaTrackTypeOK, SubscriptionTypeOK, Live
<1>15. ASSUME AddCheck PROVE OwnInv'
  BY <1>0, <1>15, OwnFrame DEF AddCheck, AddUnchanged, SubscribeDone, TypeOK,
     MediaTrackTypeOK, SubscriptionTypeOK, Live
<1>16. ASSUME AddInsert PROVE OwnInv'
  <2>1. CASE subscribedTracks[wpub] # None /\ UNCHANGED <<downVars, onClose, binding>>
    BY <1>16, <2>1, OwnFrame DEF AddInsert, AddUnchanged, Live
  <2>2. ASSUME NEW j \in SubTracks, ClosedForGood(j),
               phase' = [phase EXCEPT ![j] = "open"],
               onClose' = [onClose EXCEPT ![j] = None]
        PROVE  OwnInv'
    <3>1. wpc # "attach" /\ UNCHANGED subscribedTrack
      BY <1>16 DEF AddInsert
    <3> SUFFICES ASSUME NEW k \in SubTracks, NEW s \in Subs, Live(k)', onClose'[k] = s
                 PROVE  subscribedTrack[s] = k
      BY <3>1 DEF OwnInv
    <3>2. k # j
      BY <1>0, <2>2, NoneIsNoSub DEF TypeOK, SubscriptionTypeOK
    <3>3. Live(k) /\ onClose[k] = s
      BY <1>0, <2>2, <3>2 DEF Live, TypeOK, MediaTrackTypeOK, SubscriptionTypeOK
    <3> QED BY <3>1, <3>3 DEF OwnInv
  <2> QED BY <1>16, <2>1, <2>2 DEF AddInsert, NewSubscribedTrack
<1>17. ASSUME AddRecheck PROVE OwnInv'
  BY <1>0, <1>17, OwnFrame DEF AddRecheck, AddUnchanged, SubscribeDone, StateOpen,
     RemoveSubscriber, CloseWithFlush, TypeOK, MediaTrackTypeOK, SubscriptionTypeOK, Live
<1>18. ASSUME AddHook PROVE OwnInv'
  <2>1. /\ wpc = "hook" /\ wpc' = "attach" /\ UNCHANGED <<subscribedTrack, phase, wsub, wst>>
        /\ onClose' = [onClose EXCEPT ![wst] = wsub]
    BY <1>18 DEF AddHook
  <2> SUFFICES ASSUME NEW k \in SubTracks, NEW s \in Subs, Live(k), onClose'[k] = s,
                      ~(wsub = s /\ wst = k)
               PROVE  subscribedTrack[s] = k
    BY <2>1 DEF OwnInv, Live
  <2>2. onClose[k] = s
    BY <1>0, <2>1 DEF TypeOK, SubscriptionTypeOK
  <2> QED BY <2>1, <2>2 DEF OwnInv
<1>19. ASSUME AddMark PROVE OwnInv'
  BY <1>0, <1>19, OwnFrame DEF AddMark, AddUnchanged, SubscribeDone, TypeOK, MediaTrackTypeOK,
     SubscriptionTypeOK, Live
<1>20. ASSUME NEW p \in Pubs, Remover(p) PROVE OwnInv'
  BY <1>0, <1>20, OwnFrame DEF Remover, RemoveSubscriber, CloseWithFlush, TypeOK,
     MediaTrackTypeOK, SubscriptionTypeOK, Live
<1>21. ASSUME NEW k \in SubTracks, DownTrackCloses(k) PROVE OwnInv'
  BY <1>0, <1>21, OwnFrame DEF DownTrackCloses, OnDownTrackClose, TypeOK, MediaTrackTypeOK,
     SubscriptionTypeOK, Live
<1>22. ASSUME NEW k \in SubTracks, CloseRelease(k) PROVE OwnInv'
  BY <1>0, <1>22, OwnFrame DEF CloseRelease, queueReconcile, Queue, TypeOK, MediaTrackTypeOK,
     SubscriptionTypeOK, Live
<1>23. ASSUME NEW k \in SubTracks, NEW o \in {"bound", "failed"}, Bind(k, o) PROVE
   OwnInv'
  BY <1>0, <1>23, OwnFrame DEF Bind, TypeOK, MediaTrackTypeOK, SubscriptionTypeOK, Live
<1>24. ASSUME NEW k \in SubTracks, BindCallback(k) PROVE OwnInv'
  BY <1>0, <1>24, OwnFrame DEF BindCallback, Unsubscribe, setDesired, ClearNotifiers,
     queueReconcile, Queue, TypeOK, MediaTrackTypeOK, SubscriptionTypeOK, Live
<1>25. ASSUME NEW p \in Pubs, Publish(p) PROVE OwnInv'
  BY <1>0, <1>25, OwnFrame DEF Publish, AddTrack, NotifyTrackChanged, Queue, managerUnchanged,
     TypeOK, MediaTrackTypeOK, SubscriptionTypeOK, Live
<1>26. ASSUME NEW p \in Pubs, PublisherSteps(p) PROVE OwnInv'
  <2>1. \A k \in SubTracks : phase'[k] \in {"open", "closing", "detached"} => Live(k)
    <3>1. CASE ClearAllReceivers(p)
      BY <1>0, <3>1 DEF ClearAllReceivers, RemoveSubscriber, CloseWithFlush, TypeOK,
         MediaTrackTypeOK, Live
    <3> QED BY <1>26, <3>1 DEF PublisherSteps, SetupReceiver, SetClosing, Live
  <2> QED BY <1>0, <1>26, <2>1, OwnFrame DEF PublisherSteps, managerUnchanged
<1>27. ASSUME NEW t \in Tracks, Revoke(t) PROVE OwnInv'
  BY <1>0, <1>27, OwnFrame DEF Revoke, RevokePermission, CloseWithFlush, NotifyTrackChanged,
     Queue, managerUnchanged, TypeOK, MediaTrackTypeOK, SubscriptionTypeOK, Live
<1>28. ASSUME NEW t \in Tracks, Grant(t) PROVE OwnInv'
  BY <1>0, <1>28, OwnFrame DEF Grant, GrantPermission, NotifyTrackChanged, Queue,
     managerUnchanged, TypeOK, MediaTrackTypeOK, SubscriptionTypeOK, Live
<1>29. ASSUME NEW p \in Pubs, Unpublish(p) PROVE OwnInv'
  BY <1>0, <1>29, OwnFrame DEF Unpublish, RemoveTrack, TypeOK, MediaTrackTypeOK,
     SubscriptionTypeOK, Live
<1>30. ASSUME NEW t \in Tracks, RemoveObserver(t) PROVE OwnInv'
  BY <1>0, <1>30, OwnFrame DEF RemoveObserver, TypeOK, MediaTrackTypeOK, SubscriptionTypeOK, Live
<1>31. ASSUME NEW t \in Tracks, RemovedResolve(t) PROVE OwnInv'
  BY <1>0, <1>31, OwnFrame DEF RemovedResolve, TypeOK, MediaTrackTypeOK, SubscriptionTypeOK, Live
<1>32. ASSUME NEW t \in Tracks, handleSourceTrackRemoved(t) PROVE OwnInv'
  BY <1>0, <1>32, OwnFrame DEF handleSourceTrackRemoved, ClearNotifiers, TypeOK,
     MediaTrackTypeOK, SubscriptionTypeOK, Live
<1>33. ASSUME CloseBegin PROVE OwnInv'
  BY <1>0, <1>33, OwnFrame DEF CloseBegin, TypeOK, MediaTrackTypeOK, SubscriptionTypeOK, Live
<1>34. ASSUME NEW r \in BOOLEAN, CloseFinish(r) PROVE OwnInv'
  BY <1>0, <1>34, OwnFrame DEF CloseFinish, ClearNotifiers, CloseWithFlush, TypeOK,
     MediaTrackTypeOK, SubscriptionTypeOK, Live
<1>35. ASSUME NEW s \in Subs, SubscribeResolves(s) PROVE OwnInv'
  BY <1>0, <1>35, OwnFrame DEF SubscribeResolves, TypeOK, MediaTrackTypeOK, SubscriptionTypeOK, Live
<1>36. ASSUME AddAttach PROVE OwnInv'
  <2>1. /\ wpc = "attach" /\ wpc' = "inc" /\ UNCHANGED <<onClose, phase, wsub, wst>>
        /\ subscribedTrack' = [subscribedTrack EXCEPT ![wsub] = wst]
    BY <1>36 DEF AddAttach
  <2>2. subscribedTrack[wsub] = None
    BY <2>1 DEF LimitInv, AddingInv, Adding
  <2> SUFFICES ASSUME NEW k \in SubTracks, NEW s \in Subs, Live(k), onClose[k] = s
               PROVE  subscribedTrack'[s] = k
    BY <2>1 DEF OwnInv, Live
  <2>3. subscribedTrack[s] = k \/ (wsub = s /\ wst = k)
    BY DEF OwnInv
  <2>4. k # None
    BY NoneIsNil
  <2> QED BY <1>0, <2>1, <2>2, <2>3, <2>4 DEF TypeOK, SubscriptionTypeOK
<1>37. ASSUME AddCount PROVE OwnInv'
  BY <1>0, <1>37, OwnFrame DEF AddCount, AddUnchanged, TypeOK, MediaTrackTypeOK, SubscriptionTypeOK, Live
<1>38. ASSUME NEW k \in SubTracks, CloseCallback(k) PROVE OwnInv'
  <2>1. CASE onClose[k] = None \/ subscribedTrack[onClose[k]] = None
    <3>1. /\ UNCHANGED <<subscribedTrack, onClose, wpc, wsub, wst>>
          /\ phase' = [phase EXCEPT ![k] = "closed"]
      BY <1>38, <2>1 DEF CloseCallback
    <3> QED BY <1>0, <3>1, OwnFrame DEF TypeOK, MediaTrackTypeOK, Live
  <2>2. CASE onClose[k] # None /\ subscribedTrack[onClose[k]] # None
    <3> DEFINE s == onClose[k]
    <3>1. /\ phase[k] = "detached" /\ phase' = [phase EXCEPT ![k] = "uncount"]
          /\ subscribedTrack' = [subscribedTrack EXCEPT ![s] = None]
          /\ UNCHANGED <<onClose, wpc, wsub, wst>>
      BY <1>38, <2>2 DEF CloseCallback
    <3>2. s \in Subs
      BY <1>0, <2>2 DEF TypeOK, SubscriptionTypeOK
    <3>3. ~(wpc = "attach" /\ wsub = s)
      BY <2>2 DEF LimitInv, AddingInv, Adding
    <3>4. subscribedTrack[s] = k
      BY <3>1, <3>2, <3>3 DEF OwnInv, Live
    <3> SUFFICES ASSUME NEW j \in SubTracks, NEW x \in Subs, Live(j)', onClose[j] = x
                 PROVE  subscribedTrack'[x] = j \/ (wpc = "attach" /\ wsub = x /\ wst = j)
      BY <3>1 DEF OwnInv
    <3>5. j # k /\ Live(j)
      BY <1>0, <3>1 DEF Live, TypeOK, MediaTrackTypeOK
    <3>6. subscribedTrack[x] = j \/ (wpc = "attach" /\ wsub = x /\ wst = j)
      BY <3>5 DEF OwnInv
    <3>7. x # s
      BY <3>3, <3>4, <3>5, <3>6
    <3> QED BY <1>0, <3>1, <3>2, <3>6, <3>7 DEF TypeOK, SubscriptionTypeOK
  <2> QED BY <2>1, <2>2
<1>39. ASSUME NEW k \in SubTracks, CloseUncount(k) PROVE OwnInv'
  BY <1>0, <1>39, OwnFrame DEF CloseUncount, TypeOK, MediaTrackTypeOK, SubscriptionTypeOK, Live
<1>40. CASE UNCHANGED vars
  BY <1>0, <1>40, OwnFrame DEF vars, Live
<1> QED BY <1>1, <1>2, <1>3, <1>4, <1>5, <1>6, <1>7, <1>8, <1>9, <1>10, <1>11, <1>12,
   <1>13, <1>14, <1>15, <1>16, <1>17, <1>18, <1>19, <1>20, <1>21, <1>22, <1>23, <1>24,
   <1>25, <1>26, <1>27, <1>28, <1>29, <1>30, <1>31, <1>32, <1>33, <1>34, <1>35, <1>36,
   <1>37, <1>38, <1>39, <1>40 DEF Next, WorkerStep, ReconcileStep, AddStep,
   CloserStep, CallerStep, NotifierStep, ClientStep, PublisherStep, PermissionStep,
   BindStep, CloseStep

LEMMA OwnInit == Init => OwnInv
  BY NoneIsNoSub DEF Init, MediaTrackInit, OwnInv, Live

(* A close handler that finds a SubscribedTrack in its subscription finds   *)
(* the track that closed, although it looks by subscription only and the    *)
(* worker may by then have gone on to subscribe anew                        *)
(* (handleSubscribedTrackClose).                                            *)
THEOREM CloseFindsOwn == Spec => []CloseFindsOwnTrack
<1>1. LimitInv /\ OwnInv => CloseFindsOwnTrack
  BY DEF LimitInv, AddingInv, Adding, OwnInv, Live, CloseFindsOwnTrack
<1>2. StructInv /\ LimitInv /\ OwnInv /\ [Next]_vars => (StructInv /\ LimitInv /\ OwnInv)'
  BY StructNext, LimitNext, OwnNext
<1> QED BY <1>1, <1>2, StructInit, LimitInit, OwnInit, PTL DEF Spec
=============================================================================
