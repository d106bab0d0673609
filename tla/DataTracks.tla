------------------------------ MODULE DataTracks ------------------------------
(***************************************************************************)
(* Data tracks (rtc/participant_data_track.go, updatatrackmanager.go,      *)
(* datatrack.go, datadowntrack.go, the data part of roomtrackmanager.go,   *)
(* room.go and subscriptionmanager.go): a participant publishes data       *)
(* tracks, and what comes in on one is forwarded to the down tracks of its *)
(* subscribers, each under a handle the subscriber is told.                *)
(*                                                                         *)
(* One publisher and one subscriber.  Tracks have a new id each time they  *)
(* are published and are numbered in that order.                           *)
(***************************************************************************)
EXTENDS Integers, Sequences, FiniteSets

CONSTANTS TrackMax,      \* tracks that can be published
          PubHandles,    \* handles of the publisher
          HandleMod,     \* 2^16: handles of a subscriber
          ReconcileMax,  \* capacity of reconcileDataTrackCh
          DtLimits       \* bounds and environment: tracks, calls, env

VARIABLES
  dtLimits,
  upTracks,        \* UpDataTrackManager.dataTracks: per handle the track, or 0
  dtClosed,        \* tracks whose fuse is broken
  dtRoom,          \* RoomTrackManager.dataTracks
  published,       \* the number of tracks so far
  listening,       \* the publisher's listener is the room
  threads,         \* those of the publisher: at, track, todo
  notifiers,       \* per kind and track: generation, and those with an observer
  unobserving,     \* RemoveObserver goroutines
  removals,        \* goroutines of removed notifiers
  objects,         \* dataTrackSubscriptions: desired, down, changed, removed
  subsMap,         \* SubscriptionManager.dataTrackSubscriptions: per track an object, or 0
  reconcileCh,
  calls,           \* into the manager: op, track, at
  callCount,
  worker,          \* at, list, obj, found
  canSubscribe, managerClosed,
  registered,      \* per track: DataTrack.subscribedTracks of the subscriber
  spreader,        \* per track: the down tracks that get its packets
  handle,          \* nextSubscribedDataTrackHandle
  downCount, handleOf,   \* down tracks so far, and their handles
  told,            \* the handles the subscriber was last told
  excused          \* what happened that the code does not make up for

publisherVars == <<upTracks, dtClosed, dtRoom, published, listening, threads>>
observerVars == <<notifiers, unobserving, removals>>
managerVars == <<objects, subsMap, reconcileCh, calls, callCount, worker, canSubscribe, managerClosed>>
forwardVars == <<registered, spreader, handle, downCount, handleOf, told>>
dtVars == <<dtLimits, publisherVars, observerVars, managerVars, forwardVars, excused>>

Tracks == 1..TrackMax
Env(e) == e \in dtLimits.env
Stuck == worker.at = "stuck"       \* it holds the manager's lock for ever
NoObject == [track |-> 0, desired |-> FALSE, down |-> 0, changed |-> 0, removed |-> 0]
Idle == [at |-> "idle", track |-> 0, todo |-> {}]
Push(queue, t) == IF Len(queue) < ReconcileMax THEN Append(queue, t) ELSE queue
InMap(t) == subsMap[t] # 0

-----------------------------------------------------------------------------
(* Notifiers: an object for each track and kind until it is removed.        *)
Observed(kind, t) == notifiers[kind][t].gen \in notifiers[kind][t].observed
RemoveNotifiers(t) ==
  /\ notifiers' = [kind \in DOMAIN notifiers |->
       [notifiers[kind] EXCEPT ![t] = [gen |-> @.gen + 1, observed |-> {}]]]
  /\ unobserving' = {u \in unobserving : u[2] # t}

(* setChangedNotifierLocked and setRemovedNotifierLocked to nil, for an     *)
(* object; another goroutine takes the observer away.                       *)
Unobserve(obj) ==
  {<<kind, obj.track, obj[kind]>> : kind \in {k \in DOMAIN notifiers : obj[k] = notifiers[k][obj.track].gen}}
Undesired(obj) == [obj EXCEPT !.desired = FALSE, !.changed = 0, !.removed = 0]

RemoveObserver ==
  \E u \in unobserving :
    /\ unobserving' = unobserving \ {u}
    /\ notifiers' = [notifiers EXCEPT ![u[1]][u[2]].observed = @ \ {u[3]}]
    /\ excused' = IF InMap(u[2]) /\ objects[subsMap[u[2]]][u[1]] = u[3]
                    THEN excused \cup {"observer"} ELSE excused
    /\ UNCHANGED <<dtLimits, publisherVars, removals, managerVars, forwardVars>>

-----------------------------------------------------------------------------
(* The publisher.  Its signalling thread is "pub"; "admin" takes the        *)
(* permission away or removes it from the room.                             *)
Step(th, at) ==
  threads' = [threads EXCEPT ![th] = IF at = "idle" THEN Idle ELSE [@ EXCEPT !.at = at]]

(* HandlePublishDataTrackRequest, and AddPublishedDataTrack up to its       *)
(* callback.  A handle that is in use is refused.                           *)
HandlePublishDataTrackRequest ==
  /\ threads["pub"].at = "idle" /\ published < dtLimits.tracks /\ listening
  /\ \E h \in PubHandles :
       /\ upTracks[h] = 0 /\ upTracks' = [upTracks EXCEPT ![h] = published + 1]
  /\ published' = published + 1
  /\ threads' = [threads EXCEPT !["pub"] = [at |-> "publish", track |-> published + 1, todo |-> {}]]
  /\ UNCHANGED <<dtLimits, dtClosed, dtRoom, listening, observerVars, managerVars, forwardVars, excused>>

(* onDataTrackPublished: AddDataTrack ...                                   *)
AddDataTrack ==
  LET t == threads["pub"].track IN
    /\ threads["pub"].at = "publish"
    /\ IF listening THEN dtRoom' = dtRoom \cup {t} /\ Step("pub", "notify")
                    ELSE Step("pub", "idle") /\ UNCHANGED dtRoom
    /\ excused' = IF listening /\ t \in dtClosed THEN excused \cup {"late"} ELSE excused
    /\ UNCHANGED <<dtLimits, upTracks, dtClosed, published, listening, observerVars, managerVars, forwardVars>>

(* ... NotifyTrackChanged, and the subscription of those in the room.       *)
NotifyTrackChanged ==
  LET t == threads["pub"].track IN
    /\ threads["pub"].at = "notify"
    /\ reconcileCh' = IF Observed("changed", t) THEN Push(reconcileCh, t) ELSE reconcileCh
    /\ IF Env("auto") /\ ~managerClosed
         THEN /\ Step("pub", "auto")
              /\ calls' = [calls EXCEPT !["auto"] = [op |-> "subscribe", track |-> t, at |-> "desire"]]
         ELSE Step("pub", "idle") /\ UNCHANGED calls
    /\ UNCHANGED <<dtLimits, upTracks, dtClosed, dtRoom, published, listening, observerVars, objects,
                   subsMap, callCount, worker, canSubscribe, managerClosed, forwardVars, excused>>
Subscribed ==
  /\ threads["pub"].at = "auto" /\ calls["auto"].op = "none" /\ Step("pub", "idle")
  /\ UNCHANGED <<dtLimits, upTracks, dtClosed, dtRoom, published, listening, observerVars, managerVars,
                 forwardVars, excused>>

(* HandleUnpublishDataTrackRequest, and SetPermission without               *)
(* CanPublishData: RemovePublishedDataTrack ...                             *)
RemovePublishedDataTrack(th) ==
  /\ threads[th].at = "idle" /\ listening /\ (th = "admin" => Env("revoke"))
  /\ \E h \in PubHandles :
       /\ upTracks[h] # 0 /\ upTracks' = [upTracks EXCEPT ![h] = 0]
       /\ threads' = [threads EXCEPT ![th] = [at |-> "close", track |-> upTracks[h], todo |-> {}]]
  /\ UNCHANGED <<dtLimits, dtClosed, dtRoom, published, listening, observerVars, managerVars, forwardVars, excused>>

(* ... which closes the track ...                                           *)
CloseDataTrack(th) ==
  /\ threads[th].at = "close" /\ dtClosed' = dtClosed \cup {threads[th].track}
  /\ Step(th, "unroom")
  /\ UNCHANGED <<dtLimits, upTracks, dtRoom, published, listening, observerVars, managerVars, forwardVars, excused>>

(* ... and RemoveDataTrack: first out of the room ...                       *)
Done(th) == IF th = "leave" THEN "list" ELSE "idle"
RemoveDataTrack(th) ==
  LET t == threads[th].track IN
    /\ threads[th].at = "unroom"
    /\ IF ~listening /\ th # "leave" THEN Step(th, "idle") /\ UNCHANGED dtRoom
       ELSE IF t \notin dtRoom THEN Step(th, Done(th)) /\ UNCHANGED dtRoom
       ELSE dtRoom' = dtRoom \ {t} /\ Step(th, "removed")
    /\ excused' = IF (t \in dtRoom /\ listening) \/ th = "leave" THEN excused ELSE excused \cup {"late"}
    /\ UNCHANGED <<dtLimits, upTracks, dtClosed, published, listening, observerVars, managerVars, forwardVars>>

(* ... then the observers of its removal are told, by a goroutine, and the  *)
(* notifiers dropped.                                                       *)
NotifyTrackRemoved(th) ==
  LET t == threads[th].track IN
    /\ threads[th].at = "removed" /\ Step(th, "drop")
    /\ excused' = IF ~Observed("removed", t) /\ registered[t] # 0 THEN excused \cup {"unseen"} ELSE excused
    /\ removals' = IF Observed("removed", t) THEN removals \cup {t} ELSE removals
    /\ UNCHANGED <<dtLimits, upTracks, dtClosed, dtRoom, published, listening, notifiers, unobserving,
                   managerVars, forwardVars>>
DropNotifiers(th) ==
  /\ threads[th].at = "drop" /\ RemoveNotifiers(threads[th].track) /\ Step(th, Done(th))
  /\ UNCHANGED <<dtLimits, upTracks, dtClosed, dtRoom, published, listening, removals, managerVars, forwardVars,
                 excused>>

(* The observer of a removal: handleSourceDataTrackRemoved, unless the      *)
(* track is there again.                                                    *)
handleSourceDataTrackRemoved ==
  /\ ~Stuck
  /\ \E t \in removals :
       LET o == subsMap[t] IN
         /\ removals' = removals \ {t}
         /\ IF t \in dtRoom \/ o = 0 THEN UNCHANGED <<objects, unobserving>>
            ELSE /\ objects' = [objects EXCEPT ![o] = Undesired(@)]
                 /\ unobserving' = unobserving \cup Unobserve(objects[o])
  /\ UNCHANGED <<dtLimits, publisherVars, notifiers, subsMap, reconcileCh, calls, callCount, worker,
                 canSubscribe, managerClosed, forwardVars, excused>>

(* The publisher leaves: Room.RemoveParticipant takes its tracks out of the *)
(* room one after the other and then closes it ("remove"), or it closed     *)
(* itself, and RemoveParticipant finds no track any more ("close").         *)
RemoveParticipant ==
  /\ Env("remove") /\ threads["leave"].at = "idle" /\ listening
  /\ LET ts == {upTracks[h] : h \in PubHandles} \ {0} IN
       threads' = [threads EXCEPT !["leave"] = [at |-> "list", track |-> 0, todo |-> ts]]
  /\ UNCHANGED <<dtLimits, upTracks, dtClosed, dtRoom, published, listening, observerVars, managerVars,
                 forwardVars, excused>>
NextToRemove ==
  /\ threads["leave"].at = "list"
  /\ \E t \in threads["leave"].todo :
       threads' = [threads EXCEPT !["leave"] = [@ EXCEPT !.at = "unroom", !.track = t, !.todo = @ \ {t}]]
  /\ UNCHANGED <<dtLimits, upTracks, dtClosed, dtRoom, published, listening, observerVars, managerVars,
                 forwardVars, excused>>

(* UpDataTrackManager.Close, and the listener that is cleared.              *)
Busy == \E th \in {"pub", "admin"} : threads[th].at # "idle"
CloseParticipant ==
  LET ts == {upTracks[h] : h \in PubHandles} \ {0} IN
    /\ listening
    /\ IF Env("remove") THEN threads["leave"].at = "list" /\ threads["leave"].todo = {}
       ELSE Env("close")
    /\ listening' = FALSE /\ upTracks' = [h \in PubHandles |-> 0] /\ dtClosed' = dtClosed \cup ts
    /\ Step("leave", "gone")
    /\ excused' = excused \cup (IF ts \cap dtRoom # {} THEN {"leak"} ELSE {}) \cup (IF Busy THEN {"late"} ELSE {})
    /\ UNCHANGED <<dtLimits, dtRoom, published, observerVars, managerVars, forwardVars>>

-----------------------------------------------------------------------------
(* Calls into the subscriber's manager.                                     *)
Call(c) == calls[c]
CallAt(c, at) == calls' = [calls EXCEPT ![c].at = at]
Return(c) == calls' = [calls EXCEPT ![c] = [op |-> "none", track |-> 0, at |-> "none"]]

(* onUpdateDataSubscriptions of the client, and subscribeToExistingTracks,  *)
(* which sees tracks before the room has them.                              *)
ClientCalls ==
  /\ Call("client").op = "none" /\ callCount < dtLimits.calls
  /\ \E t \in 1..published, op \in {"subscribe", "unsubscribe"} :
       /\ op = "subscribe" => ~managerClosed
       /\ Env("existing") => \E h \in PubHandles : upTracks[h] = t
       /\ calls' = [calls EXCEPT !["client"] = [op |-> op, track |-> t, at |-> "desire"]]
  /\ callCount' = callCount + 1
  /\ UNCHANGED <<dtLimits, publisherVars, observerVars, objects, subsMap, reconcileCh, worker, canSubscribe,
                 managerClosed, forwardVars, excused>>

(* What UpdateDataTrackSubscriptionOptions does next, for the client.       *)
After(c) == IF c = "client" /\ ~Env("existing") THEN CallAt(c, "options") ELSE Return(c)

(* A subscription the worker is about to remove is lost, and one that kept  *)
(* its down track has no observers any more.                                *)
Hasty(t) ==
  LET o == subsMap[t] IN
    IF objects[o].desired \/ objects[o].down = 0 THEN {}
    ELSE IF worker.obj = o /\ worker.at \in {"unsubscribe", "delete"} THEN {"lost"} ELSE {"blind"}

(* SubscribeToDataTrack: an entry that is there is set to desired ...       *)
SubscribeToDataTrack(c) ==
  LET t == Call(c).track IN
    /\ Call(c).op = "subscribe" /\ Call(c).at = "desire" /\ ~Stuck
    /\ IF InMap(t)
         THEN /\ objects' = [objects EXCEPT ![subsMap[t]].desired = TRUE]
              /\ reconcileCh' = Push(reconcileCh, t) /\ After(c)
              /\ excused' = excused \cup Hasty(t)
         ELSE CallAt(c, "create") /\ UNCHANGED <<objects, reconcileCh, excused>>
    /\ UNCHANGED <<dtLimits, publisherVars, observerVars, subsMap, callCount, worker, canSubscribe,
                   managerClosed, forwardVars>>

(* ... or a new one is stored and then set.                                 *)
NewSubscription(t) == Append(objects, [NoObject EXCEPT !.track = t])
CreateSubscription(c) ==
  LET t == Call(c).track IN
    /\ Call(c).at = "create" /\ ~Stuck
    /\ objects' = NewSubscription(t) /\ subsMap' = [subsMap EXCEPT ![t] = Len(objects) + 1]
    /\ CallAt(c, "again")
    /\ excused' = IF InMap(t) THEN excused \cup {"doubled"} ELSE excused
    /\ UNCHANGED <<dtLimits, publisherVars, observerVars, reconcileCh, callCount, worker, canSubscribe,
                   managerClosed, forwardVars>>
DesireCreated(c) ==
  LET t == Call(c).track IN
    /\ Call(c).at = "again" /\ ~Stuck
    /\ excused' = IF InMap(t) THEN excused \cup Hasty(t) ELSE excused
    /\ objects' = IF InMap(t) THEN [objects EXCEPT ![subsMap[t]].desired = TRUE] ELSE objects
    /\ reconcileCh' = Push(reconcileCh, t) /\ After(c)
    /\ UNCHANGED <<dtLimits, publisherVars, observerVars, subsMap, callCount, worker, canSubscribe,
                   managerClosed, forwardVars>>

(* UnsubscribeFromDataTrack.                                                *)
UnsubscribeFromDataTrack ==
  LET t == Call("client").track
      o == subsMap[t] IN
    /\ Call("client").op = "unsubscribe" /\ Call("client").at = "desire" /\ ~Stuck
    /\ IF o # 0 /\ objects[o].desired
         THEN /\ objects' = [objects EXCEPT ![o] = Undesired(@)]
              /\ unobserving' = unobserving \cup Unobserve(objects[o])
              /\ reconcileCh' = Push(reconcileCh, t)
         ELSE UNCHANGED <<objects, unobserving, reconcileCh>>
    /\ After("client")
    /\ UNCHANGED <<dtLimits, publisherVars, notifiers, removals, subsMap, callCount, worker, canSubscribe,
                   managerClosed, forwardVars, excused>>

(* UpdateDataTrackSubscriptionOptions makes an entry if there is none.      *)
UpdateDataTrackSubscriptionOptions ==
  LET t == Call("client").track IN
    /\ Call("client").at = "options" /\ ~Stuck /\ Return("client")
    /\ IF InMap(t) THEN UNCHANGED <<objects, subsMap>>
       ELSE objects' = NewSubscription(t) /\ subsMap' = [subsMap EXCEPT ![t] = Len(objects) + 1]
    /\ UNCHANGED <<dtLimits, publisherVars, observerVars, reconcileCh, callCount, worker, canSubscribe,
                   managerClosed, forwardVars, excused>>

(* Permission to subscribe comes, with ReconcileAll, and goes.              *)
SetCanSubscribe ==
  /\ Env("permission") /\ canSubscribe' = ~canSubscribe /\ callCount < dtLimits.calls
  /\ callCount' = callCount + 1
  /\ reconcileCh' = IF canSubscribe THEN reconcileCh ELSE Push(reconcileCh, 0)
  /\ UNCHANGED <<dtLimits, publisherVars, observerVars, objects, subsMap, calls, worker, managerClosed,
                 forwardVars, excused>>

-----------------------------------------------------------------------------
(* The reconcile worker.                                                    *)
needsSubscribe(o) == objects[o].desired /\ objects[o].down = 0
needsUnsubscribe(o) == ~objects[o].desired /\ objects[o].down # 0
needsCleanup(o) == ~objects[o].desired /\ objects[o].down = 0
Reconcilable == {o \in {subsMap[t] : t \in Tracks} \ {0} : needsSubscribe(o) \/ needsUnsubscribe(o)}
WorkerIdle == [at |-> "idle", list |-> {}, obj |-> 0, found |-> FALSE]
WorkerAt(at) == worker' = [worker EXCEPT !.at = at]
NextObject == worker' = [worker EXCEPT !.at = IF worker.list = {} THEN "idle" ELSE "list",
                                             !.obj = 0, !.found = FALSE]

ReconcileAll ==
  /\ worker' = [WorkerIdle EXCEPT !.at = IF Reconcilable = {} THEN "idle" ELSE "list", !.list = Reconcilable]
Tick ==
  /\ worker.at = "idle" /\ ~managerClosed /\ Reconcilable # {} /\ ReconcileAll
  /\ UNCHANGED <<dtLimits, publisherVars, observerVars, objects, subsMap, reconcileCh, calls, callCount,
                 canSubscribe, managerClosed, forwardVars, excused>>
TakeId ==
  /\ worker.at = "idle" /\ ~managerClosed /\ reconcileCh # <<>> /\ reconcileCh' = Tail(reconcileCh)
  /\ IF Head(reconcileCh) # 0 /\ InMap(Head(reconcileCh))
       THEN worker' = [WorkerIdle EXCEPT !.at = "list", !.list = {subsMap[Head(reconcileCh)]}]
       ELSE ReconcileAll
  /\ UNCHANGED <<dtLimits, publisherVars, observerVars, objects, subsMap, calls, callCount, canSubscribe,
                 managerClosed, forwardVars, excused>>

(* reconcileDataTrackSubscription decides; a cleanup tells the subscriber   *)
(* the handles while it holds the lock that needs.                          *)
reconcileDataTrackSubscription ==
  /\ worker.at = "list"
  /\ \E o \in worker.list :
       worker' = [worker EXCEPT !.list = @ \ {o}, !.obj = o,
                    !.at = CASE managerClosed -> "return"
                             [] ~managerClosed /\ needsSubscribe(o) -> IF canSubscribe THEN "resolve" ELSE "return"
                             [] ~managerClosed /\ needsUnsubscribe(o) -> "unsubscribe"
                             [] ~managerClosed /\ needsCleanup(o) -> "stuck"
                             [] OTHER -> "return"]
  /\ UNCHANGED <<dtLimits, publisherVars, observerVars, objects, subsMap, reconcileCh, calls, callCount,
                 canSubscribe, managerClosed, forwardVars, excused>>
ReconcileReturns ==
  /\ worker.at = "return" /\ NextObject
  /\ UNCHANGED <<dtLimits, publisherVars, observerVars, objects, subsMap, reconcileCh, calls, callCount,
                 canSubscribe, managerClosed, forwardVars, excused>>

(* subscribeDataTrack: ResolveDataTrackForSubscriber reads the room ...     *)
Object == objects[worker.obj]
ResolveDataTrack ==
  /\ worker.at = "resolve"
  /\ worker' = [worker EXCEPT !.at = "observe", !.found = Object.track \in dtRoom]
  /\ UNCHANGED <<dtLimits, publisherVars, observerVars, objects, subsMap, reconcileCh, calls, callCount,
                 canSubscribe, managerClosed, forwardVars, excused>>

(* ... the observers are set, that of a removal only if the track was found *)
(* ...                                                                      *)
ObserveTrack ==
  LET t == Object.track
      kinds == IF worker.found THEN {"changed", "removed"} ELSE {"changed"}
      new == {k \in kinds : Object[k] # notifiers[k][t].gen} IN
    /\ worker.at = "observe"
    /\ objects' = [objects EXCEPT ![worker.obj] = [f \in DOMAIN @ |->
                     IF f \in new THEN notifiers[f][t].gen ELSE @[f]]]
    /\ notifiers' = [k \in DOMAIN notifiers |->
         IF k \in new THEN [notifiers[k] EXCEPT ![t].observed = @ \cup {notifiers[k][t].gen}] ELSE notifiers[k]]
    /\ UNCHANGED unobserving
    /\ WorkerAt(IF worker.found THEN "add" ELSE "notFound")
    /\ UNCHANGED <<dtLimits, publisherVars, removals, subsMap, reconcileCh, calls, callCount, canSubscribe,
                   managerClosed, forwardVars, excused>>

(* ... a track that is not found is given up after notFoundTimeout ...      *)
TrackNotFound ==
  /\ worker.at = "notFound" /\ NextObject
  /\ \/ UNCHANGED <<objects, unobserving>>
     \/ /\ Env("timeout") /\ Object.desired
        /\ objects' = [objects EXCEPT ![worker.obj] = Undesired(@)]
        /\ unobserving' = unobserving \cup Unobserve(Object)
  /\ UNCHANGED <<dtLimits, publisherVars, notifiers, removals, subsMap, reconcileCh, calls, callCount,
                 canSubscribe, managerClosed, forwardVars, excused>>

(* GetNextSubscribedDataTrackHandle.                                        *)
NextHandle == LET h == (handle + 1) % HandleMod IN IF h = 0 THEN 1 ELSE h

(* ... or DataTrack.AddSubscriber makes the down track, if it is open and   *)
(* there is none.                                                           *)
AddSubscriber ==
  LET t == Object.track
      d == downCount + 1 IN
    /\ worker.at = "add"
    /\ IF registered[t] # 0
         THEN WorkerAt("tell") /\ UNCHANGED <<objects, registered, spreader, handle, downCount, handleOf>>
       ELSE IF t \in dtClosed
         THEN /\ handle' = NextHandle /\ NextObject
              /\ UNCHANGED <<objects, registered, spreader, downCount, handleOf>>
       ELSE /\ handle' = NextHandle /\ downCount' = d /\ handleOf' = Append(handleOf, NextHandle)
            /\ registered' = [registered EXCEPT ![t] = d]
            /\ spreader' = [spreader EXCEPT ![t] = @ \cup {d}]
            /\ objects' = [objects EXCEPT ![worker.obj].down = d] /\ WorkerAt("tell")
    /\ excused' = IF t \notin dtRoom \cup dtClosed THEN excused \cup {"unseen"} ELSE excused
    /\ UNCHANGED <<dtLimits, publisherVars, observerVars, subsMap, reconcileCh, calls, callCount, canSubscribe,
                   managerClosed, told>>

(* notifyDataTrackSubscriberHandles.                                        *)
Handles(map) ==
  {<<handleOf[objects[map[t]].down], t>> :
     t \in {s \in Tracks : map[s] # 0 /\ objects[map[s]].desired /\ objects[map[s]].down # 0}}
notifyDataTrackSubscriberHandles ==
  /\ worker.at = "tell" /\ told' = Handles(subsMap) /\ NextObject
  /\ UNCHANGED <<dtLimits, publisherVars, observerVars, objects, subsMap, reconcileCh, calls, callCount,
                 canSubscribe, managerClosed, registered, spreader, handle, downCount, handleOf, excused>>

(* A form of RemovedFrom that does not close the down track.                *)
RemovedUnclosed(t) == registered' = [registered EXCEPT ![t] = 0] /\ UNCHANGED spreader

(* unsubscribeDataTrack: RemoveSubscriber closes the down track ...         *)
RemovedFrom(t) ==
  /\ registered' = [registered EXCEPT ![t] = 0]
  /\ spreader' = [spreader EXCEPT ![t] = @ \ {registered[t]}]
unsubscribeDataTrack ==
  /\ worker.at = "unsubscribe" /\ RemovedFrom(Object.track) /\ WorkerAt("delete")
  /\ objects' = [objects EXCEPT ![worker.obj].changed = 0, ![worker.obj].removed = 0]
  /\ unobserving' = unobserving \cup Unobserve(Object)
  /\ UNCHANGED <<dtLimits, publisherVars, notifiers, removals, subsMap, reconcileCh, calls, callCount,
                 canSubscribe, managerClosed, handle, downCount, handleOf, told, excused>>

(* ... and the entry of the track is deleted.                               *)
DeleteSubscription ==
  /\ worker.at = "delete" /\ subsMap' = [subsMap EXCEPT ![Object.track] = 0] /\ WorkerAt("tell")
  /\ UNCHANGED <<dtLimits, publisherVars, observerVars, objects, reconcileCh, calls, callCount, canSubscribe,
                 managerClosed, forwardVars, excused>>

(* SubscriptionManager.Close: once the worker has ended, every entry gives  *)
(* up its observers and its down track.                                     *)
CloseManager ==
  /\ Env("end") /\ ~Stuck /\ ~managerClosed /\ managerClosed' = TRUE
  /\ UNCHANGED <<dtLimits, publisherVars, observerVars, objects, subsMap, reconcileCh, calls, callCount, worker,
                 canSubscribe, forwardVars, excused>>
CloseSubscriptions ==
  LET os == {subsMap[t] : t \in Tracks} \ {0}
      gone == {objects[o].track : o \in {p \in os : objects[p].down # 0}} IN
    /\ managerClosed /\ worker.at = "idle" /\ WorkerAt("ended")
    /\ unobserving' = unobserving \cup UNION {Unobserve(objects[o]) : o \in os}
    /\ objects' = [o \in DOMAIN objects |-> IF o \in os THEN Undesired(objects[o]) ELSE objects[o]]
    /\ registered' = [t \in Tracks |-> IF t \in gone THEN 0 ELSE registered[t]]
    /\ spreader' = [t \in Tracks |-> IF t \in gone THEN spreader[t] \ {registered[t]} ELSE spreader[t]]
    /\ told' = {}
    /\ UNCHANGED <<dtLimits, publisherVars, notifiers, removals, subsMap, reconcileCh, calls, callCount,
                   canSubscribe, managerClosed, handle, downCount, handleOf, excused>>

-----------------------------------------------------------------------------
DtInit ==
  /\ dtLimits \in DtLimits
  /\ upTracks = [h \in PubHandles |-> 0] /\ dtClosed = {} /\ dtRoom = {} /\ published = 0 /\ listening = TRUE
  /\ threads = [th \in {"pub", "admin", "leave"} |-> Idle]
  /\ notifiers = [k \in {"changed", "removed"} |-> [t \in Tracks |-> [gen |-> 1, observed |-> {}]]]
  /\ unobserving = {} /\ removals = {}
  /\ objects = <<>> /\ subsMap = [t \in Tracks |-> 0] /\ reconcileCh = <<>>
  /\ calls = [c \in {"client", "auto"} |-> [op |-> "none", track |-> 0, at |-> "none"]] /\ callCount = 0
  /\ worker = WorkerIdle /\ canSubscribe = TRUE /\ managerClosed = FALSE
  /\ registered = [t \in Tracks |-> 0] /\ spreader = [t \in Tracks |-> {}]
  /\ handle = 0 /\ downCount = 0 /\ handleOf = <<>> /\ told = {} /\ excused = {}

DtNext ==
  \/ HandlePublishDataTrackRequest \/ AddDataTrack \/ NotifyTrackChanged \/ Subscribed
  \/ \E th \in {"pub", "admin"} : RemovePublishedDataTrack(th) \/ CloseDataTrack(th)
  \/ \E th \in {"pub", "admin", "leave"} : RemoveDataTrack(th) \/ NotifyTrackRemoved(th) \/ DropNotifiers(th)
  \/ handleSourceDataTrackRemoved \/ RemoveParticipant \/ NextToRemove \/ CloseParticipant
  \/ ClientCalls \/ UnsubscribeFromDataTrack \/ UpdateDataTrackSubscriptionOptions \/ SetCanSubscribe
  \/ \E c \in {"client", "auto"} : SubscribeToDataTrack(c) \/ CreateSubscription(c) \/ DesireCreated(c)
  \/ RemoveObserver \/ Tick \/ TakeId \/ reconcileDataTrackSubscription \/ ReconcileReturns
  \/ ResolveDataTrack \/ ObserveTrack \/ TrackNotFound \/ AddSubscriber \/ notifyDataTrackSubscriberHandles
  \/ unsubscribeDataTrack \/ DeleteSubscription \/ CloseManager \/ CloseSubscriptions

DtSpec == DtInit /\ [][DtNext]_dtVars

-----------------------------------------------------------------------------
PublisherIdle == \A th \in DOMAIN threads : threads[th].at \in {"idle", "gone"}
SubscriberIdle ==
  /\ worker.at = (IF managerClosed THEN "ended" ELSE "idle") /\ \A c \in DOMAIN calls : calls[c].op = "none"
  /\ managerClosed \/ (reconcileCh = <<>> /\ Reconcilable = {})

(* When the publisher's threads are done, the room has the tracks that are  *)
(* published and open, and no other, unless one of them went on while it    *)
(* was closed or it closed itself with tracks still published.              *)
RoomHasDataTracks ==
  PublisherIdle /\ excused \cap {"late", "leak"} = {} =>
    dtRoom = {upTracks[h] : h \in PubHandles} \ {0} /\ dtRoom \cap dtClosed = {}

(* Packets are only forwarded to the down track of a subscription that is   *)
(* in the map, or that the worker is at.                                    *)
ForwardsToSubscribed ==
  excused \cap {"doubled"} = {} =>
    \A t \in Tracks :
      /\ spreader[t] = {registered[t]} \ {0}
      /\ registered[t] # 0 =>
           \/ InMap(t) /\ objects[subsMap[t]].down = registered[t]
           \/ worker.obj # 0 /\ Object.down = registered[t]

(* When the manager has nothing to do, the subscriber knows the handles of  *)
(* its subscriptions, each of them of one track that is still there, and    *)
(* no two are the same while the numbers have not gone round.               *)
HandlesAreTrue ==
  /\ SubscriberIdle /\ excused = {} =>
       /\ told = Handles(subsMap)
       /\ PublisherIdle /\ removals = {} => \A pair \in told : pair[2] \in dtRoom /\ registered[pair[2]] # 0
  /\ \A p, q \in told : p[1] = q[1] => p = q \/ downCount >= HandleMod
  /\ \A p \in told : p[1] # 0

(* The worker goes on, so that what a full queue drops is reconciled when   *)
(* its timer fires (queueReconcileDataTrack).                               *)
WorkerGoesOn == ~Stuck

(* A client that subscribes to a track and unsubscribes.                    *)
ClientLimits == {[tracks |-> 1, calls |-> 2, env |-> {}]}
=============================================================================
