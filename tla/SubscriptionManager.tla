-------------------------- MODULE SubscriptionManager --------------------------
(***************************************************************************)
(* rtc/subscriptionmanager.go: one participant's subscriptions to media    *)
(* tracks.  Callers (signal handlers, the room) only record what is        *)
(* desired; one reconcileWorker goroutine brings the subscriptions in line *)
(* with it, and every DownTrack that closes reports back from a goroutine  *)
(* of its own.  The steps below are cut where another goroutine can see or *)
(* change the state in between: at lock releases, atomic operations and    *)
(* goroutine starts.                                                       *)
(***************************************************************************)
EXTENDS MediaTrack, Integers

CONSTANTS Subs,       \* mediaTrackSubscription objects (a dead one is reused)
          Callers,    \* goroutines calling the manager's API
          All,        \* trackIDForReconcileSubscriptions
          Limit,      \* SubscriptionLimitVideo / Audio, 0: none
          QueueCap,   \* capacity of reconcileCh (50 in the code)
          MaxRemovers,\* bound on RemoveSubscriber goroutines per MediaTrack
          Env         \* what the environment does in this instance: see Next

ASSUME LimitIsNat   == Limit \in Nat
ASSUME AllIsNoTrack == All \notin Tracks
ASSUME NoneIsNoSub  == None \notin Subs
ASSUME BoundsAreNat == QueueCap \in Nat /\ MaxRemovers \in Nat
ASSUME ObjectsFinite == IsFiniteSet(Subs) /\ IsFiniteSet(SubTracks)

VARIABLES
  subscriptions,    \* SubscriptionManager.subscriptions
  subTrackID,       \* mediaTrackSubscription.trackID
  desired,          \* .desired
  subscribedTrack,  \* .subscribedTrack
  bound,            \* .bound
  removedNotifier,  \* .removedNotifier: nil, the room's current one, an old one
  onClose,          \* SubscribedTrack.onClose: None is the early handler
  binding,          \* SubscribedTrack: bind outcome not yet handed to callbacks
  observed,         \* tracks whose current removed notifier has our observer
  unobserve,        \* tracks with a RemoveObserver goroutine under way
  removedEvents,    \* removed notifications under way, before and after resolving
  count,            \* subscribedVideoCount / subscribedAudioCount
  subscribedTo,     \* SubscriptionManager.subscribedTo, as a set of track IDs
  reconcileCh,      \* SubscriptionManager.reconcileCh, duplicates merged
  removers,         \* per MediaTrack: RemoveSubscriber goroutines under way
  wpc, wsub, wpub, wst, work,  \* reconcileWorker
  callPc, callTrack,           \* callers inside SubscribeToTrack
  closeState        \* progress of SubscriptionManager.Close

subVars    == <<subscriptions, subTrackID, desired, subscribedTrack, bound,
                removedNotifier>>
obsVars    == <<observed, unobserve, removedEvents>>
workerVars == <<wpc, wsub, wpub, wst, work>>
callVars   == <<callPc, callTrack>>
vars       == <<pubVars, downVars, subVars, onClose, binding, obsVars, count,
                subscribedTo, reconcileCh, removers, workerVars, callVars,
                closeState>>

SubscriptionTypeOK ==
  /\ subscriptions \in [Tracks -> Subs \cup {None}]
  /\ subTrackID \in [Subs -> Tracks]
  /\ desired \in [Subs -> BOOLEAN]
  /\ subscribedTrack \in [Subs -> SubTracks \cup {None}]
  /\ bound \in [Subs -> BOOLEAN]
  /\ removedNotifier \in [Subs -> {"nil", "current", "old"}]
  /\ onClose \in [SubTracks -> Subs \cup {None}]
  /\ binding \in [SubTracks -> {"none", "bound", "failed", "reported"}]
  /\ observed \in SUBSET Tracks
  /\ unobserve \in SUBSET Tracks
  /\ removedEvents \in [Tracks -> SUBSET {"sent", "resolved"}]
  /\ count \in Int
  /\ subscribedTo \in SUBSET Tracks
  /\ reconcileCh \in SUBSET (Tracks \cup {All})
  /\ removers \in [Pubs -> Nat]
  /\ wpc \in {"select", "loop", "check", "insert", "recheck", "hook", "attach",
              "inc", "mark", "exited"}
  /\ wsub \in Subs \cup {None}
  /\ wpub \in Pubs \cup {None}
  /\ wst \in SubTracks \cup {None}
  /\ work \in SUBSET Subs
  /\ callPc \in [Callers -> {"idle", "create", "desire"}]
  /\ callTrack \in [Callers -> Tracks \cup {None}]
  /\ closeState \in {"open", "closing", "closed"}

TypeOK == MediaTrackTypeOK /\ SubscriptionTypeOK

Init ==
  /\ MediaTrackInit
  /\ subscriptions = [t \in Tracks |-> None]
  /\ subTrackID \in [Subs -> {CHOOSE t \in Tracks : TRUE}]
  /\ desired = [s \in Subs |-> FALSE]
  /\ subscribedTrack = [s \in Subs |-> None]
  /\ bound = [s \in Subs |-> FALSE]
  /\ removedNotifier = [s \in Subs |-> "nil"]
  /\ onClose = [k \in SubTracks |-> None]
  /\ binding = [k \in SubTracks |-> "none"]
  /\ observed = {}
  /\ unobserve = {}
  /\ removedEvents = [t \in Tracks |-> {}]
  /\ count = 0
  /\ subscribedTo = {}
  /\ reconcileCh = {}
  /\ removers = [p \in Pubs |-> 0]
  /\ wpc = "select" /\ wsub = None /\ wpub = None /\ wst = None /\ work = {}
  /\ callPc = [c \in Callers |-> "idle"]
  /\ callTrack = [c \in Callers |-> None]
  /\ closeState = "open"

-----------------------------------------------------------------------------
(* Mutant: an unbound track is subscribed again.                            *)
ResubscribesUnbound(s) == desired[s] /\ (subscribedTrack[s] = None \/ ~bound[s])

(* mediaTrackSubscription's predicates.                                     *)
needsSubscribe(s) == desired[s] /\ subscribedTrack[s] = None
needsUnsubscribe(s) == ~desired[s] /\ subscribedTrack[s] # None
needsBind(s) == desired[s] /\ subscribedTrack[s] # None /\ ~bound[s]
needsCleanup(s) == ~desired[s] /\ subscribedTrack[s] = None

(* Mutant: the limit compared with > instead of >=.                         *)
CapacityOffByOne == Limit = 0 \/ count <= Limit

hasCapacityForSubscription == Limit = 0 \/ count < Limit

(* queueReconcile: a full channel drops the entry, the ticker covers it.    *)
Queue(ch, t) == IF t \in ch \/ Cardinality(ch) < QueueCap THEN ch \cup {t} ELSE ch
queueReconcile(t) == reconcileCh' = Queue(reconcileCh, t)

(* An object is reused once nothing refers to it any more.                  *)
Unreferenced(s) ==
  /\ \A t \in Tracks : subscriptions[t] # s
  /\ s # wsub /\ s \notin work
  /\ subscribedTrack[s] = None
  /\ \A k \in SubTracks : onClose[k] = s => /\ phase[k] = "closed"
                                           /\ binding[k] \in {"none", "reported"}

ClosedForGood(k) ==
  /\ phase[k] = "closed" /\ k \notin sdp /\ k # wst
  /\ binding[k] \in {"none", "reported"} \/ onClose[k] = None
  /\ \A t \in Tracks : cached[t] # k
  /\ \A s \in Subs : subscribedTrack[s] # k

(* newMediaTrackSubscription, entered in the map under t.                   *)
newMediaTrackSubscription(s, t) ==
  /\ subscriptions' = [subscriptions EXCEPT ![t] = s]
  /\ subTrackID' = [subTrackID EXCEPT ![s] = t]
  /\ desired' = [desired EXCEPT ![s] = FALSE]
  /\ bound' = [bound EXCEPT ![s] = FALSE]
  /\ removedNotifier' = [removedNotifier EXCEPT ![s] = "nil"]
  /\ UNCHANGED subscribedTrack

(* setRemovedNotifierLocked(nil): a RemoveObserver goroutine is started for *)
(* the notifier given up; one that the room has dropped has no effect.      *)
ClearNotifiers(S) ==
  /\ removedNotifier' = [s \in Subs |-> IF s \in S THEN "nil" ELSE removedNotifier[s]]
  /\ unobserve' = unobserve \cup
                  {subTrackID[s] : s \in {x \in S : removedNotifier[x] = "current"}}

(* trackSubscription.setDesired on the subscriptions S.                     *)
setDesired(S, d) ==
  /\ desired' = [s \in Subs |-> IF s \in S THEN d ELSE desired[s]]
  /\ IF d THEN UNCHANGED <<removedNotifier, unobserve>>
          ELSE ClearNotifiers({s \in S : desired[s]})

(* subscribe's AddObserver on the removed notifier, when the notifier is    *)
(* not the one already set; a notifier replaced gets its RemoveObserver,    *)
(* but only a dropped one can be replaced.                                  *)
ObserveRemoval(s) ==
  /\ removedNotifier' = [removedNotifier EXCEPT ![s] = "current"]
  /\ observed' = IF removedNotifier[s] = "current" THEN observed
                                                   ELSE observed \cup {subTrackID[s]}

-----------------------------------------------------------------------------
(* API.  SubscribeToTrack looks the subscription up, and when there is none *)
(* creates one and inserts it without looking again, each under its own     *)
(* acquisition of the lock.                                                 *)
SubscribeToTrack(c, t) ==
  /\ callPc[c] = "idle" /\ closeState = "open"
  /\ \/ /\ subscriptions[t] # None
        /\ setDesired({subscriptions[t]}, TRUE)
        /\ queueReconcile(t)
        /\ UNCHANGED callVars
     \/ /\ subscriptions[t] = None
        /\ callPc' = [callPc EXCEPT ![c] = "create"]
        /\ callTrack' = [callTrack EXCEPT ![c] = t]
        /\ UNCHANGED <<desired, removedNotifier, unobserve, reconcileCh>>
  /\ UNCHANGED <<pubVars, downVars, subscriptions, subTrackID, subscribedTrack, bound,
                 onClose, binding, observed, removedEvents, count, subscribedTo,
                 removers, workerVars, closeState>>

SubscribeInsert(c) ==
  /\ callPc[c] = "create"
  /\ \E s \in Subs : Unreferenced(s) /\ newMediaTrackSubscription(s, callTrack[c])
  /\ callPc' = [callPc EXCEPT ![c] = "desire"]
  /\ UNCHANGED <<pubVars, downVars, onClose, binding, obsVars, count, subscribedTo,
                 reconcileCh, removers, workerVars, callTrack, closeState>>

SubscribeDesire(c) ==
  /\ callPc[c] = "desire"
  /\ setDesired({subscriptions[callTrack[c]]} \ {None}, TRUE)
  /\ queueReconcile(callTrack[c])
  /\ callPc' = [callPc EXCEPT ![c] = "idle"]
  /\ callTrack' = [callTrack EXCEPT ![c] = None]
  /\ UNCHANGED <<pubVars, downVars, subscriptions, subTrackID, subscribedTrack, bound,
                 onClose, binding, observed, removedEvents, count, subscribedTo,
                 removers, workerVars, closeState>>

(* UnsubscribeFromTrack, by a caller or by the bind callback of a track     *)
(* that failed to bind: nothing is queued when nothing changed.             *)
Unsubscribe(t) ==
  LET S == {s \in Subs : subscriptions[t] = s /\ desired[s]} IN
  /\ setDesired(S, FALSE)
  /\ IF S = {} THEN UNCHANGED reconcileCh ELSE queueReconcile(t)

UnsubscribeFromTrack(c, t) ==
  /\ callPc[c] = "idle"
  /\ subscriptions[t] # None /\ desired[subscriptions[t]]
  /\ Unsubscribe(t)
  /\ UNCHANGED <<pubVars, downVars, subscriptions, subTrackID, subscribedTrack, bound,
                 onClose, binding, observed, removedEvents, count, subscribedTo,
                 removers, workerVars, callVars, closeState>>

ClearAllSubscriptions(c) ==
  /\ callPc[c] = "idle"
  /\ setDesired({subscriptions[t] : t \in Tracks} \ {None}, FALSE)
  /\ queueReconcile(All)
  /\ UNCHANGED <<pubVars, downVars, subscriptions, subTrackID, subscribedTrack, bound,
                 onClose, binding, observed, removedEvents, count, subscribedTo,
                 removers, workerVars, callVars, closeState>>

(* UpdateSubscribedTrackSettings looks up or creates the subscription in    *)
(* one critical section.  The settings are kept in the subscription object  *)
(* and nowhere else: with an existing object only their value changes.      *)
UpdateSubscribedTrackSettings(c, t) ==
  /\ callPc[c] = "idle" /\ subscriptions[t] = None
  /\ \E s \in Subs : Unreferenced(s) /\ newMediaTrackSubscription(s, t)
  /\ UNCHANGED <<pubVars, downVars, onClose, binding, obsVars, count, subscribedTo,
                 reconcileCh, removers, workerVars, callVars, closeState>>

-----------------------------------------------------------------------------
(* reconcileWorker.  wpc is its place: "select" waits for the ticker or the *)
(* channel, "loop" goes through needsToReconcile (work), the rest are the   *)
(* steps of subscribing to wsub's track.                                    *)
canReconcile == closeState = "open"

(* Mutants: the periodic reconcile skips what is to be subscribed, or what  *)
(* is to be unsubscribed.                                                   *)
TickSkipsSubscribe ==
  {s \in Subs : /\ \E t \in Tracks : subscriptions[t] = s
                /\ needsUnsubscribe(s) \/ needsBind(s) \/ needsCleanup(s)}
TickSkipsUnsubscribe ==
  {s \in Subs : /\ \E t \in Tracks : subscriptions[t] = s
                /\ needsSubscribe(s) \/ needsBind(s) \/ needsCleanup(s)}

NeedsReconcile ==
  {s \in Subs : /\ \E t \in Tracks : subscriptions[t] = s
                /\ needsSubscribe(s) \/ needsUnsubscribe(s) \/ needsBind(s) \/ needsCleanup(s)}

(* The ticker, or a channel entry: that track's subscription if it has one, *)
(* else all of them.                                                        *)
WorkerTick ==
  /\ wpc = "select" /\ closeState = "open"
  /\ NeedsReconcile # {}
  /\ wpc' = "loop" /\ work' = NeedsReconcile
  /\ UNCHANGED <<pubVars, downVars, subVars, onClose, binding, obsVars, count,
                 subscribedTo, reconcileCh, removers, wsub, wpub, wst, callVars,
                 closeState>>

WorkerReceive(t) ==
  /\ wpc = "select" /\ closeState = "open" /\ t \in reconcileCh
  /\ reconcileCh' = reconcileCh \ {t}
  /\ work' = IF t \in Tracks /\ subscriptions[t] # None
             THEN {subscriptions[t]} ELSE NeedsReconcile
  /\ wpc' = "loop"
  /\ UNCHANGED <<pubVars, downVars, subVars, onClose, binding, obsVars, count,
                 subscribedTo, removers, wsub, wpub, wst, callVars, closeState>>

(* The select takes closeCh: the worker returns and closes doneCh.          *)
WorkerExit ==
  /\ wpc = "select" /\ closeState # "open"
  /\ wpc' = "exited"
  /\ UNCHANGED <<pubVars, downVars, subVars, onClose, binding, obsVars, count,
                 subscribedTo, reconcileCh, removers, wsub, wpub, wst, work,
                 callVars, closeState>>

WorkerLoopEnd ==
  /\ wpc = "loop" /\ work = {}
  /\ wpc' = "select"
  /\ UNCHANGED <<pubVars, downVars, subVars, onClose, binding, obsVars, count,
                 subscribedTo, reconcileCh, removers, wsub, wpub, wst, work,
                 callVars, closeState>>

(* reconcileSubscription(s), the cases that end at once: the manager is     *)
(* closing, nothing is needed or a bind is awaited (timeouts only report),  *)
(* or a subscribe is put off while RemoveSubscriber goroutines run (the     *)
(* delayed re-queue is an entry that waits in the channel).                 *)
ReconcileSkip(s) ==
  /\ wpc = "loop" /\ s \in work
  /\ work' = work \ {s}
  /\ \/ /\ \/ ~canReconcile
           \/ desired[s] /\ subscribedTrack[s] # None
        /\ UNCHANGED reconcileCh
     \/ /\ canReconcile /\ needsSubscribe(s)
        /\ \E p \in Pubs : removers[p] > 0
        /\ queueReconcile(subTrackID[s])
  /\ UNCHANGED <<pubVars, downVars, subVars, onClose, binding, obsVars, count,
                 subscribedTo, removers, wpc, wsub, wpub, wst, callVars, closeState>>

(* The clean up path: the map entry of the track is deleted while m.lock is *)
(* held, so setDesired cannot come in between.                              *)
ReconcileCleanup(s) ==
  /\ wpc = "loop" /\ s \in work /\ canReconcile /\ needsCleanup(s)
  /\ work' = work \ {s}
  /\ subscriptions' = [subscriptions EXCEPT ![subTrackID[s]] = None]
  /\ UNCHANGED <<pubVars, downVars, subTrackID, desired, subscribedTrack, bound,
                 removedNotifier, onClose, binding, obsVars, count, subscribedTo,
                 reconcileCh, removers, wpc, wsub, wpub, wst, callVars, closeState>>

(* unsubscribe(s): a goroutine is started to remove this subscriber from    *)
(* the MediaTrack.                                                          *)
ReconcileUnsubscribe(s) ==
  /\ wpc = "loop" /\ s \in work /\ canReconcile /\ needsUnsubscribe(s)
  /\ removers[pubOf[subscribedTrack[s]]] < MaxRemovers
  /\ work' = work \ {s}
  /\ removers' = [removers EXCEPT ![pubOf[subscribedTrack[s]]] = @ + 1]
  /\ UNCHANGED <<pubVars, downVars, subVars, onClose, binding, obsVars, count,
                 subscribedTo, reconcileCh, wpc, wsub, wpub, wst, callVars, closeState>>

(* subscribe(s) up to the resolved track, when it fails: the limit is       *)
(* reached (found before resolving when the track's kind is known, which is *)
(* left open here), the track is not found or not permitted.  A track still *)
(* not found after notFoundTimeout is no longer desired.                    *)
SubscribeFails(s) ==
  /\ wpc = "loop" /\ s \in work /\ canReconcile /\ needsSubscribe(s)
  /\ work' = work \ {s}
  /\ LET t == subTrackID[s]
         p == GetTrackInfo(t) IN
     \/ /\ ~hasCapacityForSubscription \/ p = None
        /\ UNCHANGED <<desired, removedNotifier, unobserve, observed, reconcileCh>>
     \/ /\ p = None
        /\ setDesired({s}, FALSE) /\ queueReconcile(t)
        /\ UNCHANGED observed
     \/ /\ p # None
        /\ ~hasCapacityForSubscription \/ t \notin permitted
        /\ ObserveRemoval(s)
        /\ UNCHANGED <<desired, unobserve, reconcileCh>>
  /\ UNCHANGED <<pubVars, downVars, subscriptions, subTrackID, subscribedTrack, bound,
                 onClose, binding, removedEvents, count, subscribedTo, removers, wpc,
                 wsub, wpub, wst, callVars, closeState>>

(* subscribe(s) as far as the call of MediaTrack.AddSubscriber.             *)
SubscribeResolves(s) ==
  /\ wpc = "loop" /\ s \in work /\ canReconcile /\ needsSubscribe(s)
  /\ hasCapacityForSubscription
  /\ GetTrackInfo(subTrackID[s]) # None
  /\ subTrackID[s] \in permitted
  /\ ObserveRemoval(s)
  /\ work' = work \ {s}
  /\ wpc' = "check" /\ wsub' = s /\ wpub' = GetTrackInfo(subTrackID[s])
  /\ UNCHANGED <<pubVars, downVars, subscriptions, subTrackID, desired, subscribedTrack,
                 bound, onClose, binding, unobserve, removedEvents, count, subscribedTo,
                 reconcileCh, removers, wst, callVars, closeState>>

(* What the worker leaves alone while it adds a subscriber.                 *)
AddUnchanged == UNCHANGED <<pubVars, subscriptions, subTrackID, desired, removedNotifier,
                            obsVars, reconcileCh, removers, callVars, closeState>>

SubscribeDone ==
  wpc' = "loop" /\ wsub' = None /\ wpub' = None /\ wst' = None /\ UNCHANGED work

(* MediaTrackReceiver.AddSubscriber: the check under the receiver's lock,   *)
(* ErrNotOpen or ErrNoReceiver when it fails.                               *)
AddCheck ==
  /\ wpc = "check"
  /\ IF pubState[wpub] = "open"
     THEN wpc' = "insert" /\ UNCHANGED <<wsub, wpub, wst, work>>
     ELSE SubscribeDone
  /\ AddUnchanged
  /\ UNCHANGED <<downVars, subscribedTrack, bound, onClose, binding, count, subscribedTo>>

(* MediaTrackSubscriptions.AddSubscriber: errAlreadySubscribed when the map *)
(* has an entry, else a SubscribedTrack with the early close handler.       *)
AddInsert ==
  /\ wpc = "insert"
  /\ wpc' = "recheck"
  /\ \/ /\ subscribedTracks[wpub] # None
        /\ wst' = None
        /\ UNCHANGED <<downVars, onClose, binding>>
     \/ /\ subscribedTracks[wpub] = None
        /\ \E k \in SubTracks, reuse \in BOOLEAN :
             /\ ClosedForGood(k)
             /\ NewSubscribedTrack(wpub, k, reuse)
             /\ onClose' = [onClose EXCEPT ![k] = None]
             /\ binding' = [binding EXCEPT ![k] = "none"]
             /\ wst' = k
  /\ AddUnchanged
  /\ UNCHANGED <<subscribedTrack, bound, count, subscribedTo, wsub, wpub, work>>

(* Mutant: no second look at the state.                                     *)
AddWithoutRecheck ==
  /\ wpc = "recheck"
  /\ wpc' = (IF wst = None THEN "mark" ELSE "hook")
  /\ AddUnchanged
  /\ UNCHANGED <<downVars, subscribedTrack, bound, onClose, binding, count, subscribedTo,
                 wsub, wpub, wst, work>>

(* "media track could have been closed while adding subscription": the      *)
(* subscriber is removed again and the caller gets ErrNotOpen.              *)
AddRecheck ==
  /\ wpc = "recheck"
  /\ IF StateOpen(wpub)
     THEN /\ wpc' = (IF wst = None THEN "mark" ELSE "hook")
          /\ UNCHANGED <<wsub, wpub, wst, work, phase, resume>>
     ELSE /\ RemoveSubscriber(wpub, expectResume[wpub])
          /\ SubscribeDone
  /\ AddUnchanged
  /\ UNCHANGED <<subscribedTracks, pubOf, sdp, cached, subscribedTrack, bound, onClose,
                 binding, count, subscribedTo>>

(* SubscriptionManager.addSubscriber: OnClose and AddOnBind, then           *)
(* setSubscribedTrack, then the counter, then (in subscribe)                *)
(* markSubscribedTo; SubscribedTracks may close in between.                 *)
AddHook ==
  /\ wpc = "hook"
  /\ onClose' = [onClose EXCEPT ![wst] = wsub]
  /\ wpc' = "attach"
  /\ AddUnchanged
  /\ UNCHANGED <<downVars, subscribedTrack, bound, binding, count, subscribedTo, wsub,
                 wpub, wst, work>>

AddAttach ==
  /\ wpc = "attach"
  /\ subscribedTrack' = [subscribedTrack EXCEPT ![wsub] = wst]
  /\ bound' = [bound EXCEPT ![wsub] = FALSE]
  /\ wpc' = "inc"
  /\ AddUnchanged
  /\ UNCHANGED <<downVars, onClose, binding, count, subscribedTo, wsub, wpub, wst, work>>

AddCount ==
  /\ wpc = "inc"
  /\ count' = count + 1
  /\ wpc' = "mark"
  /\ AddUnchanged
  /\ UNCHANGED <<downVars, subscribedTrack, bound, onClose, binding, subscribedTo, wsub,
                 wpub, wst, work>>

AddMark ==
  /\ wpc = "mark"
  /\ subscribedTo' = subscribedTo \cup {subTrackID[wsub]}
  /\ SubscribeDone
  /\ AddUnchanged
  /\ UNCHANGED <<downVars, subscribedTrack, bound, onClose, binding, count>>

-----------------------------------------------------------------------------
(* Mutant: pendingUnsubscribes lowered twice.                               *)
RemoverCountsTwice(p) ==
  /\ removers[p] > 0
  /\ removers' = [removers EXCEPT ![p] = @ - 2]
  /\ RemoveSubscriber(p, FALSE)
  /\ UNCHANGED <<pubVars, subscribedTracks, pubOf, sdp, cached, subVars, onClose, binding,
                 obsVars, count, subscribedTo, reconcileCh, workerVars, callVars,
                 closeState>>

(* The goroutine of unsubscribe: it removes whatever entry this subscriber  *)
(* has by now, and gives up its share of pendingUnsubscribes.               *)
Remover(p) ==
  /\ removers[p] > 0
  /\ removers' = [removers EXCEPT ![p] = @ - 1]
  /\ RemoveSubscriber(p, FALSE)
  /\ UNCHANGED <<pubVars, subscribedTracks, pubOf, sdp, cached, subVars, onClose, binding,
                 obsVars, count, subscribedTo, reconcileCh, workerVars, callVars,
                 closeState>>

(* A close that has flushed: MediaTrackSubscriptions lets go of it.         *)
DownTrackCloses(k) ==
  /\ OnDownTrackClose(k)
  /\ UNCHANGED <<pubVars, subVars, onClose, binding, obsVars, count, subscribedTo,
                 reconcileCh, removers, workerVars, callVars, closeState>>

(* SubscribedTrack.Close runs the handler set by now.  The early handler    *)
(* takes the track off the PeerConnection; handleSubscribedTrackClose       *)
(* returns when the subscription has no SubscribedTrack (yet), and else     *)
(* resets it and its notifiers.                                             *)
CloseCallback(k) ==
  /\ phase[k] = "detached"
  /\ LET s == onClose[k] IN
     \/ /\ s = None
        /\ phase' = [phase EXCEPT ![k] = "closed"]
        /\ sdp' = IF resume[k] THEN sdp ELSE sdp \ {k}
        /\ UNCHANGED <<subscribedTrack, bound, removedNotifier, unobserve>>
     \/ /\ s # None /\ subscribedTrack[s] = None
        /\ phase' = [phase EXCEPT ![k] = "closed"]
        /\ UNCHANGED <<sdp, subscribedTrack, bound, removedNotifier, unobserve>>
     \/ /\ s # None /\ subscribedTrack[s] # None
        /\ phase' = [phase EXCEPT ![k] = "uncount"]
        /\ subscribedTrack' = [subscribedTrack EXCEPT ![s] = None]
        /\ bound' = [bound EXCEPT ![s] = FALSE]
        /\ ClearNotifiers({s})
        /\ UNCHANGED sdp
  /\ UNCHANGED <<pubVars, subscribedTracks, pubOf, resume, cached, subscriptions,
                 subTrackID, desired, onClose, binding, observed, removedEvents, count,
                 subscribedTo, reconcileCh, removers, workerVars, callVars, closeState>>

(* Its next steps: the counter and subscribedTo ...                         *)
CloseUncount(k) ==
  /\ phase[k] = "uncount"
  /\ count' = count - 1
  /\ subscribedTo' = subscribedTo \ {subTrackID[onClose[k]]}
  /\ phase' = [phase EXCEPT ![k] = IF Limit > 0 /\ count' = Limit - 1
                                   THEN "releaseAll" ELSE "release"]
  /\ UNCHANGED <<pubVars, subscribedTracks, pubOf, resume, sdp, cached, subVars, onClose,
                 binding, obsVars, reconcileCh, removers, workerVars, callVars,
                 closeState>>

(* ... and RemoveTrackLocal unless it will resume, Negotiate, and a         *)
(* reconcile of this track, or of all when a full limit was relieved.       *)
CloseRelease(k) ==
  /\ phase[k] \in {"release", "releaseAll"}
  /\ phase' = [phase EXCEPT ![k] = "closed"]
  /\ sdp' = IF resume[k] THEN sdp ELSE sdp \ {k}
  /\ queueReconcile(IF phase[k] = "releaseAll" THEN All ELSE subTrackID[onClose[k]])
  /\ UNCHANGED <<pubVars, subscribedTracks, pubOf, resume, cached, subVars, onClose,
                 binding, obsVars, count, subscribedTo, removers, workerVars, callVars,
                 closeState>>

(* DownTrack.Bind, after negotiation, or at once on a replaced track.       *)
Bind(k, outcome) ==
  /\ phase[k] = "open" /\ k \in sdp /\ binding[k] = "none"
  /\ binding' = [binding EXCEPT ![k] = outcome]
  /\ UNCHANGED <<pubVars, downVars, subVars, onClose, obsVars, count, subscribedTo,
                 reconcileCh, removers, workerVars, callVars, closeState>>

(* The callback of AddOnBind: the subscription object is marked bound       *)
(* whatever SubscribedTrack it holds by now, or unsubscribed on failure.    *)
BindCallback(k) ==
  LET s == onClose[k] IN
  /\ binding[k] \in {"bound", "failed"} /\ s # None
  /\ binding' = [binding EXCEPT ![k] = "reported"]
  /\ IF binding[k] = "bound"
     THEN /\ bound' = [bound EXCEPT ![s] = TRUE]
          /\ UNCHANGED <<desired, removedNotifier, unobserve, reconcileCh>>
     ELSE /\ Unsubscribe(subTrackID[s])
          /\ UNCHANGED bound
  /\ UNCHANGED <<pubVars, downVars, subscriptions, subTrackID, subscribedTrack, onClose,
                 observed, removedEvents, count, subscribedTo, removers, workerVars,
                 callVars, closeState>>

-----------------------------------------------------------------------------
(* What the publishing side tells the manager.  NotifyTrackChanged queues a *)
(* reconcile if the manager is among the observers of the changed notifier  *)
(* at that moment, which is left open: the ticker covers the other case.    *)
NotifyTrackChanged(t) == reconcileCh' \in {reconcileCh, Queue(reconcileCh, t)}

managerUnchanged == UNCHANGED <<subVars, onClose, binding, obsVars, count, subscribedTo,
                                removers, workerVars, callVars, closeState>>

Publish(p) == AddTrack(p) /\ NotifyTrackChanged(TrackOf[p]) /\ managerUnchanged

PublisherSteps(p) ==
  /\ \/ SetupReceiver(p)
     \/ \E r \in (IF "migrate" \in Env THEN BOOLEAN ELSE {FALSE}) : SetClosing(p, r)
     \/ ClearAllReceivers(p)
  /\ managerUnchanged /\ UNCHANGED reconcileCh

Revoke(t) == RevokePermission(t) /\ NotifyTrackChanged(t) /\ managerUnchanged
Grant(t)  == GrantPermission(t) /\ NotifyTrackChanged(t) /\ managerUnchanged

(* RemoveTrack notifies the observers of the removed notifier in a          *)
(* goroutine, then drops the notifiers: later resolutions create new ones.  *)
Unpublish(p) ==
  LET t == TrackOf[p] IN
  /\ RemoveTrack(p)
  /\ removedEvents' = IF t \in observed THEN [removedEvents EXCEPT ![t] = @ \cup {"sent"}]
                                        ELSE removedEvents
  /\ observed' = observed \ {t}
  /\ unobserve' = unobserve \ {t}
  /\ removedNotifier' = [s \in Subs |-> IF subTrackID[s] = t /\ removedNotifier[s] = "current"
                                        THEN "old" ELSE removedNotifier[s]]
  /\ UNCHANGED <<subscriptions, subTrackID, desired, subscribedTrack, bound, onClose,
                 binding, count, subscribedTo, reconcileCh, removers, workerVars,
                 callVars, closeState>>

(* The RemoveObserver goroutine deletes by subscriber ID.                   *)
RemoveObserver(t) ==
  /\ t \in unobserve
  /\ unobserve' = unobserve \ {t}
  /\ observed' = observed \ {t}
  /\ UNCHANGED <<pubVars, downVars, subVars, onClose, binding, removedEvents, count,
                 subscribedTo, reconcileCh, removers, workerVars, callVars, closeState>>

(* The removed observer re-resolves the track ...                           *)
RemovedResolve(t) ==
  /\ "sent" \in removedEvents[t]
  /\ removedEvents' = [removedEvents EXCEPT ![t] =
                         (@ \ {"sent"}) \cup (IF GetTrackInfo(t) = None THEN {"resolved"} ELSE {})]
  /\ UNCHANGED <<pubVars, downVars, subVars, onClose, binding, observed, unobserve, count,
                 subscribedTo, reconcileCh, removers, workerVars, callVars, closeState>>

(* ... and if it is gone, handleSourceTrackRemoved gives it up.             *)
handleSourceTrackRemoved(t) ==
  LET S == {subscriptions[t]} \ {None} IN
  /\ "resolved" \in removedEvents[t]
  /\ removedEvents' = [removedEvents EXCEPT ![t] = @ \ {"resolved"}]
  /\ desired' = [s \in Subs |-> IF s \in S THEN FALSE ELSE desired[s]]
  /\ ClearNotifiers(S)
  /\ UNCHANGED <<pubVars, downVars, subscriptions, subTrackID, subscribedTrack, bound,
                 onClose, binding, observed, count, subscribedTo, reconcileCh, removers,
                 workerVars, callVars, closeState>>

-----------------------------------------------------------------------------
(* SubscriptionManager.Close: closeCh is closed, the worker is waited for,  *)
(* then every subscribed track in the map is given up and its DownTrack     *)
(* closed, flushed unless the session is expected to resume.                *)
CloseBegin ==
  /\ closeState = "open"
  /\ closeState' = "closing"
  /\ UNCHANGED <<pubVars, downVars, subVars, onClose, binding, obsVars, count,
                 subscribedTo, reconcileCh, removers, workerVars, callVars>>

(* Mutant: Close gives the subscriptions up without closing the DownTracks. *)
CloseForgetsDownTracks(r) ==
  /\ closeState = "closing" /\ wpc = "exited"
  /\ closeState' = "closed"
  /\ UNCHANGED <<pubVars, downVars, subVars, onClose, binding, obsVars, count,
                 subscribedTo, reconcileCh, removers, workerVars, callVars>>

CloseFinish(r) ==
  LET S == {subscriptions[t] : t \in Tracks} \ {None}
      A == {s \in S : subscribedTrack[s] # None} IN
  /\ closeState = "closing" /\ wpc = "exited"
  /\ closeState' = "closed"
  /\ ClearNotifiers(S)
  /\ desired' = [s \in Subs |-> IF s \in A THEN FALSE ELSE desired[s]]
  /\ CloseWithFlush({subscribedTrack[s] : s \in A}, r)
  /\ UNCHANGED <<pubVars, subscribedTracks, pubOf, sdp, cached, subscriptions, subTrackID,
                 subscribedTrack, bound, onClose, binding, observed, removedEvents, count,
                 subscribedTo, reconcileCh, removers, workerVars, callVars>>

-----------------------------------------------------------------------------
(* Steps the goroutines inside the server take by themselves.               *)
ReconcileStep == \E s \in Subs : \/ ReconcileSkip(s) \/ ReconcileCleanup(s)
                                 \/ ReconcileUnsubscribe(s) \/ SubscribeFails(s)
                                 \/ SubscribeResolves(s)
AddStep    == \/ AddCheck \/ AddInsert \/ AddRecheck \/ AddHook \/ AddAttach
              \/ AddCount \/ AddMark
WorkerStep == \/ WorkerTick \/ \E t \in Tracks \cup {All} : WorkerReceive(t)
              \/ WorkerLoopEnd \/ WorkerExit \/ ReconcileStep \/ AddStep
CloserStep(k) == DownTrackCloses(k) \/ CloseCallback(k) \/ CloseUncount(k) \/ CloseRelease(k)
CallerStep(c) == SubscribeInsert(c) \/ SubscribeDesire(c)
NotifierStep(t) == RemoveObserver(t) \/ RemovedResolve(t) \/ handleSourceTrackRemoved(t)

(* What clients, publishers and the participant's life cycle ask for.  Env  *)
(* names the kinds of request an instance has: a smaller environment makes  *)
(* room for larger sets.                                                    *)
ClientStep == \E c \in Callers :
  \/ \E t \in Tracks : \/ SubscribeToTrack(c, t)
                       \/ UnsubscribeFromTrack(c, t)
                       \/ "settings" \in Env /\ UpdateSubscribedTrackSettings(c, t)
  \/ "clear" \in Env /\ ClearAllSubscriptions(c)
PublisherStep == \E p \in Pubs : \/ Publish(p)
                                 \/ "unpublish" \in Env /\ PublisherSteps(p)
                                 \/ "unpublish" \in Env /\ Unpublish(p)
PermissionStep == "permission" \in Env /\ \E t \in Tracks : Revoke(t) \/ Grant(t)
BindStep == "bind" \in Env /\ \E k \in SubTracks : \/ \E o \in {"bound", "failed"} : Bind(k, o)
                                                   \/ BindCallback(k)
CloseStep == "close" \in Env /\ (CloseBegin \/ \E r \in BOOLEAN : CloseFinish(r))

Next == \/ WorkerStep
        \/ \E k \in SubTracks : CloserStep(k)
        \/ \E c \in Callers : CallerStep(c)
        \/ \E p \in Pubs : Remover(p)
        \/ \E t \in Tracks : NotifierStep(t)
        \/ ClientStep \/ PublisherStep \/ PermissionStep \/ BindStep \/ CloseStep

Spec == Init /\ [][Next]_vars

-----------------------------------------------------------------------------
(* Fairness.  Goroutines that can run do run.  reconcileWorker's select     *)
(* picks at random among its ready cases, so a ticker that keeps firing is  *)
(* taken in the end even if the channel is never empty (SF).  Nothing is    *)
(* assumed of clients, publishers, binds or Close being called.             *)
Fairness ==
  /\ WF_vars(WorkerStep) /\ SF_vars(WorkerTick)
  /\ \A k \in SubTracks : WF_vars(CloserStep(k))
  /\ \A c \in Callers : WF_vars(CallerStep(c))
  /\ \A p \in Pubs : WF_vars(Remover(p))
  /\ \A t \in Tracks : WF_vars(RemoveObserver(t)) /\ WF_vars(RemovedResolve(t))
                       /\ WF_vars(handleSourceTrackRemoved(t))
  /\ \A r \in BOOLEAN : WF_vars("close" \in Env /\ CloseFinish(r))

FairSpec == Spec /\ Fairness

-----------------------------------------------------------------------------
Attached == {s \in Subs : subscribedTrack[s] # None}

(* The subscription limit of the participant holds for the SubscribedTracks *)
(* actually attached, not only for the counter, although the counter is     *)
(* raised after a track is attached and lowered after it is detached, by    *)
(* other goroutines (hasCapacityForSubscription, addSubscriber,             *)
(* handleSubscribedTrackClose).                                             *)
LimitRespected == Limit > 0 => Cardinality(Attached) <= Limit

(* A MediaTrack that has removed its subscribers gets no new one: an open   *)
(* SubscribedTrack of it is one AddSubscriber is about to find on its       *)
(* second look at the state (MediaTrackReceiver.AddSubscriber against       *)
(* SetClosing and ClearAllReceivers).                                       *)
ClosedTrackIsReleased ==
  \A k \in SubTracks :
    phase[k] = "open" /\ pubState[pubOf[k]] \in {"cleared", "closed"}
      => wpc = "recheck" /\ wst = k

(* MediaTrackSubscriptions.subscribedTracks holds exactly the tracks not    *)
(* yet fully closed, so the deletion by subscriber ID in OnDownTrackClosed  *)
(* never deletes the entry of another SubscribedTrack.                      *)
MapHoldsLiveTracks ==
  \A k \in SubTracks, p \in Pubs :
    (subscribedTracks[p] = k) <=> (phase[k] \in {"open", "closing"} /\ pubOf[k] = p)

(* handleSubscribedTrackClose takes the track to detach from the            *)
(* subscription, not from the SubscribedTrack that closes: they are the     *)
(* same.                                                                    *)
CloseFindsOwnTrack ==
  \A k \in SubTracks : \A s \in Subs :
    phase[k] = "detached" /\ onClose[k] = s /\ subscribedTrack[s] # None
      => subscribedTrack[s] = k

Desired(t) == \E s \in Subs : subscriptions[t] = s /\ desired[s]

Forwarded(t) == \E s \in Subs : /\ subscriptions[t] = s
                                /\ subscribedTrack[s] # None
                                /\ phase[subscribedTrack[s]] = "open"

Available(t) == /\ GetTrackInfo(t) # None
                /\ pubState[GetTrackInfo(t)] = "open"
                /\ t \in permitted

(* Reconciliation converges: a track that stays desired, published and      *)
(* permitted in the end has a SubscribedTrack for good, however subscribes, *)
(* unsubscribes, re-publications and permission changes were interleaved    *)
(* before (reconcileSubscription).                                          *)
DesiredIsSubscribed ==
  \A t \in Tracks : <>[](Desired(t) /\ Available(t) /\ closeState = "open")
                      => <>[](\E s \in Subs : subscriptions[t] = s /\ subscribedTrack[s] # None)

(* A subscription does not hold on to a SubscribedTrack that has closed:    *)
(* "Wait for subscribed track to close and the callback                     *)
(* (handleSubscribedTrackClose) to set the subscribedTrack to nil".         *)
ClosedIsDetached ==
  \A s \in Subs : subscribedTrack[s] # None => phase[subscribedTrack[s]] # "closed"

(* A track that stays undesired is in the end not forwarded and its         *)
(* DownTracks are closed (needsUnsubscribe, handleSubscribedTrackClose).    *)
UndesiredIsClosed ==
  \A t \in Tracks : <>[](~Desired(t) /\ closeState = "open")
                      => <>[](\A k \in SubTracks : TrackOf[pubOf[k]] = t => phase[k] = "closed")

(* After Close every DownTrack of the participant gets closed.              *)
CloseClosesAll == closeState = "closed" ~> \A k \in SubTracks : phase[k] = "closed"

-----------------------------------------------------------------------------
(* What comments and tests say and the code does not keep.                  *)

(* "Waiting for subscribed track close would ensure that the track is       *)
(* removed from the peer connection before re-published track is            *)
(* re-subscribed and added back to the SDP": a track ID has one sender.     *)
OneSenderPerTrack ==
  \A k1, k2 \in sdp : TrackOf[pubOf[k1]] = TrackOf[pubOf[k2]] => k1 = k2

(* SubscribeToTrack ends with a subscription in the map to set desired.     *)
SubscribeIsRecorded ==
  \A c \in Callers : callPc[c] = "desire" => subscriptions[callTrack[c]] # None

(* An attached subscription stays reachable from the map, which is where    *)
(* unsubscribing and Close look for it.                                     *)
AttachedIsInMap ==
  \A s \in Subs : subscribedTrack[s] # None => subscriptions[subTrackID[s]] = s

(* IsSubscribedTo is false once nothing of the publisher is subscribed and  *)
(* nothing is under way.                                                    *)
SubscribedToIsExact ==
  (/\ wpc = "select"
   /\ \A k \in SubTracks : phase[k] = "closed"
   /\ \A s \in Subs : subscribedTrack[s] = None) => subscribedTo = {}

(* "whether re-using or stopping remove transceiver from cache": a cached   *)
(* transceiver is one that can still be reused.                             *)
CachedIsUsable == \A t \in Tracks : cached[t] # None => cached[t] \in sdp
=============================================================================
