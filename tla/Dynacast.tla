------------------------------ MODULE Dynacast ------------------------------
(***************************************************************************)
(* Dynacast of one published video track (rtc/dynacast and the MediaTrack  *)
(* that owns it): subscribers and subscriber nodes say which quality they  *)
(* want of a codec, a dynacastQuality per codec takes the maximum, the     *)
(* manager commits the maxima of all codecs, downgrades after a pause, and *)
(* the publisher is told through an ops queue.                             *)
(*                                                                         *)
(* Goroutines meet here: each subscriber calls for itself, the timer of a  *)
(* codec and the debounce have goroutines of their own, and codec          *)
(* regression, restarts, mutes and Close come from the publisher.  The     *)
(* quality of a codec and the manager have a lock each; none is held from  *)
(* one to the other, so every lock region is an action.  A goroutine is    *)
(* where it is (at), the codec it is about and the quality it carries.     *)
(***************************************************************************)
EXTENDS Integers, Sequences, FiniteSets, FiniteSetsExt, TLC

CONSTANTS
  Mimes, Subscribers, Nodes,
  From, To,   \* codec regression goes from one codec to another
  DynCases    \* records of bounds: the codecs, the clients and the qualities they ask for; how often
              \* they do, and how many restarts, unmutes and clearings of nodes come; and which of
              \* "regress", "restart", "mute", "clear" and "close" happen

Low == 0
High == 2
Off == 3
Absent == 4  \* a codec that is not in the map
Qualities == {Low, High, Off}
Clients == Subscribers \cup Nodes
Regression == "regression"
Caller == "caller"
Debounce == "debounce"
Procs == Clients \cup Mimes \cup {Regression, Caller, Debounce}

VARIABLES
  dynCase,    \* the bounds of this behaviour
  dqs,        \* codecs in the map dynacastQuality
  subscribed, \* maxSubscriberQuality and maxSubscriberNodeQuality; Off is not in the map
  inited, dqMax, timer,
  regressTo,  \* regressTo of the codec From is set
  regressed,  \* regressedCodec
  maxQuality, committed, \* maxSubscribedQuality, committedMaxSubscribedQuality
  waiting,    \* maxSubscribedQualityDebouncePending and the timer of the debounce
  ops, told, expected, \* the ops queue, what the publisher and the receivers were told last
  trackMuted, unmuting,
  mgrClosed,
  proc,       \* the goroutines
  moved,      \* the maps RegressTo took from the old codec
  toRestart, toClear, \* codecs the loops of Restart and ClearSubscriberNodes have left
  notes, apiCalls,
  wish,       \* history: what each client asked for last, of each codec
  astray      \* history: a report or a map was overtaken by a newer one

quality == <<dqs, subscribed, inited, dqMax, timer, regressTo>>
manager == <<regressed, maxQuality, committed, waiting, ops, mgrClosed>>
outside == <<told, expected, trackMuted, unmuting>>
loops == <<toRestart, toClear, apiCalls>>
dynVars == <<dynCase, quality, manager, outside, loops, proc, moved, notes, wish, astray>>

Idle == [at |-> "idle", mime |-> From, q |-> Off]
At(p, place, m, q) == [proc EXCEPT ![p] = [at |-> place, mime |-> m, q |-> q]]
Done(p) == [proc EXCEPT ![p] = Idle]

TypeOK ==
  /\ dqs \subseteq Mimes /\ subscribed \in [Mimes -> [Clients -> Qualities]]
  /\ inited \in [Mimes -> BOOLEAN] /\ dqMax \in [Mimes -> Qualities] /\ timer \in [Mimes -> BOOLEAN]
  /\ regressTo \in BOOLEAN /\ regressed \in BOOLEAN
  /\ maxQuality \in [Mimes -> Qualities \cup {Absent}]
  /\ committed \in [Mimes -> Qualities \cup {Absent}]
  /\ waiting \in BOOLEAN /\ mgrClosed \in BOOLEAN
  /\ \A i \in DOMAIN ops : ops[i] \in [Mimes -> Qualities \cup {Absent}]
  /\ proc \in [Procs -> [at : {"idle", "compute", "force", "report", "update", "forceUpdate", "stop", "replace"},
                         mime : Mimes, q : Qualities]]

NothingYet == [m \in Mimes |-> Absent]
Init ==
  /\ dynCase \in DynCases
  /\ dqs = {} /\ subscribed = [m \in Mimes |-> [c \in Clients |-> Off]]
  /\ inited = [m \in Mimes |-> FALSE] /\ dqMax = [m \in Mimes |-> Low] /\ timer = [m \in Mimes |-> FALSE]
  /\ regressTo = FALSE /\ regressed = FALSE
  /\ maxQuality = NothingYet /\ committed = NothingYet /\ waiting = FALSE
  /\ ops = <<>> /\ told = NothingYet /\ expected = NothingYet
  /\ trackMuted = FALSE /\ unmuting = FALSE /\ mgrClosed = FALSE
  /\ proc = [p \in Procs |-> Idle]
  /\ moved = [c \in Clients |-> Off]
  /\ toRestart = {} /\ toClear = {} /\ notes = 0 /\ apiCalls = 0
  /\ wish = [m \in Mimes |-> [c \in Clients |-> Off]] /\ astray = FALSE

-----------------------------------------------------------------------------
(* getOrCreateDynacastQuality: a new quality starts its timer.              *)
getOrCreate(m) ==
  /\ dqs' = dqs \cup {m}
  /\ timer' = IF m \in dqs THEN timer ELSE [timer EXCEPT ![m] = TRUE]

(* AddCodec, when a receiver is set up.                                     *)
AddCodec(m) ==
  /\ ~mgrClosed /\ m \notin dqs
  /\ getOrCreate(m)
  /\ UNCHANGED <<subscribed, inited, dqMax, regressTo, manager, outside, loops, proc, moved, notes, wish, astray>>

(* A subscriber or a node asks for a quality.  After a regression a         *)
(* subscriber's wish goes to the new codec, a node's is ignored.            *)
Notify(c, m, q) ==
  /\ proc[c].at = "idle" /\ notes < dynCase.notes /\ ~mgrClosed
  /\ LET t == IF regressTo /\ m = From THEN To ELSE m
     IN  /\ wish[t][c] # q
         /\ getOrCreate(m)
         /\ notes' = notes + 1
         /\ IF t # m /\ c \in Nodes
            THEN UNCHANGED <<subscribed, proc, wish, astray>>
            ELSE /\ subscribed' = [subscribed EXCEPT ![t][c] = q]
                 /\ proc' = At(c, "compute", t, Off)
                 /\ wish' = [wish EXCEPT ![t][c] = q]
                 \* the maps on their way to the new codec hold the old wish
                 /\ astray' = (astray \/ (proc[Regression].at = "replace" /\ t = To /\ moved[c] # Off))
  /\ UNCHANGED <<inited, dqMax, regressTo, manager, outside, loops, moved>>

(* The best quality that is asked for of a codec.                           *)
BestOf(f) == IF \A c \in Clients : f[c] = Off THEN Off ELSE Max({f[c] : c \in {x \in Clients : f[x] # Off}})

(* updateQualityChange, with the lock of the quality.                       *)
updateQualityChange(p) ==
  /\ proc[p].at \in {"compute", "force"}
  /\ LET m == proc[p].mime
         best == BestOf(subscribed[m])
     IN  IF best = dqMax[m] /\ inited[m] /\ proc[p].at # "force"
         THEN proc' = Done(p) /\ UNCHANGED <<inited, dqMax>>
         ELSE /\ inited' = [inited EXCEPT ![m] = TRUE] /\ dqMax' = [dqMax EXCEPT ![m] = best]
              /\ proc' = At(p, "report", m, best)
  /\ UNCHANGED <<dqs, subscribed, timer, regressTo, manager, outside, loops, moved, notes, wish, astray>>

(* OnUpdateMaxQualityForMime, with the lock of the manager.  The quality    *)
(* may have been computed again since.                                      *)
OnUpdateMaxQualityForMime(p) ==
  /\ proc[p].at = "report"
  /\ LET m == proc[p].mime
     IN  /\ maxQuality' = IF regressed /\ m = From THEN maxQuality ELSE [maxQuality EXCEPT ![m] = proc[p].q]
         /\ proc' = At(p, "update", m, Off)
         /\ astray' = (astray \/ dqMax[m] # proc[p].q)
  /\ UNCHANGED <<quality, regressed, committed, waiting, ops, mgrClosed, outside, loops, moved, notes, wish>>

-----------------------------------------------------------------------------
Known(f) == {m \in Mimes : f[m] # Absent}
Upgrade(old, new) == new # Off /\ (old = Off \/ old < new)

(* update of the manager; downgrades alone wait for the debounce.           *)
Enqueued(codecs) == IF mgrClosed THEN ops ELSE Append(ops, codecs)
Commit ==
  /\ waiting' = FALSE
  /\ committed' = maxQuality
  /\ ops' = Enqueued(maxQuality)
DowngradesOnly ==
  /\ Cardinality(Known(maxQuality)) = Cardinality(Known(committed))
  /\ \A m \in Known(maxQuality) : committed[m] # Absent => ~Upgrade(committed[m], maxQuality[m])
Changed ==
  \/ Cardinality(Known(maxQuality)) # Cardinality(Known(committed))
  \/ \E m \in Known(maxQuality) : committed[m] # Absent /\ committed[m] # maxQuality[m]

update(force) ==
  IF Known(maxQuality) = {} \/ (~force /\ ~Changed)
  THEN UNCHANGED <<committed, waiting, ops>>
  ELSE IF ~force /\ DowngradesOnly
  THEN waiting' = TRUE /\ UNCHANGED <<committed, ops>>
  ELSE Commit

(* Where a goroutine goes on after update: codec regression has more to do, *)
(* SetMuted clears the mute.                                                *)
Updates(p) ==
  /\ proc[p].at \in {"update", "forceUpdate"}
  /\ update(proc[p].at = "forceUpdate")
  /\ proc' = IF p = Regression THEN At(p, "stop", From, Off) ELSE Done(p)
  /\ UNCHANGED <<quality, regressed, maxQuality, mgrClosed, outside, loops, moved, notes, wish, astray>>

DebounceFires ==
  /\ waiting /\ proc[Debounce].at = "idle"
  /\ proc' = At(Debounce, "forceUpdate", From, Off)
  /\ UNCHANGED <<quality, manager, outside, loops, moved, notes, wish, astray>>

(* The timer of a codec, initialQualityUpdateWait after it was started.     *)
TimerFires(m) ==
  /\ timer[m] /\ proc[m].at = "idle"
  /\ timer' = [timer EXCEPT ![m] = FALSE]
  /\ proc' = At(m, "force", m, Off)
  /\ UNCHANGED <<dqs, subscribed, inited, dqMax, regressTo, manager, outside, loops, moved, notes, wish, astray>>

-----------------------------------------------------------------------------
(* HandleCodecRegression.  Close is assumed not to come between its two     *)
(* looks at the map: RegressTo would be called with nil.                    *)
HandleCodecRegression ==
  /\ "regress" \in dynCase.env /\ ~regressed /\ ~mgrClosed /\ From \in dqs /\ proc[Regression].at = "idle"
  /\ regressed' = TRUE
  /\ maxQuality' = [maxQuality EXCEPT ![From] = Off, ![To] = IF @ = Absent THEN High ELSE @]
  /\ proc' = At(Regression, "update", From, Off)
  /\ UNCHANGED <<quality, committed, waiting, ops, mgrClosed, outside, loops, moved, notes, wish, astray>>

RegressTo ==
  /\ proc[Regression].at = "stop"
  /\ dqs' = dqs \cup {To}
  /\ timer' = [timer EXCEPT ![From] = FALSE, ![To] = IF To \in dqs THEN @ ELSE TRUE]
  /\ regressTo' = TRUE
  /\ moved' = subscribed[From]
  /\ subscribed' = [subscribed EXCEPT ![From] = [c \in Clients |-> Off]]
  /\ wish' = [wish EXCEPT ![To] = [c \in Clients |-> IF BestOf(wish[From]) = Off THEN @[c]
                                     ELSE IF wish[From][c] = Off THEN @[c]
                                     ELSE IF @[c] = Off \/ @[c] < wish[From][c] THEN wish[From][c] ELSE @[c]],
                          ![From] = [c \in Clients |-> Off]]
  /\ proc' = At(Regression, "replace", To, Off)
  /\ UNCHANGED <<inited, dqMax, manager, outside, loops, notes, astray>>

(* Replace keeps the better of two qualities; reset and a new timer follow. *)
Replace ==
  /\ proc[Regression].at = "replace"
  /\ subscribed' = [subscribed EXCEPT ![To] = [c \in Clients |->
       IF moved[c] # Off /\ (@[c] = Off \/ moved[c] > @[c]) THEN moved[c] ELSE @[c]]]
  /\ inited' = [inited EXCEPT ![To] = FALSE] /\ timer' = [timer EXCEPT ![To] = TRUE]
  /\ proc' = Done(Regression) /\ moved' = [c \in Clients |-> Off]
  /\ UNCHANGED <<dqs, dqMax, regressTo, manager, outside, loops, notes, wish, astray>>

-----------------------------------------------------------------------------
(* Calls of the publisher's participant, one after the other.               *)
Free == proc[Caller].at = "idle" /\ toRestart = {} /\ toClear = {} /\ ~unmuting /\ apiCalls < dynCase.calls

Restart ==
  /\ "restart" \in dynCase.env /\ Free /\ dqs # {}
  /\ committed' = NothingYet
  /\ toRestart' = dqs /\ apiCalls' = apiCalls + 1
  /\ UNCHANGED <<quality, regressed, maxQuality, waiting, ops, mgrClosed, outside, toClear, proc, moved, notes, wish, astray>>

RestartOne(m) ==
  /\ m \in toRestart
  /\ inited' = [inited EXCEPT ![m] = FALSE] /\ timer' = [timer EXCEPT ![m] = TRUE]
  /\ toRestart' = toRestart \ {m}
  /\ UNCHANGED <<dqs, subscribed, dqMax, regressTo, manager, outside, toClear, apiCalls, proc, moved, notes, wish, astray>>

ClearSubscriberNodes ==
  /\ "clear" \in dynCase.env /\ Free /\ dqs # {}
  /\ toClear' = dqs /\ apiCalls' = apiCalls + 1
  /\ UNCHANGED <<quality, manager, outside, toRestart, proc, moved, notes, wish, astray>>

WithoutNodes(f) == [c \in Clients |-> IF c \in Nodes THEN Off ELSE f[c]]
(* A form of ClearOne that leaves the quality to the next notification.     *)
ClearOneQuietly(m) ==
  /\ m \in toClear /\ proc[Caller].at = "idle"
  /\ subscribed' = [subscribed EXCEPT ![m] = WithoutNodes(@)]
  /\ wish' = [wish EXCEPT ![m] = WithoutNodes(@)]
  /\ toClear' = toClear \ {m}
  /\ UNCHANGED <<dqs, inited, dqMax, timer, regressTo, manager, outside, toRestart, apiCalls, proc, moved, notes, astray>>
ClearOne(m) ==
  /\ m \in toClear /\ proc[Caller].at = "idle"
  /\ subscribed' = [subscribed EXCEPT ![m] = WithoutNodes(@)]
  /\ wish' = [wish EXCEPT ![m] = WithoutNodes(@)]
  /\ astray' = (astray \/ (proc[Regression].at = "replace" /\ \E n \in Nodes : moved[n] # Off))
  /\ toClear' = toClear \ {m}
  /\ proc' = At(Caller, "compute", m, Off)
  /\ UNCHANGED <<dqs, inited, dqMax, timer, regressTo, manager, outside, toRestart, apiCalls, moved, notes>>

Mute ==
  /\ "mute" \in dynCase.env /\ Free /\ ~trackMuted
  /\ trackMuted' = TRUE
  /\ UNCHANGED <<quality, manager, told, expected, unmuting, loops, proc, moved, notes, wish, astray>>

(* SetMuted(false) forces an update first and clears the mute after it.     *)
UnmuteBegins ==
  /\ "mute" \in dynCase.env /\ Free /\ trackMuted
  /\ unmuting' = TRUE /\ apiCalls' = apiCalls + 1
  /\ proc' = At(Caller, "forceUpdate", From, Off)
  /\ UNCHANGED <<quality, manager, told, expected, trackMuted, toRestart, toClear, moved, notes, wish, astray>>

UnmuteEnds ==
  /\ unmuting /\ proc[Caller].at = "idle"
  /\ unmuting' = FALSE /\ trackMuted' = FALSE
  /\ UNCHANGED <<quality, manager, told, expected, loops, proc, moved, notes, wish, astray>>

Close ==
  /\ "close" \in dynCase.env /\ ~mgrClosed /\ proc[Regression].at = "idle"
  /\ mgrClosed' = TRUE /\ dqs' = {}
  /\ timer' = [m \in Mimes |-> IF m \in dqs THEN FALSE ELSE timer[m]]
  /\ UNCHANGED <<subscribed, inited, dqMax, regressTo, regressed, maxQuality, committed, waiting, ops, outside, loops, proc, moved, notes, wish, astray>>

(* The ops queue runs OnDynacastSubscribedMaxQualityChange, which does not  *)
(* tell the publisher of a muted track; what is queued when it is stopped   *)
(* is run.                                                                  *)
RunOp ==
  /\ ops # <<>> /\ ops' = Tail(ops)
  /\ told' = IF trackMuted THEN told ELSE Head(ops)
  /\ expected' = Head(ops)
  /\ UNCHANGED <<quality, regressed, maxQuality, committed, waiting, mgrClosed, trackMuted, unmuting, loops, proc, moved, notes, wish, astray>>

-----------------------------------------------------------------------------
Runs ==
  \/ \E p \in Procs : updateQualityChange(p) \/ OnUpdateMaxQualityForMime(p) \/ Updates(p)
  \/ RegressTo \/ Replace \/ UnmuteEnds \/ RunOp
  \/ \E m \in Mimes : RestartOne(m) \/ ClearOne(m)
Times == DebounceFires \/ \E m \in Mimes : TimerFires(m)
Calls ==
  \/ \E m \in dynCase.mimes : AddCodec(m) \/ \E c \in dynCase.clients, q \in dynCase.wishes : Notify(c, m, q)
  \/ HandleCodecRegression \/ Restart \/ ClearSubscriberNodes \/ Mute \/ UnmuteBegins \/ Close

Next == (Runs \/ Times \/ Calls) /\ UNCHANGED dynCase
Spec == Init /\ [][Next]_dynVars

-----------------------------------------------------------------------------
(* Nothing is under way.                                                    *)
Quiet ==
  /\ \A p \in Procs : proc[p].at = "idle"
  /\ ops = <<>> /\ ~waiting /\ toRestart = {} /\ toClear = {} /\ ~unmuting
  /\ \A m \in Mimes : ~timer[m]

(* When all has been said and nobody was overtaken, the receivers expect    *)
(* exactly the best quality anyone wants of each codec, and nothing of a    *)
(* codec that was regressed.                                                *)
ToldIsWanted ==
  Quiet /\ ~mgrClosed /\ ~astray =>
    /\ \A m \in dqs : expected[m] = BestOf(wish[m])
    /\ regressed => expected[From] = Off

(* What the publisher was told is what the receivers expect, unless it was  *)
(* muted when it was said or is about to be unmuted.                        *)
UnmuteTells == Quiet /\ ~trackMuted => told = expected
=============================================================================
