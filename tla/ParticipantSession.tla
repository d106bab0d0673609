------------------------- MODULE ParticipantSession -------------------------
(***************************************************************************)
(* The sessions of one identity in an open room: joining, resuming, being  *)
(* replaced by a second connection of the same identity, being removed and *)
(* closing (service/roommanager.go StartSession, rtcSessionWorker;         *)
(* rtc/room.go Join, ResumeParticipant, RemoveParticipant, onStateChange;  *)
(* rtc/participant.go Close, updateState, AddOnClose).                     *)
(*                                                                         *)
(* A signal connection either joins, and then is a participant session of  *)
(* its own, or resumes the session it finds.  Participant.Close and        *)
(* Room.RemoveParticipant each have one caller that gets past their first  *)
(* critical section: that activity is kept per session (closing, removing),*)
(* and callers that come later return at once.                             *)
(***************************************************************************)
EXTENDS Naturals, FiniteSets

CONSTANTS Conns,     \* signal connections, and the sessions they may become
          None,
          Env        \* what happens: "resume", "close", "leave", "drop", "joinFail", "timeout"

VARIABLES
  parts,       \* Room.participants[identity]
  source,      \* Room.participantRequestSources[identity]
  pc,          \* where StartSession, then rtcSessionWorker of a connection is
  whose,       \* the session the connection serves
  srcOpen,     \* its request source has not ended
  state,       \* ParticipantInfo_State of a session
  closing,     \* Participant.Close: "no", "update", "callbacks", "done"
  listening,   \* participantListener is the room
  farewell,    \* the ParticipantCloseKeyNormal callback: is it in onClose, and
               \* how often did it run
  born,        \* ConnectedAt: the order in which sessions were created
  removing,    \* Room.RemoveParticipant of the session
  sendUpdates, \* what it read of IsDisconnected
  notes,       \* OnStateChange goroutines of the session, by what they do next
  told         \* what other participants were told last of the session

connVars  == <<pc, whose, srcOpen>>
partVars  == <<state, closing, listening, farewell, born>>
removeVars == <<removing, sendUpdates>>
vars == <<parts, source, connVars, partVars, removeVars, notes, told>>

States == {"new", "JOINING", "JOINED", "ACTIVE", "DISCONNECTED"}
Rank(s) == CASE s = "new" -> 0 [] s = "JOINING" -> 1 [] s = "JOINED" -> 2
             [] s = "ACTIVE" -> 3 [] s = "DISCONNECTED" -> 4
ConnPcs == {"idle", "found", "evict", "create", "join", "joinFailed", "joined", "register", "resume",
            "work", "lost", "end"}

TypeOK ==
  /\ parts \in Conns \union {None} /\ source \in Conns \union {None}
  /\ pc \in [Conns -> ConnPcs] /\ whose \in [Conns -> Conns \union {None}]
  /\ srcOpen \in [Conns -> BOOLEAN]
  /\ state \in [Conns -> States]
  /\ closing \in [Conns -> {"no", "update", "callbacks", "done"}]
  /\ listening \in [Conns -> BOOLEAN] /\ farewell \in [Conns -> [set : BOOLEAN, runs : 0..2]]
  /\ born \in [Conns -> 0..Cardinality(Conns)]
  /\ removing \in [Conns -> {"no", "check", "clear", "close", "wait", "tell", "done"}]
  /\ sendUpdates \in [Conns -> BOOLEAN]
  /\ notes \in [Conns -> SUBSET {"tell", "act"}]
  /\ told \in [Conns -> {"nothing", "present", "gone"}]
  /\ parts # None => state[parts] # "new" /\ removing[parts] = "no"

Init ==
  /\ parts = None /\ source = None
  /\ pc = [k \in Conns |-> "idle"] /\ whose = [k \in Conns |-> None]
  /\ srcOpen = [k \in Conns |-> TRUE]
  /\ state = [p \in Conns |-> "new"]
  /\ closing = [p \in Conns |-> "no"]
  /\ listening = [p \in Conns |-> FALSE] /\ farewell = [p \in Conns |-> [set |-> FALSE, runs |-> 0]]
  /\ born = [p \in Conns |-> 0]
  /\ removing = [p \in Conns |-> "no"]
  /\ sendUpdates = [p \in Conns |-> FALSE]
  /\ notes = [p \in Conns |-> {}]
  /\ told = [p \in Conns |-> "nothing"]

IsClosed(p) == closing[p] # "no"
IsDisconnected(p) == state[p] = "DISCONNECTED"
(* Of a session that is not disconnected.                                   *)
HasConnected(p) == state[p] = "ACTIVE"
(* CompareParticipant, on the times the sessions were created.              *)
Newer(p, q) == born[p] > born[q]

-----------------------------------------------------------------------------
(* participant.go                                                           *)

(* updateState: states only go up; the listener is told in a goroutine.     *)
updateState(p, s) ==
  IF Rank(s) > Rank(state[p])
  THEN /\ state' = [state EXCEPT ![p] = s]
       /\ notes' = IF listening[p] THEN [notes EXCEPT ![p] = @ \union {"tell"}] ELSE notes
  ELSE UNCHANGED <<state, notes>>

(* Close: the one caller that finds isClosed unset goes on.                 *)
StartClose(p) ==
  closing' = IF IsClosed(p) THEN closing ELSE [closing EXCEPT ![p] = "update"]

CloseUpdates(p) ==
  /\ closing[p] = "update"
  /\ closing' = [closing EXCEPT ![p] = "callbacks"]
  /\ updateState(p, "DISCONNECTED")
  /\ UNCHANGED <<parts, source, connVars, listening, farewell, born, removeVars, told>>

(* Runs are counted up to two: one too many.                                *)
RunFarewell(p) == [farewell EXCEPT ![p].runs = IF @ = 0 THEN 1 ELSE 2]

CloseCallsBack(p) ==
  /\ closing[p] = "callbacks"
  /\ closing' = [closing EXCEPT ![p] = "done"]
  /\ farewell' = IF farewell[p].set THEN RunFarewell(p) ELSE farewell
  /\ UNCHANGED <<parts, source, connVars, state, listening, born,
                 removeVars, notes, told>>

-----------------------------------------------------------------------------
(* room.go                                                                  *)

(* broadcastParticipantState: an update of an older session is dropped once *)
(* a newer one is in the room; receivers keep the highest version.          *)
broadcast(p) ==
  told' = IF (parts # None /\ Newer(parts, p)) \/ told[p] = "gone" THEN told
          ELSE [told EXCEPT ![p] = IF IsDisconnected(p) THEN "gone" ELSE "present"]

(* A form of StartRemove that goes by the identity alone.                   *)
RemoveByIdentity(p) ==
  IF parts # None
  THEN /\ parts' = None /\ source' = None
       /\ removing' = [removing EXCEPT ![parts] = "check"]
  ELSE UNCHANGED <<parts, source, removing>>

(* RemoveParticipant, under the lock: not if the session has been replaced. *)
StartRemove(p) ==
  IF parts = p
  THEN /\ parts' = None /\ source' = None
       /\ removing' = [removing EXCEPT ![p] = "check"]
  ELSE UNCHANGED <<parts, source, removing>>

RemoveChecks(p) ==
  /\ removing[p] = "check"
  /\ removing' = [removing EXCEPT ![p] = "clear"]
  /\ sendUpdates' = [sendUpdates EXCEPT ![p] = ~IsDisconnected(p)]
  /\ UNCHANGED <<parts, source, connVars, partVars, notes, told>>

RemoveClearsListener(p) ==
  /\ removing[p] = "clear"
  /\ removing' = [removing EXCEPT ![p] = "close"]
  /\ listening' = [listening EXCEPT ![p] = FALSE]
  /\ UNCHANGED <<parts, source, connVars, state, closing, farewell, born, sendUpdates, notes, told>>

RemoveCloses(p) ==
  /\ removing[p] = "close"
  /\ removing' = [removing EXCEPT ![p] = IF IsClosed(p) THEN "tell" ELSE "wait"]
  /\ StartClose(p)
  /\ UNCHANGED <<parts, source, connVars, state, listening, farewell, born, sendUpdates, notes, told>>

(* A form of RemoveTells that leaves the news to onStateChange.             *)
RemoveSilently(p) ==
  /\ removing[p] = "tell" \/ (removing[p] = "wait" /\ closing[p] = "done")
  /\ removing' = [removing EXCEPT ![p] = "done"]
  /\ sendUpdates' = [sendUpdates EXCEPT ![p] = FALSE]
  /\ UNCHANGED <<parts, source, connVars, partVars, notes, told>>

(* Once its own call of Close has returned.                                 *)
RemoveTells(p) ==
  /\ removing[p] = "tell" \/ (removing[p] = "wait" /\ closing[p] = "done")
  /\ removing' = [removing EXCEPT ![p] = "done"]
  /\ IF sendUpdates[p] THEN broadcast(p) ELSE UNCHANGED told
  /\ sendUpdates' = [sendUpdates EXCEPT ![p] = FALSE]
  /\ UNCHANGED <<parts, source, connVars, partVars, notes>>

(* onStateChange: broadcast, then look at the state it has by now.          *)
NoteTells(p) ==
  /\ "tell" \in notes[p]
  /\ notes' = [notes EXCEPT ![p] = (@ \ {"tell"}) \union {"act"}]
  /\ broadcast(p)
  /\ UNCHANGED <<parts, source, connVars, partVars, removeVars>>

NoteActs(p) ==
  /\ "act" \in notes[p]
  /\ notes' = [notes EXCEPT ![p] = @ \ {"act"}]
  /\ IF IsDisconnected(p) THEN StartRemove(p)
     ELSE UNCHANGED <<parts, source, removing>>
  /\ UNCHANGED <<connVars, partVars, sendUpdates, told>>

(* Its one-minute timer: Verify fails unless the session became active.     *)
JoinTimeout(p) ==
  /\ "timeout" \in Env /\ parts = p /\ state[p] \in {"JOINING", "JOINED"}
  /\ StartRemove(p)
  /\ UNCHANGED <<connVars, partVars, sendUpdates, notes, told>>

-----------------------------------------------------------------------------
(* roommanager.go StartSession                                              *)

Goto(k, from, to) == pc[k] = from /\ pc' = [pc EXCEPT ![k] = to]
(* StartSession failed or the worker returned: the request source is closed. *)
End(k) ==
  /\ pc' = [pc EXCEPT ![k] = "end"]
  /\ whose' = [whose EXCEPT ![k] = None]
  /\ srcOpen' = [srcOpen EXCEPT ![k] = FALSE]

(* A reconnecting client finds its session gone or closed.                  *)
ResumeRefused(k) ==
  /\ "resume" \in Env
  /\ pc[k] = "idle" /\ End(k)
  /\ parts # None => IsClosed(parts)
  /\ UNCHANGED <<parts, source, partVars, removeVars, notes, told>>

ResumeFound(k) ==
  /\ "resume" \in Env
  /\ Goto(k, "idle", "resume")
  /\ parts # None /\ ~IsClosed(parts)
  /\ whose' = [whose EXCEPT ![k] = parts]
  /\ UNCHANGED <<parts, source, srcOpen, partVars, removeVars, notes, told>>

(* ResumeParticipant: the previous request source is closed and replaced,   *)
(* whoever is in the room by now.                                           *)
Resume(k) ==
  /\ Goto(k, "resume", "work")
  /\ srcOpen' = [j \in Conns |-> srcOpen[j] /\ j # source]
  /\ source' = k
  /\ UNCHANGED <<parts, whose, partVars, removeVars, notes, told>>

(* A joining client finds a session of its identity and removes it first;   *)
(* when it has been replaced by then, RemoveParticipant returns at once.    *)
FindDuplicate(k) ==
  /\ Goto(k, "idle", "found") /\ parts # None
  /\ whose' = [whose EXCEPT ![k] = parts]
  /\ UNCHANGED <<parts, source, srcOpen, partVars, removeVars, notes, told>>

EvictDuplicate(k) ==
  /\ pc[k] = "found"
  /\ pc' = [pc EXCEPT ![k] = IF parts = whose[k] THEN "evict" ELSE "create"]
  /\ StartRemove(whose[k])
  /\ UNCHANGED <<whose, srcOpen, partVars, sendUpdates, notes, told>>

Evicted(k) ==
  /\ Goto(k, "evict", "create") /\ removing[whose[k]] = "done"
  /\ UNCHANGED <<parts, source, whose, srcOpen, partVars, removeVars, notes, told>>

JoinAlone(k) ==
  /\ Goto(k, "idle", "create") /\ parts = None
  /\ UNCHANGED <<parts, source, whose, srcOpen, partVars, removeVars, notes, told>>

(* NewParticipant.                                                          *)
Create(k) ==
  /\ Goto(k, "create", "join")
  /\ whose' = [whose EXCEPT ![k] = k]
  /\ state' = [state EXCEPT ![k] = "JOINING"]
  /\ listening' = [listening EXCEPT ![k] = TRUE]
  /\ born' = [born EXCEPT ![k] = 1 + Cardinality({q \in Conns : born[q] # 0})]
  /\ UNCHANGED <<parts, source, srcOpen, closing, farewell, removeVars, notes,
                 told>>

(* Room.Join, which holds the room's lock up to and including the response. *)
Join(k) ==
  /\ Goto(k, "join", "joined")
  /\ parts = None
  /\ parts' = k /\ source' = k
  /\ updateState(k, "JOINED")
  /\ UNCHANGED <<whose, srcOpen, closing, listening, farewell, born,
                 removeVars, told>>

(* The join response cannot be sent: the session is in the room, and the    *)
(* caller closes it.                                                        *)
JoinUnsent(k) ==
  /\ "joinFail" \in Env
  /\ Goto(k, "join", "joinFailed")
  /\ parts = None
  /\ parts' = k /\ source' = k
  /\ UNCHANGED <<whose, srcOpen, partVars, removeVars, notes, told>>

(* Another session of the identity got in meanwhile: ErrAlreadyJoined.      *)
AlreadyJoined(k) ==
  /\ Goto(k, "join", "joinFailed")
  /\ parts # None
  /\ UNCHANGED <<parts, source, whose, srcOpen, partVars, removeVars, notes, told>>

JoinFailed(k) ==
  /\ pc[k] = "joinFailed" /\ End(k)
  /\ StartClose(k)
  /\ UNCHANGED <<parts, source, state, listening, farewell, born,
                 removeVars, notes, told>>

(* AddOnClose runs the callback of a session that is closed by now, and     *)
(* else takes the lock to register it.                                      *)
AddOnCloseReads(k) ==
  /\ pc[k] = "joined"
  /\ pc' = [pc EXCEPT ![k] = IF IsClosed(k) THEN "work" ELSE "register"]
  /\ farewell' = IF IsClosed(k) THEN RunFarewell(k) ELSE farewell
  /\ UNCHANGED <<parts, source, whose, srcOpen, state, closing, listening,
                 born, removeVars, notes, told>>

AddOnCloseSets(k) ==
  /\ Goto(k, "register", "work")
  /\ farewell' = [farewell EXCEPT ![k].set = TRUE]
  /\ UNCHANGED <<parts, source, whose, srcOpen, state, closing, listening,
                 born, removeVars, notes, told>>

-----------------------------------------------------------------------------
(* roommanager.go rtcSessionWorker                                          *)

WorkerSeesDisconnect(k) ==
  /\ pc[k] = "work" /\ IsDisconnected(whose[k]) /\ End(k)
  /\ UNCHANGED <<parts, source, partVars, removeVars, notes, told>>

(* The request source ended: is it still the session's?                     *)
WorkerSeesEnd(k) ==
  /\ pc[k] = "work" /\ ~srcOpen[k]
  /\ \/ source = k /\ Goto(k, "work", "lost") /\ UNCHANGED <<whose, srcOpen>>
     \/ source # k /\ End(k)
  /\ UNCHANGED <<parts, source, partVars, removeVars, notes, told>>

(* HandleSignalSourceClose.                                                 *)
SignalSourceClose(k) ==
  /\ pc[k] = "lost" /\ End(k)
  /\ IF HasConnected(whose[k]) THEN UNCHANGED closing ELSE StartClose(whose[k])
  /\ UNCHANGED <<parts, source, state, listening, farewell, born,
                 removeVars, notes, told>>

(* A leave request.                                                         *)
ClientLeaves(k) ==
  /\ "leave" \in Env
  /\ pc[k] = "work" /\ srcOpen[k] /\ listening[whose[k]]
  /\ StartRemove(whose[k])
  /\ UNCHANGED <<connVars, partVars, sendUpdates, notes, told>>

(* RemoveParticipant of the service takes whoever has the identity.         *)
ServiceRemoves ==
  /\ "leave" \in Env /\ parts # None
  /\ StartRemove(parts)
  /\ UNCHANGED <<connVars, partVars, sendUpdates, notes, told>>

ClientDrops(k) ==
  /\ "drop" \in Env
  /\ srcOpen[k] /\ pc[k] # "idle"
  /\ srcOpen' = [srcOpen EXCEPT ![k] = FALSE]
  /\ UNCHANGED <<parts, source, pc, whose, partVars, removeVars, notes, told>>

-----------------------------------------------------------------------------
(* The session's transport, and what else closes a participant: the         *)
(* disconnect timer, a full reconnect, a failed publication ...             *)
Connects(p) ==
  /\ state[p] = "JOINED"
  /\ updateState(p, "ACTIVE")
  /\ UNCHANGED <<parts, source, connVars, closing, listening, farewell, born, removeVars, told>>

ServerCloses(p) ==
  /\ "close" \in Env
  /\ HasConnected(p) /\ ~IsClosed(p) /\ ~IsDisconnected(p)
  /\ StartClose(p)
  /\ UNCHANGED <<parts, source, connVars, state, listening, farewell, born, removeVars,
                 notes, told>>

-----------------------------------------------------------------------------
CloseSteps(p) == CloseUpdates(p) \/ CloseCallsBack(p)
RemoveSteps(p) ==
  RemoveChecks(p) \/ RemoveClearsListener(p) \/ RemoveCloses(p) \/ RemoveTells(p)
NoteSteps(p) == NoteTells(p) \/ NoteActs(p)
StartSession(k) ==
  ResumeRefused(k) \/ ResumeFound(k) \/ FindDuplicate(k) \/ JoinAlone(k)
SessionSteps(k) ==
  Resume(k) \/ EvictDuplicate(k) \/ Evicted(k) \/ Create(k) \/ Join(k) \/ JoinUnsent(k) \/ AlreadyJoined(k) \/ JoinFailed(k)
  \/ AddOnCloseReads(k) \/ AddOnCloseSets(k)
WorkerSteps(k) == WorkerSeesDisconnect(k) \/ WorkerSeesEnd(k) \/ SignalSourceClose(k)

Next ==
  \/ ServiceRemoves
  \/ \E k \in Conns :
    \/ CloseSteps(k) \/ RemoveSteps(k) \/ NoteSteps(k) \/ JoinTimeout(k)
    \/ StartSession(k) \/ SessionSteps(k) \/ WorkerSteps(k)
    \/ ClientLeaves(k) \/ ClientDrops(k) \/ Connects(k) \/ ServerCloses(k)

Spec == Init /\ [][Next]_vars

(* Goroutines run, and the join timer goes off.  Clients owe nothing.       *)
Fairness ==
  \A k \in Conns :
    /\ WF_vars(CloseSteps(k)) /\ WF_vars(RemoveSteps(k)) /\ WF_vars(NoteSteps(k))
    /\ WF_vars(SessionSteps(k)) /\ WF_vars(WorkerSteps(k)) /\ WF_vars(JoinTimeout(k))

FairSpec == Spec /\ Fairness
-----------------------------------------------------------------------------
(* Properties.                                                              *)

(* A goroutine that cleans up after a session that has closed takes out     *)
(* that session only, never one that has taken its place in the room        *)
(* meanwhile (the pID check of RemoveParticipant).                          *)
CleansUpItsOwn ==
  [][\A p \in Conns : parts = p /\ parts' # p /\ (\E q \in Conns : NoteActs(q))
                       => IsClosed(p)]_vars

(* Resuming swaps the request source of the session that is resumed; it     *)
(* does not end the signal connection of another one.                       *)
ResumeKeepsToItsSession ==
  [][\A j, k \in Conns : Resume(j) /\ srcOpen[k] /\ ~srcOpen'[k]
                          => whose[j] = whose[k]]_vars

(* The callback that ends a session in the store and in telemetry runs at   *)
(* most once, however Close and AddOnClose interleave.                      *)
OneFarewell == \A p \in Conns : farewell[p].runs < 2

(* A closed participant leaves the room, whoever closed it and whenever:    *)
(* from onStateChange if nobody removes it otherwise.                       *)
ClosedLeavesRoom == \A p \in Conns : IsClosed(p) ~> parts # p

(* A session that is out of the room, or never got in, is closed: no        *)
(* peer connection outlives its participant.                                *)
GoneIsClosed ==
  \A p \in Conns : (state[p] # "new" /\ pc[p] # "join" /\ parts # p) ~> IsClosed(p)

(* StartSession returns: the eviction of a duplicate, which it waits for,   *)
(* ends.                                                                    *)
SessionsStart == \A k \in Conns : pc[k] = "found" ~> pc[k] \in {"work", "lost", "end"}

(* A session that never becomes active does not keep its identity.          *)
NeverActiveIsRemoved ==
  \A p \in Conns : parts = p ~> (parts # p \/ state[p] = "ACTIVE")

(* When everything has settled and the identity is gone from the room, the  *)
(* other participants know: the newest of its sessions that they were told  *)
(* of is one they were told is gone.                                        *)
Settled ==
  \A p \in Conns : /\ closing[p] \in {"no", "done"} /\ removing[p] \in {"no", "done"}
                    /\ notes[p] = {}
DepartureIsAnnounced ==
  Settled /\ parts = None =>
    \A p \in Conns : told[p] = "present" =>
      \E q \in Conns : Newer(q, p) /\ told[q] = "gone"

(* Every session that got through StartSession and is over has had its      *)
(* farewell: participant_left is sent, its store entry is gone.             *)
EveryFarewellRuns ==
  \A p \in Conns : closing[p] = "done" /\ pc[p] \in {"work", "lost"} => farewell[p].runs = 1
=============================================================================
