---------------------------- MODULE RoomRegistry ----------------------------
(***************************************************************************)
(* How a node opens and closes the room of one name: RoomManager's map of  *)
(* rooms (service/roommanager.go getOrCreateRoom, StartSession, deleteRoom,*)
(* CloseIdleRooms, DeleteRoom) and the Room object's own holds, members    *)
(* and closing (rtc/room.go Hold, Release, Join, CloseIfEmpty, Close).     *)
(*                                                                         *)
(* A session is one call of StartSession together with its participant; a  *)
(* session of CreateOnly is a call that carries no identity, or a call of  *)
(* CreateRoom.  Identities are distinct here (ParticipantSession has the   *)
(* sessions of one identity).  Each step ends where the code takes or      *)
(* gives up a lock, or touches the store.                                  *)
(***************************************************************************)
EXTENDS Integers, FiniteSets

CONSTANTS Sessions,    \* calls of StartSession or CreateRoom
          CreateOnly,  \* those without a participant
          Rooms,       \* Room objects that can be made
          Admins,      \* callers of the DeleteRoom service
          Janitor,     \* backgroundWorker, which calls CloseIdleRooms
          None

Closers == Admins \union {Janitor}

ASSUME RegistryAssumption ==
  /\ CreateOnly \subseteq Sessions
  /\ None \notin Rooms /\ Janitor \notin Admins
  /\ IsFiniteSet(Sessions)

VARIABLES
  current,      \* RoomManager.rooms[roomName]
  recorded,     \* the room store has a room of that name
  status,       \* of each Room object: "unused", "open", "closed"
  holds,        \* Room.holds
  members,      \* Room.participants
  pc,           \* where a session is
  seen,         \* its lastSeenRoom or currentRoom
  mine,         \* the room getOrCreateRoom gave it
  alive,        \* its participant: "none", "open", "closed"
  farewell,     \* its OnClose callback: "due", "store", "done"
  closerPc,     \* where a closer is
  target,       \* the room it closes
  sweeping      \* the participants Room.Close has still to close

storeVars   == <<current, recorded>>
roomVars    == <<status, holds, members>>
sessionVars == <<pc, seen, mine>>
partVars    == <<alive, farewell>>
closerVars  == <<closerPc, target, sweeping>>
vars == <<storeVars, roomVars, sessionVars, partVars, closerVars>>

SessionPcs == {"idle", "look", "allocate", "check", "recheck", "holdNew", "held",
               "joined", "store", "release", "in", "failed"}
CloserPcs == {"idle", "decide", "close", "snapshot", "sweep", "onClose", "deleteRecord"}

TypeOK ==
  /\ current \in Rooms \union {None} /\ recorded \in BOOLEAN
  /\ status \in [Rooms -> {"unused", "open", "closed"}]
  /\ holds \in [Rooms -> Int]
  /\ members \in [Rooms -> SUBSET Sessions]
  /\ pc \in [Sessions -> SessionPcs]
  /\ seen \in [Sessions -> Rooms \union {None}]
  /\ mine \in [Sessions -> Rooms \union {None}]
  /\ alive \in [Sessions -> {"none", "open", "closed"}]
  /\ farewell \in [Sessions -> {"due", "store", "done"}]
  /\ closerPc \in [Closers -> CloserPcs]
  /\ target \in [Closers -> Rooms \union {None}]
  /\ \A c \in Closers : closerPc[c] \notin {"idle", "deleteRecord"} => target[c] \in Rooms
  /\ sweeping \in [Closers -> SUBSET Sessions]

Init ==
  /\ current = None /\ recorded = FALSE
  /\ status = [r \in Rooms |-> "unused"]
  /\ holds = [r \in Rooms |-> 0]
  /\ members = [r \in Rooms |-> {}]
  /\ pc = [s \in Sessions |-> "idle"]
  /\ seen = [s \in Sessions |-> None] /\ mine = [s \in Sessions |-> None]
  /\ alive = [s \in Sessions |-> "none"]
  /\ farewell = [s \in Sessions |-> "due"]
  /\ closerPc = [c \in Closers |-> "idle"]
  /\ target = [c \in Closers |-> None]
  /\ sweeping = [c \in Closers |-> {}]

IsOpen(r) == r # None /\ status[r] = "open"

-----------------------------------------------------------------------------
(* getOrCreateRoom.                                                         *)

Goto(s, from, to) == pc[s] = from /\ pc' = [pc EXCEPT ![s] = to]

(* The first read of r.rooms.                                               *)
LookUp(s) ==
  /\ Goto(s, "idle", "look")
  /\ seen' = [seen EXCEPT ![s] = current]
  /\ UNCHANGED <<storeVars, roomVars, mine, partVars, closerVars>>

(* Hold succeeded on the room that was seen: the call returns it.           *)
HoldSeen(s) ==
  /\ pc[s] \in {"look", "recheck"} /\ IsOpen(seen[s])
  /\ holds' = [holds EXCEPT ![seen[s]] = @ + 1]
  /\ mine' = [mine EXCEPT ![s] = seen[s]]
  /\ pc' = [pc EXCEPT ![s] = "held"]
  /\ UNCHANGED <<storeVars, status, members, seen, partVars, closerVars>>

(* There was none, or it was closed already.                                *)
HoldFails(s) ==
  /\ pc[s] \in {"look", "recheck"} /\ ~IsOpen(seen[s])
  /\ pc' = [pc EXCEPT ![s] = IF pc[s] = "look" THEN "allocate" ELSE "check"]
  /\ UNCHANGED <<storeVars, roomVars, seen, mine, partVars, closerVars>>

(* roomAllocator.CreateRoom finds or makes the store's room, under the      *)
(* store's lock.  It may fail.                                              *)
Allocate(s) ==
  /\ Goto(s, "allocate", "check")
  /\ recorded' = TRUE
  /\ UNCHANGED <<current, roomVars, seen, mine, partVars, closerVars>>

AllocateFails(s) ==
  /\ Goto(s, "allocate", "failed")
  /\ UNCHANGED <<storeVars, roomVars, seen, mine, partVars, closerVars>>

(* Someone changed the map since this call looked: try that room first.     *)
LookAgainAtTheSameRoom(s) ==
  /\ Goto(s, "check", "recheck") /\ current # seen[s]
  /\ UNCHANGED <<storeVars, roomVars, seen, mine, partVars, closerVars>>

MapChanged(s) ==
  /\ Goto(s, "check", "recheck") /\ current # seen[s]
  /\ seen' = [seen EXCEPT ![s] = current]
  /\ UNCHANGED <<storeVars, roomVars, mine, partVars, closerVars>>

(* The map is as this call saw it: make the room and put it there.          *)

CreateRoom(s) ==
  /\ Goto(s, "check", "holdNew") /\ current = seen[s]
  /\ \E r \in Rooms :
       /\ status[r] = "unused"
       /\ status' = [status EXCEPT ![r] = "open"]
       /\ current' = r
       /\ mine' = [mine EXCEPT ![s] = r]
  /\ UNCHANGED <<recorded, holds, members, seen, partVars, closerVars>>

(* The topics of the new room could not be registered.                      *)
RegisterFails(s) ==
  /\ Goto(s, "check", "failed") /\ current = seen[s]
  /\ UNCHANGED <<storeVars, roomVars, seen, mine, partVars, closerVars>>

(* newRoom.Hold() after the map's lock is given up; its result is ignored.  *)
HoldNew(s) ==
  /\ Goto(s, "holdNew", "held")
  /\ holds' = IF IsOpen(mine[s]) THEN [holds EXCEPT ![mine[s]] = @ + 1] ELSE holds
  /\ UNCHANGED <<storeVars, status, members, seen, mine, partVars, closerVars>>

-----------------------------------------------------------------------------
(* The rest of StartSession.                                                *)

CreateReturns(s) ==
  /\ s \in CreateOnly
  /\ Goto(s, "held", "in")
  /\ holds' = [holds EXCEPT ![mine[s]] = @ - 1]
  /\ UNCHANGED <<storeVars, status, members, seen, mine, partVars, closerVars>>

JoinUnchecked(s) ==
  /\ s \notin CreateOnly
  /\ Goto(s, "held", "joined")
  /\ members' = [members EXCEPT ![mine[s]] = @ \union {s}]
  /\ alive' = [alive EXCEPT ![s] = "open"]
  /\ UNCHANGED <<storeVars, status, holds, seen, mine, farewell, closerVars>>

Join(s) ==
  /\ s \notin CreateOnly
  /\ Goto(s, "held", "joined") /\ IsOpen(mine[s])
  /\ members' = [members EXCEPT ![mine[s]] = @ \union {s}]
  /\ alive' = [alive EXCEPT ![s] = "open"]
  /\ UNCHANGED <<storeVars, status, holds, seen, mine, farewell, closerVars>>

(* ErrRoomClosed; the deferred Release runs.                                *)
JoinFails(s) ==
  /\ s \notin CreateOnly
  /\ Goto(s, "held", "failed") /\ ~IsOpen(mine[s])
  /\ holds' = [holds EXCEPT ![mine[s]] = @ - 1]
  /\ UNCHANGED <<storeVars, status, members, seen, mine, partVars, closerVars>>

(* persistRoomForParticipantCount: is the room closed? then store it.       *)
PersistCheck(s) ==
  /\ pc[s] = "joined"
  /\ pc' = [pc EXCEPT ![s] = IF IsOpen(mine[s]) THEN "store" ELSE "release"]
  /\ UNCHANGED <<storeVars, roomVars, seen, mine, partVars, closerVars>>

Persist(s) ==
  /\ Goto(s, "store", "release")
  /\ recorded' = TRUE
  /\ UNCHANGED <<current, roomVars, seen, mine, partVars, closerVars>>

StartReturnsHolding(s) ==
  /\ Goto(s, "release", "in")
  /\ UNCHANGED <<storeVars, roomVars, seen, mine, partVars, closerVars>>

StartReturns(s) ==
  /\ Goto(s, "release", "in")
  /\ holds' = [holds EXCEPT ![mine[s]] = @ - 1]
  /\ UNCHANGED <<storeVars, status, members, seen, mine, partVars, closerVars>>

-----------------------------------------------------------------------------
(* The participant leaves.                                                  *)

(* RemoveParticipant takes it out of the room ...                           *)
Leave(s) ==
  /\ alive[s] # "none" /\ s \in members[mine[s]]
  /\ members' = [members EXCEPT ![mine[s]] = @ \ {s}]
  /\ UNCHANGED <<storeVars, status, holds, sessionVars, partVars, closerVars>>

(* ... and closes it, if nobody has.                                        *)
LeaveCloses(s) ==
  /\ alive[s] = "open" /\ s \notin members[mine[s]]
  /\ alive' = [alive EXCEPT ![s] = "closed"]
  /\ UNCHANGED <<storeVars, roomVars, sessionVars, farewell, closerVars>>

(* The OnClose callback StartSession registered, in the goroutine that      *)
(* closed the participant: it stores the room once more, unless closed.     *)
FarewellCheck(s) ==
  /\ alive[s] = "closed" /\ pc[s] = "in" /\ farewell[s] = "due"
  /\ farewell' = [farewell EXCEPT ![s] = IF IsOpen(mine[s]) THEN "store" ELSE "done"]
  /\ UNCHANGED <<storeVars, roomVars, sessionVars, alive, closerVars>>

Farewell(s) ==
  /\ farewell[s] = "store"
  /\ farewell' = [farewell EXCEPT ![s] = "done"]
  /\ recorded' = TRUE
  /\ UNCHANGED <<current, roomVars, sessionVars, alive, closerVars>>

-----------------------------------------------------------------------------
(* Closing a room.                                                          *)

Step(c, from, to) == closerPc[c] = from /\ closerPc' = [closerPc EXCEPT ![c] = to]

(* CloseIdleRooms picks the room up, without a lock on it.                  *)
JanitorLooks ==
  /\ current # None
  /\ Step(Janitor, "idle", "decide")
  /\ target' = [target EXCEPT ![Janitor] = current]
  /\ UNCHANGED <<storeVars, roomVars, sessionVars, partVars, sweeping>>

(* CloseIfEmpty, up to where it gives the lock up.  The timeouts are in the *)
(* choice between the two.                                                  *)
Expired ==
  /\ Step(Janitor, "decide", "close")
  /\ IsOpen(target[Janitor])
  /\ holds[target[Janitor]] <= 0 /\ members[target[Janitor]] = {}
  /\ UNCHANGED <<storeVars, roomVars, sessionVars, partVars, target, sweeping>>

NotExpired ==
  /\ Step(Janitor, "decide", "idle")
  /\ UNCHANGED <<storeVars, roomVars, sessionVars, partVars, target, sweeping>>

(* The DeleteRoom service: close the room, or clear the store of one that   *)
(* was never opened on the node.                                            *)
DeleteRoomUnchecked(c) ==
  /\ c \in Admins
  /\ Step(c, "idle", "close")
  /\ target' = [target EXCEPT ![c] = current]
  /\ UNCHANGED <<storeVars, roomVars, sessionVars, partVars, sweeping>>

DeleteRoom(c) ==
  /\ c \in Admins /\ current # None
  /\ Step(c, "idle", "close")
  /\ target' = [target EXCEPT ![c] = current]
  /\ UNCHANGED <<storeVars, roomVars, sessionVars, partVars, sweeping>>

DeleteRecordOnly(c) ==
  /\ c \in Admins /\ current = None
  /\ Step(c, "idle", "deleteRecord")
  /\ UNCHANGED <<storeVars, roomVars, sessionVars, partVars, target, sweeping>>

(* Room.Close: one caller wins ...                                          *)
Close(c) ==
  /\ closerPc[c] = "close"
  /\ closerPc' = [closerPc EXCEPT ![c] = IF status[target[c]] = "open" THEN "snapshot"
                                                                      ELSE "idle"]
  /\ status' = [status EXCEPT ![target[c]] = "closed"]
  /\ UNCHANGED <<storeVars, holds, members, sessionVars, partVars, target, sweeping>>

(* ... reads who is in ...                                                  *)
Snapshot(c) ==
  /\ Step(c, "snapshot", "sweep")
  /\ sweeping' = [sweeping EXCEPT ![c] = members[target[c]]]
  /\ UNCHANGED <<storeVars, roomVars, sessionVars, partVars, target>>

(* ... closes them one by one ...                                           *)
Sweep(c, s) ==
  /\ closerPc[c] = "sweep" /\ s \in sweeping[c]
  /\ alive' = [alive EXCEPT ![s] = "closed"]
  /\ sweeping' = [sweeping EXCEPT ![c] = @ \ {s}]
  /\ UNCHANGED <<storeVars, roomVars, sessionVars, farewell, closerPc, target>>

Swept(c) ==
  /\ Step(c, "sweep", "onClose") /\ sweeping[c] = {}
  /\ UNCHANGED <<storeVars, roomVars, sessionVars, partVars, target, sweeping>>

(* ... and runs onClose: deleteRoom empties the map entry of that name ...  *)
OnCloseKeepsRoom(c) ==
  /\ Step(c, "onClose", "deleteRecord")
  /\ UNCHANGED <<storeVars, roomVars, sessionVars, partVars, target, sweeping>>

OnClose(c) ==
  /\ Step(c, "onClose", "deleteRecord")
  /\ current' = None
  /\ UNCHANGED <<recorded, roomVars, sessionVars, partVars, target, sweeping>>

(* ... and deletes the store's room of that name.                           *)
DeleteRecord(c) ==
  /\ Step(c, "deleteRecord", "idle")
  /\ recorded' = FALSE
  /\ UNCHANGED <<current, roomVars, sessionVars, partVars, target, sweeping>>

-----------------------------------------------------------------------------
StartSession(s) ==
  \/ LookUp(s) \/ HoldSeen(s) \/ HoldFails(s) \/ Allocate(s) \/ AllocateFails(s)
  \/ MapChanged(s) \/ CreateRoom(s) \/ RegisterFails(s) \/ HoldNew(s)
  \/ CreateReturns(s) \/ Join(s) \/ JoinFails(s)
  \/ PersistCheck(s) \/ Persist(s) \/ StartReturns(s)

Depart(s) == Leave(s) \/ LeaveCloses(s) \/ FarewellCheck(s) \/ Farewell(s)

RoomClose(c) ==
  \/ Close(c) \/ Snapshot(c) \/ Swept(c) \/ OnClose(c) \/ DeleteRecord(c)
  \/ \E s \in Sessions : Sweep(c, s)

Next ==
  \/ \E s \in Sessions : StartSession(s) \/ Depart(s)
  \/ JanitorLooks \/ Expired \/ NotExpired
  \/ \E c \in Closers : DeleteRoom(c) \/ DeleteRecordOnly(c) \/ RoomClose(c)

Spec == Init /\ [][Next]_vars

(* Goroutines that have started finish; participants leave or are swept     *)
(* only if something makes them, so Leave is not fair, but a participant    *)
(* that was taken out, or closed, is dealt with.  The ticker runs for ever, *)
(* and timeouts expire: the check of a room that stays idle succeeds.       *)
Fairness ==
  /\ \A s \in Sessions : WF_vars(pc[s] # "idle" /\ StartSession(s))
  /\ \A s \in Sessions : WF_vars(LeaveCloses(s) \/ FarewellCheck(s) \/ Farewell(s))
  /\ \A s \in Sessions : WF_vars(alive[s] = "closed" /\ Leave(s))
  /\ \A c \in Closers : WF_vars(RoomClose(c))
  /\ WF_vars(JanitorLooks) /\ SF_vars(Expired) /\ WF_vars(Expired \/ NotExpired)

FairSpec == Spec /\ Fairness
-----------------------------------------------------------------------------
(* Properties.                                                              *)

Holding(r) == {s \in Sessions : mine[s] = r /\ pc[s] \in {"held", "joined", "store", "release"}}

(* The holds of an open room count exactly the calls that are using it, so  *)
(* that CloseIfEmpty neither closes under a call that holds the room nor    *)
(* is kept away by a hold nobody will release (Room.Hold, Release and the   *)
(* deferred Release of StartSession).                                       *)
HoldsExact == \A r \in Rooms : status[r] = "open" => holds[r] = Cardinality(Holding(r))

(* A participant that got into a room that is closed by now is still to be  *)
(* closed by Room.Close: none slips in between its look at the members and  *)
(* the closing of the room, to stay there for ever.                         *)
NoOneIsLeftBehind ==
  \A r \in Rooms : \A s \in members[r] :
     status[r] = "closed" /\ alive[s] = "open" =>
       \E c \in Closers :
          /\ target[c] = r
          /\ closerPc[c] = "snapshot" \/ (closerPc[c] = "sweep" /\ s \in sweeping[c])

(* While nobody closes rooms, calls that open the same name at the same     *)
(* time end up in one Room object: the map is looked at again, under its    *)
(* lock, after the room was allocated (the loop of getOrCreateRoom).        *)
OneRoom == \A r \in Rooms : status[r] = "open" => r = current

(* StartSession returns: the loop of getOrCreateRoom does not run for ever  *)
(* however rooms come and go.                                               *)
SessionsStart == \A s \in Sessions : pc[s] = "look" ~> pc[s] \in {"in", "failed"}

(* A closed room leaves the map, so that the next call does not find it.    *)
ClosedRoomLeavesTheMap ==
  \A r \in Rooms : (current = r /\ status[r] = "closed") ~> current # r

(* CloseIfEmpty closes a room only "if all participants had left, or it's   *)
(* still empty past timeout" (room.go): never one that is held or in use.   *)
IdleCloseIsIdle ==
  [][\A r \in Rooms :
       /\ target[Janitor] = r /\ closerPc[Janitor] = "close"
       /\ status[r] = "open" /\ status'[r] = "closed"
       => members[r] = {} /\ holds[r] <= 0]_vars

(* A room everybody has left is closed in the end (CloseIfEmpty, called     *)
(* every second by backgroundWorker).                                       *)
EmptyRoomsClose ==
  \A r \in Rooms : ~<>[](status[r] = "open" /\ members[r] = {} /\ Holding(r) = {})

(* deleteRoom "completely deletes all room information, including active    *)
(* sessions, room store, and routing info": once the room is closed and     *)
(* every call is over, the store has no room of that name.                  *)
AllOver ==
  /\ \A s \in Sessions : pc[s] = "in" /\ (alive[s] # "none" => farewell[s] = "done")
  /\ \A c \in Closers : closerPc[c] = "idle"
  /\ \A r \in Rooms : status[r] # "open"
NothingIsLeft == AllOver => ~recorded
=============================================================================
