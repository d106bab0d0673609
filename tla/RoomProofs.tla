------------------------------ MODULE RoomProofs ------------------------------
(***************************************************************************)
(* Proofs about RoomRegistry, for any number of sessions, rooms and        *)
(* closers, and about the sessions of one identity in MCRooms, for any     *)
(* number of connections.                                                  *)
(***************************************************************************)
EXTENDS MCRooms, TLAPS, FiniteSetTheorems

(* Who is in a room: members have that room, and have joined.  An object    *)
(* that is not in use is nobody's, and holds are taken in rooms only.       *)
Membership ==
  /\ \A r \in Rooms : \A s \in members[r] : mine[s] = r
  /\ \A s \in Sessions : pc[s] \in {"holdNew", "held", "joined", "store", "release", "in"}
                          => mine[s] \in Rooms
  /\ \A s \in Sessions : alive[s] # "none" => mine[s] \in Rooms
  /\ \A s \in Sessions : pc[s] \in {"idle", "look", "allocate", "check", "recheck"}
                          => mine[s] = None /\ alive[s] = "none"
  /\ \A s \in Sessions : mine[s] \in Rooms => status[mine[s]] # "unused"
  /\ \A s \in Sessions : seen[s] \in Rooms => status[seen[s]] # "unused"
  /\ current \in Rooms => status[current] # "unused"
  /\ \A c \in Closers : target[c] \in Rooms => status[target[c]] # "unused"
  /\ \A r \in Rooms : status[r] = "unused" => holds[r] = 0
  /\ \A c \in Closers : \A s \in sweeping[c] : mine[s] \in Rooms

LEMMA TypeInit == Init => TypeOK
<1> SUFFICES ASSUME Init PROVE TypeOK
  OBVIOUS
<1>1. \A c \in Closers : closerPc[c] = "idle"
  BY DEF Init
<1>2. recorded \in BOOLEAN
  BY Zenon DEF Init
<1> QED BY <1>1, <1>2 DEF Init, TypeOK, SessionPcs, CloserPcs

LEMMA TypeStep ==
  ASSUME TypeOK, Membership, [Next]_vars
  PROVE  TypeOK'
<1> DEFINE Goal == TypeOK'
<1> USE RegistryAssumption DEF TypeOK, IsOpen, SessionPcs, CloserPcs, Closers,
      storeVars, roomVars, sessionVars, partVars, closerVars, Goto, Step, Membership
<1>1. ASSUME NEW s \in Sessions, LookUp(s) PROVE Goal
  BY <1>1 DEF LookUp
<1>2. ASSUME NEW s \in Sessions, HoldSeen(s) PROVE Goal
  BY <1>2 DEF HoldSeen
<1>3. ASSUME NEW s \in Sessions, HoldFails(s) PROVE Goal
  BY <1>3 DEF HoldFails
<1>4. ASSUME NEW s \in Sessions, Allocate(s) PROVE Goal
  BY <1>4 DEF Allocate
<1>5. ASSUME NEW s \in Sessions, AllocateFails(s) PROVE Goal
  BY <1>5 DEF AllocateFails
<1>6. ASSUME NEW s \in Sessions, MapChanged(s) PROVE Goal
  BY <1>6 DEF MapChanged
<1>7. ASSUME NEW s \in Sessions, CreateRoom(s) PROVE Goal
  BY <1>7 DEF CreateRoom
<1>8. ASSUME NEW s \in Sessions, RegisterFails(s) PROVE Goal
  BY <1>8 DEF RegisterFails
<1>9. ASSUME NEW s \in Sessions, HoldNew(s) PROVE Goal
  BY <1>9 DEF HoldNew
<1>10. ASSUME NEW s \in Sessions, CreateReturns(s) PROVE Goal
  BY <1>10 DEF CreateReturns
<1>11. ASSUME NEW s \in Sessions, Join(s) PROVE Goal
  BY <1>11 DEF Join
<1>12. ASSUME NEW s \in Sessions, JoinFails(s) PROVE Goal
  BY <1>12 DEF JoinFails
<1>13. ASSUME NEW s \in Sessions, PersistCheck(s) PROVE Goal
  BY <1>13 DEF PersistCheck
<1>14. ASSUME NEW s \in Sessions, Persist(s) PROVE Goal
  BY <1>14 DEF Persist
<1>15. ASSUME NEW s \in Sessions, StartReturns(s) PROVE Goal
  BY <1>15 DEF StartReturns
<1>16. ASSUME NEW s \in Sessions, Leave(s) PROVE Goal
  BY <1>16 DEF Leave
<1>17. ASSUME NEW s \in Sessions, LeaveCloses(s) PROVE Goal
  BY <1>17 DEF LeaveCloses
<1>18. ASSUME NEW s \in Sessions, FarewellCheck(s) PROVE Goal
  BY <1>18 DEF FarewellCheck
<1>19. ASSUME NEW s \in Sessions, Farewell(s) PROVE Goal
  BY <1>19 DEF Farewell
<1>20. CASE JanitorLooks
  BY <1>20 DEF JanitorLooks
<1>21. CASE Expired
  BY <1>21 DEF Expired
<1>22. CASE NotExpired
  BY <1>22 DEF NotExpired
<1>23. ASSUME NEW c \in Closers, DeleteRoom(c) PROVE Goal
  BY <1>23 DEF DeleteRoom
<1>24. ASSUME NEW c \in Closers, DeleteRecordOnly(c) PROVE Goal
  BY <1>24 DEF DeleteRecordOnly
<1>25. ASSUME NEW c \in Closers, Close(c) PROVE Goal
  BY <1>25 DEF Close
<1>26. ASSUME NEW c \in Closers, Snapshot(c) PROVE Goal
  BY <1>26 DEF Snapshot
<1>27. ASSUME NEW c \in Closers, Swept(c) PROVE Goal
  BY <1>27 DEF Swept
<1>28. ASSUME NEW c \in Closers, OnClose(c) PROVE Goal
  BY <1>28 DEF OnClose
<1>29. ASSUME NEW c \in Closers, DeleteRecord(c) PROVE Goal
  BY <1>29 DEF DeleteRecord
<1>30. ASSUME NEW c \in Closers, NEW s \in Sessions, Sweep(c, s) PROVE Goal
  BY <1>30 DEF Sweep
<1>31. CASE UNCHANGED vars
  BY <1>31 DEF vars
<1> QED BY <1>1, <1>2, <1>3, <1>4, <1>5, <1>6, <1>7, <1>8, <1>9, <1>10, <1>11, <1>12,
   <1>13, <1>14, <1>15, <1>16, <1>17, <1>18, <1>19, <1>20, <1>21, <1>22, <1>23, <1>24,
   <1>25, <1>26, <1>27, <1>28, <1>29, <1>30, <1>31 DEF Next, StartSession, Depart,
   RoomClose

LEMMA MembershipInit == Init => Membership
  BY RegistryAssumption DEF Init, Membership

LEMMA MembershipStep ==
  ASSUME TypeOK, Membership, [Next]_vars
  PROVE  Membership'
<1> DEFINE Goal == Membership'
<1> USE RegistryAssumption DEF Membership, TypeOK, IsOpen, SessionPcs, CloserPcs,
      Closers, storeVars, roomVars, sessionVars, partVars, closerVars, Goto, Step
<1>1. ASSUME NEW s \in Sessions, LookUp(s) PROVE Goal
  BY <1>1 DEF LookUp
<1>2. ASSUME NEW s \in Sessions, HoldSeen(s) PROVE Goal
  BY <1>2 DEF HoldSeen
<1>3. ASSUME NEW s \in Sessions, HoldFails(s) PROVE Goal
  BY <1>3 DEF HoldFails
<1>4. ASSUME NEW s \in Sessions, Allocate(s) PROVE Goal
  BY <1>4 DEF Allocate
<1>5. ASSUME NEW s \in Sessions, AllocateFails(s) PROVE Goal
  BY <1>5 DEF AllocateFails
<1>6. ASSUME NEW s \in Sessions, MapChanged(s) PROVE Goal
  BY <1>6 DEF MapChanged
<1>7. ASSUME NEW s \in Sessions, CreateRoom(s) PROVE Goal
  BY <1>7 DEF CreateRoom
<1>8. ASSUME NEW s \in Sessions, RegisterFails(s) PROVE Goal
  BY <1>8 DEF RegisterFails
<1>9. ASSUME NEW s \in Sessions, HoldNew(s) PROVE Goal
  BY <1>9 DEF HoldNew
<1>10. ASSUME NEW s \in Sessions, CreateReturns(s) PROVE Goal
  BY <1>10 DEF CreateReturns
<1>11. ASSUME NEW s \in Sessions, Join(s) PROVE Goal
  BY <1>11 DEF Join
<1>12. ASSUME NEW s \in Sessions, JoinFails(s) PROVE Goal
  BY <1>12 DEF JoinFails
<1>13. ASSUME NEW s \in Sessions, PersistCheck(s) PROVE Goal
  BY <1>13 DEF PersistCheck
<1>14. ASSUME NEW s \in Sessions, Persist(s) PROVE Goal
  BY <1>14 DEF Persist
<1>15. ASSUME NEW s \in Sessions, StartReturns(s) PROVE Goal
  BY <1>15 DEF StartReturns
<1>16. ASSUME NEW s \in Sessions, Leave(s) PROVE Goal
  BY <1>16 DEF Leave
<1>17. ASSUME NEW s \in Sessions, LeaveCloses(s) PROVE Goal
  BY <1>17 DEF LeaveCloses
<1>18. ASSUME NEW s \in Sessions, FarewellCheck(s) PROVE Goal
  BY <1>18 DEF FarewellCheck
<1>19. ASSUME NEW s \in Sessions, Farewell(s) PROVE Goal
  BY <1>19 DEF Farewell
<1>20. CASE JanitorLooks
  BY <1>20 DEF JanitorLooks
<1>21. CASE Expired
  BY <1>21 DEF Expired
<1>22. CASE NotExpired
  BY <1>22 DEF NotExpired
<1>23. ASSUME NEW c \in Closers, DeleteRoom(c) PROVE Goal
  BY <1>23 DEF DeleteRoom
<1>24. ASSUME NEW c \in Closers, DeleteRecordOnly(c) PROVE Goal
  BY <1>24 DEF DeleteRecordOnly
<1>25. ASSUME NEW c \in Closers, Close(c) PROVE Goal
  BY <1>25 DEF Close
<1>26. ASSUME NEW c \in Closers, Snapshot(c) PROVE Goal
  BY <1>26 DEF Snapshot
<1>27. ASSUME NEW c \in Closers, Swept(c) PROVE Goal
  BY <1>27 DEF Swept
<1>28. ASSUME NEW c \in Closers, OnClose(c) PROVE Goal
  BY <1>28 DEF OnClose
<1>29. ASSUME NEW c \in Closers, DeleteRecord(c) PROVE Goal
  BY <1>29 DEF DeleteRecord
<1>30. ASSUME NEW c \in Closers, NEW s \in Sessions, Sweep(c, s) PROVE Goal
  BY <1>30 DEF Sweep
<1>31. CASE UNCHANGED vars
  BY <1>31 DEF vars
<1> QED BY ZenonT(60), <1>1, <1>2, <1>3, <1>4, <1>5, <1>6, <1>7, <1>8, <1>9, <1>10, <1>11, <1>12,
   <1>13, <1>14, <1>15, <1>16, <1>17, <1>18, <1>19, <1>20, <1>21, <1>22, <1>23, <1>24,
   <1>25, <1>26, <1>27, <1>28, <1>29, <1>30, <1>31 DEF Next, StartSession, Depart,
   RoomClose

LEMMA LeftBehindStep ==
  ASSUME TypeOK, Membership, NoOneIsLeftBehind, [Next]_vars
  PROVE  NoOneIsLeftBehind'
<1> DEFINE Goal == NoOneIsLeftBehind'
<1> USE RegistryAssumption DEF NoOneIsLeftBehind, Membership, TypeOK, IsOpen, Closers,
      storeVars, roomVars, sessionVars, partVars, closerVars, Goto, Step
<1>1. ASSUME NEW s \in Sessions, LookUp(s) PROVE Goal
  BY <1>1 DEF LookUp
<1>2. ASSUME NEW s \in Sessions, HoldSeen(s) PROVE Goal
  BY <1>2 DEF HoldSeen
<1>3. ASSUME NEW s \in Sessions, HoldFails(s) PROVE Goal
  BY <1>3 DEF HoldFails
<1>4. ASSUME NEW s \in Sessions, Allocate(s) PROVE Goal
  BY <1>4 DEF Allocate
<1>5. ASSUME NEW s \in Sessions, AllocateFails(s) PROVE Goal
  BY <1>5 DEF AllocateFails
<1>6. ASSUME NEW s \in Sessions, MapChanged(s) PROVE Goal
  BY <1>6 DEF MapChanged
<1>7. ASSUME NEW s \in Sessions, CreateRoom(s) PROVE Goal
  BY <1>7 DEF CreateRoom
<1>8. ASSUME NEW s \in Sessions, RegisterFails(s) PROVE Goal
  BY <1>8 DEF RegisterFails
<1>9. ASSUME NEW s \in Sessions, HoldNew(s) PROVE Goal
  BY <1>9 DEF HoldNew
<1>10. ASSUME NEW s \in Sessions, CreateReturns(s) PROVE Goal
  BY <1>10 DEF CreateReturns
<1>11. ASSUME NEW s \in Sessions, Join(s) PROVE Goal
  BY <1>11 DEF Join
<1>12. ASSUME NEW s \in Sessions, JoinFails(s) PROVE Goal
  BY <1>12 DEF JoinFails
<1>13. ASSUME NEW s \in Sessions, PersistCheck(s) PROVE Goal
  BY <1>13 DEF PersistCheck
<1>14. ASSUME NEW s \in Sessions, Persist(s) PROVE Goal
  BY <1>14 DEF Persist
<1>15. ASSUME NEW s \in Sessions, StartReturns(s) PROVE Goal
  BY <1>15 DEF StartReturns
<1>16. ASSUME NEW s \in Sessions, Leave(s) PROVE Goal
  BY <1>16 DEF Leave
<1>17. ASSUME NEW s \in Sessions, LeaveCloses(s) PROVE Goal
  BY <1>17 DEF LeaveCloses
<1>18. ASSUME NEW s \in Sessions, FarewellCheck(s) PROVE Goal
  BY <1>18 DEF FarewellCheck
<1>19. ASSUME NEW s \in Sessions, Farewell(s) PROVE Goal
  BY <1>19 DEF Farewell
<1>20. CASE JanitorLooks
  BY <1>20 DEF JanitorLooks
<1>21. CASE Expired
  BY <1>21 DEF Expired
<1>22. CASE NotExpired
  BY <1>22 DEF NotExpired
<1>23. ASSUME NEW c \in Closers, DeleteRoom(c) PROVE Goal
  BY <1>23 DEF DeleteRoom
<1>24. ASSUME NEW c \in Closers, DeleteRecordOnly(c) PROVE Goal
  BY <1>24 DEF DeleteRecordOnly
<1>25. ASSUME NEW c \in Closers, Close(c) PROVE Goal
  BY <1>25 DEF Close
<1>26. ASSUME NEW c \in Closers, Snapshot(c) PROVE Goal
  BY <1>26 DEF Snapshot
<1>27. ASSUME NEW c \in Closers, Swept(c) PROVE Goal
  BY <1>27 DEF Swept
<1>28. ASSUME NEW c \in Closers, OnClose(c) PROVE Goal
  BY <1>28 DEF OnClose
<1>29. ASSUME NEW c \in Closers, DeleteRecord(c) PROVE Goal
  BY <1>29 DEF DeleteRecord
<1>30. ASSUME NEW c \in Closers, NEW s \in Sessions, Sweep(c, s) PROVE Goal
  BY <1>30 DEF Sweep
<1>31. CASE UNCHANGED vars
  BY <1>31 DEF vars
<1> QED BY <1>1, <1>2, <1>3, <1>4, <1>5, <1>6, <1>7, <1>8, <1>9, <1>10, <1>11, <1>12,
   <1>13, <1>14, <1>15, <1>16, <1>17, <1>18, <1>19, <1>20, <1>21, <1>22, <1>23, <1>24,
   <1>25, <1>26, <1>27, <1>28, <1>29, <1>30, <1>31 DEF Next, StartSession, Depart,
   RoomClose

(* Only the calls that hold r change its count, and each of them by one.    *)
LEMMA HoldsStep ==
  ASSUME TypeOK, Membership, HoldsExact, [Next]_vars
  PROVE  HoldsExact'
<1> SUFFICES ASSUME NEW r \in Rooms, status'[r] = "open"
             PROVE  holds'[r] = Cardinality(Holding(r)')
  BY DEF HoldsExact, Holding
<1> DEFINE Goal == holds'[r] = Cardinality(Holding(r)')
<1>0. IsFiniteSet(Holding(r)) /\ Cardinality(Holding(r)) \in Nat
  BY RegistryAssumption, FS_Subset, FS_CardinalityType DEF Holding
<1>add. \A s \in Sessions : s \notin Holding(r)
         => Cardinality(Holding(r) \union {s}) = Cardinality(Holding(r)) + 1
  BY <1>0, FS_AddElement
<1>drop. \A s \in Sessions : s \in Holding(r)
         => Cardinality(Holding(r) \ {s}) = Cardinality(Holding(r)) - 1
  BY <1>0, FS_RemoveElement
<1> USE RegistryAssumption DEF HoldsExact, Membership, TypeOK, IsOpen, storeVars,
      roomVars, sessionVars, partVars, closerVars, Goto, Step
<1>1. ASSUME NEW s \in Sessions, LookUp(s) PROVE Goal
  <2>1. Holding(r)' = Holding(r)
    BY <1>1 DEF LookUp, Holding
  <2>2. status[r] = "open" /\ holds'[r] = holds[r]
    BY <1>1 DEF LookUp
  <2> QED BY <2>1, <2>2
<1>2. ASSUME NEW s \in Sessions, HoldSeen(s) PROVE Goal
  <2>1. CASE r = seen[s]
    <3>1. Holding(r)' = Holding(r) \union {s} /\ s \notin Holding(r)
      BY <1>2, <2>1 DEF HoldSeen, Holding
    <3>2. status[r] = "open" /\ holds'[r] = holds[r] + 1
      BY <1>2, <2>1 DEF HoldSeen
    <3>3. Cardinality(Holding(r)') = Cardinality(Holding(r)) + 1
      BY <1>add, <3>1
    <3> QED BY <3>2, <3>3
  <2>2. CASE r # seen[s]
    <3>1. Holding(r)' = Holding(r)
      BY <1>2, <2>2 DEF HoldSeen, Holding
    <3>2. status[r] = "open" /\ holds'[r] = holds[r]
      BY <1>2, <2>2 DEF HoldSeen
    <3> QED BY <3>1, <3>2
  <2> QED BY <2>1, <2>2
<1>3. ASSUME NEW s \in Sessions, HoldFails(s) PROVE Goal
  <2>1. Holding(r)' = Holding(r)
    BY <1>3 DEF HoldFails, Holding
  <2>2. status[r] = "open" /\ holds'[r] = holds[r]
    BY <1>3 DEF HoldFails
  <2> QED BY <2>1, <2>2
<1>4. ASSUME NEW s \in Sessions, Allocate(s) PROVE Goal
  <2>1. Holding(r)' = Holding(r)
    BY <1>4 DEF Allocate, Holding
  <2>2. status[r] = "open" /\ holds'[r] = holds[r]
    BY <1>4 DEF Allocate
  <2> QED BY <2>1, <2>2
<1>5. ASSUME NEW s \in Sessions, AllocateFails(s) PROVE Goal
  <2>1. Holding(r)' = Holding(r)
    BY <1>5 DEF AllocateFails, Holding
  <2>2. status[r] = "open" /\ holds'[r] = holds[r]
    BY <1>5 DEF AllocateFails
  <2> QED BY <2>1, <2>2
<1>6. ASSUME NEW s \in Sessions, MapChanged(s) PROVE Goal
  <2>1. Holding(r)' = Holding(r)
    BY <1>6 DEF MapChanged, Holding
  <2>2. status[r] = "open" /\ holds'[r] = holds[r]
    BY <1>6 DEF MapChanged
  <2> QED BY <2>1, <2>2
<1>7. ASSUME NEW s \in Sessions, CreateRoom(s) PROVE Goal
  <2>1. PICK n \in Rooms : status[n] = "unused" /\ status' = [status EXCEPT ![n] = "open"]
                          /\ mine' = [mine EXCEPT ![s] = n]
    BY <1>7 DEF CreateRoom
  <2>2. CASE r = n
    <3>1. Holding(r)' = {} /\ holds'[r] = 0
      BY <1>7, <2>1, <2>2 DEF CreateRoom, Holding
    <3> QED BY <3>1, FS_EmptySet
  <2>3. CASE r # n
    <3>1. Holding(r)' = Holding(r)
      BY <1>7, <2>1, <2>3 DEF CreateRoom, Holding
    <3>2. status[r] = "open" /\ holds'[r] = holds[r]
      BY <1>7, <2>1, <2>3 DEF CreateRoom
    <3> QED BY <3>1, <3>2
  <2> QED BY <2>2, <2>3
<1>8. ASSUME NEW s \in Sessions, RegisterFails(s) PROVE Goal
  <2>1. Holding(r)' = Holding(r)
    BY <1>8 DEF RegisterFails, Holding
  <2>2. status[r] = "open" /\ holds'[r] = holds[r]
    BY <1>8 DEF RegisterFails
  <2> QED BY <2>1, <2>2
<1>9. ASSUME NEW s \in Sessions, HoldNew(s) PROVE Goal
  <2>1. CASE r = mine[s]
    <3>1. Holding(r)' = Holding(r) \union {s} /\ s \notin Holding(r)
      BY <1>9, <2>1 DEF HoldNew, Holding
    <3>2. status[r] = "open" /\ holds'[r] = holds[r] + 1
      BY <1>9, <2>1 DEF HoldNew
    <3>3. Cardinality(Holding(r)') = Cardinality(Holding(r)) + 1
      BY <1>add, <3>1
    <3> QED BY <3>2, <3>3
  <2>2. CASE r # mine[s]
    <3>1. Holding(r)' = Holding(r)
      BY <1>9, <2>2 DEF HoldNew, Holding
    <3>2. status[r] = "open" /\ holds'[r] = holds[r]
      BY <1>9, <2>2 DEF HoldNew
    <3> QED BY <3>1, <3>2
  <2> QED BY <2>1, <2>2
<1>10. ASSUME NEW s \in Sessions, CreateReturns(s) PROVE Goal
  <2>1. CASE r = mine[s]
    <3>1. Holding(r)' = Holding(r) \ {s} /\ s \in Holding(r)
      BY <1>10, <2>1 DEF CreateReturns, Holding
    <3>2. status[r] = "open" /\ holds'[r] = holds[r] - 1
      BY <1>10, <2>1 DEF CreateReturns
    <3>3. Cardinality(Holding(r)') = Cardinality(Holding(r)) - 1
      BY <1>drop, <3>1
    <3> QED BY <3>2, <3>3
  <2>2. CASE r # mine[s]
    <3>1. Holding(r)' = Holding(r)
      BY <1>10, <2>2 DEF CreateReturns, Holding
    <3>2. status[r] = "open" /\ holds'[r] = holds[r]
      BY <1>10, <2>2 DEF CreateReturns
    <3> QED BY <3>1, <3>2
  <2> QED BY <2>1, <2>2
<1>11. ASSUME NEW s \in Sessions, Join(s) PROVE Goal
  <2>1. Holding(r)' = Holding(r)
    BY <1>11 DEF Join, Holding
  <2>2. status[r] = "open" /\ holds'[r] = holds[r]
    BY <1>11 DEF Join
  <2> QED BY <2>1, <2>2
<1>12. ASSUME NEW s \in Sessions, JoinFails(s) PROVE Goal
  <2>1. Holding(r)' = Holding(r)
    BY <1>12 DEF JoinFails, Holding
  <2>2. status[r] = "open" /\ holds'[r] = holds[r]
    BY <1>12 DEF JoinFails
  <2> QED BY <2>1, <2>2
<1>13. ASSUME NEW s \in Sessions, PersistCheck(s) PROVE Goal
  <2>1. Holding(r)' = Holding(r)
    BY <1>13 DEF PersistCheck, Holding
  <2>2. status[r] = "open" /\ holds'[r] = holds[r]
    BY <1>13 DEF PersistCheck
  <2> QED BY <2>1, <2>2
<1>14. ASSUME NEW s \in Sessions, Persist(s) PROVE Goal
  <2>1. Holding(r)' = Holding(r)
    BY <1>14 DEF Persist, Holding
  <2>2. status[r] = "open" /\ holds'[r] = holds[r]
    BY <1>14 DEF Persist
  <2> QED BY <2>1, <2>2
<1>15. ASSUME NEW s \in Sessions, StartReturns(s) PROVE Goal
  <2>1. CASE r = mine[s]
    <3>1. Holding(r)' = Holding(r) \ {s} /\ s \in Holding(r)
      BY <1>15, <2>1 DEF StartReturns, Holding
    <3>2. status[r] = "open" /\ holds'[r] = holds[r] - 1
      BY <1>15, <2>1 DEF StartReturns
    <3>3. Cardinality(Holding(r)') = Cardinality(Holding(r)) - 1
      BY <1>drop, <3>1
    <3> QED BY <3>2, <3>3
  <2>2. CASE r # mine[s]
    <3>1. Holding(r)' = Holding(r)
      BY <1>15, <2>2 DEF StartReturns, Holding
    <3>2. status[r] = "open" /\ holds'[r] = holds[r]
      BY <1>15, <2>2 DEF StartReturns
    <3> QED BY <3>1, <3>2
  <2> QED BY <2>1, <2>2
<1>16. ASSUME NEW s \in Sessions, Leave(s) PROVE Goal
  <2>1. Holding(r)' = Holding(r)
    BY <1>16 DEF Leave, Holding
  <2>2. status[r] = "open" /\ holds'[r] = holds[r]
    BY <1>16 DEF Leave
  <2> QED BY <2>1, <2>2
<1>17. ASSUME NEW s \in Sessions, LeaveCloses(s) PROVE Goal
  <2>1. Holding(r)' = Holding(r)
    BY <1>17 DEF LeaveCloses, Holding
  <2>2. status[r] = "open" /\ holds'[r] = holds[r]
    BY <1>17 DEF LeaveCloses
  <2> QED BY <2>1, <2>2
<1>18. ASSUME NEW s \in Sessions, FarewellCheck(s) PROVE Goal
  <2>1. Holding(r)' = Holding(r)
    BY <1>18 DEF FarewellCheck, Holding
  <2>2. status[r] = "open" /\ holds'[r] = holds[r]
    BY <1>18 DEF FarewellCheck
  <2> QED BY <2>1, <2>2
<1>19. ASSUME NEW s \in Sessions, Farewell(s) PROVE Goal
  <2>1. Holding(r)' = Holding(r)
    BY <1>19 DEF Farewell, Holding
  <2>2. status[r] = "open" /\ holds'[r] = holds[r]
    BY <1>19 DEF Farewell
  <2> QED BY <2>1, <2>2
<1>20. CASE JanitorLooks
  <2>1. Holding(r)' = Holding(r)
    BY <1>20 DEF JanitorLooks, Holding
  <2>2. status[r] = "open" /\ holds'[r] = holds[r]
    BY <1>20 DEF JanitorLooks
  <2> QED BY <2>1, <2>2
<1>21. CASE Expired
  <2>1. Holding(r)' = Holding(r)
    BY <1>21 DEF Expired, Holding
  <2>2. status[r] = "open" /\ holds'[r] = holds[r]
    BY <1>21 DEF Expired
  <2> QED BY <2>1, <2>2
<1>22. CASE NotExpired
  <2>1. Holding(r)' = Holding(r)
    BY <1>22 DEF NotExpired, Holding
  <2>2. status[r] = "open" /\ holds'[r] = holds[r]
    BY <1>22 DEF NotExpired
  <2> QED BY <2>1, <2>2
<1>23. ASSUME NEW c \in Closers, DeleteRoom(c) PROVE Goal
  <2>1. Holding(r)' = Holding(r)
    BY <1>23 DEF DeleteRoom, Holding
  <2>2. status[r] = "open" /\ holds'[r] = holds[r]
    BY <1>23 DEF DeleteRoom
  <2> QED BY <2>1, <2>2
<1>24. ASSUME NEW c \in Closers, DeleteRecordOnly(c) PROVE Goal
  <2>1. Holding(r)' = Holding(r)
    BY <1>24 DEF DeleteRecordOnly, Holding
  <2>2. status[r] = "open" /\ holds'[r] = holds[r]
    BY <1>24 DEF DeleteRecordOnly
  <2> QED BY <2>1, <2>2
<1>25. ASSUME NEW c \in Closers, Close(c) PROVE Goal
  <2>1. Holding(r)' = Holding(r)
    BY <1>25 DEF Close, Holding
  <2>2. status[r] = "open" /\ holds'[r] = holds[r]
    BY <1>25 DEF Close
  <2> QED BY <2>1, <2>2
<1>26. ASSUME NEW c \in Closers, Snapshot(c) PROVE Goal
  <2>1. Holding(r)' = Holding(r)
    BY <1>26 DEF Snapshot, Holding
  <2>2. status[r] = "open" /\ holds'[r] = holds[r]
    BY <1>26 DEF Snapshot
  <2> QED BY <2>1, <2>2
<1>27. ASSUME NEW c \in Closers, Swept(c) PROVE Goal
  <2>1. Holding(r)' = Holding(r)
    BY <1>27 DEF Swept, Holding
  <2>2. status[r] = "open" /\ holds'[r] = holds[r]
    BY <1>27 DEF Swept
  <2> QED BY <2>1, <2>2
<1>28. ASSUME NEW c \in Closers, OnClose(c) PROVE Goal
  <2>1. Holding(r)' = Holding(r)
    BY <1>28 DEF OnClose, Holding
  <2>2. status[r] = "open" /\ holds'[r] = holds[r]
    BY <1>28 DEF OnClose
  <2> QED BY <2>1, <2>2
<1>29. ASSUME NEW c \in Closers, DeleteRecord(c) PROVE Goal
  <2>1. Holding(r)' = Holding(r)
    BY <1>29 DEF DeleteRecord, Holding
  <2>2. status[r] = "open" /\ holds'[r] = holds[r]
    BY <1>29 DEF DeleteRecord
  <2> QED BY <2>1, <2>2
<1>30. ASSUME NEW c \in Closers, NEW s \in Sessions, Sweep(c, s) PROVE Goal
  <2>1. Holding(r)' = Holding(r)
    BY <1>30 DEF Sweep, Holding
  <2>2. status[r] = "open" /\ holds'[r] = holds[r]
    BY <1>30 DEF Sweep
  <2> QED BY <2>1, <2>2
<1>31. CASE UNCHANGED vars
  <2>1. Holding(r)' = Holding(r)
    BY <1>31 DEF vars, Holding
  <2>2. status[r] = "open" /\ holds'[r] = holds[r]
    BY <1>31 DEF vars
  <2> QED BY <2>1, <2>2
<1> QED BY <1>1, <1>2, <1>3, <1>4, <1>5, <1>6, <1>7, <1>8, <1>9, <1>10, <1>11, <1>12,
   <1>13, <1>14, <1>15, <1>16, <1>17, <1>18, <1>19, <1>20, <1>21, <1>22, <1>23, <1>24,
   <1>25, <1>26, <1>27, <1>28, <1>29, <1>30, <1>31 DEF Next, StartSession, Depart,
   RoomClose

(* The types of the registry's state: every room object named by the map, a *)
(* call or a closer exists, and a closer past its look has a room.          *)
THEOREM RegistryTypes == Spec => []TypeOK
<1>1. Init => TypeOK /\ Membership
  BY TypeInit, MembershipInit
<1>2. TypeOK /\ Membership /\ [Next]_vars => (TypeOK /\ Membership)'
  BY TypeStep, MembershipStep
<1> QED BY <1>1, <1>2, PTL DEF Spec

(* Room.Close reaches every participant that got in, for any number of      *)
(* sessions joining and leaving and any number of concurrent closers.       *)
THEOREM RegistryLeavesNoOneBehind == Spec => []NoOneIsLeftBehind
<1>1. Init => TypeOK /\ Membership /\ NoOneIsLeftBehind
  BY TypeInit, MembershipInit DEF Init, NoOneIsLeftBehind
<1>2. TypeOK /\ Membership /\ NoOneIsLeftBehind /\ [Next]_vars
      => (TypeOK /\ Membership /\ NoOneIsLeftBehind)'
  BY TypeStep, MembershipStep, LeftBehindStep
<1> QED BY <1>1, <1>2, PTL DEF Spec

(* An open room's holds are the calls that use it, for any number of calls. *)
THEOREM RegistryHoldsExact == Spec => []HoldsExact
<1>1. Init => TypeOK /\ Membership /\ HoldsExact
  BY TypeInit, MembershipInit DEF Init, HoldsExact
<1>2. TypeOK /\ Membership /\ HoldsExact /\ [Next]_vars
      => (TypeOK /\ Membership /\ HoldsExact)'
  BY TypeStep, MembershipStep, HoldsStep
<1> QED BY <1>1, <1>2, PTL DEF Spec

-----------------------------------------------------------------------------
(* The sessions of one identity that leave or are resumed.  A connection    *)
(* whose session does not exist, or not yet:                                *)
Unborn == {"idle", "found", "evict", "create", "resume"}

Entered(p) == parts = p \/ removing[p] # "no"

SessionTypes ==
  /\ parts \in Conns \union {None} /\ source \in Conns \union {None}
  /\ connPc \in [Conns -> Leaving!ConnPcs] /\ whose \in [Conns -> Conns \union {None}]
  /\ srcOpen \in [Conns -> BOOLEAN]
  /\ state \in [Conns -> Leaving!States]
  /\ closing \in [Conns -> {"no", "update", "callbacks", "done"}]
  /\ born \in [Conns -> Nat]
  /\ removing \in [Conns -> {"no", "check", "clear", "close", "wait", "tell", "done"}]
  /\ sendUpdates \in [Conns -> BOOLEAN]
  /\ notes \in [Conns -> SUBSET {"tell", "act"}]
  /\ told \in [Conns -> {"nothing", "present", "gone"}]

(* The request source of the session in the room is open as long as its     *)
(* connection is served, so that no worker takes it for lost.               *)
SourcesInv ==
  \A k \in Conns :
    /\ connPc[k] \in Unborn \union {"join"} => srcOpen[k] /\ source # k
    /\ source = k /\ connPc[k] # "end" => srcOpen[k]
    /\ connPc[k] # "lost"
    /\ connPc[k] \in {"found", "evict", "resume", "join", "joined", "register", "work"} => whose[k] \in Conns

(* Nothing is told or under way of a session before it exists, and one that *)
(* has never been in the room is not told to be there.                      *)
BirthInv ==
  \A p \in Conns :
    /\ connPc[p] \in Unborn => state[p] = "new"
    /\ connPc[p] \in {"join", "joinFailed"} => state[p] = "JOINING"
    /\ state[p] = "new" \/ connPc[p] \in {"join", "joinFailed"} =>
         ~Entered(p) /\ closing[p] = "no" /\ told[p] = "nothing" /\ notes[p] = {}
    /\ ~Entered(p) => /\ told[p] # "present"
                      /\ state[p] \in {"new", "JOINING", "DISCONNECTED"}
                      /\ "tell" \in notes[p] => state[p] = "DISCONNECTED"

(* RemoveParticipant finds its session open, and closes it itself.          *)
RemovalInv ==
  \A p \in Conns :
    /\ parts = p => removing[p] = "no"
    /\ parts = p \/ removing[p] \in {"check", "clear", "close"} => closing[p] = "no"
    /\ removing[p] \in {"clear", "close", "wait"} => sendUpdates[p]
    /\ removing[p] # "tell"
    /\ closing[p] \in {"callbacks", "done"} => state[p] = "DISCONNECTED"
    /\ state[p] = "DISCONNECTED" => closing[p] # "no"

(* A session removed was told to be gone, or the news was dropped for a     *)
(* newer session which is in the room, or being removed, or told to be gone.*)
Handled(q) ==
  parts = q \/ removing[q] \in {"check", "clear", "close", "wait"} \/ told[q] = "gone"

NewsInv ==
  \A p \in Conns : removing[p] = "done" =>
    told[p] = "gone" \/ \E q \in Conns : born[q] > born[p] /\ Handled(q)

SessionInv == SessionTypes /\ SourcesInv /\ BirthInv /\ RemovalInv /\ NewsInv

LEMMA RankOfStates ==
  /\ \A s \in Leaving!States \ {"DISCONNECTED"} :
       Leaving!Rank("DISCONNECTED") > Leaving!Rank(s)
  /\ Leaving!Rank("JOINED") > Leaving!Rank("JOINING")
  BY DEF Leaving!Rank, Leaving!States

LEMMA SessionNext ==
  ASSUME SessionInv, Leaving!Next
  PROVE  SessionInv'
<1> USE DEF Leaving!connVars, Leaving!partVars, Leaving!removeVars
<1>1. ASSUME NEW k \in Conns, Leaving!CloseUpdates(k) PROVE SessionInv'
  <2>1. SessionTypes'
    BY <1>1, ConnsAssumption, RankOfStates DEF Leaving!CloseUpdates,
       Leaving!updateState, SessionInv, SessionTypes, Leaving!ConnPcs, Leaving!States
  <2>2. SourcesInv'
    BY <1>1, ConnsAssumption, RankOfStates DEF Leaving!CloseUpdates,
       Leaving!updateState, SessionInv, SessionTypes, SourcesInv, Unborn
  <2>3. BirthInv'
    BY <1>1, ConnsAssumption, RankOfStates DEF Leaving!CloseUpdates,
       Leaving!updateState, SessionInv, SessionTypes, BirthInv, Entered, Unborn
  <2>4. RemovalInv'
    BY <1>1, ConnsAssumption, RankOfStates DEF Leaving!CloseUpdates,
       Leaving!updateState, SessionInv, SessionTypes, RemovalInv, BirthInv, Entered
  <2>5. NewsInv'
    BY <1>1, ConnsAssumption, RankOfStates DEF Leaving!CloseUpdates,
       Leaving!updateState, SessionInv, SessionTypes, NewsInv, Handled, RemovalInv
  <2> QED BY <2>1, <2>2, <2>3, <2>4, <2>5 DEF SessionInv
<1>2. ASSUME NEW k \in Conns, Leaving!CloseCallsBack(k) PROVE SessionInv'
  <2>1. SessionTypes'
    BY <1>2, ConnsAssumption DEF Leaving!CloseCallsBack, Leaving!RunFarewell,
       SessionInv, SessionTypes, Leaving!ConnPcs, Leaving!States
  <2>2. SourcesInv'
    BY <1>2, ConnsAssumption DEF Leaving!CloseCallsBack, Leaving!RunFarewell,
       SessionInv, SessionTypes, SourcesInv, Unborn
  <2>3. BirthInv'
    BY <1>2, ConnsAssumption DEF Leaving!CloseCallsBack, Leaving!RunFarewell,
       SessionInv, SessionTypes, BirthInv, Entered, Unborn
  <2>4. RemovalInv'
    BY <1>2, ConnsAssumption DEF Leaving!CloseCallsBack, Leaving!RunFarewell,
       SessionInv, SessionTypes, RemovalInv, BirthInv, Entered
  <2>5. NewsInv'
    BY <1>2, ConnsAssumption DEF Leaving!CloseCallsBack, Leaving!RunFarewell,
       SessionInv, SessionTypes, NewsInv, Handled, RemovalInv
  <2> QED BY <2>1, <2>2, <2>3, <2>4, <2>5 DEF SessionInv
<1>3. ASSUME NEW k \in Conns, Leaving!RemoveChecks(k) PROVE SessionInv'
  <2>1. SessionTypes'
    BY <1>3, ConnsAssumption DEF Leaving!RemoveChecks, SessionInv, SessionTypes,
       Leaving!ConnPcs, Leaving!States, Leaving!IsDisconnected
  <2>2. SourcesInv'
    BY <1>3, ConnsAssumption DEF Leaving!RemoveChecks, SessionInv, SessionTypes,
       SourcesInv, Leaving!IsDisconnected, Unborn
  <2>3. BirthInv'
    BY <1>3, ConnsAssumption DEF Leaving!RemoveChecks, SessionInv, SessionTypes,
       BirthInv, Leaving!IsDisconnected, Entered, Unborn
  <2>4. RemovalInv'
    BY ZenonT(60), <1>3, ConnsAssumption DEF Leaving!RemoveChecks, SessionInv, SessionTypes,
       RemovalInv, Leaving!IsDisconnected, BirthInv, Entered
  <2>5. NewsInv'
    BY <1>3, ConnsAssumption DEF Leaving!RemoveChecks, SessionInv, SessionTypes,
       NewsInv, Leaving!IsDisconnected, Handled, RemovalInv
  <2> QED BY <2>1, <2>2, <2>3, <2>4, <2>5 DEF SessionInv
<1>4. ASSUME NEW k \in Conns, Leaving!RemoveClearsListener(k) PROVE SessionInv'
  <2>1. SessionTypes'
    BY <1>4, ConnsAssumption DEF Leaving!RemoveClearsListener, SessionInv, SessionTypes,
       Leaving!ConnPcs, Leaving!States
  <2>2. SourcesInv'
    BY <1>4, ConnsAssumption DEF Leaving!RemoveClearsListener, SessionInv, SessionTypes,
       SourcesInv, Unborn
  <2>3. BirthInv'
    BY <1>4, ConnsAssumption DEF Leaving!RemoveClearsListener, SessionInv, SessionTypes,
       BirthInv, Entered, Unborn
  <2>4. RemovalInv'
    BY <1>4, ConnsAssumption DEF Leaving!RemoveClearsListener, SessionInv, SessionTypes,
       RemovalInv, BirthInv, Entered
  <2>5. NewsInv'
    BY <1>4, ConnsAssumption DEF Leaving!RemoveClearsListener, SessionInv, SessionTypes,
       NewsInv, Handled, RemovalInv
  <2> QED BY <2>1, <2>2, <2>3, <2>4, <2>5 DEF SessionInv
<1>5. ASSUME NEW k \in Conns, Leaving!RemoveCloses(k) PROVE SessionInv'
  <2>1. SessionTypes'
    BY <1>5, ConnsAssumption DEF Leaving!RemoveCloses, Leaving!StartClose,
       Leaving!IsClosed, SessionInv, SessionTypes, Leaving!ConnPcs, Leaving!States
  <2>2. SourcesInv'
    BY <1>5, ConnsAssumption DEF Leaving!RemoveCloses, Leaving!StartClose,
       Leaving!IsClosed, SessionInv, SessionTypes, SourcesInv, Unborn
  <2>3. BirthInv'
    BY <1>5, ConnsAssumption DEF Leaving!RemoveCloses, Leaving!StartClose,
       Leaving!IsClosed, SessionInv, SessionTypes, BirthInv, Entered, Unborn
  <2>4. RemovalInv'
    BY <1>5, ConnsAssumption DEF Leaving!RemoveCloses, Leaving!StartClose,
       Leaving!IsClosed, SessionInv, SessionTypes, RemovalInv, BirthInv, Entered
  <2>5. NewsInv'
    BY <1>5, ConnsAssumption DEF Leaving!RemoveCloses, Leaving!StartClose,
       Leaving!IsClosed, SessionInv, SessionTypes, NewsInv, Handled, RemovalInv
  <2> QED BY <2>1, <2>2, <2>3, <2>4, <2>5 DEF SessionInv
<1>6. ASSUME NEW k \in Conns, Leaving!RemoveTells(k) PROVE SessionInv'
  <2>1. SessionTypes'
    BY <1>6, ConnsAssumption DEF Leaving!RemoveTells, Leaving!broadcast,
       Leaving!IsDisconnected, Leaving!Newer, SessionInv, SessionTypes, Leaving!ConnPcs,
       Leaving!States
  <2>2. SourcesInv'
    BY <1>6, ConnsAssumption DEF Leaving!RemoveTells, Leaving!broadcast,
       Leaving!IsDisconnected, Leaving!Newer, SessionInv, SessionTypes, SourcesInv,
       Unborn
  <2>3. BirthInv'
    BY <1>6, ConnsAssumption DEF Leaving!RemoveTells, Leaving!broadcast,
       Leaving!IsDisconnected, Leaving!Newer, SessionInv, SessionTypes, BirthInv,
       Entered, Unborn
  <2>4. RemovalInv'
    BY <1>6, ConnsAssumption DEF Leaving!RemoveTells, Leaving!broadcast,
       Leaving!IsDisconnected, Leaving!Newer, SessionInv, SessionTypes, RemovalInv,
       BirthInv, Entered
  <2>5. NewsInv'
    BY <1>6, ConnsAssumption DEF Leaving!RemoveTells, Leaving!broadcast,
       Leaving!IsDisconnected, Leaving!Newer, SessionInv, SessionTypes, NewsInv,
       Handled, RemovalInv
  <2> QED BY <2>1, <2>2, <2>3, <2>4, <2>5 DEF SessionInv
<1>7. ASSUME NEW k \in Conns, Leaving!NoteTells(k) PROVE SessionInv'
  <2>1. SessionTypes'
    BY <1>7, ConnsAssumption DEF Leaving!NoteTells, Leaving!broadcast,
       Leaving!IsDisconnected, Leaving!Newer, SessionInv, SessionTypes, Leaving!ConnPcs,
       Leaving!States
  <2>2. SourcesInv'
    BY <1>7, ConnsAssumption DEF Leaving!NoteTells, Leaving!broadcast,
       Leaving!IsDisconnected, Leaving!Newer, SessionInv, SessionTypes, SourcesInv,
       Unborn
  <2>3. BirthInv'
    BY <1>7, ConnsAssumption DEF Leaving!NoteTells, Leaving!broadcast,
       Leaving!IsDisconnected, Leaving!Newer, SessionInv, SessionTypes, BirthInv,
       Entered, Unborn
  <2>4. RemovalInv'
    BY <1>7, ConnsAssumption DEF Leaving!NoteTells, Leaving!broadcast,
       Leaving!IsDisconnected, Leaving!Newer, SessionInv, SessionTypes, RemovalInv,
       BirthInv, Entered
  <2>5. NewsInv'
    BY <1>7, ConnsAssumption DEF Leaving!NoteTells, Leaving!broadcast,
       Leaving!IsDisconnected, Leaving!Newer, SessionInv, SessionTypes, NewsInv,
       Handled, RemovalInv
  <2> QED BY <2>1, <2>2, <2>3, <2>4, <2>5 DEF SessionInv
<1>8. ASSUME NEW k \in Conns, Leaving!NoteActs(k) PROVE SessionInv'
  <2>1. SessionTypes'
    BY <1>8, ConnsAssumption DEF Leaving!NoteActs, Leaving!StartRemove,
       Leaving!IsDisconnected, SessionInv, SessionTypes, Leaving!ConnPcs, Leaving!States
  <2>2. SourcesInv'
    BY <1>8, ConnsAssumption DEF Leaving!NoteActs, Leaving!StartRemove,
       Leaving!IsDisconnected, SessionInv, SessionTypes, SourcesInv, Unborn
  <2>3. BirthInv'
    BY <1>8, ConnsAssumption DEF Leaving!NoteActs, Leaving!StartRemove,
       Leaving!IsDisconnected, SessionInv, SessionTypes, BirthInv, Entered, Unborn
  <2>4. RemovalInv'
    BY <1>8, ConnsAssumption DEF Leaving!NoteActs, Leaving!StartRemove,
       Leaving!IsDisconnected, SessionInv, SessionTypes, RemovalInv, BirthInv, Entered
  <2>5. NewsInv'
    BY <1>8, ConnsAssumption DEF Leaving!NoteActs, Leaving!StartRemove,
       Leaving!IsDisconnected, SessionInv, SessionTypes, NewsInv, Handled, RemovalInv
  <2> QED BY <2>1, <2>2, <2>3, <2>4, <2>5 DEF SessionInv
<1>9. ASSUME NEW k \in Conns, Leaving!JoinTimeout(k) PROVE SessionInv'
  <2>1. SessionTypes'
    BY <1>9, ConnsAssumption DEF Leaving!JoinTimeout, Leaving!StartRemove, SessionInv,
       SessionTypes, Leaving!ConnPcs, Leaving!States
  <2>2. SourcesInv'
    BY <1>9, ConnsAssumption DEF Leaving!JoinTimeout, Leaving!StartRemove, SessionInv,
       SessionTypes, SourcesInv, Unborn
  <2>3. BirthInv'
    BY <1>9, ConnsAssumption DEF Leaving!JoinTimeout, Leaving!StartRemove, SessionInv,
       SessionTypes, BirthInv, Entered, Unborn
  <2>4. RemovalInv'
    BY <1>9, ConnsAssumption DEF Leaving!JoinTimeout, Leaving!StartRemove, SessionInv,
       SessionTypes, RemovalInv, BirthInv, Entered
  <2>5. NewsInv'
    BY <1>9, ConnsAssumption DEF Leaving!JoinTimeout, Leaving!StartRemove, SessionInv,
       SessionTypes, NewsInv, Handled, RemovalInv
  <2> QED BY <2>1, <2>2, <2>3, <2>4, <2>5 DEF SessionInv
<1>10. ASSUME NEW k \in Conns, Leaving!ResumeRefused(k) PROVE SessionInv'
  <2>1. SessionTypes'
    BY <1>10, ConnsAssumption DEF Leaving!ResumeRefused, Leaving!End, Leaving!IsClosed,
       SessionInv, SessionTypes, Leaving!ConnPcs, Leaving!States
  <2>2. SourcesInv'
    BY <1>10, ConnsAssumption DEF Leaving!ResumeRefused, Leaving!End, Leaving!IsClosed,
       SessionInv, SessionTypes, SourcesInv, Unborn
  <2>3. BirthInv'
    BY <1>10, ConnsAssumption DEF Leaving!ResumeRefused, Leaving!End, Leaving!IsClosed,
       SessionInv, SessionTypes, BirthInv, Entered, Unborn
  <2>4. RemovalInv'
    BY <1>10, ConnsAssumption DEF Leaving!ResumeRefused, Leaving!End, Leaving!IsClosed,
       SessionInv, SessionTypes, RemovalInv, BirthInv, Entered
  <2>5. NewsInv'
    BY <1>10, ConnsAssumption DEF Leaving!ResumeRefused, Leaving!End, Leaving!IsClosed,
       SessionInv, SessionTypes, NewsInv, Handled, RemovalInv
  <2> QED BY <2>1, <2>2, <2>3, <2>4, <2>5 DEF SessionInv
<1>11. ASSUME NEW k \in Conns, Leaving!ResumeFound(k) PROVE SessionInv'
  <2>1. SessionTypes'
    BY <1>11, ConnsAssumption DEF Leaving!ResumeFound, Leaving!Goto, Leaving!IsClosed,
       SessionInv, SessionTypes, Leaving!ConnPcs, Leaving!States
  <2>2. SourcesInv'
    BY <1>11, ConnsAssumption DEF Leaving!ResumeFound, Leaving!Goto, Leaving!IsClosed,
       SessionInv, SessionTypes, SourcesInv, Unborn
  <2>3. BirthInv'
    BY <1>11, ConnsAssumption DEF Leaving!ResumeFound, Leaving!Goto, Leaving!IsClosed,
       SessionInv, SessionTypes, BirthInv, Entered, Unborn
  <2>4. RemovalInv'
    BY <1>11, ConnsAssumption DEF Leaving!ResumeFound, Leaving!Goto, Leaving!IsClosed,
       SessionInv, SessionTypes, RemovalInv, BirthInv, Entered
  <2>5. NewsInv'
    BY <1>11, ConnsAssumption DEF Leaving!ResumeFound, Leaving!Goto, Leaving!IsClosed,
       SessionInv, SessionTypes, NewsInv, Handled, RemovalInv
  <2> QED BY <2>1, <2>2, <2>3, <2>4, <2>5 DEF SessionInv
<1>12. ASSUME NEW k \in Conns, Leaving!FindDuplicate(k) PROVE SessionInv'
  <2>1. SessionTypes'
    BY <1>12, ConnsAssumption DEF Leaving!FindDuplicate, Leaving!Goto, SessionInv,
       SessionTypes, Leaving!ConnPcs, Leaving!States
  <2>2. SourcesInv'
    BY <1>12, ConnsAssumption DEF Leaving!FindDuplicate, Leaving!Goto, SessionInv,
       SessionTypes, SourcesInv, Unborn
  <2>3. BirthInv'
    BY <1>12, ConnsAssumption DEF Leaving!FindDuplicate, Leaving!Goto, SessionInv,
       SessionTypes, BirthInv, Entered, Unborn
  <2>4. RemovalInv'
    BY <1>12, ConnsAssumption DEF Leaving!FindDuplicate, Leaving!Goto, SessionInv,
       SessionTypes, RemovalInv, BirthInv, Entered
  <2>5. NewsInv'
    BY <1>12, ConnsAssumption DEF Leaving!FindDuplicate, Leaving!Goto, SessionInv,
       SessionTypes, NewsInv, Handled, RemovalInv
  <2> QED BY <2>1, <2>2, <2>3, <2>4, <2>5 DEF SessionInv
<1>13. ASSUME NEW k \in Conns, Leaving!JoinAlone(k) PROVE SessionInv'
  <2>1. SessionTypes'
    BY <1>13, ConnsAssumption DEF Leaving!JoinAlone, Leaving!Goto, SessionInv,
       SessionTypes, Leaving!ConnPcs, Leaving!States
  <2>2. SourcesInv'
    BY <1>13, ConnsAssumption DEF Leaving!JoinAlone, Leaving!Goto, SessionInv,
       SessionTypes, SourcesInv, Unborn
  <2>3. BirthInv'
    BY <1>13, ConnsAssumption DEF Leaving!JoinAlone, Leaving!Goto, SessionInv,
       SessionTypes, BirthInv, Entered, Unborn
  <2>4. RemovalInv'
    BY <1>13, ConnsAssumption DEF Leaving!JoinAlone, Leaving!Goto, SessionInv,
       SessionTypes, RemovalInv, BirthInv, Entered
  <2>5. NewsInv'
    BY <1>13, ConnsAssumption DEF Leaving!JoinAlone, Leaving!Goto, SessionInv,
       SessionTypes, NewsInv, Handled, RemovalInv
  <2> QED BY <2>1, <2>2, <2>3, <2>4, <2>5 DEF SessionInv
<1>14. ASSUME NEW k \in Conns, Leaving!Resume(k) PROVE SessionInv'
  <2>1. SessionTypes'
    BY <1>14, ConnsAssumption DEF Leaving!Resume, Leaving!Goto, SessionInv,
       SessionTypes, Leaving!ConnPcs, Leaving!States
  <2>2. SourcesInv'
    BY <1>14, ConnsAssumption DEF Leaving!Resume, Leaving!Goto, SessionInv,
       SessionTypes, SourcesInv, Unborn
  <2>3. BirthInv'
    BY <1>14, ConnsAssumption DEF Leaving!Resume, Leaving!Goto, SessionInv,
       SessionTypes, BirthInv, Entered, Unborn
  <2>4. RemovalInv'
    BY <1>14, ConnsAssumption DEF Leaving!Resume, Leaving!Goto, SessionInv,
       SessionTypes, RemovalInv, BirthInv, Entered
  <2>5. NewsInv'
    BY <1>14, ConnsAssumption DEF Leaving!Resume, Leaving!Goto, SessionInv,
       SessionTypes, NewsInv, Handled, RemovalInv
  <2> QED BY <2>1, <2>2, <2>3, <2>4, <2>5 DEF SessionInv
<1>15. ASSUME NEW k \in Conns, Leaving!EvictDuplicate(k) PROVE SessionInv'
  <2>1. SessionTypes'
    BY <1>15, ConnsAssumption DEF Leaving!EvictDuplicate, Leaving!StartRemove,
       SessionInv, SessionTypes, Leaving!ConnPcs, Leaving!States
  <2>2. SourcesInv'
    BY <1>15, ConnsAssumption DEF Leaving!EvictDuplicate, Leaving!StartRemove,
       SessionInv, SessionTypes, SourcesInv, Unborn
  <2>3. BirthInv'
    BY <1>15, ConnsAssumption DEF Leaving!EvictDuplicate, Leaving!StartRemove,
       SessionInv, SessionTypes, BirthInv, Entered, Unborn
  <2>4. RemovalInv'
    BY <1>15, ConnsAssumption DEF Leaving!EvictDuplicate, Leaving!StartRemove,
       SessionInv, SessionTypes, RemovalInv, BirthInv, Entered
  <2>5. NewsInv'
    BY <1>15, ConnsAssumption DEF Leaving!EvictDuplicate, Leaving!StartRemove,
       SessionInv, SessionTypes, NewsInv, Handled, RemovalInv
  <2> QED BY <2>1, <2>2, <2>3, <2>4, <2>5 DEF SessionInv
<1>16. ASSUME NEW k \in Conns, Leaving!Evicted(k) PROVE SessionInv'
  <2>1. SessionTypes'
    BY <1>16, ConnsAssumption DEF Leaving!Evicted, Leaving!Goto, SessionInv,
       SessionTypes, Leaving!ConnPcs, Leaving!States
  <2>2. SourcesInv'
    BY <1>16, ConnsAssumption DEF Leaving!Evicted, Leaving!Goto, SessionInv,
       SessionTypes, SourcesInv, Unborn
  <2>3. BirthInv'
    BY <1>16, ConnsAssumption DEF Leaving!Evicted, Leaving!Goto, SessionInv,
       SessionTypes, BirthInv, Entered, Unborn
  <2>4. RemovalInv'
    BY <1>16, ConnsAssumption DEF Leaving!Evicted, Leaving!Goto, SessionInv,
       SessionTypes, RemovalInv, BirthInv, Entered
  <2>5. NewsInv'
    BY <1>16, ConnsAssumption DEF Leaving!Evicted, Leaving!Goto, SessionInv,
       SessionTypes, NewsInv, Handled, RemovalInv
  <2> QED BY <2>1, <2>2, <2>3, <2>4, <2>5 DEF SessionInv
<1>17. ASSUME NEW k \in Conns, Leaving!Create(k) PROVE SessionInv'
  <2>1. SessionTypes'
    <3>1. IsFiniteSet({q \in Conns : born[q] # 0})
      BY ConnsAssumption, FS_Subset
    <3>2. Leaving!Cardinality({q \in Conns : born[q] # 0}) \in Nat
      BY <3>1, FS_CardinalityType DEF Leaving!Cardinality, Cardinality
    <3> QED BY <1>17, <3>2 DEF Leaving!Create, Leaving!Goto, SessionInv, SessionTypes,
       Leaving!ConnPcs, Leaving!States
  <2>2. SourcesInv'
    BY <1>17, ConnsAssumption, <2>1 DEF Leaving!Create, Leaving!Goto, SessionInv,
       SessionTypes, SourcesInv, Unborn
  <2>3. BirthInv'
    BY <1>17, ConnsAssumption, <2>1 DEF Leaving!Create, Leaving!Goto, SessionInv,
       SessionTypes, BirthInv, Entered, Unborn
  <2>4. RemovalInv'
    BY <1>17, ConnsAssumption, <2>1 DEF Leaving!Create, Leaving!Goto, SessionInv,
       SessionTypes, RemovalInv, Unborn, BirthInv, Entered
  <2>5. NewsInv'
    BY <1>17, ConnsAssumption, <2>1 DEF Leaving!Create, Leaving!Goto, SessionInv,
       SessionTypes, NewsInv, Unborn, BirthInv, Entered, Handled, RemovalInv
  <2> QED BY <2>1, <2>2, <2>3, <2>4, <2>5 DEF SessionInv
<1>18. ASSUME NEW k \in Conns, Leaving!Join(k) PROVE SessionInv'
  <2>1. SessionTypes'
    BY <1>18, ConnsAssumption, RankOfStates DEF Leaving!Join, Leaving!Goto,
       Leaving!updateState, SessionInv, SessionTypes, Leaving!ConnPcs, Leaving!States
  <2>2. SourcesInv'
    BY <1>18, ConnsAssumption, RankOfStates DEF Leaving!Join, Leaving!Goto,
       Leaving!updateState, SessionInv, SessionTypes, SourcesInv, Unborn
  <2>3. BirthInv'
    BY <1>18, ConnsAssumption, RankOfStates DEF Leaving!Join, Leaving!Goto,
       Leaving!updateState, SessionInv, SessionTypes, BirthInv, Entered, Unborn
  <2>4. RemovalInv'
    BY <1>18, ConnsAssumption, RankOfStates DEF Leaving!Join, Leaving!Goto,
       Leaving!updateState, SessionInv, SessionTypes, RemovalInv, BirthInv, Entered
  <2>5. NewsInv'
    BY <1>18, ConnsAssumption, RankOfStates DEF Leaving!Join, Leaving!Goto,
       Leaving!updateState, SessionInv, SessionTypes, NewsInv, Handled, RemovalInv
  <2> QED BY <2>1, <2>2, <2>3, <2>4, <2>5 DEF SessionInv
<1>19. ASSUME NEW k \in Conns, Leaving!JoinUnsent(k) PROVE SessionInv'
  <2>1. SessionTypes'
    BY <1>19, ConnsAssumption DEF Leaving!JoinUnsent, Leaving!Goto, SessionInv,
       SessionTypes, Leaving!ConnPcs, Leaving!States
  <2>2. SourcesInv'
    BY <1>19, ConnsAssumption DEF Leaving!JoinUnsent, Leaving!Goto, SessionInv,
       SessionTypes, SourcesInv, Unborn
  <2>3. BirthInv'
    BY <1>19, ConnsAssumption DEF Leaving!JoinUnsent, Leaving!Goto, SessionInv,
       SessionTypes, BirthInv, Entered, Unborn
  <2>4. RemovalInv'
    BY <1>19, ConnsAssumption DEF Leaving!JoinUnsent, Leaving!Goto, SessionInv,
       SessionTypes, RemovalInv, BirthInv, Entered
  <2>5. NewsInv'
    BY <1>19, ConnsAssumption DEF Leaving!JoinUnsent, Leaving!Goto, SessionInv,
       SessionTypes, NewsInv, Handled, RemovalInv
  <2> QED BY <2>1, <2>2, <2>3, <2>4, <2>5 DEF SessionInv
<1>20. ASSUME NEW k \in Conns, Leaving!AlreadyJoined(k) PROVE SessionInv'
  <2>1. SessionTypes'
    BY <1>20, ConnsAssumption DEF Leaving!AlreadyJoined, Leaving!Goto, SessionInv,
       SessionTypes, Leaving!ConnPcs, Leaving!States
  <2>2. SourcesInv'
    BY <1>20, ConnsAssumption DEF Leaving!AlreadyJoined, Leaving!Goto, SessionInv,
       SessionTypes, SourcesInv, Unborn
  <2>3. BirthInv'
    BY <1>20, ConnsAssumption DEF Leaving!AlreadyJoined, Leaving!Goto, SessionInv,
       SessionTypes, BirthInv, Entered, Unborn
  <2>4. RemovalInv'
    BY <1>20, ConnsAssumption DEF Leaving!AlreadyJoined, Leaving!Goto, SessionInv,
       SessionTypes, RemovalInv, BirthInv, Entered
  <2>5. NewsInv'
    BY <1>20, ConnsAssumption DEF Leaving!AlreadyJoined, Leaving!Goto, SessionInv,
       SessionTypes, NewsInv, Handled, RemovalInv
  <2> QED BY <2>1, <2>2, <2>3, <2>4, <2>5 DEF SessionInv
<1>21. ASSUME NEW k \in Conns, Leaving!JoinFailed(k) PROVE SessionInv'
  <2>1. SessionTypes'
    BY <1>21, ConnsAssumption DEF Leaving!JoinFailed, Leaving!End, Leaving!StartClose,
       Leaving!IsClosed, SessionInv, SessionTypes, Leaving!ConnPcs, Leaving!States
  <2>2. SourcesInv'
    BY <1>21, ConnsAssumption DEF Leaving!JoinFailed, Leaving!End, Leaving!StartClose,
       Leaving!IsClosed, SessionInv, SessionTypes, SourcesInv, Unborn
  <2>3. BirthInv'
    BY <1>21, ConnsAssumption DEF Leaving!JoinFailed, Leaving!End, Leaving!StartClose,
       Leaving!IsClosed, SessionInv, SessionTypes, BirthInv, Entered, Unborn
  <2>4. RemovalInv'
    BY <1>21, ConnsAssumption DEF Leaving!JoinFailed, Leaving!End, Leaving!StartClose,
       Leaving!IsClosed, SessionInv, SessionTypes, RemovalInv, BirthInv, Entered
  <2>5. NewsInv'
    BY <1>21, ConnsAssumption DEF Leaving!JoinFailed, Leaving!End, Leaving!StartClose,
       Leaving!IsClosed, SessionInv, SessionTypes, NewsInv, Handled, RemovalInv
  <2> QED BY <2>1, <2>2, <2>3, <2>4, <2>5 DEF SessionInv
<1>22. ASSUME NEW k \in Conns, Leaving!AddOnCloseReads(k) PROVE SessionInv'
  <2>1. SessionTypes'
    BY <1>22, ConnsAssumption DEF Leaving!AddOnCloseReads, Leaving!IsClosed,
       Leaving!RunFarewell, SessionInv, SessionTypes, Leaving!ConnPcs, Leaving!States
  <2>2. SourcesInv'
    BY <1>22, ConnsAssumption DEF Leaving!AddOnCloseReads, Leaving!IsClosed,
       Leaving!RunFarewell, SessionInv, SessionTypes, SourcesInv, Unborn
  <2>3. BirthInv'
    BY <1>22, ConnsAssumption DEF Leaving!AddOnCloseReads, Leaving!IsClosed,
       Leaving!RunFarewell, SessionInv, SessionTypes, BirthInv, Entered, Unborn
  <2>4. RemovalInv'
    BY <1>22, ConnsAssumption DEF Leaving!AddOnCloseReads, Leaving!IsClosed,
       Leaving!RunFarewell, SessionInv, SessionTypes, RemovalInv, BirthInv, Entered
  <2>5. NewsInv'
    BY <1>22, ConnsAssumption DEF Leaving!AddOnCloseReads, Leaving!IsClosed,
       Leaving!RunFarewell, SessionInv, SessionTypes, NewsInv, Handled, RemovalInv
  <2> QED BY <2>1, <2>2, <2>3, <2>4, <2>5 DEF SessionInv
<1>23. ASSUME NEW k \in Conns, Leaving!AddOnCloseSets(k) PROVE SessionInv'
  <2>1. SessionTypes'
    BY <1>23, ConnsAssumption DEF Leaving!AddOnCloseSets, Leaving!Goto, SessionInv,
       SessionTypes, Leaving!ConnPcs, Leaving!States
  <2>2. SourcesInv'
    BY <1>23, ConnsAssumption DEF Leaving!AddOnCloseSets, Leaving!Goto, SessionInv,
       SessionTypes, SourcesInv, Unborn
  <2>3. BirthInv'
    BY <1>23, ConnsAssumption DEF Leaving!AddOnCloseSets, Leaving!Goto, SessionInv,
       SessionTypes, BirthInv, Entered, Unborn
  <2>4. RemovalInv'
    BY <1>23, ConnsAssumption DEF Leaving!AddOnCloseSets, Leaving!Goto, SessionInv,
       SessionTypes, RemovalInv, BirthInv, Entered
  <2>5. NewsInv'
    BY <1>23, ConnsAssumption DEF Leaving!AddOnCloseSets, Leaving!Goto, SessionInv,
       SessionTypes, NewsInv, Handled, RemovalInv
  <2> QED BY <2>1, <2>2, <2>3, <2>4, <2>5 DEF SessionInv
<1>24. ASSUME NEW k \in Conns, Leaving!WorkerSeesDisconnect(k) PROVE SessionInv'
  <2>1. SessionTypes'
    BY <1>24, ConnsAssumption DEF Leaving!WorkerSeesDisconnect, Leaving!End,
       Leaving!IsDisconnected, SessionInv, SessionTypes, Leaving!ConnPcs, Leaving!States
  <2>2. SourcesInv'
    BY <1>24, ConnsAssumption DEF Leaving!WorkerSeesDisconnect, Leaving!End,
       Leaving!IsDisconnected, SessionInv, SessionTypes, SourcesInv, Unborn
  <2>3. BirthInv'
    BY <1>24, ConnsAssumption DEF Leaving!WorkerSeesDisconnect, Leaving!End,
       Leaving!IsDisconnected, SessionInv, SessionTypes, BirthInv, Entered, Unborn
  <2>4. RemovalInv'
    BY <1>24, ConnsAssumption DEF Leaving!WorkerSeesDisconnect, Leaving!End,
       Leaving!IsDisconnected, SessionInv, SessionTypes, RemovalInv, BirthInv, Entered
  <2>5. NewsInv'
    BY <1>24, ConnsAssumption DEF Leaving!WorkerSeesDisconnect, Leaving!End,
       Leaving!IsDisconnected, SessionInv, SessionTypes, NewsInv, Handled, RemovalInv
  <2> QED BY <2>1, <2>2, <2>3, <2>4, <2>5 DEF SessionInv
<1>25. ASSUME NEW k \in Conns, Leaving!WorkerSeesEnd(k) PROVE SessionInv'
  <2>1. SessionTypes'
    BY ZenonT(60), <1>25, ConnsAssumption DEF Leaving!WorkerSeesEnd, Leaving!Goto, Leaving!End,
       SessionInv, SessionTypes, Leaving!ConnPcs, Leaving!States
  <2>2. SourcesInv'
    BY <1>25, ConnsAssumption DEF Leaving!WorkerSeesEnd, Leaving!Goto, Leaving!End,
       SessionInv, SessionTypes, SourcesInv, Unborn
  <2>3. BirthInv'
    BY <1>25, ConnsAssumption DEF Leaving!WorkerSeesEnd, Leaving!Goto, Leaving!End,
       SessionInv, SessionTypes, BirthInv, Entered, Unborn
  <2>4. RemovalInv'
    BY <1>25, ConnsAssumption DEF Leaving!WorkerSeesEnd, Leaving!Goto, Leaving!End,
       SessionInv, SessionTypes, RemovalInv, BirthInv, Entered
  <2>5. NewsInv'
    BY <1>25, ConnsAssumption DEF Leaving!WorkerSeesEnd, Leaving!Goto, Leaving!End,
       SessionInv, SessionTypes, NewsInv, Handled, RemovalInv
  <2> QED BY <2>1, <2>2, <2>3, <2>4, <2>5 DEF SessionInv
<1>26. ASSUME NEW k \in Conns, Leaving!SignalSourceClose(k) PROVE SessionInv'
  <2>1. SessionTypes'
    BY <1>26, ConnsAssumption DEF Leaving!SignalSourceClose, Leaving!End,
       Leaving!StartClose, Leaving!HasConnected, Leaving!IsClosed, SessionInv,
       SessionTypes, Leaving!ConnPcs, Leaving!States, SourcesInv
  <2>2. SourcesInv'
    BY <1>26, ConnsAssumption DEF Leaving!SignalSourceClose, Leaving!End,
       Leaving!StartClose, Leaving!HasConnected, Leaving!IsClosed, SessionInv,
       SessionTypes, Unborn, SourcesInv
  <2>3. BirthInv'
    BY <1>26, ConnsAssumption DEF Leaving!SignalSourceClose, Leaving!End,
       Leaving!StartClose, Leaving!HasConnected, Leaving!IsClosed, SessionInv,
       SessionTypes, BirthInv, SourcesInv, Entered, Unborn
  <2>4. RemovalInv'
    BY <1>26, ConnsAssumption DEF Leaving!SignalSourceClose, Leaving!End,
       Leaving!StartClose, Leaving!HasConnected, Leaving!IsClosed, SessionInv,
       SessionTypes, RemovalInv, SourcesInv, BirthInv, Entered
  <2>5. NewsInv'
    BY <1>26, ConnsAssumption DEF Leaving!SignalSourceClose, Leaving!End,
       Leaving!StartClose, Leaving!HasConnected, Leaving!IsClosed, SessionInv,
       SessionTypes, NewsInv, SourcesInv, Handled, RemovalInv
  <2> QED BY <2>1, <2>2, <2>3, <2>4, <2>5 DEF SessionInv
<1>27. ASSUME NEW k \in Conns, Leaving!ClientLeaves(k) PROVE SessionInv'
  <2>1. SessionTypes'
    BY <1>27, ConnsAssumption DEF Leaving!ClientLeaves, Leaving!StartRemove, SessionInv,
       SessionTypes, Leaving!ConnPcs, Leaving!States
  <2>2. SourcesInv'
    BY <1>27, ConnsAssumption DEF Leaving!ClientLeaves, Leaving!StartRemove, SessionInv,
       SessionTypes, SourcesInv, Unborn
  <2>3. BirthInv'
    BY <1>27, ConnsAssumption DEF Leaving!ClientLeaves, Leaving!StartRemove, SessionInv,
       SessionTypes, BirthInv, Entered, Unborn
  <2>4. RemovalInv'
    BY <1>27, ConnsAssumption DEF Leaving!ClientLeaves, Leaving!StartRemove, SessionInv,
       SessionTypes, RemovalInv, BirthInv, Entered
  <2>5. NewsInv'
    BY <1>27, ConnsAssumption DEF Leaving!ClientLeaves, Leaving!StartRemove, SessionInv,
       SessionTypes, NewsInv, Handled, RemovalInv
  <2> QED BY <2>1, <2>2, <2>3, <2>4, <2>5 DEF SessionInv
<1>28. ASSUME NEW k \in Conns, Leaving!ClientDrops(k) PROVE SessionInv'
  <2>1. SessionTypes'
    BY <1>28, ConnsAssumption DEF Leaving!ClientDrops, SessionInv, SessionTypes,
       Leaving!ConnPcs, Leaving!States
  <2>2. SourcesInv'
    BY <1>28, ConnsAssumption DEF Leaving!ClientDrops, SessionInv, SessionTypes,
       SourcesInv, Unborn
  <2>3. BirthInv'
    BY <1>28, ConnsAssumption DEF Leaving!ClientDrops, SessionInv, SessionTypes,
       BirthInv, Entered, Unborn
  <2>4. RemovalInv'
    BY <1>28, ConnsAssumption DEF Leaving!ClientDrops, SessionInv, SessionTypes,
       RemovalInv, BirthInv, Entered
  <2>5. NewsInv'
    BY <1>28, ConnsAssumption DEF Leaving!ClientDrops, SessionInv, SessionTypes,
       NewsInv, Handled, RemovalInv
  <2> QED BY <2>1, <2>2, <2>3, <2>4, <2>5 DEF SessionInv
<1>29. ASSUME NEW k \in Conns, Leaving!Connects(k) PROVE SessionInv'
  <2>1. SessionTypes'
    BY <1>29, ConnsAssumption, RankOfStates DEF Leaving!Connects, Leaving!updateState,
       SessionInv, SessionTypes, Leaving!ConnPcs, Leaving!States
  <2>2. SourcesInv'
    BY <1>29, ConnsAssumption, RankOfStates DEF Leaving!Connects, Leaving!updateState,
       SessionInv, SessionTypes, SourcesInv, Unborn
  <2>3. BirthInv'
    BY <1>29, ConnsAssumption, RankOfStates DEF Leaving!Connects, Leaving!updateState,
       SessionInv, SessionTypes, BirthInv, Entered, Unborn
  <2>4. RemovalInv'
    BY <1>29, ConnsAssumption, RankOfStates DEF Leaving!Connects, Leaving!updateState,
       SessionInv, SessionTypes, RemovalInv, BirthInv, Entered
  <2>5. NewsInv'
    BY <1>29, ConnsAssumption, RankOfStates DEF Leaving!Connects, Leaving!updateState,
       SessionInv, SessionTypes, NewsInv, Handled, RemovalInv
  <2> QED BY <2>1, <2>2, <2>3, <2>4, <2>5 DEF SessionInv
<1>30. ASSUME NEW k \in Conns, Leaving!ServerCloses(k) PROVE SessionInv'
  <2>1. SessionTypes'
    BY <1>30, ConnsAssumption DEF Leaving!ServerCloses, Leaving!HasConnected,
       Leaving!IsClosed, Leaving!IsDisconnected, Leaving!StartClose, SessionInv,
       SessionTypes, Leaving!ConnPcs, Leaving!States
  <2>2. SourcesInv'
    BY <1>30, ConnsAssumption DEF Leaving!ServerCloses, Leaving!HasConnected,
       Leaving!IsClosed, Leaving!IsDisconnected, Leaving!StartClose, SessionInv,
       SessionTypes, SourcesInv, Unborn
  <2>3. BirthInv'
    BY <1>30, ConnsAssumption DEF Leaving!ServerCloses, Leaving!HasConnected,
       Leaving!IsClosed, Leaving!IsDisconnected, Leaving!StartClose, SessionInv,
       SessionTypes, BirthInv, Entered, Unborn
  <2>4. RemovalInv'
    BY <1>30, ConnsAssumption DEF Leaving!ServerCloses, Leaving!HasConnected,
       Leaving!IsClosed, Leaving!IsDisconnected, Leaving!StartClose, SessionInv,
       SessionTypes, RemovalInv, BirthInv, Entered
  <2>5. NewsInv'
    BY <1>30, ConnsAssumption DEF Leaving!ServerCloses, Leaving!HasConnected,
       Leaving!IsClosed, Leaving!IsDisconnected, Leaving!StartClose, SessionInv,
       SessionTypes, NewsInv, Handled, RemovalInv
  <2> QED BY <2>1, <2>2, <2>3, <2>4, <2>5 DEF SessionInv
<1>31. ASSUME Leaving!ServiceRemoves PROVE SessionInv'
  <2>1. SessionTypes'
    BY <1>31, ConnsAssumption DEF Leaving!ServiceRemoves, Leaving!StartRemove, SessionInv,
       SessionTypes
  <2>2. SourcesInv'
    BY <1>31, ConnsAssumption DEF Leaving!ServiceRemoves, Leaving!StartRemove, SessionInv,
       SessionTypes, SourcesInv, Unborn
  <2>3. BirthInv'
    BY <1>31, ConnsAssumption DEF Leaving!ServiceRemoves, Leaving!StartRemove, SessionInv,
       SessionTypes, BirthInv, Entered, Unborn
  <2>4. RemovalInv'
    BY <1>31, ConnsAssumption DEF Leaving!ServiceRemoves, Leaving!StartRemove, SessionInv,
       SessionTypes, RemovalInv, BirthInv, Entered
  <2>5. NewsInv'
    BY <1>31, ConnsAssumption DEF Leaving!ServiceRemoves, Leaving!StartRemove, SessionInv,
       SessionTypes, NewsInv, Handled, RemovalInv
  <2> QED BY <2>1, <2>2, <2>3, <2>4, <2>5 DEF SessionInv
<1> QED BY <1>1, <1>2, <1>3, <1>4, <1>5, <1>6, <1>7, <1>8, <1>9, <1>10, <1>11, <1>12,
   <1>13, <1>14, <1>15, <1>16, <1>17, <1>18, <1>19, <1>20, <1>21, <1>22, <1>23,
   <1>24, <1>25, <1>26, <1>27, <1>28, <1>29, <1>30, <1>31 DEF Leaving!Next,
   Leaving!CloseSteps, Leaving!RemoveSteps, Leaving!NoteSteps,
   Leaving!StartSession, Leaving!SessionSteps, Leaving!WorkerSteps

LEMMA SessionStutters ==
  ASSUME SessionInv, UNCHANGED participantVars
  PROVE  SessionInv'
  BY DEF SessionInv, SessionTypes, SourcesInv, BirthInv, RemovalInv, NewsInv, Entered, Handled,
     Unborn, participantVars

LEMMA SessionInit == Closing!Init => SessionInv
  BY ConnsAssumption DEF Closing!Init, SessionInv, SessionTypes, SourcesInv, BirthInv,
     RemovalInv, NewsInv, Entered, Handled, Unborn, Leaving!ConnPcs, Leaving!States

LEMMA SessionAnnounces == SessionInv => Leaving!DepartureIsAnnounced
<1> SUFFICES ASSUME SessionInv, Leaving!Settled, parts = None,
                    NEW p \in Conns, told[p] = "present"
             PROVE  \E q \in Conns : Leaving!Newer(q, p) /\ told[q] = "gone"
  BY DEF Leaving!DepartureIsAnnounced
<1>1. removing[p] = "done"
  BY ConnsAssumption DEF SessionInv, BirthInv, Entered, Leaving!Settled
<1>2. PICK q \in Conns : born[q] > born[p] /\ Handled(q)
  BY <1>1 DEF SessionInv, NewsInv
<1>3. told[q] = "gone"
  BY <1>2, ConnsAssumption DEF Handled, Leaving!Settled
<1> QED BY <1>2, <1>3 DEF Leaving!Newer

(* When all sessions of an identity that leave, are removed, replaced or    *)
(* resumed have settled and none is in the room, the newest one that others *)
(* were told of is one they were told is gone, for any number of            *)
(* connections (RemoveParticipant, broadcastParticipantState).              *)
THEOREM DeparturesAreAnnounced == PartsSpec => []DepartureIsAnnounced
<1> DEFINE Inv == part = "leaving" => SessionInv
<1>1. PartsInit => Inv
  BY SessionInit DEF PartsInit
<1>2. Inv /\ [RegistryStep \/ SessionStep \/ BroadcastStep \/ CacheStep]_allVars => Inv'
  <2> SUFFICES ASSUME Inv, part' = "leaving",
                      [RegistryStep \/ SessionStep \/ BroadcastStep \/ CacheStep]_allVars
               PROVE  SessionInv'
    OBVIOUS
  <2>1. part = "leaving"
    BY DEF RegistryStep, SessionStep, BroadcastStep, CacheStep, allVars
  <2>2. CASE SessionStep
    BY <2>1, <2>2, SessionNext DEF SessionStep
  <2>3. CASE ~SessionStep
    BY <2>1, <2>3, SessionStutters DEF RegistryStep, BroadcastStep, CacheStep, allVars
  <2> QED BY <2>2, <2>3
<1>3. Inv => DepartureIsAnnounced
  BY SessionAnnounces DEF DepartureIsAnnounced
<1> QED BY <1>1, <1>2, <1>3, PTL DEF PartsSpec
-----------------------------------------------------------------------------
(* A session is disconnected by its Close only.                             *)
ClosedInv ==
  /\ state \in [Conns -> Closing!States]
  /\ closing \in [Conns -> {"no", "update", "callbacks", "done"}]
  /\ \A p \in Conns : state[p] = "DISCONNECTED" => closing[p] # "no"

LEMMA ClosedNext ==
  ASSUME ClosedInv, Closing!Next
  PROVE  ClosedInv'
<1> USE DEF Closing!connVars, Closing!partVars, Closing!removeVars, ClosedInv, Closing!States
<1>1. ASSUME NEW k \in Conns, Closing!CloseUpdates(k) PROVE ClosedInv'
  BY <1>1 DEF Closing!CloseUpdates, Closing!updateState
<1>2. ASSUME NEW k \in Conns, Closing!CloseCallsBack(k) PROVE ClosedInv'
  BY <1>2 DEF Closing!CloseCallsBack, Closing!RunFarewell
<1>3. ASSUME NEW k \in Conns, Closing!RemoveChecks(k) PROVE ClosedInv'
  BY <1>3 DEF Closing!RemoveChecks
<1>4. ASSUME NEW k \in Conns, Closing!RemoveClearsListener(k) PROVE ClosedInv'
  BY <1>4 DEF Closing!RemoveClearsListener
<1>5. ASSUME NEW k \in Conns, Closing!RemoveCloses(k) PROVE ClosedInv'
  BY <1>5 DEF Closing!RemoveCloses, Closing!StartClose, Closing!IsClosed
<1>6. ASSUME NEW k \in Conns, Closing!RemoveTells(k) PROVE ClosedInv'
  BY <1>6 DEF Closing!RemoveTells
<1>7. ASSUME NEW k \in Conns, Closing!NoteTells(k) PROVE ClosedInv'
  BY <1>7 DEF Closing!NoteTells
<1>8. ASSUME NEW k \in Conns, Closing!NoteActs(k) PROVE ClosedInv'
  BY <1>8 DEF Closing!NoteActs
<1>9. ASSUME NEW k \in Conns, Closing!JoinTimeout(k) PROVE ClosedInv'
  BY <1>9 DEF Closing!JoinTimeout
<1>10. ASSUME NEW k \in Conns, Closing!ResumeRefused(k) PROVE ClosedInv'
  BY <1>10 DEF Closing!ResumeRefused
<1>11. ASSUME NEW k \in Conns, Closing!ResumeFound(k) PROVE ClosedInv'
  BY <1>11 DEF Closing!ResumeFound
<1>12. ASSUME NEW k \in Conns, Closing!FindDuplicate(k) PROVE ClosedInv'
  BY <1>12 DEF Closing!FindDuplicate
<1>13. ASSUME NEW k \in Conns, Closing!JoinAlone(k) PROVE ClosedInv'
  BY <1>13 DEF Closing!JoinAlone
<1>14. ASSUME NEW k \in Conns, Closing!Resume(k) PROVE ClosedInv'
  BY <1>14 DEF Closing!Resume
<1>15. ASSUME NEW k \in Conns, Closing!EvictDuplicate(k) PROVE ClosedInv'
  BY <1>15 DEF Closing!EvictDuplicate
<1>16. ASSUME NEW k \in Conns, Closing!Evicted(k) PROVE ClosedInv'
  BY <1>16 DEF Closing!Evicted
<1>17. ASSUME NEW k \in Conns, Closing!Create(k) PROVE ClosedInv'
  BY <1>17 DEF Closing!Create, Closing!Goto
<1>18. ASSUME NEW k \in Conns, Closing!Join(k) PROVE ClosedInv'
  BY <1>18 DEF Closing!Join, Closing!Goto, Closing!updateState
<1>19. ASSUME NEW k \in Conns, Closing!JoinUnsent(k) PROVE ClosedInv'
  BY <1>19 DEF Closing!JoinUnsent
<1>20. ASSUME NEW k \in Conns, Closing!AlreadyJoined(k) PROVE ClosedInv'
  BY <1>20 DEF Closing!AlreadyJoined
<1>21. ASSUME NEW k \in Conns, Closing!JoinFailed(k) PROVE ClosedInv'
  BY <1>21 DEF Closing!JoinFailed, Closing!End, Closing!StartClose, Closing!IsClosed
<1>22. ASSUME NEW k \in Conns, Closing!AddOnCloseReads(k) PROVE ClosedInv'
  BY <1>22 DEF Closing!AddOnCloseReads
<1>23. ASSUME NEW k \in Conns, Closing!AddOnCloseSets(k) PROVE ClosedInv'
  BY <1>23 DEF Closing!AddOnCloseSets
<1>24. ASSUME NEW k \in Conns, Closing!WorkerSeesDisconnect(k) PROVE ClosedInv'
  BY <1>24 DEF Closing!WorkerSeesDisconnect
<1>25. ASSUME NEW k \in Conns, Closing!WorkerSeesEnd(k) PROVE ClosedInv'
  BY <1>25 DEF Closing!WorkerSeesEnd
<1>26. ASSUME NEW k \in Conns, Closing!SignalSourceClose(k) PROVE ClosedInv'
  BY <1>26 DEF Closing!SignalSourceClose, Closing!End, Closing!StartClose,
     Closing!HasConnected, Closing!IsClosed
<1>27. ASSUME NEW k \in Conns, Closing!ClientLeaves(k) PROVE ClosedInv'
  BY <1>27 DEF Closing!ClientLeaves
<1>28. ASSUME NEW k \in Conns, Closing!ClientDrops(k) PROVE ClosedInv'
  BY <1>28 DEF Closing!ClientDrops
<1>29. ASSUME NEW k \in Conns, Closing!Connects(k) PROVE ClosedInv'
  BY <1>29 DEF Closing!Connects, Closing!updateState
<1>30. ASSUME NEW k \in Conns, Closing!ServerCloses(k) PROVE ClosedInv'
  BY <1>30 DEF Closing!ServerCloses, Closing!HasConnected, Closing!IsClosed,
     Closing!IsDisconnected, Closing!StartClose
<1>31. ASSUME Closing!ServiceRemoves PROVE ClosedInv'
  BY <1>31 DEF Closing!ServiceRemoves
<1> QED BY <1>1, <1>2, <1>3, <1>4, <1>5, <1>6, <1>7, <1>8, <1>9, <1>10, <1>11, <1>12,
   <1>13, <1>14, <1>15, <1>16, <1>17, <1>18, <1>19, <1>20, <1>21, <1>22, <1>23,
   <1>24, <1>25, <1>26, <1>27, <1>28, <1>29, <1>30, <1>31 DEF Closing!Next,
   Closing!CloseSteps, Closing!RemoveSteps, Closing!NoteSteps,
   Closing!StartSession, Closing!SessionSteps, Closing!WorkerSteps

(* The goroutine of onStateChange takes the session it cleans up after out  *)
(* of the room, and no other, whatever sessions come and go meanwhile       *)
(* (RemoveParticipant).                                                     *)
THEOREM CleanUpTakesItsOwn == PartsSpec => CleansUpItsOwn
<1> DEFINE Steps == RegistryStep \/ SessionStep \/ BroadcastStep \/ CacheStep
           Inv == (part = "leaving" => SessionInv) /\ ClosedInv
           Own == \A p \in Conns : parts = p /\ parts' # p
                                      /\ (\E q \in Conns : Closing!NoteActs(q))
                                    => Closing!IsClosed(p)
<1>1. PartsInit => Inv
  BY SessionInit DEF PartsInit, Closing!Init, ClosedInv, Closing!States
<1>2. Inv /\ [Steps]_allVars => Inv'
  <2> SUFFICES ASSUME Inv, [Steps]_allVars PROVE Inv'
    OBVIOUS
  <2>1. CASE part = "leaving"
    <3>1. SessionInv' /\ part' = part
      <4>1. CASE SessionStep
        BY <2>1, <4>1, SessionNext DEF SessionStep
      <4>2. CASE ~SessionStep
        BY <2>1, <4>2, SessionStutters DEF RegistryStep, BroadcastStep, CacheStep, allVars
      <4> QED BY <4>1, <4>2
    <3>2. SessionInv => ClosedInv
      BY DEF SessionInv, SessionTypes, RemovalInv, ClosedInv, Closing!States, Leaving!States
    <3>3. SessionInv' => ClosedInv'
      BY DEF SessionInv, SessionTypes, RemovalInv, ClosedInv, Closing!States, Leaving!States
    <3> QED BY <3>1, <3>3
  <2>2. CASE part # "leaving"
    <3>1. ClosedInv'
      <4>1. CASE SessionStep
        BY <2>2, <4>1, ClosedNext DEF SessionStep
      <4>2. CASE ~SessionStep
        BY <4>2 DEF RegistryStep, BroadcastStep, CacheStep, allVars, participantVars, ClosedInv
      <4> QED BY <4>1, <4>2
    <3>2. part' = part
      BY DEF RegistryStep, SessionStep, BroadcastStep, CacheStep, allVars
    <3> QED BY <2>2, <3>1, <3>2
  <2> QED BY <2>1, <2>2
<1>3. Inv => Own
  <2> SUFFICES ASSUME ClosedInv, NEW p \in Conns, parts = p, parts' # p,
                      NEW q \in Conns, Closing!NoteActs(q)
               PROVE  Closing!IsClosed(p)
    OBVIOUS
  <2>1. state[q] = "DISCONNECTED" /\ parts = q
    BY DEF Closing!NoteActs, Closing!StartRemove, Closing!IsDisconnected
  <2> QED BY <2>1 DEF ClosedInv, Closing!IsClosed
<1> QED BY <1>1, <1>2, <1>3, PTL DEF PartsSpec, CleansUpItsOwn, Closing!CleansUpItsOwn

=============================================================================
