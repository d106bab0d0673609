---------------------------- MODULE AgentProofs ----------------------------
(***************************************************************************)
(* Proofs about the agents of MCNode: a dispatch, its jobs and the workers *)
(* they run on, for any workers, jobs and scenarios.                       *)
(***************************************************************************)
EXTENDS MCNode, Sequences, TLAPS

AgPcs == {"none", "launching", "finding", "selecting", "asking", "assigned", "mapping",
          "answering", "launched", "done"}
AgLaunch == [pc : AgPcs, gen : Nat, worker : AgWorkers \cup {"nobody"}, tried : SUBSET AgWorkers,
             answer : {"none", "available", "not available", "terminate"}]
AgWhys == {"unheard", "afterwards", "ended", "hasty", "early"}
AgDelPcs == {"none", "collect", "wait", "terminate", "remove", "done"}

AgTypes ==
  /\ agConn \subseteq AgWorkers /\ agReg \subseteq AgWorkers
  /\ agRunning \in [AgWorkers -> SUBSET AgJobs]
  /\ agJobTo \in [AgJobs -> AgWorkers \cup {"nobody"}]
  /\ agJob \in [AgJobs -> AgLaunch]
  /\ agDispJobs \subseteq AgJobs /\ agMember \subseteq AgJobs
  /\ agAgent \in [AgJobs -> {"none", "told", "in", "out"}]
  /\ agTerm \subseteq AgJobs /\ agUpd \subseteq AgJobs /\ agLeft \subseteq AgJobs
  /\ agDel \in [pc : AgDelPcs, wait : SUBSET AgJobs, todo : SUBSET AgJobs]
  /\ agExcused \in [AgJobs -> SUBSET AgWhys]
  /\ agUsed \in [lost : Nat, drops : Nat]
  /\ agDisp \in {"none", "created", "deleted"} /\ agAdding \in BOOLEAN

(* The client's cache.                                                      *)
AgCache ==
  /\ agAns \in Seq({"asking", "yes", "no"}) /\ agSnap \in Seq({"none", "yes", "no"})
  /\ Len(agSnap) = Len(agAns) /\ agCur \in 0 .. Len(agAns)
  /\ Jobs!CacheIsTrue

(* A worker that was asked for a job has not gone, unless one was dropped:  *)
(* so one that registers has never been asked.                              *)
AgAskedStay ==
  agUsed.drops = 0 => \A j \in AgJobs : agJob[j].worker # "nobody" => agJob[j].worker \in agReg

(* An agent is there once the job is assigned, and not before.              *)
AgAssigned ==
  \A j \in AgJobs :
    /\ agAgent[j] # "none" => /\ agJob[j].worker \in AgWorkers
                              /\ agJob[j].pc \in {"assigned", "mapping", "answering", "launched", "done"}
    /\ agJob[j].pc \in {"assigned", "mapping"} => agAgent[j] # "none"
    /\ agJob[j].pc = "asking" => agJob[j].worker \in AgWorkers

(* Who is recorded with a job has it; and is recorded while the job runs.   *)
AgRecorded ==
  \A j \in AgJobs :
    /\ \A w \in AgWorkers : j \in agRunning[w] =>
         /\ agJob[j].worker = w /\ agAgent[j] # "none" /\ agJob[j].pc # "assigned"
         /\ w \in agReg /\ agJob[j].pc # "mapping" /\ "hasty" \notin agExcused[j] => agJobTo[j] = w
    /\ agJobTo[j] # "nobody" => agJobTo[j] = agJob[j].worker /\ agAgent[j] # "none"

(* A job that its worker says has ended does not run, unless it was said    *)
(* before the job was recorded.                                             *)
AgEnded ==
  \A j \in AgJobs :
    /\ j \in agUpd => "ended" \in agExcused[j]
    /\ "hasty" \in agExcused[j] => "ended" \in agExcused[j]
    /\ "ended" \in agExcused[j] => agAgent[j] = "out"
    /\ "ended" \in agExcused[j] /\ "hasty" \notin agExcused[j] =>
         agJob[j].pc # "assigned" /\ \A w \in AgWorkers : j \notin agRunning[w]

(* What the room knows of is launched; what was launched the room knows of. *)
AgHeard ==
  \A j \in AgJobs :
    /\ j \in agDispJobs \cup agMember => agJob[j].pc \in {"launched", "done"}
    /\ agAgent[j] # "none" /\ agJob[j].pc \in {"launched", "done"} =>
         j \in agDispJobs \/ "unheard" \in agExcused[j]

(* The job of an agent that has left is over, or about to be terminated.    *)
AgOut ==
  \A j \in AgJobs :
    /\ j \in agLeft => agAgent[j] = "out" /\ agJob[j].pc \in {"launched", "done"}
    /\ agAgent[j] = "out" /\ agExcused[j] \cap {"early", "unheard", "hasty"} = {} =>
         /\ agJob[j].pc \in {"launched", "done"}
         /\ j \in agLeft \/ \A w \in agReg : j \notin agRunning[w]

(* The job of an agent that is there runs, until the deletion has been at it. *)
AgRuns ==
  \A j \in AgJobs :
    agAgent[j] \in {"told", "in"} /\ agJob[j].pc # "assigned" /\ agJob[j].worker \in agReg =>
      \/ j \in agRunning[agJob[j].worker]
      \/ agDel.pc \in {"terminate", "remove", "done"} /\ j \in agDispJobs \ agDel.todo

(* A launch begins while the dispatch is there, or is excused.              *)
AgLaunches ==
  /\ agDisp = "none" => ~agAdding /\ agJob[1].pc = "none"
  /\ agAdding => agJob[1].pc = "none"
  /\ agDel.pc # "none" => agDisp = "deleted"
  /\ agDel.pc = "none" => agDisp # "deleted"

(* The deletion has waited for the launches; what it has dealt with is      *)
(* over, up to the agent it is about to remove.                             *)
OutOfReach(j) == agJob[j].worker \notin agConn \cap agReg
AgDeletes ==
  /\ agDel.todo \subseteq agDispJobs
  /\ agDel.pc = "done" => agDel.todo = {}
  /\ agDel.pc = "wait" =>
       \A j \in AgJobs : agJob[j].pc \notin {"none", "done"} /\ "afterwards" \notin agExcused[j] => j \in agDel.wait
  /\ agDel.pc = "remove" =>
       \E j \in AgJobs : /\ agDel.wait = {j} /\ agJob[j].pc \in {"launched", "done"}
                         /\ \A w \in AgWorkers : j \notin agRunning[w]
  /\ agDel.pc \in {"terminate", "remove", "done"} =>
       \A j \in AgJobs : "afterwards" \notin agExcused[j] =>
         /\ agJob[j].pc \in {"none", "done"}
         /\ "unheard" \notin agExcused[j] /\ j \notin agDel.todo =>
              /\ (\A w \in agReg : j \notin agRunning[w]) \/ "hasty" \in agExcused[j]
              /\ agAgent[j] = "told" => j \in agTerm \/ OutOfReach(j)
              /\ agAgent[j] = "in" => (agDel.pc = "remove" /\ j \in agDel.wait) \/ OutOfReach(j)

AgCore ==
  /\ AgTypes /\ AgAskedStay /\ AgAssigned /\ AgRecorded /\ AgEnded /\ AgHeard /\ AgOut
  /\ AgRuns /\ AgLaunches /\ AgDeletes
AgInv == AgCore /\ AgCache

LEMMA AgCoreStays ==
  ASSUME AgCore,
         UNCHANGED <<agConn, agReg, agRunning, agJobTo, agJob, agDispJobs>>,
         UNCHANGED <<agMember, agAgent, agTerm, agUpd, agLeft, agDel>>,
         UNCHANGED <<agExcused, agUsed, agDisp, agAdding>>
  PROVE  AgCore'
<1>1. AgTypes' /\ AgAskedStay' /\ AgAssigned'
  BY DEF AgCore, AgTypes, AgAskedStay, AgAssigned
<1>2. AgRecorded' /\ AgEnded' /\ AgHeard'
  BY DEF AgCore, AgRecorded, AgEnded, AgHeard
<1>3. AgOut' /\ AgRuns' /\ AgLaunches'
  BY DEF AgCore, AgOut, AgRuns, AgLaunches
<1>4. AgDeletes'
  BY DEF AgCore, AgDeletes, OutOfReach
<1> QED BY <1>1, <1>2, <1>3, <1>4 DEF AgCore

(* The launch of a job moves.                                               *)
LEMMA AgJobMoves ==
  ASSUME agJob \in [AgJobs -> AgLaunch], NEW j \in AgJobs, NEW p \in AgPcs,
         agJob' = [agJob EXCEPT ![j].pc = p]
  PROVE  /\ agJob' \in [AgJobs -> AgLaunch]
         /\ agJob'[j].pc = p /\ agJob'[j].worker = agJob[j].worker /\ agJob'[j].answer = agJob[j].answer
         /\ \A i \in AgJobs : i # j => agJob'[i] = agJob[i]
BY DEF AgLaunch

(* Before a worker has the job nobody knows of it.                          *)
LEMMA AgEarlyMoves ==
  ASSUME AgCore, NEW j \in AgJobs,
         agJob[j].pc \in {"launching", "finding", "selecting", "asking"},
         agJob' \in [AgJobs -> AgLaunch], \A i \in AgJobs : i # j => agJob'[i] = agJob[i],
         agJob'[j].pc \in {"finding", "selecting", "asking", "answering", "launched"},
         agJob'[j].worker = agJob[j].worker \/ agJob'[j].worker \in agReg,
         agJob'[j].pc = "asking" => agJob'[j].worker \in AgWorkers,
         agUsed' \in [lost : Nat, drops : Nat], agUsed'.drops = agUsed.drops,
         UNCHANGED <<agConn, agReg, agRunning, agJobTo, agDispJobs, agMember, agAgent>>,
         UNCHANGED <<agTerm, agUpd, agLeft, agDel, agExcused, agDisp, agAdding>>
  PROVE  AgCore'
<1>1. /\ UNCHANGED <<agConn, agReg, agRunning, agJobTo, agDispJobs, agMember, agAgent>>
      /\ UNCHANGED <<agTerm, agUpd, agLeft, agDel, agExcused, agDisp, agAdding>>
  OBVIOUS
<1>2. /\ agAgent[j] = "none" /\ j \notin agDispJobs /\ j \notin agMember
      /\ agJobTo[j] = "nobody" /\ \A w \in AgWorkers : j \notin agRunning[w]
  BY DEF AgCore, AgTypes, AgAssigned, AgRecorded, AgHeard
<1>3. AgTypes'
  BY <1>1, <1>2 DEF AgCore, AgTypes
<1>4. AgAskedStay'
  BY <1>1, <1>2 DEF AgCore, AgTypes, AgAskedStay
<1>5. AgAssigned'
  BY <1>1, <1>2 DEF AgCore, AgTypes, AgAssigned
<1>6. AgRecorded'
  BY <1>1, <1>2 DEF AgCore, AgTypes, AgRecorded
<1>7. AgEnded'
  BY <1>1, <1>2 DEF AgCore, AgTypes, AgEnded
<1>8. AgHeard'
  BY <1>1, <1>2 DEF AgCore, AgTypes, AgHeard
<1>9. AgOut'
  BY <1>1, <1>2 DEF AgCore, AgTypes, AgOut
<1>10. AgRuns'
  BY <1>1, <1>2 DEF AgCore, AgTypes, AgRuns
<1>11. AgLaunches'
  BY <1>1, <1>2, AgentNames DEF AgCore, AgTypes, AgLaunches
<1>12. AgDeletes'
  BY <1>1, <1>2 DEF AgCore, AgTypes, AgDeletes, OutOfReach
<1> QED BY <1>3, <1>4, <1>5, <1>6, <1>7, <1>8, <1>9, <1>10, <1>11, <1>12 DEF AgCore

LEMMA AgRegisterKeeps ==
  ASSUME AgCore, NEW w \in AgWorkers, Jobs!RegisterWorker(w)
  PROVE  AgCore'
<1>1. /\ UNCHANGED <<agRunning, agJobTo, agJob, agDispJobs, agMember, agAgent, agTerm>>
      /\ UNCHANGED <<agUpd, agLeft, agDel, agExcused, agUsed, agDisp, agAdding>>
  BY DEF Jobs!RegisterWorker, Jobs!agHandler, Jobs!agClient, Jobs!agRoom, Jobs!agAgents
<1>2. /\ agConn' = agConn \cup {w} /\ agReg' = agReg \cup {w} /\ w \notin agReg
  BY DEF Jobs!RegisterWorker
<1>3. \A j \in AgJobs : agJob[j].worker # w
  <2>1. CASE agUsed.drops = 0
    BY <1>2, <2>1, AgentNames DEF AgCore, AgAskedStay
  <2>2. CASE w \notin UNION {{agJob[j].worker} \cup agJob[j].tried : j \in AgJobs}
    BY <2>2
  <2> QED BY <2>1, <2>2 DEF Jobs!RegisterWorker
  
<1>4. \A j \in AgJobs : j \notin agRunning[w]
  BY <1>3 DEF AgCore, AgRecorded
<1>5. AgTypes'
  BY <1>1, <1>2, <1>3, <1>4 DEF AgCore, AgTypes
<1>6. AgAskedStay'
  BY <1>1, <1>2, <1>3, <1>4 DEF AgCore, AgTypes, AgAskedStay
<1>7. AgAssigned'
  BY <1>1 DEF AgCore, AgAssigned
<1>8. AgRecorded'
  BY <1>1, <1>2, <1>3, <1>4 DEF AgCore, AgTypes, AgRecorded
<1>9. AgEnded'
  BY <1>1 DEF AgCore, AgEnded
<1>10. AgHeard'
  BY <1>1 DEF AgCore, AgHeard
<1>11. AgOut'
  BY <1>1, <1>2, <1>3, <1>4 DEF AgCore, AgTypes, AgOut
<1>12. AgRuns'
  BY <1>1, <1>2, <1>3, <1>4 DEF AgCore, AgTypes, AgRuns
<1>13. AgLaunches'
  BY <1>1 DEF AgCore, AgLaunches
<1>14. AgDeletes'
  BY <1>1, <1>2, <1>3, <1>4 DEF AgCore, AgTypes, AgDeletes, OutOfReach
<1> QED BY <1>5, <1>6, <1>7, <1>8, <1>9, <1>10, <1>11, <1>12, <1>13, <1>14 DEF AgCore

LEMMA AgDeregisterWorkerKeeps ==
  ASSUME AgCore, NEW w \in AgWorkers, Jobs!DeregisterWorker(w)
  PROVE  AgCore'
<1>1. /\ UNCHANGED <<agConn, agRunning, agJob, agDispJobs, agMember, agAgent, agTerm>>
      /\ UNCHANGED <<agUpd, agLeft, agDel, agExcused, agDisp, agAdding>>
  BY DEF Jobs!DeregisterWorker, Jobs!agHandler, Jobs!agClient, Jobs!agRoom, Jobs!agAgents
<1>2. /\ agReg' = agReg \ {w}
      /\ agJobTo' = [j \in AgJobs |-> IF j \in agRunning[w] THEN "nobody" ELSE agJobTo[j]]
      /\ agUsed' = [agUsed EXCEPT !.drops = @ + 1]
  BY DEF Jobs!DeregisterWorker, Jobs!NoWorker
<1>3. agUsed' \in [lost : Nat, drops : Nat] /\ agUsed'.drops # 0
  BY <1>2 DEF AgCore, AgTypes
<1>4. AgTypes'
  BY <1>1, <1>2, <1>3 DEF AgCore, AgTypes
<1>5. AgAskedStay'
  BY <1>1, <1>2, <1>3 DEF AgCore, AgTypes, AgAskedStay
<1>6. AgAssigned'
  BY <1>1 DEF AgCore, AgAssigned
<1>7. AgRecorded'
  BY <1>1, <1>2, <1>3 DEF AgCore, AgTypes, AgRecorded
<1>8. AgEnded'
  BY <1>1 DEF AgCore, AgEnded
<1>9. AgHeard'
  BY <1>1 DEF AgCore, AgHeard
<1>10. AgOut'
  BY <1>1, <1>2, <1>3 DEF AgCore, AgTypes, AgOut
<1>11. AgRuns'
  BY <1>1, <1>2, <1>3 DEF AgCore, AgTypes, AgRuns
<1>12. AgLaunches'
  BY <1>1 DEF AgCore, AgLaunches
<1>13. AgDeletes'
  BY <1>1, <1>2, <1>3 DEF AgCore, AgTypes, AgDeletes, OutOfReach
<1> QED BY <1>4, <1>5, <1>6, <1>7, <1>8, <1>9, <1>10, <1>11, <1>12, <1>13 DEF AgCore

LEMMA AgCloseWorkerKeeps ==
  ASSUME AgCore, NEW w \in AgWorkers, Jobs!CloseWorker(w)
  PROVE  AgCore'
<1>1. /\ UNCHANGED <<agReg, agRunning, agJobTo, agJob, agDispJobs, agMember, agAgent>>
      /\ UNCHANGED <<agTerm, agUpd, agLeft, agDel, agExcused, agUsed, agDisp>>
      /\ UNCHANGED <<agAdding>>
  BY DEF Jobs!CloseWorker, Jobs!agHandler, Jobs!agClient, Jobs!agRoom, Jobs!agAgents
<1>2. agConn' = agConn \ {w}
  BY DEF Jobs!CloseWorker
<1>3. AgTypes'
  BY <1>1, <1>2 DEF AgCore, AgTypes
<1>4. AgAskedStay'
  BY <1>1 DEF AgCore, AgAskedStay
<1>5. AgAssigned'
  BY <1>1 DEF AgCore, AgAssigned
<1>6. AgRecorded'
  BY <1>1 DEF AgCore, AgRecorded
<1>7. AgEnded'
  BY <1>1 DEF AgCore, AgEnded
<1>8. AgHeard'
  BY <1>1 DEF AgCore, AgHeard
<1>9. AgOut'
  BY <1>1 DEF AgCore, AgOut
<1>10. AgRuns'
  BY <1>1 DEF AgCore, AgRuns
<1>11. AgLaunches'
  BY <1>1 DEF AgCore, AgLaunches
<1>12. AgDeletes'
  BY <1>1, <1>2 DEF AgCore, AgTypes, AgDeletes, OutOfReach
<1> QED BY <1>3, <1>4, <1>5, <1>6, <1>7, <1>8, <1>9, <1>10, <1>11, <1>12 DEF AgCore

LEMMA AgGetDispatcherKeeps ==
  ASSUME AgCore, AgCache, NEW j \in AgJobs, Jobs!GetDispatcher(j)
  PROVE  AgCore'
<1>0. agJob \in [AgJobs -> AgLaunch] /\ agUsed \in [lost : Nat, drops : Nat] /\ agReg \subseteq AgWorkers
  BY DEF AgCore, AgTypes
<1>1. /\ UNCHANGED <<agConn, agReg, agRunning, agJobTo, agDispJobs, agMember, agAgent>>
      /\ UNCHANGED <<agTerm, agUpd, agLeft, agDel, agExcused, agDisp, agAdding>>
  BY DEF Jobs!GetDispatcher, Jobs!agHandler, Jobs!agRoom, Jobs!agAgents
<1>2. PICK g \in Nat : agJob' = [agJob EXCEPT ![j].pc = "finding", ![j].gen = g]
  <2>1. CASE agCur # 0
    BY <2>1 DEF Jobs!GetDispatcher, AgCache
  <2>2. CASE agCur = 0
    <3>1. /\ agAns' = Append(agAns, "asking") /\ agCur' = Len(agAns')
          /\ agJob' = [agJob EXCEPT ![j].pc = "finding", ![j].gen = agCur']
      BY <2>2 DEF Jobs!GetDispatcher
    <3>2. agCur' \in Nat
      BY <3>1 DEF AgCache
    <3> QED BY <3>1, <3>2
  <2> QED BY <2>1, <2>2
<1>3. /\ agJob' \in [AgJobs -> AgLaunch] /\ agJob'[j].pc = "finding"
      /\ agJob'[j].worker = agJob[j].worker
      /\ \A i \in AgJobs : i # j => agJob'[i] = agJob[i]
  BY <1>0, <1>2 DEF AgLaunch, AgPcs
<1>4. agJob[j].pc = "launching" /\ UNCHANGED agUsed
  BY DEF Jobs!GetDispatcher
<1> QED BY <1>0, <1>1, <1>3, <1>4, AgEarlyMoves

LEMMA AgLaunchJobKeeps ==
  ASSUME AgCore, NEW j \in AgJobs, Jobs!LaunchJob(j)
  PROVE  AgCore'
<1>0. agJob \in [AgJobs -> AgLaunch] /\ agUsed \in [lost : Nat, drops : Nat] /\ agReg \subseteq AgWorkers
  BY DEF AgCore, AgTypes
<1>1. /\ UNCHANGED <<agConn, agReg, agRunning, agJobTo, agDispJobs, agMember, agAgent>>
      /\ UNCHANGED <<agTerm, agUpd, agLeft, agDel, agExcused, agDisp, agAdding>>
  BY DEF Jobs!LaunchJob, Jobs!agHandler, Jobs!agClient, Jobs!agRoom, Jobs!agAgents
<1>2. PICK p \in {"selecting", "launched"} : agJob' = [agJob EXCEPT ![j].pc = p]
  BY DEF Jobs!LaunchJob
<1>3. /\ agJob' \in [AgJobs -> AgLaunch] /\ agJob'[j].pc = p
      /\ agJob'[j].worker = agJob[j].worker
      /\ \A i \in AgJobs : i # j => agJob'[i] = agJob[i]
  BY <1>0, <1>2 DEF AgLaunch, AgPcs
<1>4. agJob[j].pc = "finding" /\ UNCHANGED agUsed
  BY DEF Jobs!LaunchJob
<1> QED BY <1>0, <1>1, <1>3, <1>4, AgEarlyMoves

LEMMA AgSelectWorkerKeeps ==
  ASSUME AgCore, NEW j \in AgJobs, Jobs!SelectWorker(j)
  PROVE  AgCore'
<1>0. agJob \in [AgJobs -> AgLaunch] /\ agUsed \in [lost : Nat, drops : Nat] /\ agReg \subseteq AgWorkers
  BY DEF AgCore, AgTypes
<1>1. /\ UNCHANGED <<agConn, agReg, agRunning, agJobTo, agDispJobs, agMember, agAgent>>
      /\ UNCHANGED <<agTerm, agUpd, agLeft, agDel, agExcused, agDisp, agAdding>>
  BY DEF Jobs!SelectWorker, Jobs!agHandler, Jobs!agClient, Jobs!agRoom, Jobs!agAgents
<1>2. agJob[j].pc = "selecting" /\ UNCHANGED agUsed
  BY DEF Jobs!SelectWorker
<1>3. CASE agJob' = [agJob EXCEPT ![j].pc = "launched"]
  <2>1. /\ agJob' \in [AgJobs -> AgLaunch] /\ agJob'[j].pc = "launched"
        /\ agJob'[j].worker = agJob[j].worker
        /\ \A i \in AgJobs : i # j => agJob'[i] = agJob[i]
    BY <1>0, <1>3 DEF AgLaunch, AgPcs
  <2> QED BY <1>0, <1>1, <1>2, <2>1, AgEarlyMoves
<1>4. ASSUME NEW w \in agReg,
             agJob' = [agJob EXCEPT ![j].pc = "asking", ![j].worker = w,
                         ![j].tried = @ \cup {w}, ![j].answer = "none"]
      PROVE  AgCore'
  <2>1. agJob[j].tried \cup {w} \in SUBSET AgWorkers
    BY <1>0 DEF AgLaunch
  <2>2. PICK t \in SUBSET AgWorkers :
          agJob' = [agJob EXCEPT ![j].pc = "asking", ![j].worker = w, ![j].tried = t, ![j].answer = "none"]
    BY <1>4, <2>1
  <2>3. PICK k : /\ k = [agJob[j] EXCEPT !.pc = "asking", !.worker = w, !.tried = t, !.answer = "none"]
                 /\ agJob' = [agJob EXCEPT ![j] = k]
    BY <2>2
  <2>4. k \in AgLaunch /\ k.pc = "asking" /\ k.worker = w
    BY <1>0, <2>3 DEF AgLaunch, AgPcs
  <2>5. /\ agJob' \in [AgJobs -> AgLaunch] /\ agJob'[j].pc = "asking" /\ agJob'[j].worker = w
        /\ \A i \in AgJobs : i # j => agJob'[i] = agJob[i]
    BY <1>0, <2>3, <2>4
  <2> QED BY <1>0, <1>1, <1>2, <2>5, AgEarlyMoves
<1>5. Jobs!Available(j) \subseteq agReg
  BY DEF Jobs!Available
<1> QED BY <1>3, <1>4, <1>5 DEF Jobs!SelectWorker

LEMMA AgHandleAvailabilityKeeps ==
  ASSUME AgCore, NEW j \in AgJobs, Jobs!HandleAvailability(j)
  PROVE  AgCore'
<1>0. agJob \in [AgJobs -> AgLaunch] /\ agUsed \in [lost : Nat, drops : Nat] /\ agReg \subseteq AgWorkers
  BY DEF AgCore, AgTypes
<1>1. /\ UNCHANGED <<agConn, agReg, agRunning, agJobTo, agDispJobs, agMember, agAgent>>
      /\ UNCHANGED <<agTerm, agUpd, agLeft, agDel, agExcused, agDisp, agAdding>>
  BY DEF Jobs!HandleAvailability, Jobs!agHandler, Jobs!agClient, Jobs!agRoom, Jobs!agAgents
<1>2. agJob[j].pc = "asking" /\ UNCHANGED agUsed
  BY DEF Jobs!HandleAvailability
<1>3. PICK x \in {"available", "not available", "terminate"} : agJob' = [agJob EXCEPT ![j].answer = x]
  BY DEF Jobs!HandleAvailability
<1>4. /\ agJob' \in [AgJobs -> AgLaunch] /\ agJob'[j].pc = "asking"
      /\ agJob'[j].worker = agJob[j].worker
      /\ \A i \in AgJobs : i # j => agJob'[i] = agJob[i]
  BY <1>0, <1>2, <1>3 DEF AgLaunch
<1>5. agJob[j].worker \in AgWorkers
  BY <1>2 DEF AgCore, AgAssigned
<1> QED BY <1>0, <1>1, <1>2, <1>4, <1>5, AgEarlyMoves

LEMMA AgAssignFailsKeeps ==
  ASSUME AgCore, NEW j \in AgJobs, Jobs!AssignFails(j)
  PROVE  AgCore'
<1>0. agJob \in [AgJobs -> AgLaunch] /\ agUsed \in [lost : Nat, drops : Nat] /\ agReg \subseteq AgWorkers
  BY DEF AgCore, AgTypes
<1>1. /\ UNCHANGED <<agConn, agReg, agRunning, agJobTo, agDispJobs, agMember, agAgent>>
      /\ UNCHANGED <<agTerm, agUpd, agLeft, agDel, agExcused, agDisp, agAdding>>
  BY DEF Jobs!AssignFails, Jobs!agHandler, Jobs!agClient, Jobs!agRoom, Jobs!agAgents
<1>2. PICK p \in {"selecting", "launched"} : agJob' = [agJob EXCEPT ![j].pc = p]
  BY DEF Jobs!AssignFails
<1>3. /\ agJob' \in [AgJobs -> AgLaunch] /\ agJob'[j].pc = p
      /\ agJob'[j].worker = agJob[j].worker
      /\ \A i \in AgJobs : i # j => agJob'[i] = agJob[i]
  BY <1>0, <1>2 DEF AgLaunch, AgPcs
<1>4. agJob[j].pc = "asking"
  BY DEF Jobs!AssignFails
<1>5. agUsed' \in [lost : Nat, drops : Nat] /\ agUsed'.drops = agUsed.drops
  BY <1>0 DEF Jobs!AssignFails, Jobs!Loses
<1> QED BY <1>0, <1>1, <1>3, <1>4, <1>5, AgEarlyMoves

LEMMA AgRefusedKeeps ==
  ASSUME AgCore, NEW j \in AgJobs, Jobs!Answered(j), agJob[j].answer # "available"
  PROVE  AgCore'
<1>0. agJob \in [AgJobs -> AgLaunch] /\ agUsed \in [lost : Nat, drops : Nat] /\ agReg \subseteq AgWorkers
  BY DEF AgCore, AgTypes
<1>1. /\ UNCHANGED <<agConn, agReg, agRunning, agJobTo, agDispJobs, agMember, agAgent>>
      /\ UNCHANGED <<agTerm, agUpd, agLeft, agDel, agExcused, agDisp, agAdding>>
  BY DEF Jobs!Answered, Jobs!agHandler, Jobs!agClient, Jobs!agRoom, Jobs!agAgents
<1>2. PICK p \in {"selecting", "answering"} : agJob' = [agJob EXCEPT ![j].pc = p]
  BY DEF Jobs!Answered
<1>3. /\ agJob' \in [AgJobs -> AgLaunch] /\ agJob'[j].pc = p
      /\ agJob'[j].worker = agJob[j].worker
      /\ \A i \in AgJobs : i # j => agJob'[i] = agJob[i]
  BY <1>0, <1>2 DEF AgLaunch, AgPcs
<1>4. agJob[j].pc = "asking" /\ UNCHANGED agUsed
  BY DEF Jobs!Answered
<1> QED BY <1>0, <1>1, <1>3, <1>4, AgEarlyMoves

LEMMA AgAssignedKeeps ==
  ASSUME AgCore, NEW j \in AgJobs, Jobs!Answered(j), agJob[j].answer = "available"
  PROVE  AgCore'
<1>1. /\ UNCHANGED <<agConn, agReg, agRunning, agJobTo, agDispJobs, agMember, agTerm>>
      /\ UNCHANGED <<agUpd, agLeft, agDel, agExcused, agUsed, agDisp, agAdding>>
  BY DEF Jobs!Answered, Jobs!agHandler, Jobs!agClient, Jobs!agRoom, Jobs!agAgents
<1>2. /\ agJob' \in [AgJobs -> AgLaunch] /\ agJob'[j].pc = "assigned"
      /\ agJob'[j].worker = agJob[j].worker
      /\ \A i \in AgJobs : i # j => agJob'[i] = agJob[i]
  BY AgJobMoves DEF Jobs!Answered, AgCore, AgTypes, AgPcs
<1>3. /\ agJob[j].pc = "asking" /\ agAgent' = [agAgent EXCEPT ![j] = "told"]
  BY DEF Jobs!Answered
<1>4. /\ agAgent[j] = "none" /\ j \notin agDispJobs /\ j \notin agMember
      /\ agJobTo[j] = "nobody" /\ \A w \in AgWorkers : j \notin agRunning[w]
      /\ agJob[j].worker \in AgWorkers
  BY <1>3 DEF AgCore, AgTypes, AgAssigned, AgRecorded, AgHeard
<1>5. AgTypes'
  BY <1>1, <1>2, <1>3, <1>4 DEF AgCore, AgTypes
<1>6. AgAskedStay'
  BY <1>1, <1>2, <1>3, <1>4 DEF AgCore, AgTypes, AgAskedStay
<1>7. AgAssigned'
  BY <1>1, <1>2, <1>3, <1>4 DEF AgCore, AgTypes, AgAssigned
<1>8. AgRecorded'
  BY <1>1, <1>2, <1>3, <1>4 DEF AgCore, AgTypes, AgRecorded
<1>9. AgEnded'
  BY <1>1, <1>2, <1>3, <1>4 DEF AgCore, AgTypes, AgEnded
<1>10. AgHeard'
  BY <1>1, <1>2, <1>3, <1>4 DEF AgCore, AgTypes, AgHeard
<1>11. AgOut'
  BY <1>1, <1>2, <1>3, <1>4 DEF AgCore, AgTypes, AgOut
<1>12. AgRuns'
  BY <1>1, <1>2, <1>3, <1>4 DEF AgCore, AgTypes, AgRuns
<1>13. AgLaunches'
  BY <1>1, <1>2, <1>3, <1>4, AgentNames DEF AgCore, AgTypes, AgLaunches
<1>14. AgDeletes'
  BY <1>1, <1>2, <1>3, <1>4 DEF AgCore, AgTypes, AgDeletes, OutOfReach
<1> QED BY <1>5, <1>6, <1>7, <1>8, <1>9, <1>10, <1>11, <1>12, <1>13, <1>14 DEF AgCore

LEMMA AgRecordRunningKeeps ==
  ASSUME AgCore, NEW j \in AgJobs, Jobs!RecordRunning(j)
  PROVE  AgCore'
<1>1. /\ UNCHANGED <<agConn, agReg, agJobTo, agDispJobs, agMember, agAgent, agTerm>>
      /\ UNCHANGED <<agUpd, agLeft, agDel, agExcused, agUsed, agDisp, agAdding>>
  BY DEF Jobs!RecordRunning, Jobs!agHandler, Jobs!agClient, Jobs!agRoom, Jobs!agAgents
<1>2. /\ agJob' \in [AgJobs -> AgLaunch] /\ agJob'[j].pc = "mapping"
      /\ agJob'[j].worker = agJob[j].worker
      /\ \A i \in AgJobs : i # j => agJob'[i] = agJob[i]
  BY AgJobMoves DEF Jobs!RecordRunning, AgCore, AgTypes, AgPcs
<1>3. /\ agJob[j].pc = "assigned" /\ agAgent[j] # "none" /\ agJob[j].worker \in AgWorkers
      /\ agRunning' = [agRunning EXCEPT ![agJob[j].worker] = @ \cup {j}]
  BY DEF Jobs!RecordRunning, AgCore, AgAssigned
<1>4. /\ agRunning' \in [AgWorkers -> SUBSET AgJobs]
      /\ agRunning'[agJob[j].worker] = agRunning[agJob[j].worker] \cup {j}
      /\ \A w \in AgWorkers : w # agJob[j].worker => agRunning'[w] = agRunning[w]
  BY <1>3 DEF AgCore, AgTypes
<1>5. AgTypes'
  BY <1>1, <1>2, <1>3, <1>4 DEF AgCore, AgTypes
<1>6. AgAskedStay'
  BY <1>1, <1>2, <1>3, <1>4 DEF AgCore, AgTypes, AgAskedStay
<1>7. AgAssigned'
  BY <1>1, <1>2, <1>3, <1>4 DEF AgCore, AgTypes, AgAssigned
<1>8. AgRecorded'
  BY <1>1, <1>2, <1>3, <1>4 DEF AgCore, AgTypes, AgRecorded
<1>9. AgEnded'
  BY <1>1, <1>2, <1>3, <1>4 DEF AgCore, AgTypes, AgEnded
<1>10. AgHeard'
  BY <1>1, <1>2, <1>3, <1>4 DEF AgCore, AgTypes, AgHeard
<1>11. AgOut'
  BY <1>1, <1>2, <1>3, <1>4 DEF AgCore, AgTypes, AgOut
<1>12. AgRuns'
  BY <1>1, <1>2, <1>3, <1>4 DEF AgCore, AgTypes, AgRuns
<1>13. AgLaunches'
  BY <1>1, <1>2, <1>3, <1>4, AgentNames DEF AgCore, AgTypes, AgLaunches
<1>14. AgDeletes'
  BY <1>1, <1>2, <1>3, <1>4 DEF AgCore, AgTypes, AgDeletes, OutOfReach
<1> QED BY <1>5, <1>6, <1>7, <1>8, <1>9, <1>10, <1>11, <1>12, <1>13, <1>14 DEF AgCore

LEMMA AgMapJobKeeps ==
  ASSUME AgCore, NEW j \in AgJobs, Jobs!MapJob(j)
  PROVE  AgCore'
<1>1. /\ UNCHANGED <<agConn, agReg, agRunning, agDispJobs, agMember, agAgent, agTerm>>
      /\ UNCHANGED <<agUpd, agLeft, agDel, agExcused, agUsed, agDisp, agAdding>>
  BY DEF Jobs!MapJob, Jobs!agHandler, Jobs!agClient, Jobs!agRoom, Jobs!agAgents
<1>2. /\ agJob' \in [AgJobs -> AgLaunch] /\ agJob'[j].pc = "answering"
      /\ agJob'[j].worker = agJob[j].worker
      /\ \A i \in AgJobs : i # j => agJob'[i] = agJob[i]
  BY AgJobMoves DEF Jobs!MapJob, AgCore, AgTypes, AgPcs
<1>3. /\ agJob[j].pc = "mapping" /\ agAgent[j] # "none" /\ agJob[j].worker \in AgWorkers
      /\ agJobTo' = [agJobTo EXCEPT ![j] = agJob[j].worker]
  BY DEF Jobs!MapJob, AgCore, AgAssigned
<1>4. AgTypes'
  BY <1>1, <1>2, <1>3 DEF AgCore, AgTypes
<1>5. AgAskedStay'
  BY <1>1, <1>2, <1>3 DEF AgCore, AgTypes, AgAskedStay
<1>6. AgAssigned'
  BY <1>1, <1>2, <1>3 DEF AgCore, AgTypes, AgAssigned
<1>7. AgRecorded'
  BY <1>1, <1>2, <1>3 DEF AgCore, AgTypes, AgRecorded
<1>8. AgEnded'
  BY <1>1, <1>2, <1>3 DEF AgCore, AgTypes, AgEnded
<1>9. AgHeard'
  BY <1>1, <1>2, <1>3 DEF AgCore, AgTypes, AgHeard
<1>10. AgOut'
  BY <1>1, <1>2, <1>3 DEF AgCore, AgTypes, AgOut
<1>11. AgRuns'
  BY <1>1, <1>2, <1>3 DEF AgCore, AgTypes, AgRuns
<1>12. AgLaunches'
  BY <1>1, <1>2, <1>3, AgentNames DEF AgCore, AgTypes, AgLaunches
<1>13. AgDeletes'
  BY <1>1, <1>2, <1>3 DEF AgCore, AgTypes, AgDeletes, OutOfReach
<1> QED BY <1>4, <1>5, <1>6, <1>7, <1>8, <1>9, <1>10, <1>11, <1>12, <1>13 DEF AgCore

LEMMA AgAnswerIsLostKeeps ==
  ASSUME AgCore, NEW j \in AgJobs, Jobs!AnswerIsLost(j)
  PROVE  AgCore'
<1>1. /\ UNCHANGED <<agConn, agReg, agRunning, agJobTo, agDispJobs, agMember, agAgent>>
      /\ UNCHANGED <<agTerm, agUpd, agLeft, agDel, agDisp, agAdding>>
  BY DEF Jobs!AnswerIsLost, Jobs!agHandler, Jobs!agClient, Jobs!agRoom, Jobs!agAgents
<1>2. /\ agJob' \in [AgJobs -> AgLaunch] /\ agJob'[j].pc = "launched"
      /\ agJob'[j].worker = agJob[j].worker
      /\ \A i \in AgJobs : i # j => agJob'[i] = agJob[i]
  BY AgJobMoves DEF Jobs!AnswerIsLost, AgCore, AgTypes, AgPcs
<1>3. /\ agJob[j].pc = "answering" /\ agUsed' \in [lost : Nat, drops : Nat] /\ agUsed'.drops = agUsed.drops
  BY DEF Jobs!AnswerIsLost, Jobs!Loses, AgCore, AgTypes
<1>4. /\ agExcused' \in [AgJobs -> SUBSET AgWhys]
      /\ agExcused'[j] = agExcused[j] \cup {"unheard"}
      /\ \A i \in AgJobs : i # j => agExcused'[i] = agExcused[i]
  BY DEF Jobs!AnswerIsLost, Jobs!Excuse, AgCore, AgTypes, AgWhys
<1>5. AgTypes'
  BY <1>1, <1>2, <1>3, <1>4 DEF AgCore, AgTypes
<1>6. AgAskedStay'
  BY <1>1, <1>2, <1>3, <1>4 DEF AgCore, AgTypes, AgAskedStay
<1>7. AgAssigned'
  BY <1>1, <1>2, <1>3, <1>4 DEF AgCore, AgTypes, AgAssigned
<1>8. AgRecorded'
  BY <1>1, <1>2, <1>3, <1>4 DEF AgCore, AgTypes, AgRecorded
<1>9. AgEnded'
  BY <1>1, <1>2, <1>3, <1>4 DEF AgCore, AgTypes, AgEnded
<1>10. AgHeard'
  BY <1>1, <1>2, <1>3, <1>4 DEF AgCore, AgTypes, AgHeard
<1>11. AgOut'
  BY <1>1, <1>2, <1>3, <1>4 DEF AgCore, AgTypes, AgOut
<1>12. AgRuns'
  BY <1>1, <1>2, <1>3, <1>4 DEF AgCore, AgTypes, AgRuns
<1>13. AgLaunches'
  BY <1>1, <1>2, <1>3, <1>4, AgentNames DEF AgCore, AgTypes, AgLaunches
<1>14. AgDeletes'
  BY <1>1, <1>2, <1>3, <1>4 DEF AgCore, AgTypes, AgDeletes, OutOfReach
<1> QED BY <1>5, <1>6, <1>7, <1>8, <1>9, <1>10, <1>11, <1>12, <1>13, <1>14 DEF AgCore

LEMMA AgHandleNewJobKeeps ==
  ASSUME AgCore, NEW j \in AgJobs, Jobs!HandleNewJob(j)
  PROVE  AgCore'
<1>1. /\ UNCHANGED <<agConn, agReg, agRunning, agJobTo, agAgent, agTerm, agUpd>>
      /\ UNCHANGED <<agLeft, agDel, agExcused, agUsed, agDisp, agAdding>>
  BY DEF Jobs!HandleNewJob, Jobs!agHandler, Jobs!agClient, Jobs!agRoom, Jobs!agAgents
<1>2. /\ agJob' \in [AgJobs -> AgLaunch] /\ agJob'[j].pc = "launched"
      /\ agJob'[j].worker = agJob[j].worker
      /\ \A i \in AgJobs : i # j => agJob'[i] = agJob[i]
  BY AgJobMoves DEF Jobs!HandleNewJob, AgCore, AgTypes, AgPcs
<1>3. /\ agJob[j].pc = "answering" /\ agDispJobs' = agDispJobs \cup {j}
      /\ agMember \subseteq agMember' /\ agMember' \subseteq agMember \cup {j}
  BY DEF Jobs!HandleNewJob
<1>4. AgTypes'
  BY <1>1, <1>2, <1>3 DEF AgCore, AgTypes
<1>5. AgAskedStay'
  BY <1>1, <1>2, <1>3 DEF AgCore, AgTypes, AgAskedStay
<1>6. AgAssigned'
  BY <1>1, <1>2, <1>3 DEF AgCore, AgTypes, AgAssigned
<1>7. AgRecorded'
  BY <1>1, <1>2, <1>3 DEF AgCore, AgTypes, AgRecorded
<1>8. AgEnded'
  BY <1>1, <1>2, <1>3 DEF AgCore, AgTypes, AgEnded
<1>9. AgHeard'
  BY <1>1, <1>2, <1>3 DEF AgCore, AgTypes, AgHeard
<1>10. AgOut'
  BY <1>1, <1>2, <1>3 DEF AgCore, AgTypes, AgOut
<1>11. AgRuns'
  BY <1>1, <1>2, <1>3 DEF AgCore, AgTypes, AgRuns
<1>12. AgLaunches'
  BY <1>1, <1>2, <1>3, AgentNames DEF AgCore, AgTypes, AgLaunches
<1>13. AgDeletes'
  BY <1>1, <1>2, <1>3 DEF AgCore, AgTypes, AgDeletes, OutOfReach
<1> QED BY <1>4, <1>5, <1>6, <1>7, <1>8, <1>9, <1>10, <1>11, <1>12, <1>13 DEF AgCore

LEMMA AgLaunchedKeeps ==
  ASSUME AgCore, NEW j \in AgJobs, Jobs!Launched(j)
  PROVE  AgCore'
<1>1. /\ UNCHANGED <<agConn, agReg, agRunning, agJobTo, agDispJobs, agMember, agAgent>>
      /\ UNCHANGED <<agTerm, agUpd, agLeft, agDel, agExcused, agUsed, agDisp>>
      /\ UNCHANGED <<agAdding>>
  BY DEF Jobs!Launched, Jobs!agHandler, Jobs!agClient, Jobs!agRoom, Jobs!agAgents
<1>2. /\ agJob' \in [AgJobs -> AgLaunch] /\ agJob'[j].pc = "done"
      /\ agJob'[j].worker = agJob[j].worker
      /\ \A i \in AgJobs : i # j => agJob'[i] = agJob[i]
  BY AgJobMoves DEF Jobs!Launched, AgCore, AgTypes, AgPcs
<1>3. agJob[j].pc = "launched" 
  BY DEF Jobs!Launched
<1>4. AgTypes'
  BY <1>1, <1>2, <1>3 DEF AgCore, AgTypes
<1>5. AgAskedStay'
  BY <1>1, <1>2, <1>3 DEF AgCore, AgTypes, AgAskedStay
<1>6. AgAssigned'
  BY <1>1, <1>2, <1>3 DEF AgCore, AgTypes, AgAssigned
<1>7. AgRecorded'
  BY <1>1, <1>2, <1>3 DEF AgCore, AgTypes, AgRecorded
<1>8. AgEnded'
  BY <1>1, <1>2, <1>3 DEF AgCore, AgTypes, AgEnded
<1>9. AgHeard'
  BY <1>1, <1>2, <1>3 DEF AgCore, AgTypes, AgHeard
<1>10. AgOut'
  BY <1>1, <1>2, <1>3 DEF AgCore, AgTypes, AgOut
<1>11. AgRuns'
  BY <1>1, <1>2, <1>3 DEF AgCore, AgTypes, AgRuns
<1>12. AgLaunches'
  BY <1>1, <1>2, <1>3, AgentNames DEF AgCore, AgTypes, AgLaunches
<1>13. AgDeletes'
  BY <1>1, <1>2, <1>3 DEF AgCore, AgTypes, AgDeletes, OutOfReach
<1> QED BY <1>4, <1>5, <1>6, <1>7, <1>8, <1>9, <1>10, <1>11, <1>12, <1>13 DEF AgCore

LEMMA AgCreateKeeps ==
  ASSUME AgCore, Jobs!CreateAgentDispatch
  PROVE  AgCore'
<1>1. /\ UNCHANGED <<agConn, agReg, agRunning, agJobTo, agJob, agDispJobs, agMember>>
      /\ UNCHANGED <<agAgent, agTerm, agUpd, agLeft, agDel, agExcused, agUsed>>
  BY DEF Jobs!CreateAgentDispatch, Jobs!agHandler, Jobs!agClient, Jobs!agRoom, Jobs!agAgents
<1>2. agDisp = "none" /\ agDisp' = "created" /\ agAdding' = TRUE
  BY DEF Jobs!CreateAgentDispatch
<1>3. AgTypes'
  BY <1>1, <1>2 DEF AgCore, AgTypes
<1>4. AgAskedStay'
  BY <1>1 DEF AgCore, AgAskedStay
<1>5. AgAssigned'
  BY <1>1 DEF AgCore, AgAssigned
<1>6. AgRecorded'
  BY <1>1 DEF AgCore, AgRecorded
<1>7. AgEnded'
  BY <1>1 DEF AgCore, AgEnded
<1>8. AgHeard'
  BY <1>1 DEF AgCore, AgHeard
<1>9. AgOut'
  BY <1>1 DEF AgCore, AgOut
<1>10. AgRuns'
  BY <1>1 DEF AgCore, AgRuns
<1>11. AgLaunches'
  BY <1>1, <1>2 DEF AgCore, AgTypes, AgLaunches
<1>12. AgDeletes'
  BY <1>1 DEF AgCore, AgDeletes, OutOfReach
<1> QED BY <1>3, <1>4, <1>5, <1>6, <1>7, <1>8, <1>9, <1>10, <1>11, <1>12 DEF AgCore

LEMMA AgLaunchRoomAgentsKeeps ==
  ASSUME AgCore, Jobs!LaunchRoomAgents
  PROVE  AgCore'
<1>1. /\ UNCHANGED <<agConn, agReg, agRunning, agJobTo, agDispJobs, agMember, agAgent>>
      /\ UNCHANGED <<agTerm, agUpd, agLeft, agDel, agUsed, agDisp>>
  BY DEF Jobs!LaunchRoomAgents, Jobs!agHandler, Jobs!agClient, Jobs!agRoom, Jobs!agAgents
<1>2. /\ agJob' \in [AgJobs -> AgLaunch] /\ agJob'[1].pc = "launching"
      /\ agJob'[1].worker = agJob[1].worker
      /\ \A i \in AgJobs : i # 1 => agJob'[i] = agJob[i]
  BY AgJobMoves, AgentNames DEF Jobs!LaunchRoomAgents, AgCore, AgTypes, AgPcs
<1>3. agAdding /\ agAdding' = FALSE /\ agJob[1].pc = "none" /\ 1 \in AgJobs
  BY AgentNames DEF Jobs!LaunchRoomAgents, AgCore, AgLaunches
<1>4. /\ agExcused' \in [AgJobs -> SUBSET AgWhys]
      /\ agDisp = "deleted" => agExcused'[1] = agExcused[1] \cup {"afterwards"}
      /\ agDisp # "deleted" => agExcused'[1] = agExcused[1]
      /\ \A i \in AgJobs : i # 1 => agExcused'[i] = agExcused[i]
  BY <1>3 DEF Jobs!LaunchRoomAgents, AgCore, AgTypes, AgWhys
<1>5. /\ agAgent[1] = "none" /\ 1 \notin agDispJobs /\ 1 \notin agMember
      /\ agJobTo[1] = "nobody" /\ \A w \in AgWorkers : 1 \notin agRunning[w]
  BY <1>3 DEF AgCore, AgTypes, AgAssigned, AgRecorded, AgHeard
<1>6. agDel.pc # "none" => "afterwards" \in agExcused'[1]
  BY <1>4 DEF AgCore, AgLaunches
<1>7. AgTypes'
  BY <1>1, <1>2, <1>3, <1>4, <1>5, <1>6 DEF AgCore, AgTypes
<1>8. AgAskedStay'
  BY <1>1, <1>2, <1>3, <1>4, <1>5, <1>6 DEF AgCore, AgTypes, AgAskedStay
<1>9. AgAssigned'
  BY <1>1, <1>2, <1>3, <1>4, <1>5, <1>6 DEF AgCore, AgTypes, AgAssigned
<1>10. AgRecorded'
  BY <1>1, <1>2, <1>3, <1>4, <1>5, <1>6 DEF AgCore, AgTypes, AgRecorded
<1>11. AgEnded'
  BY <1>1, <1>2, <1>3, <1>4, <1>5, <1>6 DEF AgCore, AgTypes, AgEnded
<1>12. AgHeard'
  BY <1>1, <1>2, <1>3, <1>4, <1>5, <1>6 DEF AgCore, AgTypes, AgHeard
<1>13. AgOut'
  BY <1>1, <1>2, <1>3, <1>4, <1>5, <1>6 DEF AgCore, AgTypes, AgOut
<1>14. AgRuns'
  BY <1>1, <1>2, <1>3, <1>4, <1>5, <1>6 DEF AgCore, AgTypes, AgRuns
<1>15. AgLaunches'
  BY <1>1, <1>2, <1>3, <1>4, <1>5, <1>6, AgentNames DEF AgCore, AgTypes, AgLaunches
<1>16. AgDeletes'
  BY <1>1, <1>2, <1>3, <1>4, <1>5, <1>6 DEF AgCore, AgTypes, AgDeletes, OutOfReach
<1> QED BY <1>7, <1>8, <1>9, <1>10, <1>11, <1>12, <1>13, <1>14, <1>15, <1>16 DEF AgCore

LEMMA AgLaunchTargetAgentsKeeps ==
  ASSUME AgCore, NEW j \in AgJobs, Jobs!LaunchTargetAgents(j)
  PROVE  AgCore'
<1>1. /\ UNCHANGED <<agConn, agReg, agRunning, agJobTo, agDispJobs, agMember, agAgent>>
      /\ UNCHANGED <<agTerm, agUpd, agLeft, agDel, agExcused, agUsed, agDisp>>
      /\ UNCHANGED <<agAdding>>
  BY DEF Jobs!LaunchTargetAgents, Jobs!agHandler, Jobs!agClient, Jobs!agRoom, Jobs!agAgents
<1>2. /\ agJob' \in [AgJobs -> AgLaunch] /\ agJob'[j].pc = "launching"
      /\ agJob'[j].worker = agJob[j].worker
      /\ \A i \in AgJobs : i # j => agJob'[i] = agJob[i]
  BY AgJobMoves DEF Jobs!LaunchTargetAgents, AgCore, AgTypes, AgPcs
<1>3. agJob[j].pc = "none" /\ j # 1 /\ agDisp = "created" 
  BY DEF Jobs!LaunchTargetAgents
<1>4. /\ agAgent[j] = "none" /\ j \notin agDispJobs /\ j \notin agMember
      /\ agJobTo[j] = "nobody" /\ \A w \in AgWorkers : j \notin agRunning[w]
  BY <1>3 DEF AgCore, AgTypes, AgAssigned, AgRecorded, AgHeard
<1>5. agDel.pc = "none"
  BY <1>3 DEF AgCore, AgLaunches
<1>6. AgTypes'
  BY <1>1, <1>2, <1>3, <1>4, <1>5 DEF AgCore, AgTypes
<1>7. AgAskedStay'
  BY <1>1, <1>2, <1>3, <1>4, <1>5 DEF AgCore, AgTypes, AgAskedStay
<1>8. AgAssigned'
  BY <1>1, <1>2, <1>3, <1>4, <1>5 DEF AgCore, AgTypes, AgAssigned
<1>9. AgRecorded'
  BY <1>1, <1>2, <1>3, <1>4, <1>5 DEF AgCore, AgTypes, AgRecorded
<1>10. AgEnded'
  BY <1>1, <1>2, <1>3, <1>4, <1>5 DEF AgCore, AgTypes, AgEnded
<1>11. AgHeard'
  BY <1>1, <1>2, <1>3, <1>4, <1>5 DEF AgCore, AgTypes, AgHeard
<1>12. AgOut'
  BY <1>1, <1>2, <1>3, <1>4, <1>5 DEF AgCore, AgTypes, AgOut
<1>13. AgRuns'
  BY <1>1, <1>2, <1>3, <1>4, <1>5 DEF AgCore, AgTypes, AgRuns
<1>14. AgLaunches'
  BY <1>1, <1>2, <1>3, <1>4, <1>5, AgentNames DEF AgCore, AgTypes, AgLaunches
<1>15. AgDeletes'
  BY <1>1, <1>2, <1>3, <1>4, <1>5 DEF AgCore, AgTypes, AgDeletes, OutOfReach
<1> QED BY <1>6, <1>7, <1>8, <1>9, <1>10, <1>11, <1>12, <1>13, <1>14, <1>15 DEF AgCore

LEMMA AgDeleteKeeps ==
  ASSUME AgCore, Jobs!DeleteAgentDispatch
  PROVE  AgCore'
<1>1. /\ UNCHANGED <<agConn, agReg, agRunning, agJobTo, agJob, agDispJobs, agMember>>
      /\ UNCHANGED <<agAgent, agTerm, agUpd, agLeft, agExcused, agUsed, agAdding>>
  BY DEF Jobs!DeleteAgentDispatch, Jobs!agHandler, Jobs!agClient, Jobs!agRoom, Jobs!agAgents
<1>2. agDisp = "created" /\ agDisp' = "deleted" 
  BY DEF Jobs!DeleteAgentDispatch
<1>3. /\ agDel' \in [pc : AgDelPcs, wait : SUBSET AgJobs, todo : SUBSET AgJobs]
      /\ agDel'.pc = "collect" /\ agDel'.wait = agDel.wait /\ agDel'.todo = agDel.todo
  BY DEF Jobs!DeleteAgentDispatch, AgCore, AgTypes, AgDelPcs
<1>4. agDel.pc = "none"
  BY <1>2 DEF AgCore, AgLaunches
<1>5. AgTypes'
  BY <1>1, <1>2, <1>3, <1>4 DEF AgCore, AgTypes
<1>6. AgAskedStay'
  BY <1>1 DEF AgCore, AgAskedStay
<1>7. AgAssigned'
  BY <1>1 DEF AgCore, AgAssigned
<1>8. AgRecorded'
  BY <1>1 DEF AgCore, AgRecorded
<1>9. AgEnded'
  BY <1>1 DEF AgCore, AgEnded
<1>10. AgHeard'
  BY <1>1 DEF AgCore, AgHeard
<1>11. AgOut'
  BY <1>1 DEF AgCore, AgOut
<1>12. AgRuns'
  BY <1>1, <1>2, <1>3, <1>4 DEF AgCore, AgTypes, AgRuns
<1>13. AgLaunches'
  BY <1>1, <1>2, <1>3, <1>4 DEF AgCore, AgTypes, AgLaunches
<1>14. AgDeletes'
  BY <1>1, <1>2, <1>3, <1>4 DEF AgCore, AgTypes, AgDeletes, OutOfReach
<1> QED BY <1>5, <1>6, <1>7, <1>8, <1>9, <1>10, <1>11, <1>12, <1>13, <1>14 DEF AgCore

LEMMA AgCollectKeeps ==
  ASSUME AgCore, Jobs!CollectPending
  PROVE  AgCore'
<1>1. /\ UNCHANGED <<agConn, agReg, agRunning, agJobTo, agJob, agDispJobs, agMember>>
      /\ UNCHANGED <<agAgent, agTerm, agUpd, agLeft, agExcused, agUsed, agDisp>>
      /\ UNCHANGED <<agAdding>>
  BY DEF Jobs!CollectPending, Jobs!agHandler, Jobs!agClient, Jobs!agRoom, Jobs!agAgents
<1>2. /\ agDel' \in [pc : AgDelPcs, wait : SUBSET AgJobs, todo : SUBSET AgJobs]
      /\ agDel'.pc = "wait" /\ agDel'.wait = {j \in AgJobs : agJob[j].pc \notin {"none", "done"}} /\ agDel'.todo = agDel.todo
  BY DEF Jobs!CollectPending, Jobs!WaitedFor, Jobs!Pending, AgCore, AgTypes, AgDelPcs
<1>3. agDel.pc = "collect"
  BY DEF Jobs!CollectPending
<1>4. AgTypes'
  BY <1>1, <1>2, <1>3 DEF AgCore, AgTypes
<1>5. AgAskedStay'
  BY <1>1 DEF AgCore, AgAskedStay
<1>6. AgAssigned'
  BY <1>1 DEF AgCore, AgAssigned
<1>7. AgRecorded'
  BY <1>1 DEF AgCore, AgRecorded
<1>8. AgEnded'
  BY <1>1 DEF AgCore, AgEnded
<1>9. AgHeard'
  BY <1>1 DEF AgCore, AgHeard
<1>10. AgOut'
  BY <1>1 DEF AgCore, AgOut
<1>11. AgRuns'
  BY <1>1, <1>2, <1>3 DEF AgCore, AgTypes, AgRuns
<1>12. AgLaunches'
  BY <1>1, <1>2, <1>3 DEF AgCore, AgTypes, AgLaunches
<1>13. AgDeletes'
  BY <1>1, <1>2, <1>3 DEF AgCore, AgTypes, AgDeletes, OutOfReach
<1> QED BY <1>4, <1>5, <1>6, <1>7, <1>8, <1>9, <1>10, <1>11, <1>12, <1>13 DEF AgCore

LEMMA AgTakeJobsKeeps ==
  ASSUME AgCore, Jobs!TakeJobs
  PROVE  AgCore'
<1>1. /\ UNCHANGED <<agConn, agReg, agRunning, agJobTo, agJob, agDispJobs, agMember>>
      /\ UNCHANGED <<agAgent, agTerm, agUpd, agLeft, agExcused, agUsed, agDisp>>
      /\ UNCHANGED <<agAdding>>
  BY DEF Jobs!TakeJobs, Jobs!agHandler, Jobs!agClient, Jobs!agRoom, Jobs!agAgents
<1>2. /\ agDel' \in [pc : AgDelPcs, wait : SUBSET AgJobs, todo : SUBSET AgJobs]
      /\ agDel'.pc = "terminate" /\ agDel'.wait = agDel.wait /\ agDel'.todo = agDispJobs
  BY DEF Jobs!TakeJobs, AgCore, AgTypes, AgDelPcs
<1>3. /\ agDel.pc = "wait"
      /\ \A j \in agDel.wait : j \in AgJobs => agJob[j].pc \in {"none", "done"}
  BY DEF Jobs!TakeJobs, Jobs!Pending
<1>4. \A j \in AgJobs : "afterwards" \notin agExcused[j] => agJob[j].pc \in {"none", "done"}
  BY <1>3 DEF AgCore, AgDeletes
<1>5. \A j \in AgJobs :
        "afterwards" \notin agExcused[j] /\ "unheard" \notin agExcused[j] /\ j \notin agDispJobs =>
          agAgent[j] = "none" /\ \A w \in AgWorkers : j \notin agRunning[w]
  BY <1>4 DEF AgCore, AgTypes, AgHeard, AgAssigned, AgRecorded
<1>6. AgTypes'
  BY <1>1, <1>2, <1>3, <1>4, <1>5 DEF AgCore, AgTypes
<1>7. AgAskedStay'
  BY <1>1 DEF AgCore, AgAskedStay
<1>8. AgAssigned'
  BY <1>1 DEF AgCore, AgAssigned
<1>9. AgRecorded'
  BY <1>1 DEF AgCore, AgRecorded
<1>10. AgEnded'
  BY <1>1 DEF AgCore, AgEnded
<1>11. AgHeard'
  BY <1>1 DEF AgCore, AgHeard
<1>12. AgOut'
  BY <1>1 DEF AgCore, AgOut
<1>13. AgRuns'
  BY <1>1, <1>2, <1>3, <1>4, <1>5 DEF AgCore, AgTypes, AgRuns
<1>14. AgLaunches'
  BY <1>1, <1>2, <1>3, <1>4, <1>5 DEF AgCore, AgTypes, AgLaunches
<1>15. AgDeletes'
  BY <1>1, <1>2, <1>3, <1>4, <1>5 DEF AgCore, AgTypes, AgDeletes, OutOfReach
<1> QED BY <1>6, <1>7, <1>8, <1>9, <1>10, <1>11, <1>12, <1>13, <1>14, <1>15 DEF AgCore

LEMMA AgDeleteEndsKeeps ==
  ASSUME AgCore, Jobs!DeleteEnds
  PROVE  AgCore'
<1>1. /\ UNCHANGED <<agConn, agReg, agRunning, agJobTo, agJob, agDispJobs, agMember>>
      /\ UNCHANGED <<agAgent, agTerm, agUpd, agLeft, agExcused, agUsed, agDisp>>
      /\ UNCHANGED <<agAdding>>
  BY DEF Jobs!DeleteEnds, Jobs!agHandler, Jobs!agClient, Jobs!agRoom, Jobs!agAgents
<1>2. /\ agDel' \in [pc : AgDelPcs, wait : SUBSET AgJobs, todo : SUBSET AgJobs]
      /\ agDel'.pc = "done" /\ agDel'.wait = agDel.wait /\ agDel'.todo = agDel.todo
  BY DEF Jobs!DeleteEnds, AgCore, AgTypes, AgDelPcs
<1>3. agDel.pc = "terminate" /\ agDel.todo = {}
  BY DEF Jobs!DeleteEnds
<1>4. AgTypes'
  BY <1>1, <1>2, <1>3 DEF AgCore, AgTypes
<1>5. AgAskedStay'
  BY <1>1 DEF AgCore, AgAskedStay
<1>6. AgAssigned'
  BY <1>1 DEF AgCore, AgAssigned
<1>7. AgRecorded'
  BY <1>1 DEF AgCore, AgRecorded
<1>8. AgEnded'
  BY <1>1 DEF AgCore, AgEnded
<1>9. AgHeard'
  BY <1>1 DEF AgCore, AgHeard
<1>10. AgOut'
  BY <1>1 DEF AgCore, AgOut
<1>11. AgRuns'
  BY <1>1, <1>2, <1>3 DEF AgCore, AgTypes, AgRuns
<1>12. AgLaunches'
  BY <1>1, <1>2, <1>3 DEF AgCore, AgTypes, AgLaunches
<1>13. AgDeletes'
  BY <1>1, <1>2, <1>3 DEF AgCore, AgTypes, AgDeletes, OutOfReach
<1> QED BY <1>4, <1>5, <1>6, <1>7, <1>8, <1>9, <1>10, <1>11, <1>12, <1>13 DEF AgCore

LEMMA AgUpdateJobEndedKeeps ==
  ASSUME AgCore, NEW j \in AgJobs, Jobs!UpdateJobEnded(j)
  PROVE  AgCore'
<1>1. /\ UNCHANGED <<agConn, agReg, agJobTo, agJob, agDispJobs, agMember, agAgent>>
      /\ UNCHANGED <<agTerm, agLeft, agDel, agUsed, agDisp, agAdding>>
  BY DEF Jobs!UpdateJobEnded, Jobs!agHandler, Jobs!agClient, Jobs!agRoom, Jobs!agAgents
<1>2. /\ agAgent[j] = "out" /\ agJob[j].worker \in agReg /\ agUpd' = agUpd \cup {j}
      /\ agRunning' = [agRunning EXCEPT ![agJob[j].worker] = @ \ {j}]
  BY DEF Jobs!UpdateJobEnded
<1>3. /\ agRunning' \in [AgWorkers -> SUBSET AgJobs]
      /\ \A i \in AgJobs, w \in AgWorkers : i # j => (i \in agRunning'[w] <=> i \in agRunning[w])
      /\ \A w \in AgWorkers : j \notin agRunning'[w]
  BY <1>2 DEF AgCore, AgTypes, AgRecorded
<1>4. /\ agExcused' \in [AgJobs -> SUBSET AgWhys]
      /\ agExcused'[j] = agExcused[j] \cup {"ended"} \cup (IF agJob[j].pc = "assigned" THEN {"hasty"} ELSE {})
      /\ \A i \in AgJobs : i # j => agExcused'[i] = agExcused[i]
  BY DEF Jobs!UpdateJobEnded, AgCore, AgTypes, AgWhys
<1>5. AgTypes'
  BY <1>1, <1>2, <1>3, <1>4 DEF AgCore, AgTypes
<1>6. AgAskedStay'
  BY <1>1 DEF AgCore, AgAskedStay
<1>7. AgAssigned'
  BY <1>1 DEF AgCore, AgAssigned
<1>8. AgRecorded'
  BY <1>1, <1>2, <1>3, <1>4 DEF AgCore, AgTypes, AgRecorded
<1>9. AgEnded'
  BY <1>1, <1>2, <1>3, <1>4 DEF AgCore, AgTypes, AgEnded
<1>10. AgHeard'
  BY <1>1, <1>2, <1>3, <1>4 DEF AgCore, AgTypes, AgHeard
<1>11. AgOut'
  BY <1>1, <1>2, <1>3, <1>4 DEF AgCore, AgTypes, AgOut
<1>12. AgRuns'
  BY <1>1, <1>2, <1>3, <1>4 DEF AgCore, AgTypes, AgRuns
<1>13. AgLaunches'
  BY <1>1 DEF AgCore, AgLaunches
<1>14. AgDeletes'
  BY <1>1, <1>2, <1>3, <1>4 DEF AgCore, AgTypes, AgDeletes, OutOfReach
<1> QED BY <1>5, <1>6, <1>7, <1>8, <1>9, <1>10, <1>11, <1>12, <1>13, <1>14 DEF AgCore

LEMMA AgDeregisterJobKeeps ==
  ASSUME AgCore, NEW j \in AgJobs, Jobs!DeregisterJob(j)
  PROVE  AgCore'
<1>1. /\ UNCHANGED <<agConn, agReg, agRunning, agJob, agDispJobs, agMember, agAgent>>
      /\ UNCHANGED <<agTerm, agLeft, agDel, agExcused, agUsed, agDisp, agAdding>>
  BY DEF Jobs!DeregisterJob, Jobs!agHandler, Jobs!agClient, Jobs!agRoom, Jobs!agAgents
<1>2. j \in agUpd /\ agUpd' = agUpd \ {j} /\ agJobTo' = [agJobTo EXCEPT ![j] = "nobody"]
  BY DEF Jobs!DeregisterJob, Jobs!NoWorker
<1>3. "hasty" \in agExcused[j] \/ \A w \in AgWorkers : j \notin agRunning[w]
  BY <1>2 DEF AgCore, AgEnded
<1>4. AgTypes'
  BY <1>1, <1>2, <1>3 DEF AgCore, AgTypes
<1>5. AgAskedStay'
  BY <1>1 DEF AgCore, AgAskedStay
<1>6. AgAssigned'
  BY <1>1 DEF AgCore, AgAssigned
<1>7. AgRecorded'
  BY <1>1, <1>2, <1>3 DEF AgCore, AgTypes, AgRecorded
<1>8. AgEnded'
  BY <1>1, <1>2, <1>3 DEF AgCore, AgTypes, AgEnded
<1>9. AgHeard'
  BY <1>1 DEF AgCore, AgHeard
<1>10. AgOut'
  BY <1>1 DEF AgCore, AgOut
<1>11. AgRuns'
  BY <1>1 DEF AgCore, AgRuns
<1>12. AgLaunches'
  BY <1>1 DEF AgCore, AgLaunches
<1>13. AgDeletes'
  BY <1>1 DEF AgCore, AgDeletes, OutOfReach
<1> QED BY <1>4, <1>5, <1>6, <1>7, <1>8, <1>9, <1>10, <1>11, <1>12, <1>13 DEF AgCore

LEMMA AgAgentJoinsKeeps ==
  ASSUME AgCore, NEW j \in AgJobs, Jobs!AgentJoins(j)
  PROVE  AgCore'
<1>1. /\ UNCHANGED <<agConn, agReg, agRunning, agJobTo, agJob, agDispJobs, agMember>>
      /\ UNCHANGED <<agTerm, agUpd, agLeft, agDel, agExcused, agUsed, agDisp>>
      /\ UNCHANGED <<agAdding>>
  BY DEF Jobs!AgentJoins, Jobs!agHandler, Jobs!agClient, Jobs!agRoom, Jobs!agAgents
<1>2. agAgent[j] = "told" /\ j \notin agTerm /\ agAgent' = [agAgent EXCEPT ![j] = "in"]
  BY DEF Jobs!AgentJoins
<1>3. AgTypes'
  BY <1>1, <1>2 DEF AgCore, AgTypes
<1>4. AgAskedStay'
  BY <1>1 DEF AgCore, AgAskedStay
<1>5. AgAssigned'
  BY <1>1, <1>2 DEF AgCore, AgTypes, AgAssigned
<1>6. AgRecorded'
  BY <1>1, <1>2 DEF AgCore, AgTypes, AgRecorded
<1>7. AgEnded'
  BY <1>1, <1>2 DEF AgCore, AgTypes, AgEnded
<1>8. AgHeard'
  BY <1>1, <1>2 DEF AgCore, AgTypes, AgHeard
<1>9. AgOut'
  BY <1>1, <1>2 DEF AgCore, AgTypes, AgOut
<1>10. AgRuns'
  BY <1>1, <1>2 DEF AgCore, AgTypes, AgRuns
<1>11. AgLaunches'
  BY <1>1 DEF AgCore, AgLaunches
<1>12. AgDeletes'
  BY <1>1, <1>2 DEF AgCore, AgTypes, AgDeletes, OutOfReach
<1> QED BY <1>3, <1>4, <1>5, <1>6, <1>7, <1>8, <1>9, <1>10, <1>11, <1>12 DEF AgCore

LEMMA AgAgentLeavesKeeps ==
  ASSUME AgCore, NEW j \in AgJobs, Jobs!AgentLeaves(j)
  PROVE  AgCore'
<1>1. /\ UNCHANGED <<agConn, agReg, agRunning, agJobTo, agJob, agDispJobs, agTerm>>
      /\ UNCHANGED <<agUpd, agDel, agUsed, agDisp, agAdding>>
  BY DEF Jobs!AgentLeaves, Jobs!agHandler, Jobs!agClient, Jobs!agRoom, Jobs!agAgents
<1>2. /\ agAgent[j] = "in"
      /\ agAgent' = [agAgent EXCEPT ![j] = "out"] /\ agMember' = agMember \ {j}
      /\ agLeft' = IF j \in agMember THEN agLeft \cup {j} ELSE agLeft
  BY DEF Jobs!AgentLeaves, Jobs!Leaves
<1>3. j \in agMember => agJob[j].pc \in {"launched", "done"}
  BY DEF AgCore, AgHeard
<1>4. /\ agExcused' \in [AgJobs -> SUBSET AgWhys]
      /\ j \in agMember => agExcused'[j] = agExcused[j]
      /\ j \notin agMember => agExcused'[j] = agExcused[j] \cup {"early"}
      /\ \A i \in AgJobs : i # j => agExcused'[i] = agExcused[i]
  BY DEF Jobs!AgentLeaves, AgCore, AgTypes, AgWhys
<1>5. AgTypes'
  BY <1>1, <1>2, <1>3, <1>4 DEF AgCore, AgTypes
<1>6. AgAskedStay'
  BY <1>1 DEF AgCore, AgAskedStay
<1>7. AgAssigned'
  BY <1>1, <1>2, <1>3, <1>4 DEF AgCore, AgTypes, AgAssigned
<1>8. AgRecorded'
  BY <1>1, <1>2, <1>3, <1>4 DEF AgCore, AgTypes, AgRecorded
<1>9. AgEnded'
  BY <1>1, <1>2, <1>3, <1>4 DEF AgCore, AgTypes, AgEnded
<1>10. AgHeard'
  BY <1>1, <1>2, <1>3, <1>4 DEF AgCore, AgTypes, AgHeard
<1>11. AgOut'
  BY <1>1, <1>2, <1>3, <1>4 DEF AgCore, AgTypes, AgOut
<1>12. AgRuns'
  BY <1>1, <1>2, <1>3, <1>4 DEF AgCore, AgTypes, AgRuns
<1>13. AgLaunches'
  BY <1>1 DEF AgCore, AgLaunches
<1>14. AgDeletes'
  BY <1>1, <1>2, <1>3, <1>4 DEF AgCore, AgTypes, AgDeletes, OutOfReach
<1> QED BY <1>5, <1>6, <1>7, <1>8, <1>9, <1>10, <1>11, <1>12, <1>13, <1>14 DEF AgCore

(* The deletion terminates a job that runs.                                 *)
LEMMA AgTerminatesKeeps ==
  ASSUME AgCore, NEW j \in AgJobs, agDel.pc = "terminate", j \in agDel.todo,
         Jobs!Terminable(j), Jobs!TerminateJob(j),
         agDel' = [agDel EXCEPT !.pc = "remove", !.wait = {j}, !.todo = @ \ {j}],
         UNCHANGED <<agConn, agReg, agJobTo, agJob, agDispJobs, agMember, agAgent>>,
         UNCHANGED <<agUpd, agLeft, agExcused, agUsed, agDisp, agAdding>>
  PROVE  AgCore'
<1>1. /\ UNCHANGED <<agConn, agReg, agJobTo, agJob, agDispJobs, agMember, agAgent>>
      /\ UNCHANGED <<agUpd, agLeft, agExcused, agUsed, agDisp, agAdding>>
  OBVIOUS
<1>2. agJobTo[j] = agJob[j].worker /\ j \in agRunning[agJob[j].worker] /\ agJob[j].worker \in AgWorkers
  BY DEF Jobs!Terminable, Jobs!NoWorker, AgCore, AgTypes, AgRecorded
<1>3. /\ agRunning' \in [AgWorkers -> SUBSET AgJobs]
      /\ \A i \in AgJobs, w \in AgWorkers : i # j => (i \in agRunning'[w] <=> i \in agRunning[w])
      /\ \A w \in AgWorkers : j \notin agRunning'[w]
  BY <1>2 DEF Jobs!TerminateJob, AgCore, AgTypes, AgRecorded
<1>4. /\ agTerm \subseteq agTerm' /\ agTerm' \subseteq agTerm \cup {j}
      /\ agJob[j].worker \in agConn => j \in agTerm'
  BY <1>2 DEF Jobs!TerminateJob
<1>5. /\ agDel' \in [pc : AgDelPcs, wait : SUBSET AgJobs, todo : SUBSET AgJobs]
      /\ agDel'.pc = "remove" /\ agDel'.wait = {j} /\ agDel'.todo = agDel.todo \ {j}
  BY DEF AgCore, AgTypes, AgDelPcs
<1>6. j \in agDispJobs /\ agJob[j].pc \in {"launched", "done"} /\ agDel.todo \subseteq agDispJobs
  BY DEF AgCore, AgHeard, AgDeletes
<1>7. AgTypes'
  BY <1>1, <1>2, <1>3, <1>4, <1>5, <1>6 DEF AgCore, AgTypes
<1>8. AgAskedStay'
  BY <1>1 DEF AgCore, AgAskedStay
<1>9. AgAssigned'
  BY <1>1 DEF AgCore, AgAssigned
<1>10. AgRecorded'
  BY <1>1, <1>2, <1>3, <1>4, <1>5, <1>6 DEF AgCore, AgTypes, AgRecorded
<1>11. AgEnded'
  BY <1>1, <1>2, <1>3, <1>4, <1>5, <1>6 DEF AgCore, AgTypes, AgEnded
<1>12. AgHeard'
  BY <1>1 DEF AgCore, AgHeard
<1>13. AgOut'
  BY <1>1, <1>2, <1>3, <1>4, <1>5, <1>6 DEF AgCore, AgTypes, AgOut
<1>14. AgRuns'
  BY <1>1, <1>2, <1>3, <1>4, <1>5, <1>6 DEF AgCore, AgTypes, AgRuns
<1>15. AgLaunches'
  BY <1>1, <1>2, <1>3, <1>4, <1>5, <1>6 DEF AgCore, AgTypes, AgLaunches
<1>16. AgDeletes'
  BY <1>1, <1>2, <1>3, <1>4, <1>5, <1>6 DEF AgCore, AgTypes, AgDeletes, OutOfReach
<1> QED BY <1>7, <1>8, <1>9, <1>10, <1>11, <1>12, <1>13, <1>14, <1>15, <1>16 DEF AgCore

(* The deletion passes over a job that does not run.                        *)
LEMMA AgPassesKeeps ==
  ASSUME AgCore, NEW j \in AgJobs, agDel.pc = "terminate", j \in agDel.todo,
         ~Jobs!Terminable(j), agDel' = [agDel EXCEPT !.todo = @ \ {j}],
         UNCHANGED <<agConn, agReg, agRunning, agJobTo, agJob, agDispJobs, agMember>>,
         UNCHANGED <<agAgent, agTerm, agUpd, agLeft, agExcused, agUsed, agDisp>>,
         UNCHANGED <<agAdding>>
  PROVE  AgCore'
<1>1. /\ UNCHANGED <<agConn, agReg, agRunning, agJobTo, agJob, agDispJobs, agMember>>
      /\ UNCHANGED <<agAgent, agTerm, agUpd, agLeft, agExcused, agUsed, agDisp>>
      /\ UNCHANGED <<agAdding>>
  OBVIOUS
<1>2. \A w \in agReg : agJob[j].pc # "mapping" /\ "hasty" \notin agExcused[j] => j \notin agRunning[w]
  BY AgentNames DEF Jobs!Terminable, Jobs!NoWorker, AgCore, AgTypes, AgRecorded
<1>3. /\ agDel' \in [pc : AgDelPcs, wait : SUBSET AgJobs, todo : SUBSET AgJobs]
      /\ agDel'.pc = "terminate" /\ agDel'.wait = agDel.wait /\ agDel'.todo = agDel.todo \ {j}
  BY DEF AgCore, AgTypes, AgDelPcs
<1>4. j \in agDispJobs /\ agJob[j].pc \in {"launched", "done"} /\ agDel.todo \subseteq agDispJobs
  BY DEF AgCore, AgHeard, AgDeletes
<1>5. agAgent[j] \in {"told", "in"} => OutOfReach(j)
  BY <1>2, <1>4 DEF AgCore, AgTypes, AgRuns, AgEnded, OutOfReach
<1>6. AgTypes'
  BY <1>1, <1>2, <1>3, <1>4, <1>5 DEF AgCore, AgTypes
<1>7. AgAskedStay'
  BY <1>1 DEF AgCore, AgAskedStay
<1>8. AgAssigned'
  BY <1>1 DEF AgCore, AgAssigned
<1>9. AgRecorded'
  BY <1>1 DEF AgCore, AgRecorded
<1>10. AgEnded'
  BY <1>1 DEF AgCore, AgEnded
<1>11. AgHeard'
  BY <1>1 DEF AgCore, AgHeard
<1>12. AgOut'
  BY <1>1 DEF AgCore, AgOut
<1>13. AgRuns'
  BY <1>1, <1>2, <1>3, <1>4, <1>5 DEF AgCore, AgTypes, AgRuns
<1>14. AgLaunches'
  BY <1>1, <1>2, <1>3, <1>4, <1>5 DEF AgCore, AgTypes, AgLaunches
<1>15. AgDeletes'
  BY <1>1, <1>2, <1>3, <1>4, <1>5 DEF AgCore, AgTypes, AgDeletes, OutOfReach
<1> QED BY <1>6, <1>7, <1>8, <1>9, <1>10, <1>11, <1>12, <1>13, <1>14, <1>15 DEF AgCore

(* The call that terminates a job is lost.                                  *)
LEMMA AgUntoldKeeps ==
  ASSUME AgCore, NEW j \in AgJobs, agDel.pc = "terminate", j \in agDel.todo,
         Jobs!Loses, Jobs!Excuse(j, "unheard"), agDel' = [agDel EXCEPT !.todo = @ \ {j}],
         UNCHANGED <<agConn, agReg, agRunning, agJobTo, agJob, agDispJobs, agMember>>,
         UNCHANGED <<agAgent, agTerm, agUpd, agLeft, agDisp, agAdding>>
  PROVE  AgCore'
<1>1. /\ UNCHANGED <<agConn, agReg, agRunning, agJobTo, agJob, agDispJobs, agMember>>
      /\ UNCHANGED <<agAgent, agTerm, agUpd, agLeft, agDisp, agAdding>>
  OBVIOUS
<1>2. agUsed' \in [lost : Nat, drops : Nat] /\ agUsed'.drops = agUsed.drops
  BY DEF Jobs!Loses, AgCore, AgTypes
<1>3. /\ agExcused' \in [AgJobs -> SUBSET AgWhys]
      /\ agExcused'[j] = agExcused[j] \cup {"unheard"}
      /\ \A i \in AgJobs : i # j => agExcused'[i] = agExcused[i]
  BY DEF Jobs!Excuse, AgCore, AgTypes, AgWhys
<1>4. /\ agDel' \in [pc : AgDelPcs, wait : SUBSET AgJobs, todo : SUBSET AgJobs]
      /\ agDel'.pc = "terminate" /\ agDel'.wait = agDel.wait /\ agDel'.todo = agDel.todo \ {j}
  BY DEF AgCore, AgTypes, AgDelPcs
<1>5. j \in agDispJobs /\ agJob[j].pc \in {"launched", "done"} /\ agDel.todo \subseteq agDispJobs
  BY DEF AgCore, AgHeard, AgDeletes
<1>6. AgTypes'
  BY <1>1, <1>2, <1>3, <1>4, <1>5 DEF AgCore, AgTypes
<1>7. AgAskedStay'
  BY <1>1, <1>2, <1>3, <1>4, <1>5 DEF AgCore, AgTypes, AgAskedStay
<1>8. AgAssigned'
  BY <1>1 DEF AgCore, AgAssigned
<1>9. AgRecorded'
  BY <1>1, <1>2, <1>3, <1>4, <1>5 DEF AgCore, AgTypes, AgRecorded
<1>10. AgEnded'
  BY <1>1, <1>2, <1>3, <1>4, <1>5 DEF AgCore, AgTypes, AgEnded
<1>11. AgHeard'
  BY <1>1, <1>2, <1>3, <1>4, <1>5 DEF AgCore, AgTypes, AgHeard
<1>12. AgOut'
  BY <1>1, <1>2, <1>3, <1>4, <1>5 DEF AgCore, AgTypes, AgOut
<1>13. AgRuns'
  BY <1>1, <1>2, <1>3, <1>4, <1>5 DEF AgCore, AgTypes, AgRuns
<1>14. AgLaunches'
  BY <1>1, <1>2, <1>3, <1>4, <1>5 DEF AgCore, AgTypes, AgLaunches
<1>15. AgDeletes'
  BY <1>1, <1>2, <1>3, <1>4, <1>5 DEF AgCore, AgTypes, AgDeletes, OutOfReach
<1> QED BY <1>6, <1>7, <1>8, <1>9, <1>10, <1>11, <1>12, <1>13, <1>14, <1>15 DEF AgCore

LEMMA AgDeleteTerminatesKeeps ==
  ASSUME AgCore, NEW j \in AgJobs, Jobs!DeleteTerminates(j)
  PROVE  AgCore'
<1>1. /\ UNCHANGED <<agConn, agReg, agJobTo, agJob, agDisp, agAdding>>
      /\ UNCHANGED <<agDispJobs, agMember, agLeft, agAgent, agUpd>>
  BY DEF Jobs!DeleteTerminates
<1>2. agDel.pc = "terminate" /\ j \in agDel.todo
  BY DEF Jobs!DeleteTerminates
<1>3. CASE /\ Jobs!Terminable(j) /\ Jobs!TerminateJob(j)
           /\ agDel' = [agDel EXCEPT !.pc = "remove", !.wait = {j}, !.todo = @ \ {j}]
           /\ UNCHANGED <<agExcused, agUsed>>
  BY <1>1, <1>2, <1>3, AgTerminatesKeeps
<1>4. CASE /\ ~Jobs!Terminable(j)
           /\ agDel' = [agDel EXCEPT !.todo = @ \ {j}]
           /\ UNCHANGED <<agRunning, agTerm, agExcused, agUsed>>
  BY <1>1, <1>2, <1>4, AgPassesKeeps
<1>5. CASE /\ Jobs!Loses /\ Jobs!Excuse(j, "unheard")
           /\ agDel' = [agDel EXCEPT !.todo = @ \ {j}]
           /\ UNCHANGED <<agRunning, agTerm>>
  BY <1>1, <1>2, <1>5, AgUntoldKeeps
<1> QED BY <1>3, <1>4, <1>5 DEF Jobs!DeleteTerminates

(* The deletion removes the agent of the job, or finds it gone.             *)
LEMMA AgRemovesKeeps ==
  ASSUME AgCore, NEW j \in AgJobs, agDel.pc = "remove", agDel.wait = {j},
         agDel' = [agDel EXCEPT !.pc = "terminate", !.wait = {}],
         agAgent[j] = "in", Jobs!Leaves(j),
         UNCHANGED <<agConn, agReg, agRunning, agJobTo, agJob, agDispJobs, agTerm>>,
         UNCHANGED <<agUpd, agExcused, agUsed, agDisp, agAdding>>
  PROVE  AgCore'
<1>1. /\ UNCHANGED <<agConn, agReg, agRunning, agJobTo, agJob, agDispJobs, agTerm>>
      /\ UNCHANGED <<agUpd, agExcused, agUsed, agDisp, agAdding>>
  OBVIOUS
<1>2. /\ agDel' \in [pc : AgDelPcs, wait : SUBSET AgJobs, todo : SUBSET AgJobs]
      /\ agDel'.pc = "terminate" /\ agDel'.wait = {} /\ agDel'.todo = agDel.todo
  BY DEF AgCore, AgTypes, AgDelPcs
<1>3. agJob[j].pc \in {"launched", "done"} /\ \A w \in AgWorkers : j \notin agRunning[w]
  BY DEF AgCore, AgDeletes
<1>4. /\ agAgent' = [agAgent EXCEPT ![j] = "out"] /\ agMember' = agMember \ {j}
      /\ agLeft' = IF j \in agMember THEN agLeft \cup {j} ELSE agLeft
  BY DEF Jobs!Leaves
<1>5. AgTypes'
  BY <1>1, <1>2, <1>3, <1>4 DEF AgCore, AgTypes
<1>6. AgAskedStay'
  BY <1>1 DEF AgCore, AgAskedStay
<1>7. AgAssigned'
  BY <1>1, <1>2, <1>3, <1>4 DEF AgCore, AgTypes, AgAssigned
<1>8. AgRecorded'
  BY <1>1, <1>2, <1>3, <1>4 DEF AgCore, AgTypes, AgRecorded
<1>9. AgEnded'
  BY <1>1, <1>2, <1>3, <1>4 DEF AgCore, AgTypes, AgEnded
<1>10. AgHeard'
  BY <1>1, <1>2, <1>3, <1>4 DEF AgCore, AgTypes, AgHeard
<1>11. AgOut'
  BY <1>1, <1>2, <1>3, <1>4 DEF AgCore, AgTypes, AgOut
<1>12. AgRuns'
  BY <1>1, <1>2, <1>3, <1>4 DEF AgCore, AgTypes, AgRuns
<1>13. AgLaunches'
  BY <1>1, <1>2, <1>3, <1>4 DEF AgCore, AgTypes, AgLaunches
<1>14. AgDeletes'
  BY <1>1, <1>2, <1>3, <1>4 DEF AgCore, AgTypes, AgDeletes, OutOfReach
<1> QED BY <1>5, <1>6, <1>7, <1>8, <1>9, <1>10, <1>11, <1>12, <1>13, <1>14 DEF AgCore

LEMMA AgFindsGoneKeeps ==
  ASSUME AgCore, NEW j \in AgJobs, agDel.pc = "remove", agDel.wait = {j},
         agDel' = [agDel EXCEPT !.pc = "terminate", !.wait = {}],
         agAgent[j] # "in",
         UNCHANGED <<agConn, agReg, agRunning, agJobTo, agJob, agDispJobs, agMember>>,
         UNCHANGED <<agAgent, agTerm, agUpd, agLeft, agExcused, agUsed, agDisp>>,
         UNCHANGED <<agAdding>>
  PROVE  AgCore'
<1>1. /\ UNCHANGED <<agConn, agReg, agRunning, agJobTo, agJob, agDispJobs, agMember>>
      /\ UNCHANGED <<agAgent, agTerm, agUpd, agLeft, agExcused, agUsed, agDisp>>
      /\ UNCHANGED <<agAdding>>
  OBVIOUS
<1>2. /\ agDel' \in [pc : AgDelPcs, wait : SUBSET AgJobs, todo : SUBSET AgJobs]
      /\ agDel'.pc = "terminate" /\ agDel'.wait = {} /\ agDel'.todo = agDel.todo
  BY DEF AgCore, AgTypes, AgDelPcs
<1>3. agJob[j].pc \in {"launched", "done"} /\ \A w \in AgWorkers : j \notin agRunning[w]
  BY DEF AgCore, AgDeletes
<1>4. AgTypes'
  BY <1>1, <1>2, <1>3 DEF AgCore, AgTypes
<1>5. AgAskedStay'
  BY <1>1 DEF AgCore, AgAskedStay
<1>6. AgAssigned'
  BY <1>1 DEF AgCore, AgAssigned
<1>7. AgRecorded'
  BY <1>1 DEF AgCore, AgRecorded
<1>8. AgEnded'
  BY <1>1 DEF AgCore, AgEnded
<1>9. AgHeard'
  BY <1>1 DEF AgCore, AgHeard
<1>10. AgOut'
  BY <1>1 DEF AgCore, AgOut
<1>11. AgRuns'
  BY <1>1, <1>2, <1>3 DEF AgCore, AgTypes, AgRuns
<1>12. AgLaunches'
  BY <1>1, <1>2, <1>3 DEF AgCore, AgTypes, AgLaunches
<1>13. AgDeletes'
  BY <1>1, <1>2, <1>3 DEF AgCore, AgTypes, AgDeletes, OutOfReach
<1> QED BY <1>4, <1>5, <1>6, <1>7, <1>8, <1>9, <1>10, <1>11, <1>12, <1>13 DEF AgCore

LEMMA AgDeleteRemovesKeeps ==
  ASSUME AgCore, Jobs!DeleteRemoves
  PROVE  AgCore'
<1>1. /\ UNCHANGED <<agConn, agReg, agRunning, agJobTo, agJob, agDisp, agAdding>>
      /\ UNCHANGED <<agDispJobs, agTerm, agUpd, agExcused, agUsed>>
  BY DEF Jobs!DeleteRemoves, Jobs!agHandler
<1>2. agDel.pc = "remove" /\ agDel' = [agDel EXCEPT !.pc = "terminate", !.wait = {}]
  BY DEF Jobs!DeleteRemoves
<1>3. PICK j \in AgJobs : agDel.wait = {j}
  BY <1>2 DEF AgCore, AgDeletes
<1>4. IF agAgent[j] = "in" THEN Jobs!Leaves(j) ELSE UNCHANGED <<agAgent, agMember, agLeft>>
  BY <1>3 DEF Jobs!DeleteRemoves
<1>5. CASE agAgent[j] = "in"
  BY <1>1, <1>2, <1>3, <1>4, <1>5, AgRemovesKeeps
<1>6. CASE agAgent[j] # "in"
  BY <1>1, <1>2, <1>3, <1>4, <1>6, AgFindsGoneKeeps
<1> QED BY <1>5, <1>6

(* The handler hears that the agent left.                                   *)
LEMMA AgTellTerminatesKeeps ==
  ASSUME AgCore, NEW j \in AgJobs, j \in agLeft, agLeft' = agLeft \ {j},
         Jobs!Terminable(j), Jobs!TerminateJob(j),
         UNCHANGED <<agConn, agReg, agJobTo, agJob, agDispJobs, agMember, agAgent>>,
         UNCHANGED <<agUpd, agDel, agExcused, agUsed, agDisp, agAdding>>
  PROVE  AgCore'
<1>1. /\ UNCHANGED <<agConn, agReg, agJobTo, agJob, agDispJobs, agMember, agAgent>>
      /\ UNCHANGED <<agUpd, agDel, agExcused, agUsed, agDisp, agAdding>>
  OBVIOUS
<1>2. agJobTo[j] = agJob[j].worker /\ j \in agRunning[agJob[j].worker] /\ agJob[j].worker \in AgWorkers
  BY DEF Jobs!Terminable, Jobs!NoWorker, AgCore, AgTypes, AgRecorded
<1>3. /\ agRunning' \in [AgWorkers -> SUBSET AgJobs]
      /\ \A i \in AgJobs, w \in AgWorkers : i # j => (i \in agRunning'[w] <=> i \in agRunning[w])
      /\ \A w \in AgWorkers : j \notin agRunning'[w]
  BY <1>2 DEF Jobs!TerminateJob, AgCore, AgTypes, AgRecorded
<1>4. /\ agTerm \subseteq agTerm' /\ agTerm' \subseteq agTerm \cup {j}
      /\ agJob[j].worker \in agConn => j \in agTerm'
  BY <1>2 DEF Jobs!TerminateJob
<1>5. agAgent[j] = "out" /\ agJob[j].pc \in {"launched", "done"}
  BY DEF AgCore, AgOut
<1>6. AgTypes'
  BY <1>1, <1>2, <1>3, <1>4, <1>5 DEF AgCore, AgTypes
<1>7. AgAskedStay'
  BY <1>1 DEF AgCore, AgAskedStay
<1>8. AgAssigned'
  BY <1>1 DEF AgCore, AgAssigned
<1>9. AgRecorded'
  BY <1>1, <1>2, <1>3, <1>4, <1>5 DEF AgCore, AgTypes, AgRecorded
<1>10. AgEnded'
  BY <1>1, <1>2, <1>3, <1>4, <1>5 DEF AgCore, AgTypes, AgEnded
<1>11. AgHeard'
  BY <1>1 DEF AgCore, AgHeard
<1>12. AgOut'
  BY <1>1, <1>2, <1>3, <1>4, <1>5 DEF AgCore, AgTypes, AgOut
<1>13. AgRuns'
  BY <1>1, <1>2, <1>3, <1>4, <1>5 DEF AgCore, AgTypes, AgRuns
<1>14. AgLaunches'
  BY <1>1 DEF AgCore, AgLaunches
<1>15. AgDeletes'
  BY <1>1, <1>2, <1>3, <1>4, <1>5 DEF AgCore, AgTypes, AgDeletes, OutOfReach
<1> QED BY <1>6, <1>7, <1>8, <1>9, <1>10, <1>11, <1>12, <1>13, <1>14, <1>15 DEF AgCore

LEMMA AgTellPassesKeeps ==
  ASSUME AgCore, NEW j \in AgJobs, j \in agLeft, agLeft' = agLeft \ {j},
         ~Jobs!Terminable(j),
         UNCHANGED <<agConn, agReg, agRunning, agJobTo, agJob, agDispJobs, agMember>>,
         UNCHANGED <<agAgent, agTerm, agUpd, agDel, agExcused, agUsed, agDisp>>,
         UNCHANGED <<agAdding>>
  PROVE  AgCore'
<1>1. /\ UNCHANGED <<agConn, agReg, agRunning, agJobTo, agJob, agDispJobs, agMember>>
      /\ UNCHANGED <<agAgent, agTerm, agUpd, agDel, agExcused, agUsed, agDisp>>
      /\ UNCHANGED <<agAdding>>
  OBVIOUS
<1>2. \A w \in agReg : agJob[j].pc # "mapping" /\ "hasty" \notin agExcused[j] => j \notin agRunning[w]
  BY AgentNames DEF Jobs!Terminable, Jobs!NoWorker, AgCore, AgTypes, AgRecorded
<1>3. agAgent[j] = "out" /\ agJob[j].pc \in {"launched", "done"}
  BY DEF AgCore, AgOut
<1>4. AgTypes'
  BY <1>1, <1>2, <1>3 DEF AgCore, AgTypes
<1>5. AgAskedStay'
  BY <1>1 DEF AgCore, AgAskedStay
<1>6. AgAssigned'
  BY <1>1 DEF AgCore, AgAssigned
<1>7. AgRecorded'
  BY <1>1 DEF AgCore, AgRecorded
<1>8. AgEnded'
  BY <1>1 DEF AgCore, AgEnded
<1>9. AgHeard'
  BY <1>1 DEF AgCore, AgHeard
<1>10. AgOut'
  BY <1>1, <1>2, <1>3 DEF AgCore, AgTypes, AgOut
<1>11. AgRuns'
  BY <1>1 DEF AgCore, AgRuns
<1>12. AgLaunches'
  BY <1>1 DEF AgCore, AgLaunches
<1>13. AgDeletes'
  BY <1>1 DEF AgCore, AgDeletes, OutOfReach
<1> QED BY <1>4, <1>5, <1>6, <1>7, <1>8, <1>9, <1>10, <1>11, <1>12, <1>13 DEF AgCore

LEMMA AgTellLostKeeps ==
  ASSUME AgCore, NEW j \in AgJobs, j \in agLeft, agLeft' = agLeft \ {j},
         Jobs!Loses, Jobs!Excuse(j, "unheard"),
         UNCHANGED <<agConn, agReg, agRunning, agJobTo, agJob, agDispJobs, agMember>>,
         UNCHANGED <<agAgent, agTerm, agUpd, agDel, agDisp, agAdding>>
  PROVE  AgCore'
<1>1. /\ UNCHANGED <<agConn, agReg, agRunning, agJobTo, agJob, agDispJobs, agMember>>
      /\ UNCHANGED <<agAgent, agTerm, agUpd, agDel, agDisp, agAdding>>
  OBVIOUS
<1>2. agUsed' \in [lost : Nat, drops : Nat] /\ agUsed'.drops = agUsed.drops
  BY DEF Jobs!Loses, AgCore, AgTypes
<1>3. /\ agExcused' \in [AgJobs -> SUBSET AgWhys]
      /\ agExcused'[j] = agExcused[j] \cup {"unheard"}
      /\ \A i \in AgJobs : i # j => agExcused'[i] = agExcused[i]
  BY DEF Jobs!Excuse, AgCore, AgTypes, AgWhys
<1>4. agAgent[j] = "out" /\ agJob[j].pc \in {"launched", "done"}
  BY DEF AgCore, AgOut
<1>5. AgTypes'
  BY <1>1, <1>2, <1>3, <1>4 DEF AgCore, AgTypes
<1>6. AgAskedStay'
  BY <1>1, <1>2, <1>3, <1>4 DEF AgCore, AgTypes, AgAskedStay
<1>7. AgAssigned'
  BY <1>1 DEF AgCore, AgAssigned
<1>8. AgRecorded'
  BY <1>1, <1>2, <1>3, <1>4 DEF AgCore, AgTypes, AgRecorded
<1>9. AgEnded'
  BY <1>1, <1>2, <1>3, <1>4 DEF AgCore, AgTypes, AgEnded
<1>10. AgHeard'
  BY <1>1, <1>2, <1>3, <1>4 DEF AgCore, AgTypes, AgHeard
<1>11. AgOut'
  BY <1>1, <1>2, <1>3, <1>4 DEF AgCore, AgTypes, AgOut
<1>12. AgRuns'
  BY <1>1 DEF AgCore, AgRuns
<1>13. AgLaunches'
  BY <1>1 DEF AgCore, AgLaunches
<1>14. AgDeletes'
  BY <1>1, <1>2, <1>3, <1>4 DEF AgCore, AgTypes, AgDeletes, OutOfReach
<1> QED BY <1>5, <1>6, <1>7, <1>8, <1>9, <1>10, <1>11, <1>12, <1>13, <1>14 DEF AgCore

LEMMA AgTellLeftKeeps ==
  ASSUME AgCore, NEW j \in AgJobs, Jobs!TellLeft(j)
  PROVE  AgCore'
<1>1. /\ UNCHANGED <<agConn, agReg, agJobTo, agJob, agDisp, agAdding>>
      /\ UNCHANGED <<agDispJobs, agMember, agDel, agAgent, agUpd>>
  BY DEF Jobs!TellLeft
<1>2. j \in agLeft /\ agLeft' = agLeft \ {j}
  BY DEF Jobs!TellLeft
<1>3. CASE Jobs!Terminable(j) /\ Jobs!TerminateJob(j) /\ UNCHANGED <<agExcused, agUsed>>
  BY <1>1, <1>2, <1>3, AgTellTerminatesKeeps
<1>4. CASE ~Jobs!Terminable(j) /\ UNCHANGED <<agRunning, agTerm>> /\ UNCHANGED <<agExcused, agUsed>>
  BY <1>1, <1>2, <1>4, AgTellPassesKeeps
<1>5. CASE Jobs!Loses /\ Jobs!Excuse(j, "unheard") /\ UNCHANGED <<agRunning, agTerm>>
  BY <1>1, <1>2, <1>5, AgTellLostKeeps
<1> QED BY <1>3, <1>4, <1>5 DEF Jobs!TellLeft

(* The client's cache: what is known in it depends on three variables and   *)
(* on who is registered.                                                    *)
LEMMA AgCacheStays ==
  ASSUME AgCache, UNCHANGED <<agAns, agSnap, agCur, agEvent>>, agReg' # {} => agReg # {}
  PROVE  AgCache'
BY DEF AgCache, Jobs!CacheIsTrue

LEMMA AgRegisterCaches ==
  ASSUME AgCache, NEW w \in AgWorkers, Jobs!RegisterWorker(w)
  PROVE  AgCache'
<1>1. UNCHANGED <<agAns, agSnap, agCur>> /\ (~agEvent' => ~agEvent /\ agReg # {})
  BY DEF Jobs!RegisterWorker
<1> QED BY <1>1 DEF AgCache, Jobs!CacheIsTrue

LEMMA AgForgets ==
  ASSUME AgCache, Jobs!Invalidate \/ Jobs!CacheExpires
  PROVE  AgCache'
<1>1. UNCHANGED <<agAns, agSnap>> /\ agCur' = 0
  BY DEF Jobs!Invalidate, Jobs!CacheExpires
<1> QED BY <1>1 DEF AgCache, Jobs!CacheIsTrue

LEMMA AgCheckCaches ==
  ASSUME AgCache, NEW g \in DOMAIN agAns, Jobs!CheckEnabled(g)
  PROVE  AgCache'
<1>1. /\ UNCHANGED <<agAns, agCur, agReg, agEvent>>
      /\ agSnap' = [agSnap EXCEPT ![g] = IF agReg # {} THEN "yes" ELSE "no"]
  BY DEF Jobs!CheckEnabled, Jobs!agHandler
<1>2. agSnap' \in Seq({"none", "yes", "no"}) /\ Len(agSnap') = Len(agSnap) /\ DOMAIN agSnap = DOMAIN agAns
  BY <1>1 DEF AgCache
<1>3. agReg # {} /\ agCur # 0 => agSnap'[agCur] = "yes" \/ agSnap'[agCur] = agSnap[agCur]
  BY <1>1, <1>2 DEF AgCache
<1> QED BY <1>1, <1>2, <1>3 DEF AgCache, Jobs!CacheIsTrue

LEMMA AgEnabledCaches ==
  ASSUME AgCache, NEW g \in DOMAIN agAns, Jobs!Enabled(g)
  PROVE  AgCache'
<1>1. /\ UNCHANGED <<agSnap, agCur, agReg, agEvent>>
      /\ agAns' = [agAns EXCEPT ![g] = agSnap[g]] /\ agSnap[g] # "none"
  BY DEF Jobs!Enabled, Jobs!agHandler
<1>2. DOMAIN agSnap = DOMAIN agAns /\ agSnap[g] \in {"yes", "no"}
  BY <1>1 DEF AgCache
<1>3. agAns' \in Seq({"asking", "yes", "no"}) /\ Len(agAns') = Len(agAns)
  BY <1>1, <1>2 DEF AgCache
<1>4. agCur # 0 => agAns'[agCur] = agSnap[agCur] \/ agAns'[agCur] = agAns[agCur]
  BY <1>1 DEF AgCache
<1> QED BY <1>1, <1>3, <1>4 DEF AgCache, Jobs!CacheIsTrue

LEMMA AgGetCaches ==
  ASSUME AgCache, NEW j \in AgJobs, Jobs!GetDispatcher(j)
  PROVE  AgCache'
<1>1. UNCHANGED <<agReg, agEvent>>
  BY DEF Jobs!GetDispatcher, Jobs!agHandler
<1>2. CASE UNCHANGED <<agCur, agAns, agSnap>>
  BY <1>1, <1>2, AgCacheStays
<1>3. CASE /\ agAns' = Append(agAns, "asking") /\ agSnap' = Append(agSnap, "none")
           /\ agCur' = Len(agAns')
  <2>1. agAns' \in Seq({"asking", "yes", "no"}) /\ agSnap' \in Seq({"none", "yes", "no"})
    BY <1>3 DEF AgCache
  <2>2. Len(agAns') = Len(agAns) + 1 /\ Len(agSnap') = Len(agSnap) + 1 /\ Len(agAns) \in Nat
    BY <1>3 DEF AgCache
  <2>3. agAns'[agCur'] = "asking" /\ agSnap'[agCur'] = "none"
    BY <1>3, <2>2 DEF AgCache
  <2> QED BY <1>3, <2>1, <2>2, <2>3 DEF AgCache, Jobs!CacheIsTrue
<1> QED BY <1>2, <1>3 DEF Jobs!GetDispatcher

LEMMA AgCoreNextKeeps ==
  ASSUME AgCore, AgCache, Jobs!AgNext
  PROVE  AgCore'
<1>1. ASSUME NEW w \in AgWorkers,
             \/ Jobs!RegisterWorker(w) \/ Jobs!UpdateWorker(w)
             \/ Jobs!DeregisterWorker(w) \/ Jobs!CloseWorker(w)
      PROVE  AgCore'
  <2>1. CASE Jobs!UpdateWorker(w)
    BY <2>1, AgCoreStays DEF Jobs!UpdateWorker, Jobs!agRoom, Jobs!agAgents
  <2> QED BY <1>1, <2>1, AgRegisterKeeps, AgDeregisterWorkerKeeps, AgCloseWorkerKeeps
<1>2. ASSUME Jobs!Invalidate \/ Jobs!CacheExpires
      PROVE  AgCore'
  BY <1>2, AgCoreStays DEF Jobs!Invalidate, Jobs!CacheExpires, Jobs!agHandler, Jobs!agRoom, Jobs!agAgents
<1>3. ASSUME NEW g \in DOMAIN agAns, Jobs!CheckEnabled(g) \/ Jobs!Enabled(g)
      PROVE  AgCore'
  BY <1>3, AgCoreStays DEF Jobs!CheckEnabled, Jobs!Enabled, Jobs!agHandler, Jobs!agRoom, Jobs!agAgents
<1>4. ASSUME NEW j \in AgJobs,
             \/ Jobs!GetDispatcher(j) \/ Jobs!LaunchJob(j) \/ Jobs!SelectWorker(j)
             \/ Jobs!HandleAvailability(j) \/ Jobs!Answered(j) \/ Jobs!AssignFails(j)
             \/ Jobs!RecordRunning(j) \/ Jobs!MapJob(j) \/ Jobs!AnswerIsLost(j)
             \/ Jobs!HandleNewJob(j) \/ Jobs!Launched(j) \/ Jobs!LaunchTargetAgents(j)
             \/ Jobs!DeleteTerminates(j) \/ Jobs!TellLeft(j) \/ Jobs!UpdateJobEnded(j)
             \/ Jobs!DeregisterJob(j) \/ Jobs!AgentJoins(j) \/ Jobs!AgentLeaves(j)
      PROVE  AgCore'
  <2>1. CASE Jobs!Answered(j)
    BY <2>1, AgRefusedKeeps, AgAssignedKeeps
  <2>2. CASE \/ Jobs!GetDispatcher(j) \/ Jobs!LaunchJob(j) \/ Jobs!SelectWorker(j)
             \/ Jobs!HandleAvailability(j) \/ Jobs!AssignFails(j)
    BY <2>2, AgGetDispatcherKeeps, AgLaunchJobKeeps, AgSelectWorkerKeeps,
       AgHandleAvailabilityKeeps, AgAssignFailsKeeps
  <2>3. CASE \/ Jobs!RecordRunning(j) \/ Jobs!MapJob(j) \/ Jobs!AnswerIsLost(j)
             \/ Jobs!HandleNewJob(j) \/ Jobs!Launched(j) \/ Jobs!LaunchTargetAgents(j)
    BY <2>3, AgRecordRunningKeeps, AgMapJobKeeps, AgAnswerIsLostKeeps, AgHandleNewJobKeeps,
       AgLaunchedKeeps, AgLaunchTargetAgentsKeeps
  <2>4. CASE \/ Jobs!DeleteTerminates(j) \/ Jobs!TellLeft(j) \/ Jobs!UpdateJobEnded(j)
             \/ Jobs!DeregisterJob(j) \/ Jobs!AgentJoins(j) \/ Jobs!AgentLeaves(j)
    BY <2>4, AgDeleteTerminatesKeeps, AgTellLeftKeeps, AgUpdateJobEndedKeeps,
       AgDeregisterJobKeeps, AgAgentJoinsKeeps, AgAgentLeavesKeeps
  <2> QED BY <1>4, <2>1, <2>2, <2>3, <2>4
<1>5. ASSUME \/ Jobs!CreateAgentDispatch \/ Jobs!LaunchRoomAgents \/ Jobs!DeleteAgentDispatch
             \/ Jobs!CollectPending \/ Jobs!TakeJobs \/ Jobs!DeleteRemoves \/ Jobs!DeleteEnds
      PROVE  AgCore'
  BY <1>5, AgCreateKeeps, AgLaunchRoomAgentsKeeps, AgDeleteKeeps, AgCollectKeeps, AgTakeJobsKeeps,
     AgDeleteRemovesKeeps, AgDeleteEndsKeeps
<1> QED BY <1>1, <1>2, <1>3, <1>4, <1>5 DEF Jobs!AgNext

LEMMA AgCacheNextKeeps ==
  ASSUME AgCache, Jobs!AgNext
  PROVE  AgCache'
<1>1. ASSUME NEW w \in AgWorkers,
             \/ Jobs!RegisterWorker(w) \/ Jobs!UpdateWorker(w)
             \/ Jobs!DeregisterWorker(w) \/ Jobs!CloseWorker(w)
      PROVE  AgCache'
  <2>1. CASE Jobs!DeregisterWorker(w)
    BY <2>1, AgCacheStays DEF Jobs!DeregisterWorker, Jobs!agClient
  <2>2. CASE Jobs!UpdateWorker(w) \/ Jobs!CloseWorker(w)
    BY <2>2, AgCacheStays DEF Jobs!UpdateWorker, Jobs!CloseWorker, Jobs!agHandler, Jobs!agClient
  <2> QED BY <1>1, <2>1, <2>2, AgRegisterCaches
<1>2. ASSUME NEW j \in AgJobs,
             \/ Jobs!LaunchJob(j) \/ Jobs!SelectWorker(j)
             \/ Jobs!HandleAvailability(j) \/ Jobs!Answered(j) \/ Jobs!AssignFails(j)
             \/ Jobs!RecordRunning(j) \/ Jobs!MapJob(j) \/ Jobs!AnswerIsLost(j)
             \/ Jobs!HandleNewJob(j) \/ Jobs!Launched(j) \/ Jobs!LaunchTargetAgents(j)
             \/ Jobs!DeleteTerminates(j) \/ Jobs!TellLeft(j) \/ Jobs!UpdateJobEnded(j)
             \/ Jobs!DeregisterJob(j) \/ Jobs!AgentJoins(j) \/ Jobs!AgentLeaves(j)
      PROVE  AgCache'
  <2>1. CASE Jobs!LaunchJob(j) \/ Jobs!SelectWorker(j) \/ Jobs!HandleAvailability(j)
    BY <2>1, AgCacheStays DEF Jobs!LaunchJob, Jobs!SelectWorker, Jobs!HandleAvailability, Jobs!agHandler, Jobs!agClient
  <2>2. CASE Jobs!Answered(j) \/ Jobs!AssignFails(j) \/ Jobs!RecordRunning(j) \/ Jobs!MapJob(j)
    BY <2>2, AgCacheStays DEF Jobs!Answered, Jobs!AssignFails, Jobs!RecordRunning, Jobs!MapJob, Jobs!agHandler, Jobs!agClient
  <2>3. CASE Jobs!AnswerIsLost(j) \/ Jobs!HandleNewJob(j) \/ Jobs!Launched(j) \/ Jobs!LaunchTargetAgents(j)
    BY <2>3, AgCacheStays DEF Jobs!AnswerIsLost, Jobs!HandleNewJob, Jobs!Launched, Jobs!LaunchTargetAgents, Jobs!agHandler, Jobs!agClient
  <2>4. CASE Jobs!DeleteTerminates(j) \/ Jobs!TellLeft(j)
    BY <2>4, AgCacheStays DEF Jobs!DeleteTerminates, Jobs!TellLeft, Jobs!agHandler, Jobs!agClient
  <2>5. CASE \/ Jobs!UpdateJobEnded(j)
             \/ Jobs!DeregisterJob(j) \/ Jobs!AgentJoins(j) \/ Jobs!AgentLeaves(j)
    BY <2>5, AgCacheStays DEF Jobs!UpdateJobEnded, Jobs!DeregisterJob, Jobs!AgentJoins, Jobs!AgentLeaves, Jobs!agHandler, Jobs!agClient
  <2> QED BY <1>2, <2>1, <2>2, <2>3, <2>4, <2>5
<1>3. ASSUME \/ Jobs!CreateAgentDispatch \/ Jobs!LaunchRoomAgents \/ Jobs!DeleteAgentDispatch
             \/ Jobs!CollectPending \/ Jobs!TakeJobs \/ Jobs!DeleteRemoves \/ Jobs!DeleteEnds
      PROVE  AgCache'
  <2>1. CASE Jobs!CreateAgentDispatch \/ Jobs!LaunchRoomAgents \/ Jobs!DeleteAgentDispatch
    BY <2>1, AgCacheStays DEF Jobs!CreateAgentDispatch, Jobs!LaunchRoomAgents,
       Jobs!DeleteAgentDispatch, Jobs!agHandler, Jobs!agClient
  <2>2. CASE Jobs!CollectPending \/ Jobs!TakeJobs \/ Jobs!DeleteRemoves \/ Jobs!DeleteEnds
    BY <2>2, AgCacheStays DEF Jobs!CollectPending, Jobs!TakeJobs, Jobs!DeleteRemoves, Jobs!DeleteEnds, Jobs!agHandler, Jobs!agClient
  <2> QED BY <1>3, <2>1, <2>2
<1>4. (\E j \in AgJobs : Jobs!GetDispatcher(j)) => AgCache'
  BY AgGetCaches
<1>5. (\E g \in DOMAIN agAns : Jobs!CheckEnabled(g) \/ Jobs!Enabled(g)) => AgCache'
  BY AgCheckCaches, AgEnabledCaches
<1> QED BY <1>1, <1>2, <1>3, <1>4, <1>5, AgForgets DEF Jobs!AgNext

LEMMA AgInvStarts ==
  ASSUME Jobs!AgInit
  PROVE  AgInv
<1> USE DEF Jobs!AgInit, Jobs!NoWorker, Jobs!NotLaunched
<1>1. /\ agJob \in [AgJobs -> AgLaunch]
      /\ \A j \in AgJobs : agJob[j].pc = "none" /\ agJob[j].worker = "nobody"
  BY DEF AgLaunch, AgPcs
<1>2. /\ agDel \in [pc : AgDelPcs, wait : SUBSET AgJobs, todo : SUBSET AgJobs]
      /\ agDel.pc = "none" /\ agDel.todo = {}
  BY DEF AgDelPcs
<1>3. /\ \A j \in AgJobs : agAgent[j] = "none" /\ agJobTo[j] = "nobody" /\ agExcused[j] = {}
      /\ \A w \in AgWorkers : agRunning[w] = {}
  OBVIOUS
<1>4. AgTypes
  <2>1. agUsed \in [lost : Nat, drops : Nat] /\ agExcused \in [AgJobs -> SUBSET AgWhys]
    OBVIOUS
  <2> QED BY <1>1, <1>2, <2>1 DEF AgTypes
<1>5. AgAskedStay /\ AgAssigned /\ AgRecorded
  BY <1>1, <1>3 DEF AgAskedStay, AgAssigned, AgRecorded
<1>6. AgEnded /\ AgHeard /\ AgOut
  BY <1>1, <1>3 DEF AgEnded, AgHeard, AgOut
<1>7. AgRuns
  BY <1>1, <1>3 DEF AgRuns
<1>8. AgLaunches
  BY <1>1, <1>2, AgentNames DEF AgLaunches
<1>9. AgDeletes
  BY <1>2 DEF AgDeletes
<1>10. AgCache
  BY DEF AgCache, Jobs!CacheIsTrue
<1> QED BY <1>4, <1>5, <1>6, <1>7, <1>8, <1>9, <1>10 DEF AgInv, AgCore

(* What the invariant shows of a deletion, of an agent that has left and of *)
(* a job that runs.                                                         *)
LEMMA AgInvShows ==
  ASSUME AgInv
  PROVE  Jobs!DeletedIsOver /\ Jobs!LeftIsOver /\ Jobs!RunningIsKnown /\ Jobs!CacheIsTrue
<1> USE DEF AgInv, AgCore
<1>1. Jobs!DeletedIsOver
  BY DEF Jobs!DeletedIsOver, Jobs!RunningHere, AgTypes, AgDeletes, OutOfReach
<1>2. Jobs!LeftIsOver
  BY DEF Jobs!LeftIsOver, Jobs!RunningHere, AgTypes, AgOut
<1>3. Jobs!RunningIsKnown
  BY DEF Jobs!RunningIsKnown, AgTypes, AgRecorded
<1> QED BY <1>1, <1>2, <1>3 DEF AgCache

LEMMA AgStep ==
  ASSUME AgInv, [PartsNext]_allVars
  PROVE  AgInv'
<1>1. CASE AgentStep
  BY <1>1, AgCoreNextKeeps, AgCacheNextKeeps DEF AgentStep, AgInv
<1>2. ASSUME UNCHANGED agentVars
      PROVE  AgInv'
  <2>1. /\ UNCHANGED <<agConn, agReg, agRunning, agJobTo, agJob, agDispJobs>>
        /\ UNCHANGED <<agMember, agAgent, agTerm, agUpd, agLeft, agDel>>
        /\ UNCHANGED <<agExcused, agUsed, agDisp, agAdding>>
        /\ UNCHANGED <<agAns, agSnap, agCur, agEvent>>
    BY <1>2 DEF agentVars
  <2> QED BY <2>1, AgCoreStays, AgCacheStays DEF AgInv
<1>3. AgentStep \/ UNCHANGED agentVars
  <2>1. CASE PublishingStep
    BY <2>1 DEF PublishingStep
  <2>2. CASE DataStep \/ DataTrackStep
    BY <2>2 DEF DataStep, DataTrackStep
  <2>3. CASE IngressStep \/ EgressStep \/ DownTrackStep
    BY <2>3 DEF IngressStep, EgressStep, DownTrackStep
  <2>4. CASE UNCHANGED allVars
    BY <2>4 DEF allVars
  <2> QED BY <2>1, <2>2, <2>3, <2>4 DEF PartsNext
<1> QED BY <1>1, <1>2, <1>3

(* Once a dispatch has been deleted none of its jobs runs on and no agent   *)
(* of it is in the room; the job of an agent that has left is over; a job   *)
(* that runs can be terminated; and the client does not take it that there  *)
(* is no worker when one has been announced: for any workers, jobs and      *)
(* scenarios, with the races the code leaves open excused by name           *)
(* (pkg/rtc/room.go, pkg/agent/client.go, worker.go and                     *)
(* pkg/service/agentservice.go).                                            *)
THEOREM AgentsAgreeHolds == PartsSpec => []AgentsAgree
<1>1. PartsInit => AgInv
  BY AgInvStarts DEF PartsInit
<1>2. AgInv /\ [PartsNext]_allVars => AgInv'
  BY AgStep
<1>3. AgInv => AgentsAgree
  BY AgInvShows DEF AgentsAgree
<1> QED BY <1>1, <1>2, <1>3, PTL DEF PartsSpec
=============================================================================
