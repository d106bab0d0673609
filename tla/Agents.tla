------------------------------- MODULE Agents -------------------------------
(***************************************************************************)
(* Agent jobs: the dispatch of a room that launches and terminates them     *)
(* (pkg/rtc/room.go), the client that finds out whether there are workers   *)
(* and asks for the jobs (pkg/agent/client.go), the handler that assigns a  *)
(* job to one of its workers (pkg/service/agentservice.go) and the          *)
(* connection to each worker (pkg/agent/worker.go).                         *)
(*                                                                          *)
(* One dispatch of one room is modelled, with the jobs launched for it: job *)
(* 1 for the room, the others for participants that join.  Agents, the      *)
(* processes of the workers that join the room, are external.               *)
(***************************************************************************)
EXTENDS Integers, Sequences, FiniteSets

CONSTANTS
  AgWorkers,   \* agent workers
  AgJobs,      \* jobs, 1 .. number
  AgLimits     \* scenarios: records [workers, jobs, lost, drops, asks, ops]

VARIABLES
  agLimits,    \* the scenario
  agConn,      \* workers whose connection is not closed
  agReg,       \* workers the handler has registered
  agFull,      \* workers that say they are not available
  agAvail,     \* by worker, the jobs an answer is awaited for
  agRunning,   \* by worker, runningJobs
  agJobTo,     \* jobToWorker, with the terminate topic of the job
  agEvent,     \* WorkerRegistered is under way to the client
  agCur,       \* the dispatchers the client caches, a number, or 0
  agAns,       \* what has come into them: "asking", "yes", "no"
  agSnap,      \* what the handler has answered, under way
  agJob,       \* the launch of each job
  agDisp,      \* the dispatch: none, creating, created, deleted
  agAdding,    \* AddAgentDispatch is yet to launch the job of the room
  agDispJobs,  \* the jobs recorded in the dispatch
  agMember,    \* jobs whose agent is recorded as a participant
  agAgent,     \* the agent of each job
  agTerm,      \* jobs whose agent was sent a termination
  agUpd,       \* jobs whose end the handler is about to deregister
  agLeft,      \* jobs about which AGENT_LEFT_ROOM is under way
  agDel,       \* DeleteAgentDispatch's goroutine: [pc, wait, todo]
  agExcused,   \* by job, the races it met
  agUsed

agVars == <<agLimits, agConn, agReg, agFull, agAvail, agRunning, agJobTo, agEvent,
            agCur, agAns, agSnap, agJob, agDisp, agAdding, agDispJobs, agMember,
            agAgent, agTerm, agUpd, agLeft, agDel, agExcused, agUsed>>

agHandler == <<agReg, agFull, agAvail, agRunning, agJobTo>>
agClient  == <<agEvent, agCur, agAns, agSnap>>
agRoom    == <<agDisp, agAdding, agDispJobs, agMember, agLeft, agDel>>
agAgents  == <<agAgent, agTerm, agUpd>>

NoWorker == "nobody"
NotLaunched == [pc |-> "none", gen |-> 0, worker |-> NoWorker, tried |-> {}, answer |-> "none"]

AgInit ==
  /\ agLimits \in AgLimits
  /\ agConn = {} /\ agReg = {} /\ agFull = {}
  /\ agAvail = [w \in AgWorkers |-> {}] /\ agRunning = [w \in AgWorkers |-> {}]
  /\ agJobTo = [j \in AgJobs |-> NoWorker]
  /\ agEvent = FALSE /\ agCur = 0 /\ agAns = <<>> /\ agSnap = <<>>
  /\ agJob = [j \in AgJobs |-> NotLaunched]
  /\ agDisp = "none" /\ agAdding = FALSE /\ agDispJobs = {} /\ agMember = {}
  /\ agAgent = [j \in AgJobs |-> "none"] /\ agTerm = {} /\ agUpd = {}
  /\ agLeft = {} /\ agDel = [pc |-> "none", wait |-> {}, todo |-> {}]
  /\ agExcused = [j \in AgJobs |-> {}]
  /\ agUsed = [lost |-> 0, drops |-> 0]

Excuse(j, why) == agExcused' = [agExcused EXCEPT ![j] = @ \cup {why}]

Loses == agUsed.lost < agLimits.lost /\ agUsed' = [agUsed EXCEPT !.lost = @ + 1]

-----------------------------------------------------------------------------
(* Workers come and go *)

\* registerWorker; the first one of its kind is announced to the clients.
RegisterWorker(w) ==
  /\ w \in agLimits.workers /\ w \notin agReg \cup agConn
  /\ agUsed.drops = 0 \/ w \notin UNION {{agJob[j].worker} \cup agJob[j].tried : j \in AgJobs}
  /\ agConn' = agConn \cup {w}
  /\ agReg' = agReg \cup {w}
  /\ agEvent' = (agEvent \/ agReg = {})
  /\ UNCHANGED <<agLimits, agFull, agAvail, agRunning, agJobTo, agCur, agAns, agSnap,
                 agJob, agRoom, agAgents, agExcused, agUsed>>

\* HandleUpdateWorker: the worker says that it is full, or available again.
UpdateWorker(w) ==
  /\ "full" \in agLimits.ops /\ w \in agReg
  /\ agFull' = IF w \in agFull THEN agFull \ {w} ELSE agFull \cup {w}
  /\ UNCHANGED <<agLimits, agConn, agReg, agAvail, agRunning, agJobTo, agClient, agJob,
                 agRoom, agAgents, agExcused, agUsed>>

\* The read loop ends and deregisterWorker runs: the jobs that are running are
\* deregistered with it.
DeregisterWorker(w) ==
  /\ w \in agReg
  /\ agUsed.drops < agLimits.drops
  /\ agUsed' = [agUsed EXCEPT !.drops = @ + 1]
  /\ agReg' = agReg \ {w}
  /\ agJobTo' = [j \in AgJobs |-> IF j \in agRunning[w] THEN NoWorker ELSE agJobTo[j]]
  /\ UNCHANGED <<agLimits, agConn, agFull, agAvail, agRunning, agClient, agJob, agRoom,
                 agAgents, agExcused>>

\* Worker.Close, after the read loop, or by DrainConnections before it ends.
CloseWorker(w) ==
  /\ w \in agConn
  /\ w \notin agReg \/ agUsed.drops < agLimits.drops
  /\ agConn' = agConn \ {w}
  /\ UNCHANGED <<agLimits, agHandler, agClient, agJob, agRoom, agAgents, agExcused, agUsed>>

-----------------------------------------------------------------------------
(* The client's cache of what workers there are *)

\* A WorkerRegistered event empties the cache.
Invalidate ==
  /\ agEvent
  /\ agEvent' = FALSE /\ agCur' = 0
  /\ UNCHANGED <<agLimits, agConn, agHandler, agAns, agSnap, agJob, agRoom, agAgents,
                 agExcused, agUsed>>

\* The entries of the cache are a minute old.
CacheExpires ==
  /\ agCur # 0 /\ agAns[agCur] # "asking" /\ Len(agAns) < agLimits.asks
  /\ agCur' = 0
  /\ UNCHANGED <<agLimits, agConn, agHandler, agEvent, agAns, agSnap, agJob, agRoom,
                 agAgents, agExcused, agUsed>>

\* CheckEnabled at the handler, and its answer coming in at the client.
CheckEnabled(g) ==
  /\ agAns[g] = "asking" /\ agSnap[g] = "none"
  /\ agSnap' = [agSnap EXCEPT ![g] = IF agReg # {} THEN "yes" ELSE "no"]
  /\ UNCHANGED <<agLimits, agConn, agHandler, agEvent, agCur, agAns, agJob, agRoom,
                 agAgents, agExcused, agUsed>>

Enabled(g) ==
  /\ agAns[g] = "asking" /\ agSnap[g] # "none"
  /\ agAns' = [agAns EXCEPT ![g] = agSnap[g]]
  /\ UNCHANGED <<agLimits, agConn, agHandler, agEvent, agCur, agSnap, agJob, agRoom,
                 agAgents, agExcused, agUsed>>

\* getDispatcher: the cache, or new dispatchers that are being asked for.
GetDispatcher(j) ==
  /\ agJob[j].pc = "launching"
  /\ \/ /\ agCur # 0
        /\ agJob' = [agJob EXCEPT ![j].pc = "finding", ![j].gen = agCur]
        /\ UNCHANGED <<agCur, agAns, agSnap>>
     \/ /\ agCur = 0 /\ Len(agAns) < agLimits.asks
        /\ agAns' = Append(agAns, "asking") /\ agSnap' = Append(agSnap, "none")
        /\ agCur' = Len(agAns')
        /\ agJob' = [agJob EXCEPT ![j].pc = "finding", ![j].gen = agCur']
  /\ UNCHANGED <<agLimits, agConn, agHandler, agEvent, agRoom, agAgents, agExcused, agUsed>>

\* LaunchJob: nothing is dispatched when no worker is known of; otherwise
\* JobRequest is sent.
LaunchJob(j) ==
  /\ agJob[j].pc = "finding" /\ agAns[agJob[j].gen] # "asking"
  /\ agJob' = [agJob EXCEPT ![j].pc =
                 IF agAns[agJob[j].gen] = "yes" THEN "selecting" ELSE "launched"]
  /\ UNCHANGED <<agLimits, agConn, agHandler, agClient, agRoom, agAgents, agExcused, agUsed>>

-----------------------------------------------------------------------------
(* JobRequest at the handler, and AssignJob of the worker it selects *)

Available(j) == (agReg \ agFull) \ agJob[j].tried

SelectWorker(j) ==
  /\ agJob[j].pc = "selecting"
  /\ \/ /\ Available(j) = {}
        /\ agJob' = [agJob EXCEPT ![j].pc = "launched"]
        /\ UNCHANGED agAvail
     \/ \E w \in Available(j) :
          /\ agJob' = [agJob EXCEPT ![j].pc = "asking", ![j].worker = w,
                         ![j].tried = @ \cup {w}, ![j].answer = "none"]
          /\ agAvail' = [agAvail EXCEPT ![w] = @ \cup {j}]
  /\ UNCHANGED <<agLimits, agConn, agReg, agFull, agRunning, agJobTo, agClient, agRoom,
                 agAgents, agExcused, agUsed>>

\* HandleAvailability: the answer goes to the AssignJob that waits for it.
HandleAvailability(j) ==
  /\ agJob[j].pc = "asking"
  /\ LET w == agJob[j].worker
     IN  /\ w \in agConn /\ j \in agAvail[w]
         /\ \E a \in {"available", "not available", "terminate"} :
              /\ a \in agLimits.ops \cup {"available"}
              /\ agJob' = [agJob EXCEPT ![j].answer = a]
         /\ agAvail' = [agAvail EXCEPT ![w] = @ \ {j}]
  /\ UNCHANGED <<agLimits, agConn, agReg, agFull, agRunning, agJobTo, agClient, agRoom,
                 agAgents, agExcused, agUsed>>

\* AssignJob goes on with the answer: the assignment is sent before the job is
\* recorded as running.  A job that is terminated at once counts as done.
Answered(j) ==
  /\ agJob[j].pc = "asking" /\ agJob[j].answer # "none"
  /\ agJob' = [agJob EXCEPT ![j].pc =
                 CASE agJob[j].answer = "available" -> "assigned"
                   [] agJob[j].answer = "not available" -> "selecting"
                   [] OTHER -> "answering"]
  /\ agAgent' = IF agJob[j].answer = "available"
                THEN [agAgent EXCEPT ![j] = "told"] ELSE agAgent
  /\ UNCHANGED <<agLimits, agConn, agHandler, agClient, agRoom, agTerm, agUpd,
                 agExcused, agUsed>>

\* AssignJob gives up: the worker is closed (another one is asked), or the
\* answer did not come in time (none is).  An answer that is there may be
\* passed over for either.
AssignFails(j) ==
  /\ agJob[j].pc = "asking"
  /\ \/ /\ agJob[j].worker \notin agConn
        /\ agJob' = [agJob EXCEPT ![j].pc = "selecting"]
        /\ UNCHANGED agUsed
     \/ /\ Loses
        /\ agJob' = [agJob EXCEPT ![j].pc = "launched"]
  /\ agAvail' = [agAvail EXCEPT ![agJob[j].worker] = @ \ {j}]
  /\ UNCHANGED <<agLimits, agConn, agReg, agFull, agRunning, agJobTo, agClient, agRoom,
                 agAgents, agExcused>>

RecordRunning(j) ==
  /\ agJob[j].pc = "assigned"
  /\ agRunning' = [agRunning EXCEPT ![agJob[j].worker] = @ \cup {j}]
  /\ agJob' = [agJob EXCEPT ![j].pc = "mapping"]
  /\ UNCHANGED <<agLimits, agConn, agReg, agFull, agAvail, agJobTo, agClient, agRoom,
                 agAgents, agExcused, agUsed>>

\* The handler records who has the job and listens for its termination.
MapJob(j) ==
  /\ agJob[j].pc = "mapping"
  /\ agJobTo' = [agJobTo EXCEPT ![j] = agJob[j].worker]
  /\ agJob' = [agJob EXCEPT ![j].pc = "answering"]
  /\ UNCHANGED <<agLimits, agConn, agReg, agFull, agAvail, agRunning, agClient, agRoom,
                 agAgents, agExcused, agUsed>>

\* The client has stopped waiting for the answer to JobRequest: the room never
\* hears of the job.
AnswerIsLost(j) ==
  /\ agJob[j].pc = "answering" /\ Loses
  /\ agJob' = [agJob EXCEPT ![j].pc = "launched"]
  /\ Excuse(j, "unheard")
  /\ UNCHANGED <<agLimits, agConn, agHandler, agClient, agRoom, agAgents>>

\* handleNewJobs: the job is stored and recorded in the dispatch, its agent as
\* a participant to come, if it is not there or gone again already.
HandleNewJob(j) ==
  /\ agJob[j].pc = "answering"
  /\ agDispJobs' = agDispJobs \cup {j}
  /\ agMember' = IF agJob[j].answer = "available" THEN agMember \cup {j} ELSE agMember
  /\ agJob' = [agJob EXCEPT ![j].pc = "launched"]
  /\ UNCHANGED <<agLimits, agConn, agHandler, agClient, agDisp, agAdding, agLeft, agDel,
                 agAgents, agExcused, agUsed>>

\* jobsLaunched: the launch is no longer pending.
Launched(j) ==
  /\ agJob[j].pc = "launched"
  /\ agJob' = [agJob EXCEPT ![j].pc = "done"]
  /\ UNCHANGED <<agLimits, agConn, agHandler, agClient, agRoom, agAgents, agExcused, agUsed>>

Pending == {j \in AgJobs : agJob[j].pc \notin {"none", "done"}}

-----------------------------------------------------------------------------
(* The dispatch *)

CreateAgentDispatch ==
  /\ agDisp = "none"
  /\ agDisp' = "created" /\ agAdding' = TRUE
  /\ UNCHANGED <<agLimits, agConn, agHandler, agClient, agJob, agDispJobs, agMember,
                 agLeft, agDel, agAgents, agExcused, agUsed>>

\* AddAgentDispatch launches the job of the room, in another critical section.
LaunchRoomAgents ==
  /\ agAdding
  /\ agAdding' = FALSE
  /\ agJob' = [agJob EXCEPT ![1].pc = "launching"]
  /\ agExcused' = IF agDisp = "deleted" THEN [agExcused EXCEPT ![1] = @ \cup {"afterwards"}]
                  ELSE agExcused
  /\ UNCHANGED <<agLimits, agConn, agHandler, agClient, agDisp, agDispJobs, agMember,
                 agLeft, agDel, agAgents, agUsed>>

\* A participant joins or publishes: jobs of every dispatch there is.
LaunchTargetAgents(j) ==
  /\ j \in agLimits.jobs \ {1} /\ agDisp = "created" /\ agJob[j].pc = "none"
  /\ agJob' = [agJob EXCEPT ![j].pc = "launching"]
  /\ UNCHANGED <<agLimits, agConn, agHandler, agClient, agRoom, agAgents, agExcused, agUsed>>

DeleteAgentDispatch ==
  /\ agDisp = "created"
  /\ agDisp' = "deleted"
  /\ agDel' = [agDel EXCEPT !.pc = "collect"]
  /\ UNCHANGED <<agLimits, agConn, agHandler, agClient, agJob, agAdding, agDispJobs,
                 agMember, agLeft, agAgents, agExcused, agUsed>>

\* A form of WaitedFor that waits for no launch.
WaitedForNone == {}

\* waitForPendingJobs waits for the launches that were pending at its start.
WaitedFor == Pending

CollectPending ==
  /\ agDel.pc = "collect"
  /\ agDel' = [agDel EXCEPT !.pc = "wait", !.wait = WaitedFor]
  /\ UNCHANGED <<agLimits, agConn, agHandler, agClient, agJob, agDisp, agAdding,
                 agDispJobs, agMember, agLeft, agAgents, agExcused, agUsed>>

TakeJobs ==
  /\ agDel.pc = "wait" /\ agDel.wait \cap Pending = {}
  /\ agDel' = [agDel EXCEPT !.pc = "terminate", !.todo = agDispJobs]
  /\ UNCHANGED <<agLimits, agConn, agHandler, agClient, agJob, agDisp, agAdding,
                 agDispJobs, agMember, agLeft, agAgents, agExcused, agUsed>>

-----------------------------------------------------------------------------
(* Ends of jobs *)

\* JobTerminate at the handler and TerminateJob of the worker: there is a job
\* to terminate only while it is recorded as running.
Terminable(j) == agJobTo[j] # NoWorker /\ j \in agRunning[agJobTo[j]]

TerminateJob(j) ==
  /\ agRunning' = [w \in AgWorkers |->
       IF w = agJobTo[j] THEN agRunning[w] \ {j} ELSE agRunning[w]]
  /\ agTerm' = IF agJobTo[j] \in agConn THEN agTerm \cup {j} ELSE agTerm

\* DeleteAgentDispatch terminates job after job, and removes the agent that is
\* in the room, three seconds later at most.
DeleteTerminates(j) ==
  /\ agDel.pc = "terminate" /\ j \in agDel.todo
  /\ \/ /\ Terminable(j)
        /\ TerminateJob(j)
        /\ agDel' = [agDel EXCEPT !.pc = "remove", !.wait = {j}, !.todo = @ \ {j}]
        /\ UNCHANGED <<agExcused, agUsed>>
     \/ /\ ~Terminable(j)
        /\ agDel' = [agDel EXCEPT !.todo = @ \ {j}]
        /\ UNCHANGED <<agRunning, agTerm, agExcused, agUsed>>
     \/ /\ Loses
        /\ Excuse(j, "unheard")
        /\ agDel' = [agDel EXCEPT !.todo = @ \ {j}]
        /\ UNCHANGED <<agRunning, agTerm>>
  /\ UNCHANGED <<agLimits, agConn, agReg, agFull, agAvail, agJobTo, agClient, agJob,
                 agDisp, agAdding, agDispJobs, agMember, agLeft, agAgent, agUpd>>

\* RemoveParticipant of the agent of a job: the job it is recorded with is
\* terminated because the agent left.
Leaves(j) ==
  /\ agAgent' = [agAgent EXCEPT ![j] = "out"]
  /\ agMember' = agMember \ {j}
  /\ agLeft' = IF j \in agMember THEN agLeft \cup {j} ELSE agLeft

DeleteRemoves ==
  /\ agDel.pc = "remove"
  /\ agDel' = [agDel EXCEPT !.pc = "terminate", !.wait = {}]
  /\ \E j \in agDel.wait :
       IF agAgent[j] = "in" THEN Leaves(j) ELSE UNCHANGED <<agAgent, agMember, agLeft>>
  /\ UNCHANGED <<agLimits, agConn, agHandler, agClient, agJob, agDisp, agAdding,
                 agDispJobs, agTerm, agUpd, agExcused, agUsed>>

DeleteEnds ==
  /\ agDel.pc = "terminate" /\ agDel.todo = {}
  /\ agDel' = [agDel EXCEPT !.pc = "done"]
  /\ UNCHANGED <<agLimits, agConn, agHandler, agClient, agJob, agDisp, agAdding,
                 agDispJobs, agMember, agLeft, agAgents, agExcused, agUsed>>

\* The RPC that says the agent left the room.
TellLeft(j) ==
  /\ j \in agLeft
  /\ agLeft' = agLeft \ {j}
  /\ \/ /\ IF Terminable(j) THEN TerminateJob(j) ELSE UNCHANGED <<agRunning, agTerm>>
        /\ UNCHANGED <<agExcused, agUsed>>
     \/ /\ Loses
        /\ Excuse(j, "unheard")
        /\ UNCHANGED <<agRunning, agTerm>>
  /\ UNCHANGED <<agLimits, agConn, agReg, agFull, agAvail, agJobTo, agClient, agJob,
                 agDisp, agAdding, agDispJobs, agMember, agDel, agAgent, agUpd>>

\* HandleUpdateJob: the worker says that the job ended; the handler forgets who
\* had it in a second critical section.
UpdateJobEnded(j) ==
  LET w == agJob[j].worker
  IN  /\ agAgent[j] = "out" /\ w \in agConn \cap agReg /\ j \notin agUpd
      /\ "ended" \notin agExcused[j]
      /\ agRunning' = [agRunning EXCEPT ![w] = @ \ {j}]
      /\ agUpd' = agUpd \cup {j}
      /\ agExcused' = [agExcused EXCEPT ![j] = @ \cup {"ended"}
           \cup (IF agJob[j].pc = "assigned" THEN {"hasty"} ELSE {})]
      /\ UNCHANGED <<agLimits, agConn, agReg, agFull, agAvail, agJobTo, agClient, agJob,
                     agRoom, agAgent, agTerm, agUsed>>

DeregisterJob(j) ==
  /\ j \in agUpd
  /\ agUpd' = agUpd \ {j}
  /\ agJobTo' = [agJobTo EXCEPT ![j] = NoWorker]
  /\ UNCHANGED <<agLimits, agConn, agReg, agFull, agAvail, agRunning, agClient, agJob,
                 agRoom, agAgent, agTerm, agExcused, agUsed>>

-----------------------------------------------------------------------------
(* The agents *)

AgentJoins(j) ==
  /\ agAgent[j] = "told" /\ j \notin agTerm
  /\ agAgent' = [agAgent EXCEPT ![j] = "in"]
  /\ UNCHANGED <<agLimits, agConn, agHandler, agClient, agJob, agRoom, agTerm, agUpd,
                 agExcused, agUsed>>

\* The agent leaves the room by itself, or because its job was terminated.
AgentLeaves(j) ==
  /\ agAgent[j] = "in"
  /\ j \in agTerm \/ "leave" \in agLimits.ops
  /\ Leaves(j)
  /\ agExcused' = IF j \in agMember THEN agExcused
                  ELSE [agExcused EXCEPT ![j] = @ \cup {"early"}]
  /\ UNCHANGED <<agLimits, agConn, agHandler, agClient, agJob, agDisp, agAdding,
                 agDispJobs, agDel, agTerm, agUpd, agUsed>>

AgNext ==
  \/ \E w \in AgWorkers :
       RegisterWorker(w) \/ UpdateWorker(w) \/ DeregisterWorker(w) \/ CloseWorker(w)
  \/ Invalidate \/ CacheExpires
  \/ \E g \in DOMAIN agAns : CheckEnabled(g) \/ Enabled(g)
  \/ \E j \in AgJobs :
       \/ GetDispatcher(j) \/ LaunchJob(j) \/ SelectWorker(j) \/ HandleAvailability(j)
       \/ Answered(j) \/ AssignFails(j) \/ RecordRunning(j) \/ MapJob(j)
       \/ AnswerIsLost(j) \/ HandleNewJob(j) \/ Launched(j) \/ LaunchTargetAgents(j)
       \/ DeleteTerminates(j) \/ TellLeft(j) \/ UpdateJobEnded(j) \/ DeregisterJob(j)
       \/ AgentJoins(j) \/ AgentLeaves(j)
  \/ CreateAgentDispatch \/ LaunchRoomAgents \/ DeleteAgentDispatch
  \/ CollectPending \/ TakeJobs \/ DeleteRemoves \/ DeleteEnds

AgSpec == AgInit /\ [][AgNext]_agVars

-----------------------------------------------------------------------------
(* Properties *)

AgTypeOK ==
  /\ agReg \subseteq AgWorkers /\ agConn \subseteq AgWorkers /\ agFull \subseteq AgWorkers
  /\ agAvail \in [AgWorkers -> SUBSET AgJobs] /\ agRunning \in [AgWorkers -> SUBSET AgJobs]
  /\ agJobTo \in [AgJobs -> AgWorkers \cup {NoWorker}]
  /\ agDispJobs \subseteq AgJobs /\ agMember \subseteq AgJobs
  /\ agAgent \in [AgJobs -> {"none", "told", "in", "out"}]

RunningHere(j) == \E w \in agReg : j \in agRunning[w]

\* Once a dispatch has been deleted none of its jobs runs on, and no agent of
\* it is in the room: the deletion waits for the launches that are pending.
\* Excused are a job launched after the deletion, by the call that created the
\* dispatch, and one whose answer or termination was lost.  The agent of a
\* worker that is no longer connected cannot be told.
DeletedIsOver ==
  agDel.pc = "done" /\ Pending = {}
    => \A j \in AgJobs : agExcused[j] \cap {"afterwards", "unheard"} = {}
         => /\ ~RunningHere(j) \/ "hasty" \in agExcused[j]
            /\ agAgent[j] = "in" => agJob[j].worker \notin agConn \cap agReg

\* The job of an agent that has left the room is over, unless the agent left
\* before the room knew of its job.
LeftIsOver ==
  \A j \in AgJobs :
    agAgent[j] = "out" /\ j \notin agLeft \cup agUpd /\ agJob[j].pc = "done"
      /\ agExcused[j] \cap {"early", "unheard", "hasty"} = {}
    => ~RunningHere(j)

\* A job that runs on a worker of the handler can be terminated.
RunningIsKnown ==
  \A j \in AgJobs, w \in agReg :
    j \in agRunning[w] /\ agJob[j].pc = "done" /\ "hasty" \notin agExcused[j]
    => agJobTo[j] = w

\* The client does not go on taking it that there is no worker when one has
\* registered and its announcement has arrived.
CacheIsTrue ==
  agCur # 0 /\ agReg # {} /\ ~agEvent => agAns[agCur] # "no" /\ agSnap[agCur] # "no"
=============================================================================
