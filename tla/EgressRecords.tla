---------------------------- MODULE EgressRecords ----------------------------
(***************************************************************************)
(* The record of one egress in Redis: the launcher that asks an egress      *)
(* server to start it (pkg/service/egress.go), the IO service both report   *)
(* to (pkg/service/ioservice.go), the store and the workers that sweep what *)
(* ended a day ago (pkg/service/redisstore.go), one on every node.          *)
(*                                                                          *)
(* The record is in three keys: the info, the set of the room, and the      *)
(* entry that says when it ended.  They are written by pipelines, whose     *)
(* commands run one by one between those of others and of which a failing   *)
(* connection executes only the first ones.                                 *)
(***************************************************************************)
EXTENDS Integers, Sequences, FiniteSets

CONSTANTS
  EgCallers,   \* calls of the IO service and sweeps that can be going on at once
  EgLimits     \* scenarios: records [serial, creates, calls, faults, sweeps, stops, bar]

VARIABLES
  egLimits,    \* the scenario
  egInfo,      \* the status in the info stored, or "none"
  egListed,    \* whether the set of the room holds the egress
  egEnded,     \* whether there is an entry that it ended
  egOld,       \* a day has passed since it ended
  egCall,      \* the calls and sweeps going on
  egServer,    \* what the egress server is at
  egSent,      \* calls of launcher and server under way to the IO service
  egStarted,   \* how often EgressStarted was told
  egAnswer,    \* the answer to the last StopEgress
  egExcused,   \* races met so far
  egUsed

egVars == <<egLimits, egInfo, egListed, egEnded, egOld, egCall, egServer, egSent,
            egStarted, egAnswer, egExcused, egUsed>>

EgStatuses == {"starting", "active", "ending", "ended"}

EgIdle == [op |-> "idle", todo |-> <<>>]

EgInit ==
  /\ egLimits \in EgLimits
  /\ egInfo = "none" /\ egListed = FALSE /\ egEnded = FALSE /\ egOld = FALSE
  /\ egCall = [c \in EgCallers |-> EgIdle]
  /\ egServer = "none" /\ egSent = {} /\ egStarted = 0 /\ egAnswer = "none"
  /\ egExcused = {}
  /\ egUsed = [faults |-> 0, sweeps |-> 0, stops |-> 0]

EgBusy == {c \in EgCallers : egCall[c].op # "idle"}

EgExcuse(S) == egExcused' = egExcused \cup S

-----------------------------------------------------------------------------
(* Launcher and egress server *)

\* StartEgress: the server has accepted the request and the launcher stores
\* the info it answered; servers also create the record themselves.
StartEgress ==
  /\ egServer = "none"
  /\ egServer' = "starting"
  /\ egSent' = {[op |-> "create", by |-> w, status |-> "starting"] : w \in egLimits.creates}
  /\ UNCHANGED <<egLimits, egInfo, egListed, egEnded, egOld, egCall, egStarted,
                 egAnswer, egExcused, egUsed>>

\* The server goes on and says so.  A server that waits for the answer to what
\* it said before is serial.
ServerGoes ==
  /\ egServer \in EgStatuses \ {"ended"}
  /\ egLimits.serial => /\ \A m \in egSent : m.by # "server"
                        /\ \A c \in EgBusy : egCall[c].by # "server"
  /\ \E s \in CASE egServer = "starting" -> {"active", "ended"}
                [] egServer = "active" -> {"ending", "ended"}
                [] OTHER -> {"ended"} :
       /\ egServer' = s
       /\ egSent' = egSent \cup {[op |-> "update", by |-> "server", status |-> s]}
  /\ UNCHANGED <<egLimits, egInfo, egListed, egEnded, egOld, egCall, egStarted,
                 egAnswer, egExcused, egUsed>>

\* StopEgress and UpdateStream: when the server does not answer, the error
\* says what the status stored allows.
StopAnswer(status) ==
  CASE status = "none" -> "not found"
    [] status \in {"starting", "active"} -> "no response"
    [] OTHER -> "cannot be stopped"

StopEgress ==
  /\ egUsed.stops < egLimits.stops
  /\ egUsed' = [egUsed EXCEPT !.stops = @ + 1]
  /\ \/ /\ egServer \in {"starting", "active"}
        /\ egAnswer' = "stopping"
        /\ egServer' = "ending"
        /\ egSent' = egSent \cup {[op |-> "update", by |-> "server", status |-> "ending"]}
     \/ /\ egAnswer' = StopAnswer(egInfo)
        /\ UNCHANGED <<egServer, egSent>>
  /\ UNCHANGED <<egLimits, egInfo, egListed, egEnded, egOld, egCall, egStarted, egExcused>>

-----------------------------------------------------------------------------
(* The IO service *)

\* RedisStore.UpdateEgress: the entry that it ended is written after the info.
UpdateCommands(status) ==
  IF status = "ended" THEN <<"info", "ended">> ELSE <<"info">>

\* UpdateEgress of the IO service.  Calls overlap and come in any order.
UpdateEgress(c) ==
  /\ egCall[c].op = "idle"
  /\ \E m \in egSent :
       /\ m.op = "update"
       /\ egSent' = egSent \ {m}
       /\ egCall' = [egCall EXCEPT ![c] = [op |-> "update", by |-> "server",
                       status |-> m.status, todo |-> UpdateCommands(m.status)]]
       /\ EgExcuse((IF egInfo = "none" /\ ~egOld THEN {"first"} ELSE {})
                   \cup (IF egOld THEN {"late"} ELSE {})
                   \cup (IF \/ \E d \in EgBusy : egCall[d].op \in {"create", "update"}
                            \/ m.status # egServer
                         THEN {"overtaken"} ELSE {}))
  /\ UNCHANGED <<egLimits, egInfo, egListed, egEnded, egOld, egServer, egStarted,
                 egAnswer, egUsed>>

\* CreateEgress of the IO service looks whether the record is there already,
StoreCommands == <<"info", "listed", "told">>

CreateEgress(c) ==
  /\ egCall[c].op = "idle"
  /\ \E m \in egSent :
       /\ m.op = "create"
       /\ egSent' = egSent \ {m}
       /\ egCall' = [egCall EXCEPT ![c] =
            IF egInfo # "none" THEN EgIdle
            ELSE [op |-> "create", by |-> m.by, status |-> "starting", todo |-> StoreCommands]]
       /\ EgExcuse((IF egOld THEN {"late"} ELSE {})
                   \cup (IF \E d \in EgBusy : egCall[d].op \in {"create", "update"}
                         THEN {"overtaken"} ELSE {}))
  /\ UNCHANGED <<egLimits, egInfo, egListed, egEnded, egOld, egServer, egStarted,
                 egAnswer, egUsed>>

\* A command of a pipeline runs; CreateEgress tells telemetry at its end.
Command(c) ==
  /\ egCall[c].todo # <<>>
  /\ LET k == Head(egCall[c].todo)
     IN  /\ egInfo' = CASE k = "info" -> egCall[c].status
                        [] k = "delete" -> "none"
                        [] OTHER -> egInfo
         /\ egListed' = CASE k = "listed" -> TRUE [] k = "unlist" -> FALSE [] OTHER -> egListed
         /\ egEnded' = CASE k = "ended" -> TRUE [] k = "forget" -> FALSE [] OTHER -> egEnded
         /\ egStarted' = IF k = "told" THEN egStarted + 1 ELSE egStarted
  /\ egCall' = [egCall EXCEPT ![c] =
       IF Len(egCall[c].todo) = 1 THEN EgIdle ELSE [egCall[c] EXCEPT !.todo = Tail(@)]]
  /\ UNCHANGED <<egLimits, egOld, egServer, egSent, egAnswer, egExcused, egUsed>>

\* The connection fails in the middle of a pipeline: the rest is not executed.
Cut(c) ==
  /\ egCall[c].todo # <<>>
  /\ egUsed.faults < egLimits.faults
  /\ egUsed' = [egUsed EXCEPT !.faults = @ + 1]
  /\ egCall' = [egCall EXCEPT ![c] = EgIdle]
  /\ EgExcuse(IF egCall[c].op = "sweep" THEN {} ELSE {"cut"})
  /\ UNCHANGED <<egLimits, egInfo, egListed, egEnded, egOld, egServer, egSent,
                 egStarted, egAnswer>>

-----------------------------------------------------------------------------
(* The worker of every node *)

DayPasses ==
  /\ egServer = "ended" /\ ~egOld
  /\ \A m \in egSent : m.by # "server"
  /\ \A c \in EgBusy : egCall[c].op = "sweep"
  /\ egOld' = TRUE
  /\ UNCHANGED <<egLimits, egInfo, egListed, egEnded, egCall, egServer, egSent,
                 egStarted, egAnswer, egExcused, egUsed>>

\* CleanEndedEgress removes, last, the entry that lets a later sweep try again.
SweepCommands == <<"unlist", "delete", "forget">>

\* CleanEndedEgress takes all entries and goes through them; it ends at the
\* first entry it cannot parse (that of a room whose name holds a bar), which
\* may come before this one.
CleanEndedEgress(c) ==
  /\ egCall[c].op = "idle"
  /\ egUsed.sweeps < egLimits.sweeps
  /\ egUsed' = [egUsed EXCEPT !.sweeps = @ + 1]
  /\ egCall' = [egCall EXCEPT ![c] = IF egEnded /\ egOld
                  THEN [op |-> "sweep", by |-> "worker", status |-> "none",
                        todo |-> SweepCommands]
                  ELSE EgIdle]
  /\ UNCHANGED <<egLimits, egInfo, egListed, egEnded, egOld, egServer, egSent,
                 egStarted, egAnswer, egExcused>>

CleanFails(c) ==
  /\ egLimits.bar
  /\ egCall[c].op = "idle"
  /\ egUsed.sweeps < egLimits.sweeps
  /\ egUsed' = [egUsed EXCEPT !.sweeps = @ + 1]
  /\ UNCHANGED <<egLimits, egInfo, egListed, egEnded, egOld, egCall, egServer, egSent,
                 egStarted, egAnswer, egExcused>>

EgNext ==
  \/ StartEgress \/ ServerGoes \/ StopEgress \/ DayPasses
  \/ \E c \in EgCallers :
       \/ UpdateEgress(c) \/ CreateEgress(c) \/ Command(c) \/ Cut(c)
       \/ CleanEndedEgress(c) \/ CleanFails(c)

EgSpec == EgInit /\ [][EgNext]_egVars

-----------------------------------------------------------------------------
(* Properties *)

EgQuiet == egSent = {} /\ EgBusy = {}

\* What is left of an egress that ended, after sweeps that failed anywhere,
\* has the entry that makes a later sweep delete it; unless writing the end
\* was cut short, or something was written after the sweep.
LeftIsSwept ==
  EgQuiet /\ egServer = "ended" /\ (egInfo # "none" \/ egListed)
    /\ egExcused \cap {"cut", "late"} = {} /\ "create" \notin {m.op : m \in egSent}
    => egEnded

\* What ListEgress of the room shows, all of it or what has not ended.
ListEgress(active) == egListed /\ egInfo # "none" /\ (active => egInfo # "ended")

\* An egress stored is in the list of its room, and among the active ones as
\* long as it has not ended, unless its first update came before it was
\* created: CreateEgress then takes it for created.
ListedIsKnown ==
  EgQuiet /\ egInfo # "none" /\ ~egOld /\ egExcused \cap {"first", "cut"} = {}
    => ListEgress(FALSE) /\ (egServer # "ended" => ListEgress(TRUE))

\* The status stored is what the server is at, unless calls overlapped.
StatusIsNewest ==
  EgQuiet /\ egInfo # "none"
    /\ egExcused \cap {"overtaken", "cut", "late", "first"} = {}
    => egInfo = egServer

\* Telemetry is told once that the egress started, unless two creates overlapped.
StartedOnce ==
  egStarted > 1 => egExcused \cap {"overtaken", "late", "cut"} # {}

\* A stop is refused for good only when the egress is ending or has ended.
RefusalIsTrue ==
  egAnswer = "cannot be stopped" => egServer \in {"ending", "ended"}
=============================================================================
