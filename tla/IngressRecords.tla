--------------------------- MODULE IngressRecords ---------------------------
(***************************************************************************)
(* The record of one ingress in Redis (pkg/service/redisstore.go) and the   *)
(* calls that create, update, delete and report on it                       *)
(* (pkg/service/ingress.go, ioservice_ingress.go), each of several round    *)
(* trips, on any number of nodes at once.                                   *)
(*                                                                          *)
(* The record is spread over four keys: the info in the hash of all         *)
(* ingresses, the stream key, the set of ingresses of a room, and the       *)
(* state.  The info is written in a transaction that watches the hash of    *)
(* ALL ingresses, the state in one that watches its own key; a transaction  *)
(* that lost its watch is tried again, IgRetries times.                     *)
(***************************************************************************)
EXTENDS Integers, FiniteSets

CONSTANTS
  IgRooms,    \* names of rooms
  IgCallers,  \* calls that can be going on at once
  IgRetries,  \* maxRetries of a transaction
  IgLimits    \* scenarios: records [kind, callers, ops, calls, sessions, reports,
              \* foreign, faults]

VARIABLES
  igLimits,   \* the scenario
  igInfo,     \* the room in the info stored under IngressKey, or NoInfo
  igKey,      \* whether the stream key leads to the ingress
  igIndex,    \* the rooms whose set of ingresses holds this one
  igState,    \* the state stored, or NoState
  igCall,     \* the calls going on
  igSession,  \* the state of the latest session on the ingress server
  igSent,     \* reports of the server that are under way
  igTold,     \* the status telemetry was told last
  igExcused,  \* races met so far that excuse a disagreement
  igPanicked, \* a call read the state of an info that has none
  igUsed      \* how often each budget of the scenario was used

igVars == <<igLimits, igInfo, igKey, igIndex, igState, igCall, igSession,
            igSent, igTold, igExcused, igPanicked, igUsed>>

NoRoom  == "no room"
NoInfo  == "no info"
Fresh   == [start |-> 0, upd |-> 0, status |-> "inactive"]
NoState == [start |-> -1, upd |-> 0, status |-> "none"]
NoCall  == [op |-> "idle", pc |-> "none", room |-> NoRoom, req |-> NoRoom,
            seen |-> NoState, rep |-> NoState, was |-> NoState,
            old |-> NoRoom, oldState |-> NoState, tries |-> 0, dirty |-> FALSE]

Active == {"buffering", "publishing"}

States == [start : Int, upd : Int,
           status : Active \cup {"none", "inactive", "error", "complete"}]

IgInit ==
  /\ igLimits \in IgLimits
  /\ igInfo = NoInfo /\ igKey = FALSE /\ igIndex = {} /\ igState = NoState
  /\ igCall = [c \in IgCallers |-> NoCall]
  /\ igSession = Fresh /\ igSent = {} /\ igTold = "inactive"
  /\ igExcused = {} /\ igPanicked = FALSE
  /\ igUsed = [calls |-> 0, foreign |-> 0, faults |-> 0]

-----------------------------------------------------------------------------
(* Keys, watches and transactions *)

\* A write to a key fails every transaction that watches it: "info" is the
\* hash of all ingresses, "state" the key of the state.
Touched(calls, key) ==
  [c \in IgCallers |->
     IF calls[c].pc = (IF key = "info" THEN "exec" ELSE "sexec")
     THEN [calls[c] EXCEPT !.dirty = TRUE] ELSE calls[c]]

Goes(c, pc) == igCall' = [igCall EXCEPT ![c].pc = pc]

Ends(c) == igCall' = [igCall EXCEPT ![c] = NoCall]

\* Where a call goes on after the state was stored, or could not be: an
\* update only logs that the status of an ingress in error was not reset.
AfterState(c) == IF igCall[c].op = "update" THEN "tx" ELSE "done"

StateFails(c) ==
  IF AfterState(c) = "tx"
  THEN igCall' = [igCall EXCEPT ![c].pc = "tx", ![c].tries = 0] ELSE Ends(c)

Excuse(why) == igExcused' = igExcused \cup {why}

\* Redis, or the connection to it, fails.
Fails == /\ igUsed.faults < igLimits.faults
         /\ igUsed' = [igUsed EXCEPT !.faults = @ + 1]

Begin(c, op, call) ==
  /\ c \in igLimits.callers /\ igCall[c].op = "idle"
  /\ op \in igLimits.ops
  /\ igUsed.calls < igLimits.calls
  /\ igUsed' = [igUsed EXCEPT !.calls = @ + 1]
  /\ igCall' = [igCall EXCEPT ![c] = call]

-----------------------------------------------------------------------------
(* The service's calls *)

\* CreateIngress: the service stores a push ingress; a pull ingress is stored
\* by the ingress server that was asked to start it.
CreateIngress(c) ==
  /\ igInfo = NoInfo /\ igUsed.calls = 0
  /\ \E room \in IgRooms \cup {NoRoom} :
       Begin(c, "create", [NoCall EXCEPT !.op = "create", !.pc = "tx",
                             !.room = room, !.rep = Fresh])
  /\ UNCHANGED <<igLimits, igInfo, igKey, igIndex, igState, igSession, igSent,
                 igTold, igExcused, igPanicked>>

\* UpdateIngress and DeleteIngress begin by loading the record.
UpdateIngress(c) ==
  /\ \E room \in IgRooms \cup {NoRoom} :
       Begin(c, "update", [NoCall EXCEPT !.op = "update", !.pc = "load", !.req = room])
  /\ UNCHANGED <<igLimits, igInfo, igKey, igIndex, igState, igSession, igSent,
                 igTold, igExcused, igPanicked>>

DeleteIngress(c) ==
  /\ Begin(c, "delete", [NoCall EXCEPT !.op = "delete", !.pc = "load"])
  /\ UNCHANGED <<igLimits, igInfo, igKey, igIndex, igState, igSession, igSent,
                 igTold, igExcused, igPanicked>>

\* IOInfoService.UpdateIngressState: a report of the server arrives, in any
\* order.
ReportArrives(c) ==
  /\ c \in igLimits.callers /\ igCall[c].op = "idle"
  /\ \E r \in igSent :
       /\ igSent' = igSent \ {r}
       /\ igCall' = [igCall EXCEPT ![c] = [NoCall EXCEPT !.op = "report",
                                             !.pc = "rload", !.rep = r]]
       \* a report that comes after a later one is announced all the same
       /\ igExcused' = IF r # igSession \/ \E d \in IgCallers : igCall[d].op = "report"
                       THEN igExcused \cup {"overtaken"} ELSE igExcused
  /\ UNCHANGED <<igLimits, igInfo, igKey, igIndex, igState, igSession, igTold,
                 igPanicked, igUsed>>

Creating == \E c \in IgCallers : igCall[c].op = "create"

\* LoadIngress, its first round trip: the info.
LoadInfo(c) ==
  /\ igCall[c].pc \in {"load", "rload"}
  /\ IF igInfo # NoInfo
     THEN /\ igCall' = [igCall EXCEPT
                ![c].pc = IF @ = "load" THEN "loadState" ELSE "rloadState",
                ![c].room = IF igCall[c].pc = "load" THEN igInfo ELSE @]
          /\ UNCHANGED igExcused
     ELSE /\ IF igCall[c].pc = "load" THEN Ends(c) ELSE StateFails(c)
          /\ IF igCall[c].op = "report" THEN Excuse("gone") ELSE UNCHANGED igExcused
  /\ UNCHANGED <<igLimits, igInfo, igKey, igIndex, igState, igSession, igSent,
                 igTold, igPanicked, igUsed>>

\* LoadIngress, its second round trip: the state, which may not be there.  A
\* create that is not finished, or an update or a delete in between, leaves an
\* info without one.
LoadState(c) ==
  /\ igCall[c].pc \in {"loadState", "rloadState"}
  /\ IF igCall[c].pc = "loadState"
     THEN igCall' = [igCall EXCEPT ![c].pc = "decide", ![c].seen = igState]
     ELSE igCall' = [igCall EXCEPT ![c].pc = "stx", ![c].was = igState, ![c].tries = 0]
  /\ igExcused' = igExcused
       \cup (IF igState = NoState /\ Creating THEN {"creating"} ELSE {})
       \cup (IF igInfo = NoInfo THEN {"gone"} ELSE {})
  /\ UNCHANGED <<igLimits, igInfo, igKey, igIndex, igState, igSession, igSent,
                 igTold, igPanicked, igUsed>>

\* UpdateIngress goes on by the status it loaded: an error is reset first, the
\* server of an active ingress is asked, and a completed one is stored again
\* as it was.  An ingress that is not reusable is left alone.
UpdateDecides(c) ==
  /\ igCall[c].pc = "decide" /\ igCall[c].op = "update"
  /\ \/ /\ igLimits.kind = "url"
        /\ Ends(c)
        /\ UNCHANGED igPanicked
     \/ /\ igLimits.kind # "url"
        /\ igCall[c].seen = NoState
        /\ igPanicked' = TRUE
        /\ Ends(c)
     \/ /\ igLimits.kind # "url"
        /\ igCall[c].seen # NoState
        /\ LET room == IF igCall[c].req = NoRoom \/ igCall[c].seen.status = "complete"
                       THEN igCall[c].room ELSE igCall[c].req
           IN  igCall' = [igCall EXCEPT ![c].room = room,
                 ![c].rep = [igCall[c].seen EXCEPT !.status = "inactive"],
                 ![c].pc = IF igCall[c].seen.status = "error" THEN "rload" ELSE "tx"]
        /\ UNCHANGED igPanicked
  /\ UNCHANGED <<igLimits, igInfo, igKey, igIndex, igState, igSession, igSent,
                 igTold, igExcused, igUsed>>

\* DeleteIngress asks the server of an active ingress to stop: its last report
\* is under way when the record is deleted.
DeleteDecides(c) ==
  /\ igCall[c].pc = "decide" /\ igCall[c].op = "delete"
  /\ IF igCall[c].seen = NoState
     THEN /\ igPanicked' = TRUE
          /\ Ends(c)
          /\ UNCHANGED <<igSession, igSent>>
     ELSE /\ Goes(c, "remove")
          /\ UNCHANGED igPanicked
          /\ \/ /\ igCall[c].seen.status \in Active
                /\ igSession.status \in Active
                /\ igSession' = [igSession EXCEPT !.upd = @ + 1, !.status = "inactive"]
                /\ igSent' = igSent \cup {igSession'}
             \/ UNCHANGED <<igSession, igSent>>
  /\ UNCHANGED <<igLimits, igInfo, igKey, igIndex, igState, igTold, igExcused, igUsed>>

\* RedisStore.DeleteIngress: one transaction, which watches nothing and
\* removes the ingress from the room it was in when it was loaded.
Remove(c) ==
  /\ igCall[c].pc = "remove"
  /\ igInfo' = NoInfo /\ igKey' = FALSE /\ igState' = NoState
  /\ igIndex' = igIndex \ {igCall[c].room}
  /\ igExcused' = igExcused
       \cup (IF igIndex' # {} THEN {"moved"} ELSE {})
       \cup (IF \E d \in IgCallers \ {c} : igCall[d].op # "idle" THEN {"gone"} ELSE {})
  /\ igCall' = [(LET t == IF igInfo # NoInfo THEN Touched(igCall, "info") ELSE igCall
                 IN  IF igState # NoState THEN Touched(t, "state") ELSE t)
                EXCEPT ![c] = NoCall]
  /\ UNCHANGED <<igLimits, igSession, igSent, igTold, igPanicked, igUsed>>

-----------------------------------------------------------------------------
(* storeIngress: read the old room, then write, unless the hash changed *)

ReadRoom(c) ==
  /\ igCall[c].pc = "tx"
  /\ igCall' = [igCall EXCEPT ![c].pc = "exec", ![c].old = igInfo, ![c].dirty = FALSE]
  /\ UNCHANGED <<igLimits, igInfo, igKey, igIndex, igState, igSession, igSent,
                 igTold, igExcused, igPanicked, igUsed>>

\* The rooms whose set holds the ingress once the transaction is through.
Reindexed(call) ==
  IF call.old = call.room THEN igIndex
  ELSE (igIndex \ {call.old}) \cup ({call.room} \ {NoRoom})

\* A form of LostWatch in which the transaction watches nothing.
UnwatchedRoom(call) == FALSE

LostWatch(call) == call.dirty

WriteInfo(c) ==
  /\ igCall[c].pc = "exec" /\ ~LostWatch(igCall[c])
  /\ igInfo' = igCall[c].room
  /\ igKey' = (igLimits.kind = "push")
  /\ igIndex' = Reindexed(igCall[c])
  /\ igExcused' = igExcused
       \cup (IF igCall[c].op = "update" /\ igInfo = NoInfo THEN {"revived"} ELSE {})
  /\ igCall' = [Touched(igCall, "info") EXCEPT
                  ![c] = IF igCall[c].op = "create"
                         THEN [igCall[c] EXCEPT !.pc = "stx", !.tries = 0] ELSE NoCall]
  /\ UNCHANGED <<igLimits, igState, igSession, igSent, igTold, igPanicked, igUsed>>

\* The watch was lost: the transaction is tried again, and after the last time
\* storeIngress returns no error although nothing was stored.
RetryInfo(c) ==
  /\ igCall[c].pc = "exec" /\ LostWatch(igCall[c])
  /\ IF igCall[c].tries + 1 < IgRetries
     THEN /\ igCall' = [igCall EXCEPT ![c].pc = "tx", ![c].tries = @ + 1]
          /\ UNCHANGED igExcused
     ELSE /\ IF igCall[c].op = "create"
             THEN igCall' = [igCall EXCEPT ![c].pc = "stx", ![c].tries = 0] ELSE Ends(c)
          /\ Excuse("gaveUp")
  /\ UNCHANGED <<igLimits, igInfo, igKey, igIndex, igState, igSession, igSent,
                 igTold, igPanicked, igUsed>>

-----------------------------------------------------------------------------
(* storeIngressState: the state of a newer session, or a newer state of the *)
(* same one, is not written over                                            *)

ReadState(c) ==
  /\ igCall[c].pc = "stx"
  /\ igCall' = [igCall EXCEPT ![c].pc = "sexec", ![c].oldState = igState,
                  ![c].dirty = FALSE]
  /\ UNCHANGED <<igLimits, igInfo, igKey, igIndex, igState, igSession, igSent,
                 igTold, igExcused, igPanicked, igUsed>>

OldTimes(call) == IF call.oldState = NoState THEN Fresh ELSE call.oldState

OutOfDate(call) == call.rep.start < OldTimes(call).start

Older(call) == /\ call.rep.start = OldTimes(call).start
               /\ call.rep.upd < OldTimes(call).upd

\* ErrIngressOutOfDate, whose callers do not store or announce anything.
RefuseState(c) ==
  /\ igCall[c].pc = "sexec" /\ OutOfDate(igCall[c])
  /\ StateFails(c)
  /\ UNCHANGED <<igLimits, igInfo, igKey, igIndex, igState, igSession, igSent,
                 igTold, igExcused, igPanicked, igUsed>>

\* An older state of the session is dropped without an error: the report is
\* announced as if it had been stored.
DropState(c) ==
  /\ igCall[c].pc = "sexec" /\ ~OutOfDate(igCall[c]) /\ Older(igCall[c])
  /\ IF igCall[c].op = "create" THEN Ends(c) ELSE Goes(c, "tell")
  /\ UNCHANGED <<igLimits, igInfo, igKey, igIndex, igState, igSession, igSent,
                 igTold, igExcused, igPanicked, igUsed>>

WriteState(c) ==
  /\ igCall[c].pc = "sexec" /\ ~OutOfDate(igCall[c]) /\ ~Older(igCall[c])
  /\ ~igCall[c].dirty
  /\ igState' = igCall[c].rep
  /\ igExcused' = igExcused \cup (IF igInfo = NoInfo THEN {"gone"} ELSE {})
  /\ igCall' = [Touched(igCall, "state") EXCEPT
                  ![c] = IF igCall[c].op = "create" THEN NoCall
                         ELSE [igCall[c] EXCEPT !.pc = "tell"]]
  /\ UNCHANGED <<igLimits, igInfo, igKey, igIndex, igSession, igSent, igTold,
                 igPanicked, igUsed>>

RetryState(c) ==
  /\ igCall[c].pc = "sexec" /\ ~OutOfDate(igCall[c]) /\ ~Older(igCall[c])
  /\ igCall[c].dirty
  /\ IF igCall[c].tries + 1 < IgRetries
     THEN /\ igCall' = [igCall EXCEPT ![c].pc = "stx", ![c].tries = @ + 1]
          /\ UNCHANGED igExcused
     ELSE /\ IF igCall[c].op = "create" THEN Ends(c) ELSE Goes(c, "tell")
          /\ Excuse("gaveUp")
  /\ UNCHANGED <<igLimits, igInfo, igKey, igIndex, igState, igSession, igSent,
                 igTold, igPanicked, igUsed>>

\* UpdateIngressState announces the status reported; it looks at the state it
\* loaded before.
Tell(c) ==
  /\ igCall[c].pc = "tell"
  /\ IF igCall[c].was = NoState
     THEN /\ igPanicked' = TRUE
          /\ Ends(c)
          /\ UNCHANGED igTold
     ELSE /\ igTold' = igCall[c].rep.status
          /\ IF igCall[c].op = "update"
             THEN igCall' = [igCall EXCEPT ![c].pc = "tx", ![c].tries = 0] ELSE Ends(c)
          /\ UNCHANGED igPanicked
  /\ igExcused' = igExcused \cup (IF \E d \in IgCallers \ {c} : igCall[d].pc \in {"sexec", "tell"}
                                  THEN {"overtaken"} ELSE {})
  /\ UNCHANGED <<igLimits, igInfo, igKey, igIndex, igState, igSession, igSent, igUsed>>

\* A round trip fails and the call returns the error.
RedisFails(c) ==
  /\ igCall[c].op # "idle"
  /\ igCall[c].pc \notin {"decide", "tell"}
  /\ Fails
  /\ IF igCall[c].pc \in {"rload", "rloadState", "stx", "sexec"}
     THEN StateFails(c) ELSE Ends(c)
  /\ Excuse("failed")
  /\ UNCHANGED <<igLimits, igInfo, igKey, igIndex, igState, igSession, igSent,
                 igTold, igPanicked>>

-----------------------------------------------------------------------------
(* The ingress server and the other ingresses *)

\* Someone streams with the key, or the pull ingress starts.
SessionStarts ==
  /\ igSession.status \notin Active
  /\ igSession.start < igLimits.sessions
  /\ igInfo # NoInfo
  /\ \/ igKey
     \/ igLimits.kind = "url" /\ igSession.start = 0
  /\ igSession' = [start |-> igSession.start + 1, upd |-> 1, status |-> "buffering"]
  /\ igSent' = igSent \cup {igSession'}
  /\ UNCHANGED <<igLimits, igInfo, igKey, igIndex, igState, igCall, igTold,
                 igExcused, igPanicked, igUsed>>

SessionReports ==
  /\ igSession.status \in Active
  /\ igSession.upd < igLimits.reports
  /\ \E s \in ({"publishing"} \ {igSession.status})
              \cup {"error", IF igLimits.kind = "url" THEN "complete" ELSE "inactive"} :
       /\ igSession' = [igSession EXCEPT !.upd = @ + 1, !.status = s]
       /\ igSent' = igSent \cup {igSession'}
  /\ UNCHANGED <<igLimits, igInfo, igKey, igIndex, igState, igCall, igTold,
                 igExcused, igPanicked, igUsed>>

\* Another ingress is stored or deleted: the hash that is watched changes.
OtherIngress ==
  /\ igUsed.foreign < igLimits.foreign
  /\ \E c \in IgCallers : igCall[c].pc = "exec" /\ ~igCall[c].dirty
  /\ igUsed' = [igUsed EXCEPT !.foreign = @ + 1]
  /\ igCall' = Touched(igCall, "info")
  /\ UNCHANGED <<igLimits, igInfo, igKey, igIndex, igState, igSession, igSent,
                 igTold, igExcused, igPanicked>>

IgNext ==
  \/ \E c \in IgCallers :
       \/ CreateIngress(c) \/ UpdateIngress(c) \/ DeleteIngress(c) \/ ReportArrives(c)
       \/ LoadInfo(c) \/ LoadState(c) \/ UpdateDecides(c) \/ DeleteDecides(c) \/ Remove(c)
       \/ ReadRoom(c) \/ WriteInfo(c) \/ RetryInfo(c)
       \/ ReadState(c) \/ RefuseState(c) \/ DropState(c) \/ WriteState(c) \/ RetryState(c)
       \/ Tell(c) \/ RedisFails(c)
  \/ SessionStarts \/ SessionReports \/ OtherIngress

IgSpec == IgInit /\ [][IgNext]_igVars

-----------------------------------------------------------------------------
(* Properties *)

IgTypeOK ==
  /\ igInfo \in IgRooms \cup {NoRoom, NoInfo}
  /\ igKey \in BOOLEAN /\ igIndex \subseteq IgRooms
  /\ igState \in States /\ igSession \in States /\ igSent \subseteq States
  /\ igExcused \subseteq {"overtaken", "creating", "gone", "moved", "revived",
                          "gaveUp", "failed"}

Quiet == igSent = {} /\ \A c \in IgCallers : igCall[c].op = "idle"

\* An ingress that is stored is found by its stream key and in the set of its
\* room, whoever moves or deletes it at the same time (storeIngress).
StoredIsFound ==
  igInfo # NoInfo => /\ igLimits.kind = "push" => igKey
                     /\ igInfo \in IgRooms => igInfo \in igIndex

\* What ListIngress of a room shows: the ingresses in the set of the room
\* whose info is there.
ListIngress(r) == r \in igIndex /\ igInfo # NoInfo

\* No room lists an ingress that is stored for another room or for none: its
\* old room is removed whoever else moves it.  One that was deleted after it
\* had been moved, and stored again by an update, is in the sets of both.
ListedIsStored ==
  \A r \in IgRooms : ListIngress(r) => igInfo = r \/ {"moved", "revived"} \subseteq igExcused

\* Once every report has arrived the state stored is the last one of the
\* latest session, in whatever order the reports came, unless the record was
\* deleted meanwhile or Redis failed.  An update resets an error to inactive.
LastReportWins ==
  Quiet /\ igInfo # NoInfo /\ igSession.start > 0
    /\ igExcused \cap {"gone", "revived", "gaveUp", "failed"} = {}
    => /\ igState.start = igSession.start /\ igState.upd = igSession.upd
       /\ \/ igState.status = igSession.status
          \/ igSession.status = "error" /\ igState.status = "inactive"

\* What telemetry was told last is then the status stored, unless one report
\* overtook another.
ToldIsStored ==
  Quiet /\ igInfo # NoInfo
    /\ igExcused \cap {"overtaken", "creating", "gone", "revived", "gaveUp", "failed"} = {}
    => igTold = igState.status

\* A call finds no info without a state unless it met one of these races: a
\* create still going on or failed, a delete in between, an update that
\* brought the info back.
InfoHasState ==
  igPanicked => igExcused \cap {"creating", "gone", "revived", "failed", "gaveUp"} # {}
=============================================================================
