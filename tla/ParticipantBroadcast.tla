------------------------ MODULE ParticipantBroadcast ------------------------
(***************************************************************************)
(* How a room tells one participant of another: versions of the info of a  *)
(* participant, batching of updates and the order of sessions of one       *)
(* identity (rtc/room.go broadcastParticipantState, PushAndDequeueUpdates, *)
(* SendParticipantUpdates, changeUpdateWorker; rtc/participant.go          *)
(* ToProtoWithVersion, maybeIncVersion; participant_signal.go              *)
(* SendParticipantUpdate, SendJoinResponse).                               *)
(*                                                                         *)
(* Every change is followed by a broadcast in the goroutine that made it.  *)
(* Broadcasts run side by side; what they read is old by the time they     *)
(* push it, what they push is old by the time they send it.                *)
(***************************************************************************)
EXTENDS Naturals, Sequences

CONSTANTS Last,        \* sessions of the identity: 1..Last, in the order they join
          Publishers,  \* those that publish: their updates are not batched
          Tasks,       \* goroutines that broadcast
          MaxChanges,  \* bound: changes of the info of a session, besides joining and leaving
          ByIdentity,  \* the observer's client supports reconnection by identity
          Witness,     \* the observer is in the room from the start
          None

Sids == 1..Last

VARIABLES
  here,     \* Room.participants[identity]
  life,     \* state of a session: "new", "joined", "gone" (DISCONNECTED)
  content,  \* what else its info says, by the number of the change
  dirty, version,
  skippable, \* its close reason is DUPLICATE_IDENTITY or STALE
  batched,  \* Room.batchedUpdates[identity]
  task,     \* the broadcasts
  watching, \* the observer is in the room
  known,    \* its updateCache: the version of a session
  view      \* what its client shows of a session: the highest version it got

sessVars == <<here, life, content, dirty, version, skippable>>
vars == <<sessVars, batched, task, watching, known, view>>

Infos == [sid : Sids, v : Nat, st : {"new", "joined", "gone"}, n : 0..MaxChanges]
(* An update also says whether it is for filtered clients, too.             *)
Update(i, skip) == [info |-> i, skip |-> skip]

Idle == [at |-> "idle", sid |-> None, imm |-> FALSE, info |-> None, out |-> <<>>]
Stages == {"idle", "close", "inc", "read", "push", "send", "write", "remove"}

TypeOK ==
  /\ here \in Sids \union {None}
  /\ life \in [Sids -> {"new", "joined", "gone"}]
  /\ content \in [Sids -> 0..MaxChanges]
  /\ dirty \in [Sids -> BOOLEAN] /\ version \in [Sids -> Nat]
  /\ skippable \in [Sids -> BOOLEAN]
  /\ batched # None => batched.info \in Infos /\ batched.info.sid \notin Publishers
  /\ \A b \in Tasks : task[b].at \in Stages /\ \A k \in DOMAIN task[b].out : task[b].out[k].info \in Infos
  /\ watching \in BOOLEAN
  /\ \A s \in Sids : known[s] <= version[s] /\ view[s].v <= version[s]

Init ==
  /\ here = None /\ life = [s \in Sids |-> "new"] /\ content = [s \in Sids |-> 0]
  /\ dirty = [s \in Sids |-> FALSE] /\ version = [s \in Sids |-> 0]
  /\ skippable = [s \in Sids |-> FALSE]
  /\ batched = None /\ task = [b \in Tasks |-> Idle]
  /\ watching = Witness
  /\ known = [s \in Sids |-> 0]
  /\ view = [s \in Sids |-> [v |-> 0, st |-> "new", n |-> 0]]

Goto(b, r) == task' = [task EXCEPT ![b] = r]
Step(b, at) == [task[b] EXCEPT !.at = at]
Start(b, s, at, imm) ==
  /\ task[b] = Idle
  /\ Goto(b, [Idle EXCEPT !.at = at, !.sid = s, !.imm = imm])

-----------------------------------------------------------------------------
(* What is broadcast.                                                       *)

(* Room.Join puts the session in the room and makes it JOINED.              *)
Enter(b, s) ==
  /\ here = None /\ life[s] = "new" /\ \A r \in 1..(s - 1) : life[r] = "gone"
  /\ here' = s
  /\ life' = [life EXCEPT ![s] = "joined"] /\ dirty' = [dirty EXCEPT ![s] = TRUE]
  /\ Start(b, s, "inc", FALSE)
  /\ UNCHANGED <<content, version, skippable, batched, watching, known, view>>

(* StartSession of a session that never gets into the room.                 *)
JoinFails(s) ==
  /\ here = None /\ life[s] = "new" /\ \A r \in 1..(s - 1) : life[r] = "gone"
  /\ life' = [life EXCEPT ![s] = "gone"]
  /\ UNCHANGED <<here, content, dirty, version, skippable, batched, task, watching, known, view>>

(* Metadata, a track: dirty is set after the change.                        *)
Changes(b, s, imm) ==
  /\ life[s] = "joined" /\ content[s] < MaxChanges
  /\ content' = [content EXCEPT ![s] = @ + 1] /\ dirty' = [dirty EXCEPT ![s] = TRUE]
  /\ Start(b, s, "inc", imm)
  /\ UNCHANGED <<here, life, version, skippable, batched, watching, known, view>>

(* Close: onStateChange broadcasts it, then removes the participant.        *)
Closes(b, s) ==
  /\ here = s /\ life[s] = "joined"
  /\ life' = [life EXCEPT ![s] = "gone"] /\ dirty' = [dirty EXCEPT ![s] = TRUE]
  /\ Start(b, s, "inc", FALSE)
  /\ UNCHANGED <<here, content, version, skippable, batched, watching, known, view>>

(* RemoveParticipant of a session that is closed already does not broadcast. *)
Evicts(s) ==
  /\ here = s /\ life[s] = "gone"
  /\ here' = None
  /\ UNCHANGED <<life, content, dirty, version, skippable, batched, task, watching, known, view>>

(* Its reason is DUPLICATE_IDENTITY when the next session is being started. *)
Removes(b, s) ==
  /\ here = s /\ life[s] = "joined"
  /\ here' = None
  /\ \E skip \in {FALSE, s < Last} : skippable' = [skippable EXCEPT ![s] = skip]
  /\ Start(b, s, "close", FALSE)
  /\ UNCHANGED <<life, content, dirty, version, batched, watching, known, view>>

RemoveCloses(b) ==
  LET s == task[b].sid IN
  /\ task[b].at = "close"
  /\ life' = [life EXCEPT ![s] = "gone"] /\ dirty' = [dirty EXCEPT ![s] = TRUE]
  /\ Goto(b, Step(b, "inc"))
  /\ UNCHANGED <<here, content, version, skippable, batched, watching, known, view>>

-----------------------------------------------------------------------------
(* broadcastParticipantState                                                *)

maybeIncVersion(b) ==
  LET s == task[b].sid IN
  /\ task[b].at = "inc"
  /\ dirty' = [dirty EXCEPT ![s] = FALSE]
  /\ version' = [version EXCEPT ![s] = IF dirty[s] THEN @ + 1 ELSE @]
  /\ Goto(b, Step(b, "read"))
  /\ UNCHANGED <<here, life, content, skippable, batched, watching, known, view>>

InfoOf(s) == [sid |-> s, v |-> version[s], st |-> life[s], n |-> content[s]]

ToProto(b) ==
  /\ task[b].at = "read"
  /\ Goto(b, [Step(b, "push") EXCEPT !.info = InfoOf(task[b].sid)])
  /\ UNCHANGED <<sessVars, batched, watching, known, view>>

(* A newer update of the session, or a newer session, is known already.     *)
Superseded(i) ==
  IF batched # None
  THEN \/ batched.info.sid > i.sid
       \/ batched.info.sid = i.sid /\ i.v < batched.info.v
  ELSE here # None /\ here > i.sid

(* The batched update of an older session becomes its DISCONNECT.           *)
Replaced(i) ==
  IF batched # None /\ batched.info.sid < i.sid
  THEN <<Update([batched.info EXCEPT !.st = "gone"], TRUE)>> ELSE <<>>

PushAndDequeueUpdates(b) ==
  LET i == task[b].info
      u == Update(i, skippable[i.sid])
      now == task[b].imm \/ i.sid \in Publishers \/ Replaced(i) # <<>>
  IN
  /\ task[b].at = "push"
  /\ IF Superseded(i) THEN Goto(b, Step(b, "remove")) /\ UNCHANGED batched
     ELSE IF now THEN /\ batched' = None
                      /\ Goto(b, [Step(b, "send") EXCEPT !.out = Append(Replaced(i), u)])
     ELSE batched' = u /\ Goto(b, Step(b, "remove"))
  /\ UNCHANGED <<sessVars, watching, known, view>>

(* changeUpdateWorker takes the batch on its ticker.                        *)
Flush(b) ==
  /\ batched # None
  /\ batched' = None
  /\ task[b] = Idle
  /\ Goto(b, [Idle EXCEPT !.at = "send", !.out = <<batched>>])
  /\ UNCHANGED <<sessVars, watching, known, view>>

(* SendParticipantUpdates and the observer's SendParticipantUpdate: what is *)
(* filtered out for its client, and what its cache knows to be outdated, is *)
(* not written.                                                             *)
Passes(u) == ~(ByIdentity /\ u.skip) /\ known[u.info.sid] <= u.info.v

Send(b) ==
  LET out == IF watching THEN SelectSeq(task[b].out, Passes) ELSE <<>> IN
  /\ task[b].at = "send"
  /\ known' = [s \in Sids |->
       IF \E k \in DOMAIN out : out[k].info.sid = s
       THEN (CHOOSE u \in {out[k].info : k \in DOMAIN out} : u.sid = s).v ELSE known[s]]
  /\ Goto(b, [Step(b, "write") EXCEPT !.out = out])
  /\ UNCHANGED <<sessVars, batched, watching, view>>

(* WriteMessage, after the lock; the client ignores what is older.          *)
Received(w, i) ==
  IF i.v >= w[i.sid].v THEN [w EXCEPT ![i.sid] = [v |-> i.v, st |-> i.st, n |-> i.n]] ELSE w

Write(b) ==
  /\ task[b].at = "write"
  /\ LET out == task[b].out IN
     view' = CASE Len(out) = 0 -> view
               [] Len(out) = 1 -> Received(view, out[1].info)
               [] OTHER -> Received(Received(view, out[1].info), out[2].info)
  /\ Goto(b, Step(b, "remove"))
  /\ UNCHANGED <<sessVars, batched, watching, known>>

(* onStateChange ends with RemoveParticipant if the session is gone.        *)
Finish(b) ==
  LET s == task[b].sid IN
  /\ task[b].at = "remove"
  /\ here' = IF s # None /\ here = s /\ life[s] = "gone" THEN None ELSE here
  /\ Goto(b, Idle)
  /\ UNCHANGED <<life, content, dirty, version, skippable, batched, watching, known, view>>

-----------------------------------------------------------------------------
(* Join of the observer, which holds the room's lock: its response has the  *)
(* info of who is in the room.                                              *)
Watch ==
  /\ ~watching /\ watching' = TRUE
  /\ IF here = None THEN UNCHANGED <<dirty, version, known, view>>
     ELSE /\ dirty' = [dirty EXCEPT ![here] = FALSE]
          /\ version' = [version EXCEPT ![here] = IF dirty[here] THEN @ + 1 ELSE @]
          /\ known' = [known EXCEPT ![here] = version'[here]]
          /\ view' = [view EXCEPT ![here] =
                        [v |-> version'[here], st |-> life[here], n |-> content[here]]]
  /\ UNCHANGED <<here, life, content, skippable, batched, task>>

Broadcast(b) ==
  \/ RemoveCloses(b) \/ maybeIncVersion(b) \/ ToProto(b) \/ PushAndDequeueUpdates(b)
  \/ Send(b) \/ Write(b) \/ Finish(b)

Next ==
  \/ \E b \in Tasks, s \in Sids :
       Enter(b, s) \/ Closes(b, s) \/ Removes(b, s) \/ \E imm \in BOOLEAN : Changes(b, s, imm)
  \/ \E s \in Sids : Evicts(s) \/ JoinFails(s)
  \/ \E b \in Tasks : Broadcast(b) \/ Flush(b)
  \/ Watch

Spec == Init /\ [][Next]_vars

(* Goroutines run, and the ticker of the batch worker goes off.             *)
FairSpec ==
  /\ Spec
  /\ \A b \in Tasks : WF_vars(Broadcast(b))
  /\ SF_vars(\E b \in Tasks : Flush(b))
-----------------------------------------------------------------------------
(* Properties.                                                              *)

Settled == batched = None /\ \A b \in Tasks : task[b] = Idle

(* Once all is sent, an observer's client shows the session that is in the  *)
(* room, as it is: whatever was overtaken by what, the last state of it has *)
(* the highest version.                                                     *)
ShowsWhoIsHere ==
  Settled /\ watching /\ here # None =>
    view[here].st = "joined" /\ view[here].n = content[here]

(* A client that goes by identity shows one session, the newest it knows.   *)
Shown(s) ==
  view[s].st = "joined" /\ (ByIdentity => \A r \in Sids : r > s => view[r].st = "new")

(* When all sessions of the identity are over, none is shown.               *)
HidesWhoLeft ==
  Settled /\ watching /\ (\A s \in Sids : life[s] = "gone") => \A s \in Sids : ~Shown(s)

(* A session that another one has replaced is not shown beside it.          *)
HidesTheReplaced ==
  Settled /\ watching => \A s \in Sids : life[s] = "gone" /\ s # Last => ~Shown(s)

(* A change is shown, in the end, or followed by another one.               *)
ChangesAreShown ==
  \A s \in Sids : \A n \in 1..MaxChanges :
    here = s /\ content[s] = n /\ watching ~> view[s].n >= n \/ here # s
=============================================================================
