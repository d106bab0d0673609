----------------------- MODULE ParticipantUpdateCache -----------------------
(***************************************************************************)
(* What one participant's client is told of the others over a signal       *)
(* connection that breaks and is resumed (rtc/participant_signal.go        *)
(* SendParticipantUpdate, sendDisconnectUpdatesForReconnect; participant.go *)
(* VerifySubscribeParticipantInfo; room.go ResumeParticipant).             *)
(*                                                                         *)
(* updateCache is an LRU cache: the keys in order of use, the one used     *)
(* last at the end.  Of the times only their order against lastSignalAt    *)
(* matters: an entry is recent when it was updated after the last message  *)
(* from the client.                                                        *)
(***************************************************************************)
EXTENDS Naturals, Sequences, SequencesExt, FiniteSets

CONSTANTS Others,      \* sessions of other participants, by SID
          CacheSize,   \* 128 in the code
          MaxVersion,  \* bound: changes of one participant
          Env          \* what happens: "verify"; "late": updates are overtaken; "again":
                       \* the link breaks before the server has heard from the client

VARIABLES
  info,     \* the participants themselves: version and state
  updates,  \* updates on their way to SendParticipantUpdate
  cache,    \* updateCache
  link,     \* what is written reaches the client
  answered, \* a message of the client has been handled since the last resume
  view      \* what the client knows: for each SID the highest version it got

vars == <<info, updates, cache, link, answered, view>>

Infos == [v : 0..MaxVersion, st : {"unknown", "here", "gone"}]
Update(s, i) == [sid |-> s, v |-> i.v, st |-> i.st]
Unknown == [v |-> 0, st |-> "unknown"]

TypeOK ==
  /\ info \in [Others -> Infos] /\ view \in [Others -> Infos]
  /\ \A u \in updates : u.sid \in Others /\ u.v \in 1..MaxVersion
  /\ \A k \in DOMAIN cache : cache[k].sid \in Others /\ cache[k].recent \in BOOLEAN
  /\ Len(cache) <= CacheSize
  /\ \A j, k \in DOMAIN cache : cache[j].sid = cache[k].sid => j = k
  /\ link \in BOOLEAN /\ answered \in BOOLEAN

Init ==
  /\ info = [s \in Others |-> Unknown] /\ view = [s \in Others |-> Unknown]
  /\ updates = {} /\ cache = <<>>
  /\ link = TRUE /\ answered = TRUE

-----------------------------------------------------------------------------
(* The LRU cache.                                                           *)
Cached(c, s) == \E k \in DOMAIN c : c[k].sid = s
Entry(c, s) == CHOOSE e \in Range(c) : e.sid = s
Without(c, s) == SelectSeq(c, LAMBDA e : e.sid # s)
(* Get makes the entry the one used last, and leaves its time alone.        *)
Get(c, s) == IF Cached(c, s) THEN Append(Without(c, s), Entry(c, s)) ELSE c

Add(c, u) ==
  LET d == Append(Without(c, u.sid), [sid |-> u.sid, v |-> u.v, st |-> u.st, recent |-> TRUE])
  IN  IF Len(d) > CacheSize THEN Tail(d) ELSE d

(* The client drops what is older than what it has.                         *)
Received(w, u) ==
  IF link /\ u.v >= w[u.sid].v THEN [w EXCEPT ![u.sid] = [v |-> u.v, st |-> u.st]] ELSE w

Outdated(c, u) == Cached(c, u.sid) /\ u.v < Entry(c, u.sid).v

(* SendParticipantUpdate of one update, to the cache and to the client.     *)
Sent(c, w, u) ==
  IF Outdated(Get(c, u.sid), u) THEN [c |-> Get(c, u.sid), w |-> w]
  ELSE [c |-> Add(Get(c, u.sid), u), w |-> Received(w, u)]

SendParticipantUpdate(u) ==
  LET r == Sent(cache, view, u) IN cache' = r.c /\ view' = r.w

-----------------------------------------------------------------------------
(* A participant joins, changes or leaves, and the room broadcasts it.      *)
OnTime == "late" \in Env \/ updates = {}

Changes(s, st) ==
  /\ OnTime
  /\ info[s].v < MaxVersion
  /\ st \in (CASE info[s].st = "unknown" -> {"here"} [] info[s].st = "here" -> {"here", "gone"}
               [] OTHER -> {})
  /\ info' = [info EXCEPT ![s] = [v |-> @.v + 1, st |-> st]]
  /\ updates' = updates \union {Update(s, info'[s])}
  /\ UNCHANGED <<cache, link, answered, view>>

Broadcast(u) ==
  /\ u \in updates
  /\ updates' = updates \ {u}
  /\ SendParticipantUpdate(u)
  /\ UNCHANGED <<info, link, answered>>

(* VerifySubscribeParticipantInfo, when a track is subscribed to whose      *)
(* publisher had version v.                                                 *)
Verify(s, v) ==
  /\ "verify" \in Env /\ OnTime
  /\ info[s].st = "here" /\ v <= info[s].v
  /\ IF Cached(cache, s) /\ Entry(cache, s).v >= v
     THEN cache' = Get(cache, s) /\ UNCHANGED view
     ELSE LET r == Sent(Get(cache, s), view, Update(s, info[s]))
          IN  cache' = r.c /\ view' = r.w
  /\ UNCHANGED <<info, updates, link, answered>>

-----------------------------------------------------------------------------
(* UpdateLastSeenSignal: a message from the client.                         *)
Ping ==
  /\ link
  /\ cache' = [k \in DOMAIN cache |-> [cache[k] EXCEPT !.recent = FALSE]]
  /\ answered' = TRUE
  /\ UNCHANGED <<info, updates, link, view>>

(* The connection is gone, which the server may not know for long.          *)
Break ==
  /\ link /\ (answered \/ "again" \in Env)
  /\ link' = FALSE
  /\ UNCHANGED <<info, updates, cache, answered, view>>

(* sendDisconnectUpdatesForReconnect walks the keys from the end, up to the *)
(* first entry that is not recent, and Gets each of them on its way: they   *)
(* come to stand in the opposite order.                                     *)
Stop == LET old == {k \in DOMAIN cache : ~cache[k].recent}
        IN  IF old = {} THEN 0 ELSE CHOOSE k \in old : \A j \in old : j <= k
Walked == [k \in 1..Len(cache) |->
             IF k < Stop THEN cache[k]
             ELSE cache[Len(cache) + (IF Stop = 0 THEN 1 ELSE Stop) - k]]
(* A form of Departed that takes the place of the first old entry for its   *)
(* own.                                                                     *)
DepartedAfterFirst == {cache[k] : k \in {j \in DOMAIN cache : j > Stop + 1 /\ cache[j].st = "gone"}}
Departed == {cache[k] : k \in {j \in DOMAIN cache : j > Stop /\ cache[j].st = "gone"}}

Farewells(w) ==
  [s \in Others |->
     IF \E e \in Departed : e.sid = s /\ e.v >= w[s].v
     THEN [v |-> Entry(cache, s).v, st |-> "gone"] ELSE w[s]]

(* ResumeParticipant then sends everyone in the room, in the order of a map. *)
Resume ==
  /\ ~link /\ OnTime
  /\ link' = TRUE /\ answered' = FALSE
  /\ \E here \in SetToSeqs({s \in Others : info[s].st = "here"}) :
       LET step(r, s) ==
             IF Outdated(Get(r.c, s), Update(s, info[s])) THEN [r EXCEPT !.c = Get(r.c, s)]
             ELSE [c |-> Add(Get(r.c, s), Update(s, info[s])),
                   w |-> [r.w EXCEPT ![s] = info[s]]]
           r == FoldLeft(step, [c |-> Walked, w |-> Farewells(view)], here)
       IN  cache' = r.c /\ view' = r.w
  /\ UNCHANGED <<info, updates>>

Next ==
  \/ \E s \in Others, st \in {"here", "gone"} : Changes(s, st)
  \/ \E u \in updates : Broadcast(u)
  \/ \E s \in Others, v \in 1..MaxVersion : Verify(s, v)
  \/ Ping \/ Break \/ Resume

Spec == Init /\ [][Next]_vars
-----------------------------------------------------------------------------
(* Properties.                                                              *)

Settled == link /\ updates = {}

(* A client whose connection works, whatever breaks lie behind it, shows no *)
(* participant that has left (sendDisconnectUpdatesForReconnect).           *)
NoGhosts == Settled => \A s \in Others : view[s].st = "here" => info[s].st = "here"

(* It shows everyone who is in the room, as they are now.                   *)
EveryoneIsShown == Settled => \A s \in Others : info[s].st = "here" => view[s] = info[s]
=============================================================================
