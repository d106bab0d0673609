----------------------------- MODULE DataMessages -----------------------------
(***************************************************************************)
(* Data messages of participants (rtc/participant.go, rtc/room.go,         *)
(* migrationdatacache.go, user_packet_deduper.go,                          *)
(* sfu/datachannel/datachannel_writer.go): publishers number their         *)
(* reliable messages and send those a server may have missed again; the    *)
(* room keeps them for a while for a participant that is still joining,    *)
(* which gets them when its transport is up.  A publisher that migrated in *)
(* waits for the message that continues its numbers.  Also a call of a     *)
(* method at a participant, PerformRpc, with its two timers.               *)
(*                                                                         *)
(* There is one receiver; the others in the room do not matter to it.      *)
(***************************************************************************)
EXTENDS Integers, Sequences, FiniteSets, SequencesExt

CONSTANTS Publishers,
          DedupMax,      \* maxSize of UserPacketDeduper
          DataLimits     \* bounds and environment: messages, resumes, last, env

NoNonce == "none"
Server == "server"       \* the sender of messages of the API, which have no number

VARIABLES
  dataLimits,
  outbox,          \* per publisher: its messages, in order of their numbers
  wire,            \* per publisher: the numbers on their way to the server
  resend,          \* per publisher: LastMessageSeq of a resume the client has yet to see, or -1
  resumes,
  lastPub,         \* reliableDataInfo.lastPubReliableSeq
  migCache,        \* reliableDataInfo.migrateInPubDataCache
  todo,            \* per publisher: numbers its thread has to handle
  casting,         \* per publisher, and for the server: the message being broadcast
  roomCache,       \* Room.dataMessageCache
  dedup,           \* UserPacketDeduper: seen (as pairs), head, tail
  rState,          \* the receiver: "away", "joined", "active"
  canWrite, firstSeqs, lastWritten,   \* its reliableDataInfo
  got,             \* the messages it got, in order
  owed,            \* those that were broadcast to it
  rpc              \* a call of a method

pubSideVars == <<outbox, wire, resend, resumes>>
takeVars == <<lastPub, migCache, todo>>
roomVars == <<casting, roomCache, dedup>>
receiverVars == <<rState, canWrite, firstSeqs, lastWritten, got, owed>>
dataVars == <<dataLimits, pubSideVars, takeVars, roomVars, receiverVars, rpc>>

Env(e) == e \in dataLimits.env
NoMessage == [from |-> Server, seq |-> -1, dest |-> "all", nonce |-> NoNonce, step |-> "none"]
Message(from, seq, dest, nonce) == [from |-> from, seq |-> seq, dest |-> dest, nonce |-> nonce, step |-> "cast"]
Dests ==   \* "otherSid": by its id, which only some clients still use
  CASE Env("dest") -> {"all", "receiver", "other"} [] Env("sids") -> {"all", "otherSid"} [] OTHER -> {"all"}
Nonces == IF Env("nonce") THEN {"n1", "n2", "n3"} ELSE {NoNonce}

-----------------------------------------------------------------------------
(* Clients.                                                                 *)
ClientSends(p) ==
  /\ Len(outbox[p]) < dataLimits.messages
  /\ \E dest \in Dests, nonce \in Nonces :
       outbox' = [outbox EXCEPT ![p] = Append(@, Message(p, Len(@) + 1, dest, nonce))]
  /\ wire' = [wire EXCEPT ![p] = Append(@, Len(outbox[p]) + 1)]
  /\ UNCHANGED <<dataLimits, resend, resumes, takeVars, roomVars, receiverVars, rpc>>

(* A resume tells the client the last number that came                      *)
(* (GetLastReliableSequence), and it sends what follows again.              *)
Resume(p) ==
  /\ resumes < dataLimits.resumes /\ resend[p] = -1
  /\ resumes' = resumes + 1 /\ resend' = [resend EXCEPT ![p] = lastPub[p]]
  /\ UNCHANGED <<dataLimits, outbox, wire, takeVars, roomVars, receiverVars, rpc>>

ClientResends(p) ==
  /\ resend[p] # -1 /\ resend' = [resend EXCEPT ![p] = -1]
  /\ wire' = [wire EXCEPT ![p] = @ \o [k \in 1..(Len(outbox[p]) - resend[p]) |-> resend[p] + k]]
  /\ UNCHANGED <<dataLimits, outbox, resumes, takeVars, roomVars, receiverVars, rpc>>

-----------------------------------------------------------------------------
(* MigrationDataCache.Add: its state after a message, and the messages that *)
(* are then to be handled.                                                  *)
NoCache == [on |-> FALSE, last |-> 0, pkts |-> <<>>, expired |-> FALSE]
Add(c, seq) ==
  CASE seq <= c.last -> <<c, <<>>>>
    [] seq = c.last + 1 -> <<NoCache, <<seq>>>>
    [] seq > c.last + 1 /\ ~c.expired -> <<[c EXCEPT !.pkts = Append(@, seq)], <<>>>>
    [] OTHER -> <<NoCache, Append(c.pkts, seq)>>

(* onReceivedDataMessage.                                                   *)
onReceivedDataMessage(p) ==
  LET seq == Head(wire[p])
      added == Add(migCache[p], seq) IN
    /\ wire[p] # <<>> /\ todo[p] = <<>> /\ casting[p].step = "none"
    /\ wire' = [wire EXCEPT ![p] = Tail(@)]
    /\ IF migCache[p].on
         THEN migCache' = [migCache EXCEPT ![p] = added[1]] /\ todo' = [todo EXCEPT ![p] = added[2]]
         ELSE todo' = [todo EXCEPT ![p] = <<seq>>] /\ UNCHANGED migCache
    /\ UNCHANGED <<dataLimits, outbox, resend, resumes, lastPub, roomVars, receiverVars, rpc>>

(* migrationWaitContinuousMsgDuration is over.                              *)
CacheExpires(p) ==
  /\ Env("timeout") /\ migCache[p].on /\ ~migCache[p].expired
  /\ migCache' = [migCache EXCEPT ![p].expired = TRUE]
  /\ UNCHANGED <<dataLimits, pubSideVars, lastPub, todo, roomVars, receiverVars, rpc>>

(* handleReceivedDataMessage, which drops what it has had, and              *)
(* Room.onDataMessage.                                                      *)
handleReceivedDataMessage(p) ==
  LET seq == Head(todo[p]) IN
    /\ todo[p] # <<>> /\ casting[p].step = "none" /\ todo' = [todo EXCEPT ![p] = Tail(@)]
    /\ IF lastPub[p] >= seq THEN UNCHANGED <<lastPub, casting, roomCache>>
       ELSE /\ lastPub' = [lastPub EXCEPT ![p] = seq]
            /\ casting' = [casting EXCEPT ![p] = outbox[p][seq]]
            /\ roomCache' = Append(roomCache, outbox[p][seq])
    /\ UNCHANGED <<dataLimits, pubSideVars, migCache, dedup, receiverVars, rpc>>

(* Room.SendDataPacket, of the API.                                         *)
SendDataPacket ==
  /\ Env("api") /\ casting[Server].step = "none"
  /\ \E dest \in Dests, nonce \in Nonces :
       casting' = [casting EXCEPT ![Server] = Message(Server, 0, dest, nonce)]
  /\ UNCHANGED <<dataLimits, pubSideVars, takeVars, roomCache, dedup, receiverVars, rpc>>

(* Prune: what is older than dataMessageCacheTTL leaves the cache.          *)
Prune ==
  /\ Env("expire") /\ roomCache # <<>> /\ roomCache' = Tail(roomCache)
  /\ UNCHANGED <<dataLimits, pubSideVars, takeVars, casting, dedup, receiverVars, rpc>>

-----------------------------------------------------------------------------
(* UserPacketDeduper: a list from the oldest to the newest that was seen,   *)
(* in pairs of one and the next; IsDuplicate remembers the newest only in   *)
(* head.                                                                    *)
IsDuplicate(nonce) ==
  nonce # NoNonce /\ (nonce = dedup.head \/ \E pair \in dedup.seen : pair[1] = nonce)
Remember(nonce) ==
  LET seen == dedup.seen \cup {<<dedup.head, nonce>>}
      oldest == CHOOSE pair \in seen : pair[1] = dedup.tail IN
    IF Cardinality(seen) = DedupMax
      THEN [seen |-> seen \ {oldest}, head |-> nonce, tail |-> oldest[2]]
      ELSE [dedup EXCEPT !.seen = seen, !.head = nonce]

(* BroadcastDataPacketForRoom up to the choice of those it is for ...       *)
BroadcastDataPacketForRoom(p) ==
  LET m == casting[p]
      for == rState # "away" /\ m.dest \in {"all", "receiver"} IN
    /\ m.step = "cast"
    /\ IF IsDuplicate(m.nonce)
         THEN casting' = [casting EXCEPT ![p] = NoMessage] /\ UNCHANGED <<dedup, owed>>
         ELSE /\ dedup' = IF m.nonce = NoNonce THEN dedup ELSE Remember(m.nonce)
              /\ casting' = [casting EXCEPT ![p] = IF for THEN [m EXCEPT !.step = "send"] ELSE NoMessage]
              /\ owed' = IF for /\ m.seq > 0 THEN owed \cup {m} ELSE owed
    /\ UNCHANGED <<dataLimits, pubSideVars, takeVars, roomCache, rState, canWrite, firstSeqs, lastWritten, got, rpc>>

(* DataChannelWriter.Write: a message is retried while it times out unless  *)
(* the reader is slow; then it is dropped.                                  *)
Written(ms) == IF Env("slow") THEN {got, got \o ms} ELSE {got \o ms}

(* A form of SendDataMessage that forgets what was replayed.                *)
SendDataMessageAgain(p) ==
  LET m == casting[p] IN
    /\ m.step = "send" /\ casting' = [casting EXCEPT ![p] = NoMessage]
    /\ CASE m.seq = 0 ->
              /\ got' \in IF rState = "active" THEN Written(<<m>>) ELSE {got}
              /\ UNCHANGED <<firstSeqs, lastWritten>>
         [] m.seq > 0 /\ ~canWrite ->
              /\ firstSeqs' = [firstSeqs EXCEPT ![p] = IF @ = 0 THEN m.seq ELSE @]
              /\ UNCHANGED <<got, lastWritten>>
         [] OTHER ->
              /\ got' \in Written(<<m>>)
              /\ lastWritten' = [lastWritten EXCEPT ![p] = 0] /\ UNCHANGED firstSeqs
    /\ UNCHANGED <<dataLimits, pubSideVars, takeVars, roomCache, dedup, rState, canWrite, owed, rpc>>

(* ... and SendDataMessage to the receiver.                                 *)
SendDataMessage(p) ==
  LET m == casting[p] IN
    /\ m.step = "send" /\ casting' = [casting EXCEPT ![p] = NoMessage]
    /\ CASE m.seq = 0 ->
              /\ got' \in IF rState = "active" THEN Written(<<m>>) ELSE {got}
              /\ UNCHANGED <<firstSeqs, lastWritten>>
         [] m.seq > 0 /\ ~canWrite ->
              /\ firstSeqs' = [firstSeqs EXCEPT ![p] = IF @ = 0 THEN m.seq ELSE @]
              /\ UNCHANGED <<got, lastWritten>>
         [] m.seq > 0 /\ canWrite /\ lastWritten[p] # 0 /\ m.seq <= lastWritten[p] ->
              UNCHANGED <<got, firstSeqs, lastWritten>>
         [] OTHER ->
              /\ got' \in Written(<<m>>)
              /\ lastWritten' = [lastWritten EXCEPT ![p] = 0] /\ UNCHANGED firstSeqs
    /\ UNCHANGED <<dataLimits, pubSideVars, takeVars, roomCache, dedup, rState, canWrite, owed, rpc>>

-----------------------------------------------------------------------------
(* The receiver joins and is active once its transport is connected.        *)
Join ==
  /\ rState = "away" /\ rState' = "joined"
  /\ UNCHANGED <<dataLimits, pubSideVars, takeVars, roomVars, canWrite, firstSeqs, lastWritten, got, owed, rpc>>
InitialConnected ==
  /\ rState = "joined" /\ rState' = "active"
  /\ UNCHANGED <<dataLimits, pubSideVars, takeVars, roomVars, canWrite, firstSeqs, lastWritten, got, owed, rpc>>

(* GetCachedReliableDataMessage, and of those the ones for the receiver: a  *)
(* message that names others by their ids seems to be for all.              *)
GetCachedReliableDataMessage ==
  SelectSeq(roomCache, LAMBDA m : firstSeqs[m.from] # 0 /\ m.seq >= firstSeqs[m.from] /\ m.dest # "other")

replayJoiningReliableMessages ==
  LET replayed == GetCachedReliableDataMessage
      seqs(p) == {replayed[k].seq : k \in {j \in DOMAIN replayed : replayed[j].from = p}} IN
    /\ rState = "active" /\ ~canWrite /\ canWrite' = TRUE
    /\ got' \in Written([k \in DOMAIN replayed |-> [replayed[k] EXCEPT !.step = "send"]])
    /\ lastWritten' = [p \in Publishers |-> Max(seqs(p) \cup {lastWritten[p]})]
    /\ firstSeqs' = [p \in Publishers |-> 0]
    /\ UNCHANGED <<dataLimits, pubSideVars, takeVars, roomVars, rState, owed, rpc>>

-----------------------------------------------------------------------------
(* PerformRpc: its goroutine ("call"), the two timers with their functions, *)
(* the entries in rpcPendingAcks and rpcPendingResponses, the buffered      *)
(* channels and the caller, who takes one answer from them.                 *)
Stopped(timer) == IF timer = "on" THEN "off" ELSE timer
Rpc(new) == rpc' = new /\ UNCHANGED <<dataLimits, pubSideVars, takeVars, roomVars, receiverVars>>
Free == ~rpc.stuck

RpcStart ==
  /\ Env("rpc") /\ rpc.call = "idle"
  /\ \/ Rpc([rpc EXCEPT !.call = "sending", !.ackTimer = "on", !.respTimer = "on"])
     \/ Rpc([rpc EXCEPT !.call = "over", !.errs = <<"tooLarge">>])

RpcSend ==
  /\ rpc.call = "sending"
  /\ \/ Rpc([rpc EXCEPT !.call = "sent", !.remote = "asked"])
     \/ /\ rpc.errs = <<>>
        /\ Rpc([rpc EXCEPT !.call = "over", !.ackTimer = Stopped(@), !.respTimer = Stopped(@),
                           !.errs = <<"unsent">>])

RpcRegister == rpc.call = "sent" /\ Free /\ Rpc([rpc EXCEPT !.call = "over", !.ack = TRUE, !.resp = TRUE])

(* The ack and the response come as data messages of the other participant; *)
(* with "quick" even before the entries are there.                          *)
InTime == rpc.call = "over" \/ Env("quick")
handleIncomingRpcAck ==
  /\ rpc.remote = "asked" /\ InTime /\ Free
  /\ Rpc([rpc EXCEPT !.remote = "acked", !.ack = FALSE,
                     !.ackTimer = IF rpc.ack THEN Stopped(@) ELSE @])

handleIncomingRpcResponse ==
  /\ rpc.remote \in {"asked", "acked"} /\ InTime /\ Free
  /\ IF ~rpc.resp THEN Rpc([rpc EXCEPT !.remote = "answered"])
     ELSE \E kind \in {"result", "error"} :
       Rpc([rpc EXCEPT
         !.remote = "answered", !.resp = FALSE, !.respTimer = Stopped(@),
         !.inTime = rpc.ackTimer \in {"on", "off"} /\ rpc.respTimer \in {"on", "off"},
         !.ackTimer = IF rpc.ack THEN Stopped(@) ELSE @,
         !.results = IF kind = "result" THEN Append(@, "result") ELSE @,
         !.errs = IF kind = "error" /\ @ = <<>> THEN <<"error">> ELSE @,
         !.stuck = kind = "error" /\ rpc.errs # <<>>])

(* A timer fires, removes the entries and answers if nothing else waits.    *)
RpcTimerFires ==
  /\ rpc.call = "over" \/ Env("slowSend")
  /\ \/ rpc.ackTimer = "on" /\ Rpc([rpc EXCEPT !.ackTimer = "fired"])
     \/ rpc.respTimer = "on" /\ Rpc([rpc EXCEPT !.respTimer = "fired"])
RpcTimerDeletes ==
  /\ Free
  /\ \/ rpc.ackTimer = "fired"
        /\ Rpc([rpc EXCEPT !.ackTimer = "tells", !.ack = FALSE, !.resp = FALSE, !.respTimer = Stopped(@)])
     \/ rpc.respTimer = "fired" /\ Rpc([rpc EXCEPT !.respTimer = "tells", !.resp = FALSE])
RpcTimerTells ==
  LET errs == IF rpc.errs = <<>> THEN <<"timeout">> ELSE rpc.errs IN
    \/ rpc.ackTimer = "tells" /\ Rpc([rpc EXCEPT !.ackTimer = "off", !.errs = errs])
    \/ rpc.respTimer = "tells" /\ Rpc([rpc EXCEPT !.respTimer = "off", !.errs = errs])

RpcReturns ==
  /\ rpc.call # "idle" /\ rpc.answer = "none"
  /\ \/ rpc.results # <<>> /\ Rpc([rpc EXCEPT !.results = <<>>, !.answer = "result"])
     \/ rpc.errs # <<>> /\ Rpc([rpc EXCEPT !.errs = <<>>, !.answer = Head(rpc.errs)])

-----------------------------------------------------------------------------
(* A publisher that migrated in had sent one message more than the server   *)
(* it came from knew.                                                       *)
DataInit ==
  /\ dataLimits \in DataLimits
  /\ outbox = [p \in Publishers |-> [k \in 1..(IF dataLimits.last = 0 THEN 0 ELSE dataLimits.last + 1) |->
                                       Message(p, k, "all", NoNonce)]]
  /\ wire = [p \in Publishers |-> <<>>]
  /\ resend = [p \in Publishers |-> IF dataLimits.last = 0 THEN -1 ELSE dataLimits.last] /\ resumes = 0
  /\ lastPub = [p \in Publishers |-> dataLimits.last]
  /\ migCache = [p \in Publishers |->
       IF dataLimits.last = 0 THEN NoCache ELSE [NoCache EXCEPT !.on = TRUE, !.last = dataLimits.last]]
  /\ todo = [p \in Publishers |-> <<>>] /\ casting = [p \in Publishers \cup {Server} |-> NoMessage]
  /\ roomCache = <<>> /\ dedup = [seen |-> {}, head |-> "nil", tail |-> "nil"]
  /\ rState = IF Env("established") THEN "active" ELSE "away"
  /\ canWrite = Env("established")
  /\ firstSeqs = [p \in Publishers |-> 0] /\ lastWritten = [p \in Publishers |-> 0]
  /\ got = <<>> /\ owed = {}
  /\ rpc = [call |-> "idle", ackTimer |-> "off", respTimer |-> "off", ack |-> FALSE, resp |-> FALSE,
            remote |-> "none", errs |-> <<>>, results |-> <<>>, answer |-> "none", stuck |-> FALSE, inTime |-> FALSE]

DataNext ==
  \/ \E p \in Publishers :
       \/ ClientSends(p) \/ Resume(p) \/ ClientResends(p)
       \/ onReceivedDataMessage(p) \/ CacheExpires(p) \/ handleReceivedDataMessage(p)
  \/ \E p \in Publishers \cup {Server} : BroadcastDataPacketForRoom(p) \/ SendDataMessage(p)
  \/ SendDataPacket \/ Prune \/ Join \/ InitialConnected \/ replayJoiningReliableMessages
  \/ RpcStart \/ RpcSend \/ RpcRegister \/ handleIncomingRpcAck \/ handleIncomingRpcResponse
  \/ RpcTimerFires \/ RpcTimerDeletes \/ RpcTimerTells \/ RpcReturns

DataSpec == DataInit /\ [][DataNext]_dataVars

-----------------------------------------------------------------------------
Numbered(p) == SelectSeq(got, LAMBDA m : m.from = p)

(* The receiver gets the messages of a publisher in order and none twice,   *)
(* through resumes of the publisher and its own joining, and none that      *)
(* names others only.                                                       *)
GotInOrder ==
  /\ \A p \in Publishers : LET ms == Numbered(p) IN
       \A j, k \in DOMAIN ms : j < k => ms[j].seq < ms[k].seq
  /\ \A k \in DOMAIN got : got[k].dest # "other"

(* When nothing is on its way and it has joined, the receiver has every     *)
(* message the room meant for it, unless it was slow to read or slow to     *)
(* join.                                                                    *)
NothingIsMissed ==
  /\ canWrite /\ ~Env("slow") /\ ~Env("expire")
  /\ \A p \in Publishers : casting[p].step = "none"
  => \A m \in owed : \E k \in DOMAIN got : got[k].from = m.from /\ got[k].seq = m.seq

(* A publisher that migrated in goes on where it was: the numbers that are  *)
(* taken have no gap, unless the wait for the next one timed out.           *)
NumbersContinue ==
  ~Env("timeout") /\ ~Env("expire") =>
    \A p \in Publishers : LET ms == SelectSeq(roomCache, LAMBDA m : m.from = p) IN
      \A k \in DOMAIN ms : ms[k].seq = dataLimits.last + k

(* What clients and the API send with the same nonce comes once to a        *)
(* receiver that was there, as long as it is remembered.                    *)
OncePerNonce ==
  Env("established") /\ Cardinality(Nonces) <= DedupMax =>
    \A j, k \in DOMAIN got : got[j].nonce # NoNonce /\ got[j].nonce = got[k].nonce => j = k
RemembersEnough ==
  /\ Cardinality(dedup.seen) < DedupMax
  /\ \A pair \in dedup.seen : pair[2] = dedup.head \/ \E next \in dedup.seen : next[1] = pair[2]

(* A caller gets an answer, and not a timeout for a response that came in   *)
(* time; nothing blocks while it holds the lock.                            *)
RpcIsAnswered ==
  /\ rpc.stuck => Env("slowSend")
  /\ (rpc.call = "over" /\ rpc.ackTimer = "off" /\ rpc.respTimer = "off") =>
       rpc.answer # "none" \/ rpc.errs # <<>> \/ rpc.results # <<>>
  /\ rpc.inTime => ("timeout" \notin {rpc.answer} \cup ToSet(rpc.errs) \/ Env("slowSend"))
=============================================================================
