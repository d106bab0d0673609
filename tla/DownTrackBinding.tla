-------------------------- MODULE DownTrackBinding --------------------------
(***************************************************************************)
(* A down track is bound when its subscriber has negotiated a codec and    *)
(* the receiver of that codec is there; may write when it is bound and the *)
(* subscriber connected; and is moved to the receiver of another codec     *)
(* when the publisher can no longer send the first (DownTrack.Bind,        *)
(* SetReceiver, CloseWithFlush; WrappedReceiver, DummyReceiver;            *)
(* simulcastReceiver.RegressTo).                                           *)
(*                                                                         *)
(* What a goroutine has still to do is a sequence of steps, each atomic    *)
(* because it is made under one lock.  bindLock is a variable of its own   *)
(* since CloseWithFlush keeps it while it flushes.                         *)
(***************************************************************************)
EXTENDS Integers, Sequences, FiniteSets

CONSTANT BindEnvs   \* [codecs |-> negotiated, dummy |-> codecs without receiver, binds |-> bound, env |-> what happens]

VARIABLES
  bindEnv,        \* of the behaviour
  bindState,      \* "unbound", "wait", "bound"
  isReceiverReady,
  bindOnReceiverReady,   \* codec of the pending doBind, or NoCodec
  codec,          \* d.codec, and what the forwarder was last told
  fwdCodec,
  isConnected, writable, writeStopped, isClosed,
  bindLock,       \* the goroutine that keeps it, or Free
  receiver,       \* d.receiver: Wrapped or a codec
  chosen,         \* WrappedReceiver.TrackReceiver: a codec or NoCodec
  wrappedReady,   \* WrappedReceiver.onReadyCallbacks is not empty
  real,           \* codecs whose receiver is there (DummyReceiver.receiver)
  held, dummyReady,   \* DummyReceiver.downTracks and onReadyCallbacks, by codec
  attached,       \* receivers that have the down track
  regressed,      \* simulcastReceiver.regressTo of Primary
  todo,           \* what each goroutine has still to do
  binds,
  excused         \* why the track may be left as it is

bindVars ==
  <<bindEnv, bindState, isReceiverReady, bindOnReceiverReady, codec, fwdCodec, isConnected, writable,
    writeStopped, isClosed, bindLock, receiver, chosen, wrappedReady, real, held, dummyReady, attached,
    regressed, todo, binds, excused>>
connVars == <<isConnected, writeStopped>>
wrapVars == <<chosen, wrappedReady>>
dummyVars == <<real, held, dummyReady, attached>>

NoCodec == "none"
Wrapped == "wrapped"
Free == "free"
Primary == "p"
Backup == "b"
Codecs == {Primary, Backup}
UpstreamCodecs == <<Primary, Backup>>
Goroutines == {"bind", "upgrade", "regress", "moved", "close", "restart"}
Env(x) == x \in bindEnv.env

\* NewDownTrack registers handleReceiverReady with the wrapper it is given.
BindInit ==
  /\ bindEnv \in BindEnvs
  /\ bindState = "unbound" /\ isReceiverReady = FALSE /\ bindOnReceiverReady = NoCodec
  /\ codec = Primary /\ fwdCodec = NoCodec
  /\ isConnected = FALSE /\ writable = FALSE /\ writeStopped = FALSE /\ isClosed = FALSE
  /\ bindLock = Free /\ receiver = Wrapped /\ chosen = NoCodec /\ wrappedReady = TRUE
  /\ real = Codecs \ bindEnv.dummy /\ held = {} /\ dummyReady = {} /\ attached = {}
  /\ regressed = FALSE /\ todo = [g \in Goroutines |-> <<>>] /\ binds = 0 /\ excused = {}

-----------------------------------------------------------------------------
(* The steps of a goroutine.                                                *)
At(g, op, c) == todo[g] # <<>> /\ Head(todo[g]) = <<op, c>>
Goes(g, steps) == todo' = [todo EXCEPT ![g] = steps \o Tail(@)]
Unlocked == bindLock = Free

onBindAndConnectedChange(conn, state) ==
  writable' = IF writeStopped THEN writable ELSE conn /\ state = "bound"

setBindStateLocked(state) ==
  /\ bindState' = state
  /\ IF state \in {"bound", "unbound"} /\ state # bindState
       THEN bindOnReceiverReady' = NoCodec /\ onBindAndConnectedChange(isConnected, state)
       ELSE UNCHANGED <<bindOnReceiverReady, writable>>

\* DummyReceiver.AddDownTrack and DeleteDownTrack.
AddDownTrack(c) ==
  IF c \in real THEN attached' = attached \cup {c} /\ UNCHANGED held
                ELSE held' = held \cup {c} /\ UNCHANGED attached
DeleteDownTrack(c) ==
  IF c \in real THEN attached' = attached \ {c} /\ UNCHANGED held
                ELSE held' = held \ {c} /\ UNCHANGED attached

\* The receiver of the down track, looked up through the wrapper.
Receiver == IF receiver = Wrapped THEN chosen ELSE receiver

SetReceiver(c) ==
  <<<<"swap", c>>, <<"onReady", c>>, <<"change", c>>, <<"attach", c>>>>

-----------------------------------------------------------------------------
(* Binding.                                                                 *)
Matched ==
  LET ofClient(c) == c \in bindEnv.codecs IN SelectSeq(UpstreamCodecs, ofClient)[1]

Bind ==
  /\ binds < bindEnv.binds /\ todo["bind"] = <<>> /\ Unlocked /\ bindState = "unbound"
  /\ binds' = binds + 1
  /\ IF isClosed
       THEN UNCHANGED <<bindState, bindOnReceiverReady, todo>>
       ELSE IF isReceiverReady
         THEN /\ todo' = [todo EXCEPT !["bind"] = <<<<"negotiated", Matched>>, <<"bind", Matched>>>>]
              /\ UNCHANGED <<bindState, bindOnReceiverReady>>
         ELSE /\ todo' = [todo EXCEPT !["bind"] = <<<<"negotiated", Matched>>>>]
              /\ bindState' = "wait" /\ bindOnReceiverReady' = Matched
  /\ UNCHANGED <<bindEnv, isReceiverReady, codec, fwdCodec, connVars, writable, isClosed, bindLock,
                 receiver, wrapVars, dummyVars, regressed, excused>>

\* OnCodecNegotiated: the wrapper learns which receiver it stands for.
DetermineReceiver(g, c) ==
  /\ At(g, "negotiated", c)
  /\ chosen' = c /\ wrappedReady' = FALSE
  /\ Goes(g, IF wrappedReady THEN <<<<"onReady", c>>>> ELSE <<>>)
  /\ UNCHANGED <<bindEnv, bindState, isReceiverReady, bindOnReceiverReady, codec, fwdCodec, connVars,
                 writable, isClosed, bindLock, receiver, dummyVars, regressed, binds, excused>>

\* A receiver is ready once it is there; a dummy keeps the callback.
AddOnReady(g, c) ==
  /\ At(g, "onReady", c)
  /\ IF c \in real THEN Goes(g, <<<<"ready", c>>>>) /\ UNCHANGED dummyReady
                   ELSE Goes(g, <<>>) /\ dummyReady' = dummyReady \cup {c}
  /\ UNCHANGED <<bindEnv, bindState, isReceiverReady, bindOnReceiverReady, codec, fwdCodec, connVars,
                 writable, isClosed, bindLock, receiver, wrapVars, real, held, attached, regressed,
                 binds, excused>>

handleReceiverReady(g, c) ==
  /\ At(g, "ready", c) /\ Unlocked
  /\ isReceiverReady' = TRUE
  /\ IF isReceiverReady \/ bindOnReceiverReady = NoCodec
       THEN Goes(g, <<>>) /\ UNCHANGED bindOnReceiverReady
       ELSE Goes(g, <<<<"bind", bindOnReceiverReady>>>>) /\ bindOnReceiverReady' = NoCodec
  /\ UNCHANGED <<bindEnv, bindState, codec, fwdCodec, connVars, writable, isClosed, bindLock, receiver,
                 wrapVars, dummyVars, regressed, binds, excused>>

\* onBinding attaches the track; the receiver of a regressed codec sends it on to the other.
OnBinding(g, rest) ==
  IF chosen = Primary /\ regressed
    THEN /\ todo["moved"] = <<>>
         /\ todo' = [todo EXCEPT ![g] = rest, !["moved"] = SetReceiver(Backup)]
         /\ UNCHANGED <<held, attached>>
    ELSE AddDownTrack(chosen) /\ todo' = [todo EXCEPT ![g] = rest]

doBind(g, c) ==
  /\ At(g, "bind", c) /\ Unlocked
  /\ IF isClosed
       THEN Goes(g, <<>>) /\ UNCHANGED <<codec, bindState, bindOnReceiverReady, writable, held, attached>>
       ELSE /\ codec' = c /\ setBindStateLocked("bound")
            /\ OnBinding(g, <<<<"determine", c>>>> \o Tail(todo[g]))
  /\ UNCHANGED <<bindEnv, isReceiverReady, fwdCodec, connVars, isClosed, bindLock, receiver, wrapVars,
                 real, dummyReady, regressed, binds, excused>>

\* After the lock is released: forwarder.DetermineCodec, with a Restart before it if the codec changed.
DetermineCodec(g, c) ==
  /\ At(g, "determine", c) \/ At(g, "restart", c)
  /\ fwdCodec' = c /\ Goes(g, <<>>)
  /\ excused' = (excused \ {"overtaken"}) \cup {x \in {"overtaken"} : c # codec}
  /\ UNCHANGED <<bindEnv, bindState, isReceiverReady, bindOnReceiverReady, codec, connVars, writable,
                 isClosed, bindLock, receiver, wrapVars, dummyVars, regressed, binds>>

Unbind ==
  /\ Env("unbind") /\ Unlocked /\ bindState # "unbound"
  /\ setBindStateLocked("unbound")
  /\ UNCHANGED <<bindEnv, isReceiverReady, codec, fwdCodec, connVars, isClosed, bindLock, receiver,
                 wrapVars, dummyVars, regressed, todo, binds, excused>>

SetConnected ==
  /\ Env("connect") /\ Unlocked /\ ~isConnected
  /\ isConnected' = TRUE /\ onBindAndConnectedChange(TRUE, bindState)
  /\ UNCHANGED <<bindEnv, bindState, isReceiverReady, bindOnReceiverReady, codec, fwdCodec, writeStopped,
                 isClosed, bindLock, receiver, wrapVars, dummyVars, regressed, todo, binds, excused>>

StopWriteAndGetState ==
  /\ Env("stop") /\ Unlocked /\ ~writeStopped
  /\ writable' = FALSE /\ writeStopped' = TRUE
  /\ UNCHANGED <<bindEnv, bindState, isReceiverReady, bindOnReceiverReady, codec, fwdCodec, isConnected,
                 isClosed, bindLock, receiver, wrapVars, dummyVars, regressed, todo, binds, excused>>

-----------------------------------------------------------------------------
(* Receivers come, and a codec is given up for the other.                   *)
\* SetupReceiver upgrades the dummy in its place.
Upgrade(c) ==
  /\ todo["upgrade"] = <<>> /\ c \notin real
  /\ real' = real \cup {c} /\ todo' = [todo EXCEPT !["upgrade"] = <<<<"drain", c>>>>]
  /\ UNCHANGED <<bindEnv, bindState, isReceiverReady, bindOnReceiverReady, codec, fwdCodec, connVars,
                 writable, isClosed, bindLock, receiver, wrapVars, held, dummyReady, attached, regressed,
                 binds, excused>>

UpgradeDrain(g, c) ==
  /\ At(g, "drain", c)
  /\ held' = held \ {c} /\ attached' = attached \cup (held \cap {c}) /\ dummyReady' = dummyReady \ {c}
  /\ Goes(g, IF c \in dummyReady THEN <<<<"ready", c>>>> ELSE <<>>)
  /\ UNCHANGED <<bindEnv, bindState, isReceiverReady, bindOnReceiverReady, codec, fwdCodec, connVars,
                 writable, isClosed, bindLock, receiver, wrapVars, real, regressed, binds, excused>>

\* HandleReceiverCodecChange and RegressTo: the down tracks of the receiver are moved.
RegressTo ==
  /\ Env("regress") /\ ~regressed /\ Primary \in real
  /\ regressed' = TRUE
  /\ todo' = [todo EXCEPT !["regress"] = IF Primary \in attached THEN SetReceiver(Backup) ELSE <<>>]
  /\ UNCHANGED <<bindEnv, bindState, isReceiverReady, bindOnReceiverReady, codec, fwdCodec, connVars,
                 writable, isClosed, bindLock, receiver, wrapVars, dummyVars, binds, excused>>

\* SetReceiver: the first part, under bindLock.
SwapReceiver(g, c) ==
  /\ At(g, "swap", c) /\ Unlocked
  /\ IF isClosed
       THEN todo' = [todo EXCEPT ![g] = <<>>] /\ UNCHANGED <<receiver, held, attached>>
       ELSE /\ receiver' = c /\ Goes(g, <<>>)
            /\ IF Receiver = NoCodec THEN UNCHANGED <<held, attached>> ELSE DeleteDownTrack(Receiver)
  /\ UNCHANGED <<bindEnv, bindState, isReceiverReady, bindOnReceiverReady, codec, fwdCodec, connVars,
                 writable, isClosed, bindLock, wrapVars, real, dummyReady, regressed, binds, excused>>

\* A client that cannot change codecs has its track closed, to negotiate anew.
handleUpstreamCodecChange(g, c) ==
  /\ At(g, "change", c) /\ Unlocked
  /\ CASE codec = c -> Goes(g, <<>>) /\ UNCHANGED codec
       [] codec # c /\ Env("fixedCodec") ->
            /\ todo' = [todo EXCEPT ![g] = Tail(@), !["close"] = IF @ = <<>> THEN <<<<"close", c>>>> ELSE @]
            /\ UNCHANGED codec
       [] OTHER -> codec' = c /\ Goes(g, <<<<"restart", c>>>>)
  /\ UNCHANGED <<bindEnv, bindState, isReceiverReady, bindOnReceiverReady, fwdCodec, connVars, writable,
                 isClosed, bindLock, receiver, wrapVars, dummyVars, regressed, binds, excused>>

\* The last part of SetReceiver does not look whether the track was closed meanwhile.
AttachMoved(g, c) ==
  /\ At(g, "attach", c) /\ Unlocked
  /\ AddDownTrack(c) /\ Goes(g, <<>>)
  /\ excused' = excused \cup {x \in {"late"} : isClosed}
  /\ UNCHANGED <<bindEnv, bindState, isReceiverReady, bindOnReceiverReady, codec, fwdCodec, connVars,
                 writable, isClosed, bindLock, receiver, wrapVars, real, dummyReady, regressed, binds>>

\* ReceiverRestart, told by the receiver the track is attached to: the codec is read under bindLock and told to
\* the forwarder later.
ReceiverRestart ==
  /\ Env("restart") /\ todo["restart"] = <<>> /\ Unlocked
  /\ \E c \in attached : c = Receiver
  /\ todo' = [todo EXCEPT !["restart"] = <<<<"restart", codec>>>>]
  /\ UNCHANGED <<bindEnv, bindState, isReceiverReady, bindOnReceiverReady, codec, fwdCodec, connVars,
                 writable, isClosed, bindLock, receiver, wrapVars, dummyVars, regressed, binds, excused>>

-----------------------------------------------------------------------------
(* Closing.                                                                 *)
CloseCalled ==
  /\ Env("close") /\ todo["close"] = <<>> /\ ~isClosed
  /\ todo' = [todo EXCEPT !["close"] = <<<<"close", codec>>>>]
  /\ UNCHANGED <<bindEnv, bindState, isReceiverReady, bindOnReceiverReady, codec, fwdCodec, connVars,
                 writable, isClosed, bindLock, receiver, wrapVars, dummyVars, regressed, binds, excused>>

\* CloseWithFlush keeps the lock while a bound track is flushed.
CloseWithFlush(g, c) ==
  /\ At(g, "close", c) /\ Unlocked
  /\ isClosed' = TRUE /\ bindLock' = IF isClosed THEN Free ELSE g
  /\ Goes(g, IF isClosed THEN <<>> ELSE <<<<"flushed", c>>>>)
  /\ UNCHANGED <<bindEnv, bindState, isReceiverReady, bindOnReceiverReady, codec, fwdCodec, connVars,
                 writable, receiver, wrapVars, dummyVars, regressed, binds, excused>>

CloseEnds(g, c) ==
  /\ At(g, "flushed", c)
  /\ setBindStateLocked("unbound")
  /\ IF Receiver = NoCodec THEN UNCHANGED <<held, attached>> ELSE DeleteDownTrack(Receiver)
  /\ bindLock' = Free /\ Goes(g, <<>>)
  /\ excused' = excused \cup {x \in {"draining"} : Receiver \in real \cap held}
  /\ UNCHANGED <<bindEnv, isReceiverReady, codec, fwdCodec, connVars, isClosed, receiver, wrapVars, real,
                 dummyReady, regressed, binds>>

-----------------------------------------------------------------------------
BindNext ==
  \/ Bind \/ Unbind \/ SetConnected \/ StopWriteAndGetState
  \/ RegressTo \/ ReceiverRestart \/ CloseCalled
  \/ \E c \in Codecs : Upgrade(c)
  \/ \E g \in Goroutines, c \in Codecs :
       \/ DetermineReceiver(g, c) \/ AddOnReady(g, c) \/ handleReceiverReady(g, c) \/ doBind(g, c)
       \/ DetermineCodec(g, c) \/ UpgradeDrain(g, c) \/ SwapReceiver(g, c)
       \/ handleUpstreamCodecChange(g, c) \/ AttachMoved(g, c)
       \/ CloseWithFlush(g, c) \/ CloseEnds(g, c)

BindSpec == BindInit /\ [][BindNext]_bindVars

-----------------------------------------------------------------------------
Idle == \A g \in Goroutines : todo[g] = <<>>

(* Packets are written exactly while the track is bound and its subscriber  *)
(* connected, and never after they were stopped for a migration or after    *)
(* the track was closed, whatever else binds it late.                       *)
WritesWhenItMay ==
  /\ writable => ~writeStopped
  /\ ~writeStopped => (writable <=> isConnected /\ bindState = "bound")
  /\ isClosed /\ bindLock = Free => ~writable

(* A bind does not wait for a receiver that is there.                       *)
BindDoesNotWait == Idle /\ chosen \in real => bindState # "wait"

(* A track that is left alone has one codec, and is with the receiver of    *)
(* that codec only.                                                         *)
OneCodec == Idle /\ bindState = "bound" /\ excused = {} => fwdCodec = codec
OneReceiver ==
  Idle /\ bindState = "bound" /\ excused = {} => codec = Receiver /\ attached \cup held = {codec}

(* A closed track is with no receiver.                                      *)
ClosedIsDetached == Idle /\ isClosed /\ excused = {} => attached = {} /\ held = {}
=============================================================================
