----------------------- MODULE SubscribedTrackSettings -----------------------
(***************************************************************************)
(* What a subscriber asks of a track (UpdateTrackSettings) and whether the *)
(* publisher muted it reach the forwarder through SubscribedTrack and      *)
(* DownTrack; the worker of a DownTrack tells the publisher's side the     *)
(* best layer that is wanted, and silent or blank frames end what was      *)
(* played before (subscribedtrack.go; downtrack.go: Mute, PubMute,         *)
(* handleMute, maxLayerNotifierWorker, writeBlankFrameRTP,                 *)
(* CloseWithFlush).  A goroutine is what it has still to do.               *)
(***************************************************************************)
EXTENDS Integers, Sequences, FiniteSets

CONSTANTS
  SettingsEnvs,   \* [kind |-> "audio" or "video", updates, infos, mutes |-> bounds, env |-> what happens]
  BlankFrames     \* bound on the frames of a blank writer

VARIABLES
  setEnv,
  settings, settingsVersion, settingsLock, debounced,
  layout,             \* version of the track's info, by which a quality has its layer
  fwdMuted, fwdPubMuted, fwdMax,
  trackMuted,         \* MediaTrack's
  dtListed, dtBound, dtClosed, dtWritable,   \* dtListed: in MediaTrackSubscriptions.subscribedTracks
  notifyCh, notifyClosed, notifier, toldMax, teller,
  blankGen, blanks,   \* blankFramesGeneration; the blank writers that run
  steps,              \* what each goroutine has still to do
  setCalls, forgiven

settingsVars ==
  <<setEnv, settings, settingsVersion, settingsLock, debounced, layout, fwdMuted, fwdPubMuted, fwdMax,
    trackMuted, dtListed, dtBound, dtClosed, dtWritable, notifyCh, notifyClosed, notifier, toldMax, teller, blankGen,
    blanks, steps, setCalls, forgiven>>
savedVars == <<settings, settingsVersion, settingsLock>>
fwdVars == <<fwdMuted, fwdPubMuted, fwdMax>>
trackVars == <<dtListed, dtBound, dtClosed, dtWritable>>
notifyVars == <<notifyClosed, notifier, toldMax, teller>>
blankVars == <<blankGen, blanks>>

Off == -1
High == 2
Unset == [quality |-> 0, disabled |-> FALSE]
Nobody == "nobody"
SetGoroutines == {"client", "timer", "info", "bound", "publisher", "binder", "negotiated", "close"}
Has(x) == x \in setEnv.env
IsVideo == setEnv.kind = "video"
Requests == [quality : IF IsVideo THEN 1 .. High ELSE {High}, disabled : BOOLEAN]

\* GetSpatialLayerForVideoQuality: of two layers or, once the publisher has changed its track, of one.
LayerOf(quality, info) == IF info = 0 THEN quality ELSE 0

SettingsInit ==
  /\ setEnv \in SettingsEnvs
  /\ settings = Unset /\ settingsVersion = 0 /\ settingsLock = Nobody /\ debounced = FALSE /\ layout = 0
  /\ fwdMuted = FALSE /\ fwdPubMuted = FALSE /\ fwdMax = Off
  /\ trackMuted \in {b \in BOOLEAN : b => setEnv.mutes > 0}
  /\ dtListed = ~Has("replace") /\ dtBound = FALSE /\ dtClosed = FALSE /\ dtWritable = FALSE
  /\ notifyCh = FALSE /\ notifyClosed = FALSE /\ notifier = <<"wait">> /\ toldMax = Off /\ teller = Nobody
  /\ blankGen = 0 /\ blanks = {} /\ steps = [g \in SetGoroutines |-> <<>>]
  /\ setCalls = [k \in {"updates", "infos", "mutes"} |-> 0] /\ forgiven = {}

On(g, op) == steps[g] # <<>> /\ Head(steps[g])[1] = op
Arg(g) == Head(steps[g])[2]
Then(g, next) == steps' = [steps EXCEPT ![g] = next \o Tail(@)]
Starts(g, prog) == steps[g] = <<>> /\ steps' = [steps EXCEPT ![g] = prog]
Counted(k) == setCalls[k] < setEnv[k] /\ setCalls' = [setCalls EXCEPT ![k] = @ + 1]

-----------------------------------------------------------------------------
(* SubscribedTrack: settings, and their application.                        *)
UpdateSubscriberSettings(s) ==
  /\ settingsLock = Nobody /\ s # settings /\ Counted("updates")
  /\ settings' = s
  /\ IF ~s.disabled /\ settings.disabled
       THEN Starts("client", <<<<"look", 0>>>>) /\ UNCHANGED debounced
       ELSE debounced' = TRUE /\ UNCHANGED steps
  /\ UNCHANGED <<setEnv, settingsVersion, settingsLock, layout, fwdVars, trackMuted, trackVars, notifyCh,
                 notifyVars, blankVars, forgiven>>

DebounceFires ==
  /\ debounced /\ debounced' = FALSE /\ Starts("timer", <<<<"look", 0>>>>)
  /\ UNCHANGED <<setEnv, savedVars, layout, fwdVars, trackMuted, trackVars, notifyCh, notifyVars, blankVars,
                 setCalls, forgiven>>

\* The track's info changes; then UpdateVideoLayers.
UpdateVideoLayer ==
  /\ IsVideo /\ dtListed /\ Counted("infos")
  /\ layout' = 1 - layout /\ Starts("info", <<<<"look", 0>>>>)
  /\ UNCHANGED <<setEnv, savedVars, debounced, fwdVars, trackMuted, trackVars, notifyCh, notifyVars,
                 blankVars, forgiven>>

\* applySettings, in the three pieces between its locks.
ApplyLooks(g) ==
  /\ On(g, "look") /\ settingsLock = Nobody
  /\ IF settings = Unset
       THEN Then(g, <<>>) /\ UNCHANGED settingsVersion
       ELSE settingsVersion' = settingsVersion + 1 /\ Then(g, <<<<"compute", settingsVersion'>>>>)
  /\ UNCHANGED <<setEnv, settings, settingsLock, debounced, layout, fwdVars, trackMuted, trackVars,
                 notifyCh, notifyVars, blankVars, setCalls, forgiven>>

ApplyComputes(g) ==
  /\ On(g, "compute")
  /\ Then(g, <<<<"apply", <<Arg(g), LayerOf(settings.quality, layout)>>>>>>)
  /\ UNCHANGED <<setEnv, savedVars, debounced, layout, fwdVars, trackMuted, trackVars, notifyCh, notifyVars,
                 blankVars, setCalls, forgiven>>

\* A form of Superseded that takes any settings for the latest.
SupersededNever(version) == FALSE
Superseded(version) == version # settingsVersion

Applies(g) ==
  /\ On(g, "apply") /\ settingsLock = Nobody
  /\ IF Superseded(Arg(g)[1])
       THEN Then(g, <<>>) /\ UNCHANGED settingsLock
       ELSE /\ settingsLock' = g
            /\ Then(g, <<<<"mute", settings.disabled>>>>
                       \o (IF ~settings.disabled /\ IsVideo THEN <<<<"max", Arg(g)[2]>>>> ELSE <<>>)
                       \o <<<<"unlock", 0>>>>)
  /\ UNCHANGED <<setEnv, settings, settingsVersion, debounced, layout, fwdVars, trackMuted, trackVars,
                 notifyCh, notifyVars, blankVars, setCalls, forgiven>>

ApplyEnds(g) ==
  /\ On(g, "unlock") /\ settingsLock' = Nobody /\ Then(g, <<>>)
  /\ UNCHANGED <<setEnv, settings, settingsVersion, debounced, layout, fwdVars, trackMuted, trackVars,
                 notifyCh, notifyVars, blankVars, setCalls, forgiven>>

-----------------------------------------------------------------------------
(* DownTrack: mutes and the maximum layer.                                  *)
postMaxLayerNotifierEvent == notifyCh' = (notifyCh \/ (IsVideo /\ ~notifyClosed))

\* A change begins a new generation of blank frames, which an audio track that is muted writes.
handleMute(g, changed) ==
  IF changed
    THEN /\ postMaxLayerNotifierEvent /\ blankGen' = blankGen + 1
         /\ Then(g, IF ~IsVideo /\ Arg(g) THEN <<<<"blank", 0>>>> ELSE <<>>)
    ELSE Then(g, <<>>) /\ UNCHANGED <<notifyCh, blankGen>>

\* Mute: not while the allocator keeps the track paused.
Mute(g) ==
  /\ On(g, "mute")
  /\ \/ fwdMuted' = Arg(g) /\ handleMute(g, fwdMuted # Arg(g)) /\ UNCHANGED forgiven
     \/ /\ Has("paused") /\ Arg(g) /\ ~fwdMuted
        /\ forgiven' = forgiven \cup {"ignored"} /\ handleMute(g, FALSE) /\ UNCHANGED fwdMuted
  /\ UNCHANGED <<setEnv, savedVars, debounced, layout, fwdPubMuted, fwdMax, trackMuted, trackVars,
                 notifyVars, blanks, setCalls>>

PubMute(g) ==
  /\ On(g, "pubMute")
  /\ fwdPubMuted' = Arg(g) /\ handleMute(g, fwdPubMuted # Arg(g))
  /\ forgiven' = (forgiven \ {"stale"}) \cup {x \in {"stale"} : Arg(g) # trackMuted}
  /\ UNCHANGED <<setEnv, savedVars, debounced, layout, fwdMuted, fwdMax, trackMuted, trackVars, notifyVars,
                 blanks, setCalls>>

Writer(by, gen) == [by |-> by, gen |-> gen, left |-> BlankFrames]
\* The generation is loaded anew: two that mute at the same time load the same.
WriteBlankFrames(g) ==
  /\ On(g, "blank")
  /\ blanks' = IF dtWritable THEN blanks \cup {Writer(g, blankGen)} ELSE blanks
  /\ forgiven' = forgiven \cup {x \in {"shared"} : \E w \in blanks : w.gen = blankGen}
  /\ Then(g, <<>>)
  /\ UNCHANGED <<setEnv, savedVars, debounced, layout, fwdVars, trackMuted, trackVars, notifyCh, notifyVars,
                 blankGen, setCalls>>

WriterEnds(w) == w.gen # blankGen \/ w.left = 0 \/ ~dtWritable

BlankStep(w) ==
  /\ blanks' = (blanks \ {w}) \cup (IF WriterEnds(w) THEN {} ELSE {[w EXCEPT !.left = @ - 1]})
  /\ UNCHANGED <<setEnv, savedVars, debounced, layout, fwdVars, trackMuted, trackVars, notifyCh, notifyVars,
                 blankGen, steps, setCalls, forgiven>>

SetMaxSpatialLayer(g) ==
  /\ On(g, "max")
  /\ fwdMax' = Arg(g) /\ Then(g, <<>>)
  /\ IF fwdMax = Arg(g) THEN UNCHANGED notifyCh ELSE postMaxLayerNotifierEvent
  /\ UNCHANGED <<setEnv, savedVars, debounced, layout, fwdMuted, fwdPubMuted, trackMuted, trackVars,
                 notifyVars, blankVars, setCalls, forgiven>>

\* GetMaxSubscribedSpatial, without a layer that is still being forwarded.
MaxSubscribed == IF fwdMuted THEN Off ELSE fwdMax

\* maxLayerNotifierWorker: receives an event and reads the layer, then tells; at the end that none is wanted.
NotifierReads ==
  /\ notifier = <<"wait">> /\ (notifyCh \/ notifyClosed)
  /\ notifyCh' = FALSE /\ notifier' = IF notifyCh THEN <<"tell", MaxSubscribed>> ELSE <<"last", Off>>
  /\ UNCHANGED <<setEnv, savedVars, debounced, layout, fwdVars, trackMuted, trackVars, notifyClosed, toldMax,
                 teller, blankVars, steps, setCalls, forgiven>>
NotifierTells ==
  /\ notifier[1] \in {"tell", "last"}
  /\ toldMax' = notifier[2] /\ teller' = "notifier"
  /\ notifier' = IF notifier[1] = "last" THEN <<"ended">> ELSE <<"wait">>
  /\ UNCHANGED <<setEnv, savedVars, debounced, layout, fwdVars, trackMuted, trackVars, notifyCh,
                 notifyClosed, blankVars, steps, setCalls, forgiven>>

-----------------------------------------------------------------------------
(* The publisher, the bind and the end.                                     *)
\* The mute of the track is stored, then told to the subscribed tracks that are listed.
SetMuted(b) ==
  /\ b # trackMuted /\ Counted("mutes")
  /\ trackMuted' = b /\ Starts("publisher", IF dtListed THEN <<<<"pubMute", b>>>> ELSE <<>>)
  /\ forgiven' = forgiven \cup {x \in {"unlisted"} : dtBound /\ ~dtListed}
  /\ UNCHANGED <<setEnv, savedVars, debounced, layout, fwdVars, trackVars, notifyCh, notifyVars, blankVars>>

\* AddSubscriber lists the track at its end: after a bind that comes from ReplaceTrack.
AddSubscriberEnds ==
  /\ ~dtListed /\ dtListed' = TRUE
  /\ UNCHANGED <<setEnv, savedVars, debounced, layout, fwdVars, trackMuted, dtBound, dtClosed, dtWritable,
                 notifyCh, notifyVars, blankVars, steps, setCalls, forgiven>>

\* Bind and doBind: the highest layer is asked for, the mute of the track read, to be applied, and Bound called.
DoBind ==
  /\ ~dtBound /\ ~dtClosed
  /\ dtBound' = TRUE /\ dtWritable' = TRUE
  /\ steps' = [steps EXCEPT !["binder"] = <<<<"pubMute", trackMuted>>>>, !["bound"] = <<<<"init", 0>>>>,
                            !["negotiated"] = IF IsVideo THEN <<<<"high", 0>>>> ELSE <<>>]
  /\ UNCHANGED <<setEnv, savedVars, debounced, layout, fwdVars, trackMuted, dtListed, dtClosed, notifyCh, notifyVars,
                 blankVars, setCalls, forgiven>>

Bound(g) ==
  /\ On(g, "init") /\ settingsLock = Nobody
  /\ settings' = IF ~IsVideo THEN settings
                 ELSE IF settings = Unset THEN [quality |-> IF Has("adaptive") THEN 1 ELSE High, disabled |-> FALSE]
                 ELSE [settings EXCEPT !.disabled = @ /\ ~Has("adaptive")]
  /\ Then(g, IF IsVideo THEN <<<<"look", 0>>>> ELSE <<>>)
  /\ UNCHANGED <<setEnv, settingsVersion, settingsLock, debounced, layout, fwdVars, trackMuted, trackVars,
                 notifyCh, notifyVars, blankVars, setCalls, forgiven>>

OnCodecNegotiated(g) ==
  /\ On(g, "high")
  /\ toldMax' = LayerOf(High, layout) /\ teller' = "negotiated" /\ Then(g, <<>>)
  /\ UNCHANGED <<setEnv, savedVars, debounced, layout, fwdVars, trackMuted, trackVars, notifyCh,
                 notifyClosed, notifier, blankVars, setCalls, forgiven>>

TrackCloses ==
  /\ Has("close") /\ ~dtClosed /\ steps["binder"] = <<>>
  /\ dtClosed' = TRUE
  /\ IF dtBound
       THEN /\ fwdMuted' = TRUE /\ blankGen' = blankGen + 1 /\ blanks' = blanks \cup {Writer("close", blankGen')}
            /\ Starts("close", <<<<"flush", blankGen'>>, <<"closed", 0>>>>)
       ELSE Starts("close", <<<<"closed", 0>>>>) /\ UNCHANGED <<fwdMuted, blankVars>>
  /\ UNCHANGED <<setEnv, savedVars, debounced, layout, fwdPubMuted, fwdMax, trackMuted, dtListed, dtBound,
                 dtWritable, notifyCh, notifyVars, setCalls, forgiven>>

\* The flush is done, or has taken too long.
CloseFlushes(g) ==
  /\ On(g, "flush") /\ Then(g, <<>>)
  /\ \/ blankGen' = blankGen + 1
     \/ (\A w \in blanks : w.by # "close") /\ UNCHANGED blankGen
  /\ dtWritable' = FALSE
  /\ UNCHANGED <<setEnv, savedVars, debounced, layout, fwdVars, trackMuted, dtListed, dtBound,
                 dtClosed, notifyCh, notifyVars, blanks, setCalls, forgiven>>

CloseNotifier(g) ==
  /\ On(g, "closed") /\ Then(g, <<>>) /\ notifyClosed' = TRUE
  /\ UNCHANGED <<setEnv, savedVars, debounced, layout, fwdVars, trackMuted, trackVars, notifyCh, notifier,
                 toldMax, teller, blankVars, setCalls, forgiven>>

SettingsNext ==
  \/ \E s \in Requests : UpdateSubscriberSettings(s)
  \/ DebounceFires \/ UpdateVideoLayer \/ AddSubscriberEnds \/ DoBind \/ TrackCloses
  \/ \E b \in BOOLEAN : SetMuted(b)
  \/ NotifierReads \/ NotifierTells
  \/ \E w \in blanks : BlankStep(w)
  \/ \E g \in SetGoroutines :
       \/ ApplyLooks(g) \/ ApplyComputes(g) \/ Applies(g) \/ ApplyEnds(g) \/ Mute(g) \/ PubMute(g)
       \/ WriteBlankFrames(g) \/ SetMaxSpatialLayer(g) \/ Bound(g)
       \/ OnCodecNegotiated(g) \/ CloseFlushes(g) \/ CloseNotifier(g)

SettingsSpec == SettingsInit /\ [][SettingsNext]_settingsVars

-----------------------------------------------------------------------------
Still == ~debounced /\ \A g \in SetGoroutines : steps[g] = <<>>

(* What the subscriber asked for last is what the forwarder does, however   *)
(* updates, the bind and changes of the track's layers interleave.          *)
SettingsAreApplied ==
  Still /\ settings # Unset /\ ~dtClosed /\ "ignored" \notin forgiven =>
    /\ fwdMuted = settings.disabled
    /\ IsVideo /\ ~settings.disabled => fwdMax = LayerOf(settings.quality, layout)

(* A track whose publisher muted it is muted at its forwarder.              *)
PubMuteIsKnown == Still /\ dtBound /\ forgiven \cap {"stale", "unlisted"} = {} => fwdPubMuted = trackMuted

(* The publisher's side was told of the best layer wanted, and at the end   *)
(* that none is.                                                            *)
ToldIsMax ==
  /\ Still /\ IsVideo /\ notifier = <<"wait">> /\ ~notifyCh /\ ~notifyClosed /\ ~dtClosed
       => toldMax = MaxSubscribed \/ teller = "negotiated"
  /\ notifier = <<"ended">> => toldMax = Off \/ teller = "negotiated"

(* One writer of blank frames goes on.                                      *)
OneBlankWriter ==
  "shared" \notin forgiven => Cardinality({w \in blanks : ~WriterEnds(w)}) =< 1
=============================================================================
