------------------------------ MODULE Recorder ------------------------------
(* The recording of a candidate's session: SessionRecorder of                  *)
(* enterprise/lib/recorder.ts, the page that drives it (candidate-flow.tsx),   *)
(* and the engine's epochs and upload URLs (engine/recinfra.mjs).  The browser *)
(* runs one piece of code at a time; what interleaves are the continuations    *)
(* behind each await, and the page, the camera and the candidate.              *)
(* A shot is an image or a sound chunk; the slower cadence after failed uploads*)
(* and the events of the trail are left out.                                   *)
EXTENDS EntNames, Naturals, FiniteSets

CONSTANTS Recorders,  \* SessionRecorder objects, also of reloaded pages
          MaxEpochs,  \* bound: capture epochs of the invite
          MaxGen,     \* bound: how often a recorder loses and reopens its media
          MaxShots,   \* bound: shots of one recorder
          MaxClicks   \* bound: clicks on the banner at once

ASSUME RecorderConstants ==
  /\ MaxEpochs \in Nat /\ MaxGen \in Nat /\ MaxShots \in Nat /\ MaxClicks \in Nat
  /\ None \notin Recorders

VARIABLES
  \* ---- engine
  writable,  \* the invite is started, not erased, not revoked
  recEpoch,  \* the current capture epoch
  stored,    \* objects in the bucket: key (epoch, seq) and whose shot it is
  \* ---- page
  screen,    \* "room", "reflection" or "done"
  ref,       \* recorderRef
  effect,    \* the effect that starts a recorder in the room
  clicks,    \* clicks on the banner that wait for the camera without a recorder
  shown,     \* recStatus
  submitting,\* how far handleSubmit() has come
  stray,     \* a recorder was made for a page that had moved on, or had one
  beaconed,  \* beaconSentRef: the page submitted itself when it was left
  \* ---- recorders
  rec

pageVars == <<screen, ref, effect, clicks, shown, submitting, stray, beaconed>>
engineVars == <<writable, recEpoch, stored>>
recorderVars == <<engineVars, pageVars, rec>>

\* A recorder that does not exist yet.  A continuation in awaits waits for what its
\* field "at" says, on behalf of why, since generation gen.
Blank == [made |-> FALSE, active |-> FALSE, stopped |-> FALSE, busy |-> FALSE,
          gen |-> 0, epoch |-> 0, loop |-> 0, cam |-> "none", hooked |-> FALSE,
          spilt |-> FALSE, awaits |-> {}, stop |-> "no",
          shots |-> 0, queue |-> {}]

Awaits == [at : {"media", "epoch", "play"}, why : {"first", "lost", "retry"},
           gen : 0..(MaxGen + 1)]

RecorderTypeOK ==
  /\ writable \in BOOLEAN /\ recEpoch \in 0..MaxEpochs
  /\ stored \subseteq [epoch : 1..MaxEpochs, seq : 0..MaxShots, by : Recorders]
  /\ screen \in {"room", "reflection", "done"}
  /\ ref \in Recorders \cup {None}
  /\ effect \in {"due", "asking", "over"} /\ clicks \in 0..MaxClicks
  /\ shown \in {"off", "recording", "paused"}
  /\ submitting \in {"no", "flushing", "sent"}
  /\ stray \in BOOLEAN /\ beaconed \in BOOLEAN
  /\ rec \in [Recorders ->
       [made : BOOLEAN, active : BOOLEAN, stopped : BOOLEAN, busy : BOOLEAN,
        gen : 0..(MaxGen + 1), epoch : 0..MaxEpochs, loop : 0..2,
        cam : {"none", "live", "lost"}, hooked : BOOLEAN, spilt : BOOLEAN,
        awaits : SUBSET Awaits, stop : {"no", "chunk", "flush", "over"},
        shots : 0..MaxShots, queue : SUBSET (0..MaxShots)]]

RecorderInit ==
  /\ writable = TRUE /\ recEpoch = 0 /\ stored = {}
  /\ screen = "room" /\ ref = None /\ effect = "due" /\ clicks = 0
  /\ shown = "off" /\ submitting = "no" /\ stray = FALSE /\ beaconed = FALSE
  /\ rec = [x \in Recorders |-> Blank]

-----------------------------------------------------------------------------
Becomes(x, d) == rec' = [rec EXCEPT ![x] = d]

\* A shot is put in the queue; only of a camera that works.
Shot(d) ==
  IF d.cam = "live" /\ d.shots < MaxShots
    THEN [d EXCEPT !.shots = @ + 1, !.queue = @ \cup {d.shots}]
    ELSE d

\* teardownMedia()
Torn(d) == [d EXCEPT !.gen = @ + 1, !.active = FALSE, !.loop = 0,
                     !.cam = "none", !.hooked = FALSE]

Waits(d, at, why) ==
  [d EXCEPT !.awaits = @ \cup {[at |-> at, why |-> why, gen |-> d.gen]}]

\* The part of start() before its first await.
Begun(d, why) ==
  Waits([d EXCEPT !.active = TRUE, !.spilt = @ \/ d.cam # "none",
                  !.cam = "live", !.hooked = FALSE], "epoch", why)

\* The end of a continuation, with that of handleTrackLost() or retry().
Over(d, a) == [d EXCEPT !.awaits = @ \ {a},
                        !.busy = IF a.why = "first" THEN @ ELSE FALSE]

Abandoned(d, a) == d.stopped \/ d.gen # a.gen

\* start() finds that it was stopped or replaced: the tracks of its own stream, which
\* are the recorder's only while nothing was torn down, are stopped.
Dropped(d, a) == [Over(d, a) EXCEPT !.cam = IF d.gen = a.gen THEN "none" ELSE @]

\* retryRecording() shows "recording" when retry() says there is an epoch.
Answered(d, a, was) == IF a.why = "retry" /\ d.epoch # 0 THEN "recording" ELSE was

-----------------------------------------------------------------------------
(* The page                                                                  *)

\* A new recorder for a camera that was just opened.
Makes(x) ==
  /\ ~rec[x].made
  /\ Becomes(x, Begun([Blank EXCEPT !.made = TRUE], "first"))
  /\ ref' = x
  /\ stray' = (stray \/ screen # "room" \/ ref # None \/ submitting # "no")

\* The effect of entering the room.
EntersRoom ==
  /\ effect = "due" /\ screen = "room"
  /\ effect' = IF ref = None THEN "asking" ELSE "over"
  /\ UNCHANGED <<engineVars, screen, ref, clicks, shown, submitting, stray, beaconed, rec>>

\* Leaving the room cancels it: GoesToReflection sets it to "over".
CameraGranted(x) ==
  /\ effect = "asking"
  /\ Makes(x)
  /\ effect' = "over"
  /\ UNCHANGED <<engineVars, screen, clicks, shown, submitting, beaconed>>

CameraDenied ==
  /\ effect = "asking"
  /\ effect' = "over"
  /\ shown' = "paused"
  /\ UNCHANGED <<engineVars, screen, ref, clicks, submitting, stray, beaconed, rec>>

\* "Re-enable" in the banner: retry() of the recorder there is, ...
ClicksRetry ==
  /\ screen = "room" /\ shown = "paused" /\ ref # None
  /\ ~rec[ref].stopped /\ ~rec[ref].busy /\ rec[ref].gen < MaxGen
  /\ Becomes(ref, Waits([Torn(rec[ref]) EXCEPT !.busy = TRUE], "media", "retry"))
  /\ UNCHANGED <<engineVars, pageVars>>

\* ... or a new one, when the camera has been opened.
ClicksAnew ==
  /\ screen = "room" /\ shown = "paused" /\ ref = None
  /\ clicks < MaxClicks
  /\ clicks' = clicks + 1
  /\ UNCHANGED <<engineVars, screen, ref, effect, shown, submitting, stray, beaconed, rec>>

ClickGranted(x) ==
  /\ clicks > 0
  /\ clicks' = clicks - 1
  /\ Makes(x)
  /\ UNCHANGED <<engineVars, screen, effect, shown, submitting, beaconed>>

ClickDenied ==
  /\ clicks > 0
  /\ clicks' = clicks - 1
  /\ shown' = "paused"
  /\ UNCHANGED <<engineVars, screen, ref, effect, submitting, stray, beaconed, rec>>

\* The task is done or the time is up.
GoesToReflection ==
  /\ screen = "room"
  /\ screen' = "reflection"
  /\ effect' = "over"
  /\ UNCHANGED <<engineVars, ref, clicks, shown, submitting, stray, beaconed, rec>>

\* "Back to the task", also while a submit is under way.
GoesBack ==
  /\ screen = "reflection"
  /\ screen' = "room"
  /\ effect' = "due"
  /\ UNCHANGED <<engineVars, ref, clicks, shown, submitting, stray, beaconed, rec>>

\* stop(), up to its first await.
Stops(x) ==
  IF x = None \/ (x # None /\ rec[x].stopped)
    THEN UNCHANGED rec
    ELSE Becomes(x, [rec[x] EXCEPT !.stopped = TRUE, !.active = FALSE, !.loop = 0,
                       !.stop = IF rec[x].loop > 0 THEN "chunk" ELSE "flush"])

\* handleSubmit(): the recorder is stopped and flushed, ...
Submits ==
  /\ screen = "reflection" /\ submitting = "no"
  /\ submitting' = "flushing"
  /\ Stops(ref)
  /\ UNCHANGED <<engineVars, screen, ref, effect, clicks, shown, stray, beaconed>>

\* ... then forgotten, and the request is sent, ...
SendsSubmit ==
  /\ submitting = "flushing"
  /\ \A x \in Recorders : rec[x].stop \notin {"chunk", "flush"}
  /\ submitting' = "sent"
  /\ ref' = None
  /\ UNCHANGED <<engineVars, screen, effect, clicks, shown, stray, beaconed, rec>>

\* ... which takes effect or not, and is answered or not.
SubmitReturns ==
  /\ submitting = "sent"
  /\ submitting' = "no"
  /\ \/ writable' = FALSE /\ screen' = "done" /\ effect' = "over"
     \/ writable' \in {writable, FALSE} /\ UNCHANGED <<screen, effect>>
  /\ UNCHANGED <<recEpoch, stored, ref, clicks, shown, stray, beaconed, rec>>

\* sendAutoSubmit(): when the page is left after the time was up, or hidden after the
\* grace, a beacon submits, which may not arrive.  The recorder is not stopped.
BeaconSubmits ==
  /\ screen = "reflection" /\ ~beaconed
  /\ beaconed' = TRUE
  /\ screen' = "done"
  /\ writable' \in {writable, FALSE}
  /\ UNCHANGED <<recEpoch, stored, ref, effect, clicks, shown, submitting, stray, rec>>

\* The page is loaded again, and nothing of it survives.
Reloads ==
  /\ \E x \in Recorders : ~rec[x].made
  /\ writable
  /\ screen' = "room" /\ ref' = None /\ effect' = "due" /\ clicks' = 0
  /\ shown' = "off" /\ submitting' = "no" /\ stray' = FALSE /\ beaconed' = FALSE
  /\ rec' = [x \in Recorders |->
       IF rec[x].made THEN [Blank EXCEPT !.made = TRUE, !.stopped = TRUE] ELSE Blank]
  /\ UNCHANGED engineVars

\* The session ends, or is erased, without this page.
InviteCloses ==
  /\ writable
  /\ writable' = FALSE
  /\ UNCHANGED <<recEpoch, stored, pageVars, rec>>

-----------------------------------------------------------------------------
(* The recorder                                                              *)

\* Mutant: the epoch there is goes on.
EpochGoesOn(x, a) ==
  LET d == rec[x] IN
  /\ a \in d.awaits /\ a.at = "epoch"
  /\ writable /\ recEpoch < MaxEpochs
  /\ recEpoch' = IF recEpoch = 0 THEN 1 ELSE recEpoch
  /\ Becomes(x, IF Abandoned(d, a) THEN Dropped(d, a)
                ELSE Waits([d EXCEPT !.awaits = @ \ {a}, !.epoch = recEpoch'], "play", a.why))
  /\ shown' = IF Abandoned(d, a) THEN Answered(d, a, shown) ELSE shown
  /\ UNCHANGED <<writable, stored, screen, ref, effect, clicks, submitting, stray, beaconed>>

\* startRecEpoch(), and start() goes on with what it returns.
EpochGiven(x, a) ==
  LET d == rec[x] IN
  /\ a \in d.awaits /\ a.at = "epoch"
  /\ writable /\ recEpoch < MaxEpochs
  /\ recEpoch' = recEpoch + 1
  /\ Becomes(x, IF Abandoned(d, a) THEN Dropped(d, a)
                ELSE Waits([d EXCEPT !.awaits = @ \ {a}, !.epoch = recEpoch'], "play", a.why))
  /\ shown' = IF Abandoned(d, a) THEN Answered(d, a, shown) ELSE shown
  /\ UNCHANGED <<writable, stored, screen, ref, effect, clicks, submitting, stray, beaconed>>

\* 409, or three requests without an answer, each of which may have used up an epoch.
EpochRefused(x, a) ==
  LET d == rec[x]
      e == [Dropped(d, a) EXCEPT !.active = FALSE] IN
  /\ a \in d.awaits /\ a.at = "epoch"
  /\ recEpoch' = recEpoch \/ (writable /\ recEpoch < MaxEpochs /\ recEpoch' = recEpoch + 1)
  /\ Becomes(x, IF Abandoned(d, a) THEN Dropped(d, a) ELSE e)
  /\ shown' = Answered(d, a, IF Abandoned(d, a) THEN shown ELSE "paused")
  /\ UNCHANGED <<writable, stored, screen, ref, effect, clicks, submitting, stray, beaconed>>

\* The rest of start(): the handlers, the identity shot and the first cycle.
StartsCapture(x, a) ==
  LET d == rec[x]
      e == [Over(d, a) EXCEPT !.hooked = TRUE, !.loop = @ + 1] IN
  /\ a \in d.awaits /\ a.at = "play"
  /\ Becomes(x, IF Abandoned(d, a) THEN Dropped(d, a) ELSE Shot(e))
  /\ shown' = Answered(d, a, IF Abandoned(d, a) THEN shown ELSE "recording")
  /\ UNCHANGED <<engineVars, screen, ref, effect, clicks, submitting, stray, beaconed>>

\* The end of a cycle: another shot, and the next cycle begins.
Cycles(x) ==
  /\ rec[x].loop > 0
  /\ Shot(rec[x]) # rec[x]
  /\ Becomes(x, Shot(rec[x]))
  /\ UNCHANGED <<engineVars, pageVars>>

\* The camera is unplugged: handleTrackLost(), once start() has set the handler.
LosesTrack(x) ==
  LET d == rec[x] IN
  /\ d.cam = "live" /\ d.gen < MaxGen
  /\ IF d.hooked /\ d.active /\ ~d.stopped /\ ~d.busy
       THEN /\ Becomes(x, Waits([Torn(d) EXCEPT !.busy = TRUE], "media", "lost"))
            /\ shown' = "paused"
       ELSE Becomes(x, [d EXCEPT !.cam = "lost"]) /\ UNCHANGED shown
  /\ UNCHANGED <<engineVars, screen, ref, effect, clicks, submitting, stray, beaconed>>

\* Mutant: a stop() in the meantime is not noticed.
MediaResurrects(x, a) ==
  LET d == rec[x] IN
  /\ a \in d.awaits /\ a.at = "media"
  /\ Becomes(x, Begun([d EXCEPT !.awaits = @ \ {a}, !.stopped = FALSE], a.why))
  /\ UNCHANGED <<engineVars, pageVars>>

\* getUserMedia() of handleTrackLost() or retry(): the camera is open again, unless
\* stop() came before ...
MediaGranted(x, a) ==
  LET d == rec[x] IN
  /\ a \in d.awaits /\ a.at = "media"
  /\ Becomes(x, IF Abandoned(d, a) THEN Over(d, a)
                ELSE Begun([d EXCEPT !.awaits = @ \ {a}, !.stopped = FALSE], a.why))
  /\ UNCHANGED <<engineVars, pageVars>>

\* ... or it is not.
MediaDenied(x, a) ==
  /\ a \in rec[x].awaits /\ a.at = "media"
  /\ Becomes(x, Over(rec[x], a))
  /\ UNCHANGED <<engineVars, pageVars>>

\* stop(): the last chunk arrives or is not waited for any longer, ...
LastChunk(x) ==
  /\ rec[x].stop = "chunk"
  /\ \E d \in {rec[x], Shot(rec[x])} : Becomes(x, [d EXCEPT !.stop = "flush"])
  /\ UNCHANGED <<engineVars, pageVars>>

\* ... the queue is empty or is not waited for any longer, and the camera is closed.
StopEnds(x) ==
  /\ rec[x].stop = "flush"
  /\ Becomes(x, [Torn(rec[x]) EXCEPT !.stop = "over"])
  /\ shown' = "off"
  /\ UNCHANGED <<engineVars, screen, ref, effect, clicks, submitting, stray, beaconed>>

\* drain() and uploadOne(): a shot of the queue, under the epoch the recorder has now.
\* A URL is given for the current epoch of a session that is under way, and names the
\* key; that the upload may come later, and again, changes nothing of what is stored.
\* 409, 429, three failures and a full queue drop the shot.
Uploads(x) ==
  LET d == rec[x] IN
  \E s \in d.queue :
    /\ \/ /\ writable /\ d.epoch = recEpoch
          /\ stored' = stored \cup {[epoch |-> d.epoch, seq |-> s, by |-> x]}
       \/ UNCHANGED stored
    /\ Becomes(x, [d EXCEPT !.queue = @ \ {s}])
    /\ UNCHANGED <<writable, recEpoch, pageVars>>

-----------------------------------------------------------------------------
PageSteps ==
  \/ EntersRoom \/ CameraDenied \/ ClicksRetry \/ ClicksAnew \/ ClickDenied
  \/ GoesToReflection \/ GoesBack \/ Submits \/ SendsSubmit \/ SubmitReturns
  \/ BeaconSubmits \/ Reloads \/ InviteCloses
  \/ \E x \in Recorders : CameraGranted(x) \/ ClickGranted(x)

RecorderSteps(x) ==
  \/ Cycles(x) \/ LosesTrack(x) \/ LastChunk(x) \/ StopEnds(x)
  \/ Uploads(x)
  \/ \E a \in rec[x].awaits :
       \/ EpochGiven(x, a) \/ EpochRefused(x, a) \/ StartsCapture(x, a)
       \/ MediaGranted(x, a) \/ MediaDenied(x, a)

RecorderNext == PageSteps \/ \E x \in Recorders : RecorderSteps(x)

RecorderSpec == RecorderInit /\ [][RecorderNext]_recorderVars

-----------------------------------------------------------------------------
\* Evidence is never replaced: whatever recorders of whatever pages and tabs upload,
\* retry and upload again, one key holds the shots of one recorder ("a reload can NEVER
\* overwrite the earlier half of the recording").
EvidenceKept ==
  \A a, b \in stored : a.epoch = b.epoch /\ a.seq = b.seq => a.by = b.by

\* A recorder has one capture loop, and only with its camera open; a stopped recorder
\* lets go of the camera for good ("a stop() or a concurrent track-loss can never
\* resurrect capture or spawn a second loop").  After the submit no camera is open,
\* unless a late answer made a recorder for a page that had moved on; a page that
\* submitted itself by beacon leaves the camera of its own recorder on, and no other.
NoZombieCapture ==
  /\ \A x \in Recorders :
       /\ rec[x].loop <= 1 /\ ~rec[x].spilt
       /\ rec[x].loop > 0 => rec[x].cam # "none" /\ ~rec[x].stopped
       /\ rec[x].stop = "over" => rec[x].cam = "none" /\ rec[x].stopped
  /\ ~stray /\ screen = "done" =>
       \A x \in Recorders : rec[x].cam # "none" => beaconed /\ x = ref

=============================================================================
