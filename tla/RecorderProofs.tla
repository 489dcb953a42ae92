--------------------------- MODULE RecorderProofs ---------------------------
(* What holds of the recordings of an invite for any number of recorders,      *)
(* epochs, shots and reloads: the engine's epochs keep them apart, and capture *)
(* that is over stays over.                                                    *)
EXTENDS Recorder, TLAPS

\* The fields of a recorder as far as the proof needs them.
RecorderFields ==
  [made : BOOLEAN, active : BOOLEAN, stopped : BOOLEAN, busy : BOOLEAN,
   gen : Nat, epoch : Nat, loop : Nat, cam : {"none", "live", "lost"},
   hooked : BOOLEAN, spilt : BOOLEAN,
   awaits : SUBSET [at : {"media", "epoch", "play"}, why : {"first", "lost", "retry"}, gen : Nat],
   stop : {"no", "chunk", "flush", "over"}, shots : Nat, queue : SUBSET Nat]

\* A recorder that has shots, or will take some, has been given an epoch.
Numbered(d) ==
  \/ d.epoch # 0
  \/ /\ d.queue = {} /\ d.loop = 0 /\ d.stop # "chunk"
     /\ \A a \in d.awaits : a.at # "play"

\* Every recorder has an epoch of its own, which no other has stored anything under.
EpochInv ==
  /\ recEpoch \in Nat /\ ref \in Recorders \cup {None}
  /\ rec \in [Recorders -> RecorderFields]
  /\ \A x \in Recorders : rec[x].epoch <= recEpoch /\ Numbered(rec[x])
  /\ \A x, y \in Recorders : rec[x].epoch = rec[y].epoch => x = y \/ rec[x].epoch = 0
  /\ \A s \in stored : s.epoch \in 1..recEpoch /\ s.by \in Recorders
  /\ \A s \in stored, x \in Recorders : s.epoch = rec[x].epoch => s.by = x
  /\ EvidenceKept

-----------------------------------------------------------------------------
\* A step after which recorder x has the epoch it had, or a new one.
LEMMA KeepsEpochs ==
  ASSUME EpochInv, NEW x \in Recorders, NEW d \in RecorderFields, Becomes(x, d), Numbered(d),
         recEpoch' \in Nat, recEpoch <= recEpoch', UNCHANGED stored,
         d.epoch = rec[x].epoch \/ (d.epoch = recEpoch' /\ recEpoch < recEpoch'),
         ref' \in Recorders \cup {None}
  PROVE  EpochInv'
<1>1. rec' = [rec EXCEPT ![x] = d] /\ rec'[x] = d
  BY DEF Becomes, EpochInv
<1>2. \A y \in Recorders \ {x} : rec'[y] = rec[y]
  BY <1>1 DEF EpochInv
<1>3. \A y \in Recorders : rec[y].epoch \in Nat
  BY DEF EpochInv, RecorderFields
<1>4. rec' \in [Recorders -> RecorderFields]
  BY <1>1 DEF EpochInv
<1>5. \A y \in Recorders : rec'[y].epoch <= recEpoch' /\ Numbered(rec[y])'
  BY <1>1, <1>2, <1>3 DEF EpochInv, Numbered
<1>6. \A y, z \in Recorders : rec'[y].epoch = rec'[z].epoch => y = z \/ rec'[y].epoch = 0
  BY <1>1, <1>2, <1>3 DEF EpochInv
<1>7. \A s \in stored : s.epoch \in 1..recEpoch'
  BY DEF EpochInv
<1>8. \A s \in stored, y \in Recorders : s.epoch = rec'[y].epoch => s.by = y
  BY <1>1, <1>2, <1>3 DEF EpochInv
<1> QED
  BY <1>4, <1>5, <1>6, <1>7, <1>8 DEF EpochInv, EvidenceKept

\* Shots, teardowns and the ends of continuations leave the epoch alone.
LEMMA FieldsStay ==
  ASSUME NEW d \in RecorderFields, Numbered(d)
  PROVE  /\ Torn(d) \in RecorderFields /\ Torn(d).epoch = d.epoch /\ Numbered(Torn(d))
         /\ d.epoch # 0 => Shot(d) \in RecorderFields /\ Shot(d).epoch = d.epoch
                             /\ Numbered(Shot(d))
         /\ \A a : /\ Over(d, a) \in RecorderFields /\ Over(d, a).epoch = d.epoch
                   /\ Numbered(Over(d, a))
                   /\ Dropped(d, a) \in RecorderFields /\ Dropped(d, a).epoch = d.epoch
                   /\ Numbered(Dropped(d, a))
<1>1. Torn(d) \in RecorderFields /\ Torn(d).epoch = d.epoch /\ Numbered(Torn(d))
  <2> DEFINE g == d.gen + 1
             e == [d EXCEPT !.gen = g, !.active = FALSE, !.loop = 0, !.cam = "none",
                            !.hooked = FALSE]
  <2>1. g \in Nat /\ Torn(d) = e
    BY DEF Torn, RecorderFields
  <2> HIDE DEF g
  <2>2. e \in RecorderFields
    BY <2>1 DEF RecorderFields
  <2>3. e.epoch = d.epoch /\ Numbered(e)
    BY DEF RecorderFields, Numbered
  <2> QED
    BY <2>1, <2>2, <2>3
<1>2. ASSUME d.epoch # 0
      PROVE  Shot(d) \in RecorderFields /\ Shot(d).epoch = d.epoch /\ Numbered(Shot(d))
  <2> DEFINE n == d.shots + 1
             q == d.queue \cup {d.shots}
             e == [d EXCEPT !.shots = n, !.queue = q]
  <2>1. n \in Nat /\ q \in SUBSET Nat
    BY DEF RecorderFields
  <2>2. Shot(d) \in {d, e}
    BY DEF Shot
  <2> HIDE DEF n, q
  <2>3. e \in RecorderFields /\ e.epoch = d.epoch
    BY <2>1 DEF RecorderFields
  <2> QED
    BY <1>2, <2>2, <2>3 DEF Numbered
<1>3. ASSUME NEW a
      PROVE  /\ Over(d, a) \in RecorderFields /\ Over(d, a).epoch = d.epoch
             /\ Numbered(Over(d, a))
  BY DEF Over, RecorderFields, Numbered
<1>4. ASSUME NEW a
      PROVE  /\ Dropped(d, a) \in RecorderFields /\ Dropped(d, a).epoch = d.epoch
             /\ Numbered(Dropped(d, a))
  BY <1>3 DEF Dropped, RecorderFields, Numbered
<1> QED
  BY <1>1, <1>2, <1>3, <1>4

\* So does the beginning of start(), and a wait for something other than the camera's
\* first picture.
LEMMA WaitsStay ==
  ASSUME NEW d \in RecorderFields, Numbered(d), NEW at \in {"media", "epoch", "play"},
         NEW why \in {"first", "lost", "retry"}, at # "play" \/ d.epoch # 0
  PROVE  /\ Waits(d, at, why) \in RecorderFields /\ Waits(d, at, why).epoch = d.epoch
         /\ Numbered(Waits(d, at, why))
         /\ Begun(d, why) \in RecorderFields /\ Begun(d, why).epoch = d.epoch
         /\ Numbered(Begun(d, why))
<1>1. ASSUME NEW e \in RecorderFields, NEW b \in {"media", "epoch", "play"}, Numbered(e),
             b # "play" \/ e.epoch # 0
      PROVE  /\ Waits(e, b, why) \in RecorderFields /\ Waits(e, b, why).epoch = e.epoch
             /\ Numbered(Waits(e, b, why))
  BY <1>1 DEF Waits, RecorderFields, Numbered
<1>2. DEFINE e == [d EXCEPT !.active = TRUE, !.spilt = d.spilt \/ d.cam # "none",
                            !.cam = "live", !.hooked = FALSE]
<1>3. (d.spilt \/ d.cam # "none") \in BOOLEAN
  BY DEF RecorderFields
<1>4. e \in RecorderFields /\ e.epoch = d.epoch /\ Numbered(e)
  BY <1>3 DEF RecorderFields, Numbered
<1>5. Begun(d, why) = Waits(e, "epoch", why)
  BY DEF Begun
<1> HIDE DEF e
<1> QED
  BY <1>1, <1>4, <1>5

-----------------------------------------------------------------------------
\* A step of the page that leaves the recorders and the engine alone.
LEMMA PageOnly ==
  ASSUME EpochInv, UNCHANGED <<rec, recEpoch, stored>>, ref' \in Recorders \cup {None}
  PROVE  EpochInv'
BY DEF EpochInv, EvidenceKept, Numbered

\* A new recorder has no epoch yet.
LEMMA MakesStep ==
  ASSUME EpochInv, NEW x \in Recorders, Makes(x), UNCHANGED <<recEpoch, stored>>
  PROVE  EpochInv'
<1> DEFINE e == [Blank EXCEPT !.made = TRUE]
           d == Begun(e, "first")
<1>1. e \in RecorderFields /\ e.epoch = 0 /\ Numbered(e)
  BY DEF Blank, RecorderFields, Numbered
<1>2. d \in RecorderFields /\ d.epoch = 0 /\ Numbered(d)
  <2> HIDE DEF e
  <2> QED
    BY <1>1, WaitsStay
<1>3. Becomes(x, d) /\ ref' = x
  BY DEF Makes
<1> HIDE DEF d
<1>4. rec' = [rec EXCEPT ![x] = d] /\ rec'[x] = d /\ rec' \in [Recorders -> RecorderFields]
  BY <1>2, <1>3 DEF Becomes, EpochInv
<1>5. \A y \in Recorders : rec'[y].epoch = rec[y].epoch \/ rec'[y].epoch = 0
  BY <1>2, <1>4 DEF EpochInv
<1>6. \A y \in Recorders : Numbered(rec[y])'
  BY <1>2, <1>4 DEF EpochInv, Numbered
<1> QED
  BY <1>3, <1>4, <1>5, <1>6 DEF EpochInv, EvidenceKept

\* Loading the page anew forgets the recorders; what they stored stays theirs.
LEMMA ReloadsStep == ASSUME EpochInv, Reloads PROVE EpochInv'
<1>1. /\ ref' = None /\ UNCHANGED <<recEpoch, stored>>
      /\ rec' = [x \in Recorders |->
           IF rec[x].made THEN [Blank EXCEPT !.made = TRUE, !.stopped = TRUE] ELSE Blank]
  BY DEF Reloads, engineVars
<1>2. \A x \in Recorders : rec'[x] \in RecorderFields /\ rec'[x].epoch = 0 /\ Numbered(rec'[x])
  BY <1>1 DEF Blank, RecorderFields, Numbered
<1>3. rec' \in [Recorders -> RecorderFields] /\ \A x \in Recorders : Numbered(rec[x])'
  BY <1>1, <1>2 DEF Numbered
<1> QED
  BY <1>1, <1>2, <1>3 DEF EpochInv, EvidenceKept

\* Every step of the page keeps the epochs apart.
LEMMA PageStep == ASSUME EpochInv, PageSteps PROVE EpochInv'
<1> USE DEF engineVars, pageVars
<1>1. ref \in Recorders \cup {None}
  BY DEF EpochInv
<1>2. CASE EntersRoom \/ CameraDenied \/ ClicksAnew \/ ClickDenied
             \/ GoesToReflection \/ GoesBack \/ InviteCloses
  BY <1>1, <1>2, PageOnly
     DEF EntersRoom, CameraDenied, ClicksAnew, ClickDenied, GoesToReflection, GoesBack,
         InviteCloses
<1>3. CASE SendsSubmit \/ SubmitReturns \/ BeaconSubmits
  BY <1>1, <1>3, PageOnly DEF SendsSubmit, SubmitReturns, BeaconSubmits
<1>4. CASE ClicksRetry
  <2> DEFINE t == Torn(rec[ref])
             e == [t EXCEPT !.busy = TRUE]
  <2>1. ref \in Recorders /\ rec[ref] \in RecorderFields /\ Numbered(rec[ref])
    BY <1>1, <1>4 DEF ClicksRetry, EpochInv
  <2>2. e \in RecorderFields /\ e.epoch = rec[ref].epoch /\ Numbered(e)
    <3>1. t \in RecorderFields /\ t.epoch = rec[ref].epoch /\ Numbered(t)
      BY <2>1, FieldsStay
    <3> HIDE DEF t
    <3> QED
      BY <3>1 DEF RecorderFields, Numbered
  <2> HIDE DEF e
  <2> DEFINE d == Waits(e, "media", "retry")
  <2>3. d \in RecorderFields /\ d.epoch = rec[ref].epoch /\ Numbered(d)
    BY <2>2, WaitsStay
  <2>4. Becomes(ref, d) /\ UNCHANGED <<recEpoch, stored, ref>>
    BY <1>4 DEF ClicksRetry, e
  <2> HIDE DEF d
  <2> QED
    BY <1>1, <2>1, <2>3, <2>4, KeepsEpochs DEF EpochInv
<1>5. CASE Submits
  <2>1. CASE UNCHANGED rec
    BY <1>1, <1>5, <2>1, PageOnly DEF Submits
  <2>2. CASE rec' # rec
    <3> DEFINE d == [rec[ref] EXCEPT !.stopped = TRUE, !.active = FALSE, !.loop = 0,
                       !.stop = IF rec[ref].loop > 0 THEN "chunk" ELSE "flush"]
    <3>1. ref \in Recorders /\ Becomes(ref, d) /\ UNCHANGED <<recEpoch, stored, ref>>
      BY <1>1, <1>5, <2>2 DEF Submits, Stops
    <3>2. rec[ref] \in RecorderFields /\ Numbered(rec[ref])
      BY <3>1 DEF EpochInv
    <3>3. d \in RecorderFields /\ d.epoch = rec[ref].epoch /\ Numbered(d)
      <4>1. CASE rec[ref].loop > 0
        <5>1. rec[ref].epoch # 0
          BY <3>2, <4>1 DEF RecorderFields, Numbered
        <5>2. d = [rec[ref] EXCEPT !.stopped = TRUE, !.active = FALSE, !.loop = 0,
                                   !.stop = "chunk"]
          BY <4>1
        <5> HIDE DEF d
        <5>3. d \in RecorderFields /\ d.epoch = rec[ref].epoch
          BY <3>2, <5>2 DEF RecorderFields
        <5> QED
          BY <5>1, <5>3 DEF Numbered
      <4>2. CASE ~(rec[ref].loop > 0)
        BY <3>2, <4>2 DEF RecorderFields, Numbered
      <4> QED
        BY <4>1, <4>2
    <3> HIDE DEF d
    <3> QED
      BY <1>1, <3>1, <3>3, KeepsEpochs DEF EpochInv
  <2> QED
    BY <2>1, <2>2
<1>6. ASSUME NEW x \in Recorders, CameraGranted(x) \/ ClickGranted(x) PROVE EpochInv'
  BY <1>6, MakesStep DEF CameraGranted, ClickGranted
<1> QED
  BY <1>2, <1>3, <1>4, <1>5, <1>6, ReloadsStep DEF PageSteps

-----------------------------------------------------------------------------
\* An upload stores a shot of x under the epoch of x, and nobody else has that one.
LEMMA UploadsStep == ASSUME EpochInv, NEW x \in Recorders, Uploads(x) PROVE EpochInv'
<1>1. PICK n \in rec[x].queue :
        /\ \/ stored' = stored \cup {[epoch |-> rec[x].epoch, seq |-> n, by |-> x]}
           \/ UNCHANGED stored
        /\ Becomes(x, [rec[x] EXCEPT !.queue = @ \ {n}])
        /\ UNCHANGED <<recEpoch, ref>>
  BY DEF Uploads, pageVars
<1> DEFINE s == [epoch |-> rec[x].epoch, seq |-> n, by |-> x]
           d == [rec[x] EXCEPT !.queue = @ \ {n}]
<1>2. rec[x] \in RecorderFields /\ Numbered(rec[x]) /\ rec[x].epoch # 0
  BY <1>1 DEF EpochInv, Numbered
<1>3. d \in RecorderFields /\ d.epoch = rec[x].epoch /\ Numbered(d)
  BY <1>2 DEF RecorderFields, Numbered
<1>4. rec[x].epoch \in 1..recEpoch
  BY <1>2 DEF EpochInv, RecorderFields
<1>5. rec' = [rec EXCEPT ![x] = d]
  BY <1>1 DEF Becomes
<1>6. stored' \subseteq stored \cup {s}
  BY <1>1
<1>7. s.epoch = rec[x].epoch /\ s.by = x
  OBVIOUS
<1> HIDE DEF s, d
<1>8. \A y \in Recorders : rec'[y].epoch = rec[y].epoch /\ rec'[y] \in RecorderFields
                             /\ Numbered(rec[y])'
  BY <1>3, <1>5 DEF EpochInv, Numbered
<1>9. rec' \in [Recorders -> RecorderFields]
  BY <1>3, <1>5 DEF EpochInv
<1>10. \A t \in stored' : t.epoch \in 1..recEpoch /\ t.by \in Recorders
  BY <1>4, <1>6, <1>7 DEF EpochInv
<1>11. \A t \in stored', y \in Recorders : t.epoch = rec[y].epoch => t.by = y
  BY <1>2, <1>6, <1>7 DEF EpochInv
<1>12. \A t, u \in stored' : t.epoch = u.epoch /\ t.seq = u.seq => t.by = u.by
  BY <1>6, <1>7, <1>11 DEF EpochInv, EvidenceKept
<1> QED
  BY <1>1, <1>8, <1>9, <1>10, <1>11, <1>12 DEF EpochInv, EvidenceKept

\* Every continuation of a recorder keeps the epochs apart.
LEMMA ContinuesStep ==
  ASSUME EpochInv, NEW x \in Recorders, NEW a \in rec[x].awaits,
         \/ EpochGiven(x, a) \/ EpochRefused(x, a) \/ StartsCapture(x, a)
         \/ MediaGranted(x, a) \/ MediaDenied(x, a)
  PROVE  EpochInv'
<1> DEFINE w == rec[x]
<1> USE DEF engineVars, pageVars
<1>1. w \in RecorderFields /\ Numbered(w) /\ recEpoch \in Nat /\ ref \in Recorders \cup {None}
        /\ w.epoch \in Nat /\ w.epoch <= recEpoch
  BY DEF EpochInv, RecorderFields
<1>2. a.why \in {"first", "lost", "retry"}
  BY <1>1 DEF RecorderFields
<1>3. /\ Over(w, a) \in RecorderFields /\ Over(w, a).epoch = w.epoch /\ Numbered(Over(w, a))
      /\ Dropped(w, a) \in RecorderFields /\ Dropped(w, a).epoch = w.epoch
      /\ Numbered(Dropped(w, a))
  BY <1>1, FieldsStay
<1>4. ASSUME NEW d \in RecorderFields, Becomes(x, d), d.epoch = w.epoch, Numbered(d),
             recEpoch' \in {recEpoch, recEpoch + 1}, UNCHANGED <<stored, ref>>
      PROVE  EpochInv'
  BY <1>1, <1>4, KeepsEpochs
<1>5. CASE EpochGiven(x, a)
  <2>1. recEpoch' = recEpoch + 1 /\ UNCHANGED <<stored, ref>>
    BY <1>5 DEF EpochGiven
  <2>2. CASE Abandoned(w, a)
    BY <1>3, <1>4, <1>5, <2>1, <2>2 DEF EpochGiven
  <2>3. CASE ~Abandoned(w, a)
    <3> DEFINE n == recEpoch + 1
               e == [w EXCEPT !.awaits = @ \ {a}, !.epoch = n]
               d == Waits(e, "play", a.why)
    <3>1. Becomes(x, d)
      BY <1>5, <2>1, <2>3 DEF EpochGiven
    <3>2. n \in Nat /\ n # 0
      BY <1>1
    <3> HIDE DEF n
    <3>3. e \in RecorderFields /\ e.epoch = n /\ Numbered(e)
      BY <1>1, <3>2 DEF RecorderFields, Numbered
    <3> HIDE DEF e
    <3>4. d \in RecorderFields /\ d.epoch = n /\ Numbered(d)
      BY <1>2, <3>2, <3>3, WaitsStay
    <3> HIDE DEF d
    <3> QED
      BY <1>1, <2>1, <3>1, <3>4, KeepsEpochs DEF n
  <2> QED
    BY <2>2, <2>3
<1>6. CASE EpochRefused(x, a)
  <2> DEFINE e == [Dropped(w, a) EXCEPT !.active = FALSE]
  <2>1. e \in RecorderFields /\ e.epoch = w.epoch /\ Numbered(e)
    BY <1>3 DEF RecorderFields, Numbered
  <2>2. \E d \in {Dropped(w, a), e} : Becomes(x, d)
    BY <1>6 DEF EpochRefused
  <2>3. recEpoch' \in {recEpoch, recEpoch + 1} /\ UNCHANGED <<stored, ref>>
    BY <1>6 DEF EpochRefused
  <2> HIDE DEF e
  <2> QED
    BY <1>3, <1>4, <2>1, <2>2, <2>3
<1>7. CASE StartsCapture(x, a)
  <2> DEFINE e == [Over(w, a) EXCEPT !.hooked = TRUE, !.loop = @ + 1]
  <2>1. w.epoch # 0
    BY <1>1, <1>7 DEF StartsCapture, Numbered
  <2>2. Over(w, a).loop + 1 \in Nat
    BY <1>3 DEF RecorderFields
  <2>3. e \in RecorderFields /\ e.epoch = w.epoch /\ Numbered(e)
    BY <1>3, <2>1, <2>2 DEF RecorderFields, Numbered
  <2>4. \E d \in {Dropped(w, a), Shot(e)} : Becomes(x, d)
    BY <1>7 DEF StartsCapture
  <2>5. UNCHANGED <<recEpoch, stored, ref>>
    BY <1>7 DEF StartsCapture
  <2> HIDE DEF e
  <2>6. Shot(e) \in RecorderFields /\ Shot(e).epoch = w.epoch /\ Numbered(Shot(e))
    BY <2>1, <2>3, FieldsStay
  <2> QED
    BY <1>3, <1>4, <2>4, <2>5, <2>6
<1>8. CASE MediaGranted(x, a)
  <2> DEFINE e == [w EXCEPT !.awaits = @ \ {a}, !.stopped = FALSE]
  <2>1. e \in RecorderFields /\ e.epoch = w.epoch /\ Numbered(e)
    BY <1>1 DEF RecorderFields, Numbered
  <2>2. \E d \in {Over(w, a), Begun(e, a.why)} : Becomes(x, d)
    BY <1>8 DEF MediaGranted
  <2>3. UNCHANGED <<recEpoch, stored, ref>>
    BY <1>8 DEF MediaGranted
  <2> HIDE DEF e
  <2>4. Begun(e, a.why) \in RecorderFields /\ Begun(e, a.why).epoch = w.epoch
          /\ Numbered(Begun(e, a.why))
    BY <1>2, <2>1, WaitsStay
  <2> QED
    BY <1>3, <1>4, <2>2, <2>3, <2>4
<1>9. CASE MediaDenied(x, a)
  <2>1. Becomes(x, Over(w, a)) /\ UNCHANGED <<recEpoch, stored, ref>>
    BY <1>9 DEF MediaDenied
  <2> QED
    BY <1>3, <1>4, <2>1
<1> QED
  BY <1>5, <1>6, <1>7, <1>8, <1>9

\* Everything else a recorder does keeps them apart as well.
LEMMA RecorderStep == ASSUME EpochInv, NEW x \in Recorders, RecorderSteps(x) PROVE EpochInv'
<1> DEFINE w == rec[x]
<1> USE DEF engineVars, pageVars
<1>1. w \in RecorderFields /\ Numbered(w) /\ recEpoch \in Nat /\ ref \in Recorders \cup {None}
  BY DEF EpochInv
<1>2. ASSUME NEW d \in RecorderFields, Becomes(x, d), d.epoch = w.epoch, Numbered(d),
             UNCHANGED <<recEpoch, stored, ref>>
      PROVE  EpochInv'
  BY <1>1, <1>2, KeepsEpochs
<1>3. CASE Cycles(x)
  <2>1. w.epoch # 0
    BY <1>1, <1>3 DEF Cycles, Numbered, RecorderFields
  <2>2. Shot(w) \in RecorderFields /\ Shot(w).epoch = w.epoch /\ Numbered(Shot(w))
    BY <1>1, <2>1, FieldsStay
  <2> QED
    BY <1>2, <1>3, <2>2 DEF Cycles
<1>4. CASE LosesTrack(x)
  <2> DEFINE t == Torn(w)
             e == [t EXCEPT !.busy = TRUE]
             l == [w EXCEPT !.cam = "lost"]
  <2>1. e \in RecorderFields /\ e.epoch = w.epoch /\ Numbered(e)
    <3>1. t \in RecorderFields /\ t.epoch = w.epoch /\ Numbered(t)
      BY <1>1, FieldsStay
    <3> HIDE DEF t
    <3> QED
      BY <3>1 DEF RecorderFields, Numbered
  <2>2. l \in RecorderFields /\ l.epoch = w.epoch /\ Numbered(l)
    BY <1>1 DEF RecorderFields, Numbered
  <2>3. \E d \in {Waits(e, "media", "lost"), l} : Becomes(x, d)
    BY <1>4 DEF LosesTrack
  <2>4. UNCHANGED <<recEpoch, stored, ref>>
    BY <1>4 DEF LosesTrack
  <2> HIDE DEF e, l
  <2>5. /\ Waits(e, "media", "lost") \in RecorderFields
        /\ Waits(e, "media", "lost").epoch = w.epoch /\ Numbered(Waits(e, "media", "lost"))
    BY <2>1, WaitsStay
  <2> QED
    BY <1>2, <2>2, <2>3, <2>4, <2>5
<1>5. CASE LastChunk(x)
  <2>1. w.epoch # 0
    BY <1>1, <1>5 DEF LastChunk, Numbered
  <2>2. PICK d \in {w, Shot(w)} : Becomes(x, [d EXCEPT !.stop = "flush"])
    BY <1>5 DEF LastChunk
  <2>3. d \in RecorderFields /\ d.epoch = w.epoch /\ Numbered(d)
    BY <1>1, <2>1, FieldsStay
  <2>4. [d EXCEPT !.stop = "flush"] \in RecorderFields
          /\ [d EXCEPT !.stop = "flush"].epoch = w.epoch
          /\ Numbered([d EXCEPT !.stop = "flush"])
    BY <2>3 DEF RecorderFields, Numbered
  <2> QED
    BY <1>2, <1>5, <2>2, <2>4 DEF LastChunk
<1>6. CASE StopEnds(x)
  <2> DEFINE e == [Torn(w) EXCEPT !.stop = "over"]
  <2>1. e \in RecorderFields /\ e.epoch = w.epoch /\ Numbered(e)
    BY <1>1, FieldsStay DEF RecorderFields, Numbered
  <2> QED
    BY <1>2, <1>6, <2>1 DEF StopEnds
<1> QED
  BY <1>3, <1>4, <1>5, <1>6, UploadsStep, ContinuesStep DEF RecorderSteps

\* One key of the bucket holds the shots of one recorder, whatever is reloaded, retried,
\* lost, given twice or uploaded late.
THEOREM EvidenceIsKept == RecorderSpec => []EvidenceKept
<1>1. ASSUME RecorderInit PROVE EpochInv
  <2>1. Blank \in RecorderFields /\ Blank.epoch = 0 /\ Numbered(Blank)
    BY DEF Blank, RecorderFields, Numbered
  <2> QED
    BY <1>1, <2>1 DEF RecorderInit, EpochInv, EvidenceKept
<1>2. ASSUME EpochInv, [RecorderNext]_recorderVars PROVE EpochInv'
  <2>1. CASE UNCHANGED recorderVars
    <3>1. UNCHANGED <<rec, recEpoch, stored>> /\ ref' \in Recorders \cup {None}
      BY <1>2, <2>1 DEF recorderVars, engineVars, pageVars, EpochInv
    <3> QED
      BY <1>2, <3>1, PageOnly
  <2> QED
    BY <1>2, <2>1, PageStep, RecorderStep DEF RecorderNext
<1>3. EpochInv => EvidenceKept
  BY DEF EpochInv
<1> QED
  BY <1>1, <1>2, <1>3, PTL DEF RecorderSpec

-----------------------------------------------------------------------------
(* Capture does not come back                                                *)

\* A continuation that may act belongs to the present generation; there is one, or one
\* loop, and it waits for the media exactly when the camera is closed.
Sound(d) ==
  /\ ~d.spilt /\ d.loop \in {0, 1}
  /\ \A a \in d.awaits : a.gen <= d.gen
  /\ \A a, b \in d.awaits : a.gen = d.gen /\ b.gen = d.gen => a = b
  /\ d.loop # 0 => /\ d.cam # "none" /\ ~d.stopped
                   /\ \A a \in d.awaits : a.gen # d.gen
  /\ \A a \in d.awaits : a.gen = d.gen /\ ~d.stopped => (a.at = "media" <=> d.cam = "none")
  /\ d.stop # "no" => d.stopped
  /\ d.stop = "over" => d.cam = "none"
  /\ ~d.made => d.cam = "none" /\ d.loop = 0 /\ d.awaits = {} /\ d.stop = "no"

\* A recorder that has no camera and will not open one.
Idle(d) == d.cam = "none" /\ (d.stopped \/ ~d.made)

\* The page knows the recorder that is not idle, and forgets it when it is.
CaptureInv ==
  /\ EpochInv
  /\ screen \in {"room", "reflection", "done"} /\ submitting \in {"no", "flushing", "sent"}
  /\ \A x \in Recorders : Sound(rec[x])
  /\ ref # None => rec[ref].made /\ (rec[ref].stopped => rec[ref].stop # "no")
  /\ ~stray =>
       /\ \A x \in Recorders : x # ref => Idle(rec[x])
       /\ submitting = "flushing" /\ ref # None => rec[ref].stopped
       /\ submitting = "sent" => ref = None
       /\ screen = "done" /\ ~beaconed => ref = None

\* What recorder d may become in one of its own steps.
Follows(d, e) ==
  /\ Sound(e) /\ e.made = d.made
  /\ Idle(d) => Idle(e)
  /\ d.stopped => e.stopped
  /\ e.stopped => d.stopped \/ e.stop # "no"
  /\ d.stop # "no" => e.stop # "no"

Alike(d, e) ==
  /\ e.made = d.made /\ e.stopped = d.stopped /\ e.spilt = d.spilt /\ e.stop = d.stop
  /\ e.gen = d.gen /\ e.loop = d.loop /\ e.cam = d.cam /\ e.awaits = d.awaits

LEMMA AlikeFollows ==
  ASSUME NEW d \in RecorderFields, NEW e, Sound(d), Alike(d, e)
  PROVE  Follows(d, e)
BY DEF Alike, Follows, Sound, Idle, RecorderFields

\* The fields after each piece of code.
LEMMA TornIs ==
  ASSUME NEW d \in RecorderFields
  PROVE  LET e == Torn(d) IN
         /\ e \in RecorderFields
         /\ e.made = d.made /\ e.stopped = d.stopped /\ e.spilt = d.spilt /\ e.stop = d.stop
         /\ e.gen = d.gen + 1 /\ e.loop = 0 /\ e.cam = "none" /\ e.awaits = d.awaits
<1> DEFINE g == d.gen + 1
           e == [d EXCEPT !.gen = g, !.active = FALSE, !.loop = 0, !.cam = "none",
                          !.hooked = FALSE]
<1>1. g \in Nat /\ Torn(d) = e
  BY DEF Torn, RecorderFields
<1>2. e \in RecorderFields /\ e.gen = g
  <2> HIDE DEF g
  <2> QED
    BY <1>1 DEF RecorderFields
<1>3. /\ e.made = d.made /\ e.stopped = d.stopped /\ e.spilt = d.spilt /\ e.stop = d.stop
      /\ e.loop = 0 /\ e.cam = "none" /\ e.awaits = d.awaits
  <2> HIDE DEF g
  <2> QED
    BY <1>1 DEF RecorderFields
<1> QED
  BY <1>1, <1>2, <1>3

LEMMA ShotIs ==
  ASSUME NEW d \in RecorderFields
  PROVE  Shot(d) \in RecorderFields /\ Alike(d, Shot(d))
<1> DEFINE n == d.shots + 1
           q == d.queue \cup {d.shots}
           e == [d EXCEPT !.shots = n, !.queue = q]
<1>1. n \in Nat /\ q \in SUBSET Nat
  BY DEF RecorderFields
<1>2. Shot(d) \in {d, e}
  BY DEF Shot
<1> HIDE DEF n, q
<1>3. e \in RecorderFields /\ Alike(d, e)
  BY <1>1 DEF RecorderFields, Alike
<1> QED
  BY <1>2, <1>3 DEF Alike

LEMMA OverIs ==
  ASSUME NEW d \in RecorderFields, NEW a
  PROVE  LET e == Over(d, a) IN
         /\ e \in RecorderFields
         /\ e.made = d.made /\ e.stopped = d.stopped /\ e.spilt = d.spilt /\ e.stop = d.stop
         /\ e.gen = d.gen /\ e.loop = d.loop /\ e.cam = d.cam /\ e.awaits = d.awaits \ {a}
BY DEF Over, RecorderFields

LEMMA DroppedIs ==
  ASSUME NEW d \in RecorderFields, NEW a
  PROVE  LET e == Dropped(d, a) IN
         /\ e \in RecorderFields
         /\ e.made = d.made /\ e.stopped = d.stopped /\ e.spilt = d.spilt /\ e.stop = d.stop
         /\ e.gen = d.gen /\ e.loop = d.loop /\ e.awaits = d.awaits \ {a}
         /\ e.cam = IF d.gen = a.gen THEN "none" ELSE d.cam
<1> DEFINE o == Over(d, a)
<1>1. /\ o \in RecorderFields
      /\ o.made = d.made /\ o.stopped = d.stopped /\ o.spilt = d.spilt /\ o.stop = d.stop
      /\ o.gen = d.gen /\ o.loop = d.loop /\ o.cam = d.cam /\ o.awaits = d.awaits \ {a}
  BY OverIs
<1>2. Dropped(d, a) = [o EXCEPT !.cam = IF d.gen = a.gen THEN "none" ELSE @]
  BY DEF Dropped
<1> HIDE DEF o
<1> QED
  BY <1>1, <1>2 DEF RecorderFields

LEMMA WaitsIs ==
  ASSUME NEW d \in RecorderFields, NEW at \in {"media", "epoch", "play"},
         NEW why \in {"first", "lost", "retry"}
  PROVE  LET e == Waits(d, at, why) IN
         /\ e \in RecorderFields
         /\ e.made = d.made /\ e.stopped = d.stopped /\ e.spilt = d.spilt /\ e.stop = d.stop
         /\ e.gen = d.gen /\ e.loop = d.loop /\ e.cam = d.cam
         /\ e.awaits = d.awaits \cup {[at |-> at, why |-> why, gen |-> d.gen]}
BY DEF Waits, RecorderFields

LEMMA BegunIs ==
  ASSUME NEW d \in RecorderFields, NEW why \in {"first", "lost", "retry"}
  PROVE  LET e == Begun(d, why) IN
         /\ e \in RecorderFields
         /\ e.made = d.made /\ e.stopped = d.stopped /\ e.stop = d.stop
         /\ e.spilt = (d.spilt \/ d.cam # "none")
         /\ e.gen = d.gen /\ e.loop = d.loop /\ e.cam = "live"
         /\ e.awaits = d.awaits \cup {[at |-> "epoch", why |-> why, gen |-> d.gen]}
<1> DEFINE s == (d.spilt \/ d.cam # "none")
           e == [d EXCEPT !.active = TRUE, !.spilt = s, !.cam = "live", !.hooked = FALSE]
<1>1. s \in BOOLEAN
  BY DEF RecorderFields
<1>2. Begun(d, why) = Waits(e, "epoch", why)
  BY DEF Begun
<1> HIDE DEF s
<1>3. /\ e \in RecorderFields
      /\ e.made = d.made /\ e.stopped = d.stopped /\ e.stop = d.stop /\ e.spilt = s
      /\ e.gen = d.gen /\ e.loop = d.loop /\ e.cam = "live" /\ e.awaits = d.awaits
  BY <1>1 DEF RecorderFields
<1> HIDE DEF e
<1>4. Begun(d, why).spilt = s
  BY <1>2, <1>3, WaitsIs
<1>5. LET f == Begun(d, why) IN
      /\ f \in RecorderFields
      /\ f.made = d.made /\ f.stopped = d.stopped /\ f.stop = d.stop
      /\ f.gen = d.gen /\ f.loop = d.loop /\ f.cam = "live"
      /\ f.awaits = d.awaits \cup {[at |-> "epoch", why |-> why, gen |-> d.gen]}
  BY <1>2, <1>3, WaitsIs
<1> QED
  BY <1>4, <1>5 DEF s

-----------------------------------------------------------------------------
\* A continuation that ends leaves a sound recorder sound.
LEMMA OverFollows ==
  ASSUME NEW d \in RecorderFields, NEW a \in d.awaits, Sound(d)
  PROVE  Follows(d, Over(d, a))
BY OverIs DEF Follows, Sound, Idle

LEMMA DroppedFollows ==
  ASSUME NEW d \in RecorderFields, NEW a \in d.awaits, Sound(d), Abandoned(d, a)
  PROVE  Follows(d, Dropped(d, a))
<1> DEFINE e == Dropped(d, a)
<1>1. /\ e.made = d.made /\ e.stopped = d.stopped /\ e.spilt = d.spilt /\ e.stop = d.stop
      /\ e.gen = d.gen /\ e.loop = d.loop /\ e.awaits = d.awaits \ {a}
      /\ e.cam = IF d.gen = a.gen THEN "none" ELSE d.cam
  BY DroppedIs
<1> HIDE DEF e
<1>2. ASSUME d.gen = a.gen PROVE Follows(d, e)
  BY <1>1, <1>2 DEF Abandoned, Follows, Sound, Idle
<1>3. ASSUME d.gen # a.gen PROVE Follows(d, e)
  BY <1>1, <1>3 DEF Follows, Sound, Idle
<1> QED
  BY <1>2, <1>3 DEF e

\* Epochs, answers and pictures.
LEMMA ContinuesFollows ==
  ASSUME CaptureInv, NEW x \in Recorders, NEW a \in rec[x].awaits,
         \/ EpochGiven(x, a) \/ EpochRefused(x, a) \/ StartsCapture(x, a)
         \/ MediaGranted(x, a) \/ MediaDenied(x, a)
  PROVE  \E e : Becomes(x, e) /\ Follows(rec[x], e)
<1> DEFINE w == rec[x]
<1>1. w \in RecorderFields /\ Sound(w) /\ w.made /\ recEpoch \in Nat
  BY DEF CaptureInv, EpochInv, Sound
<1>2. a.why \in {"first", "lost", "retry"} /\ w.gen \in Nat
  BY <1>1 DEF RecorderFields
<1>3. CASE Abandoned(w, a) /\ (EpochGiven(x, a) \/ EpochRefused(x, a) \/ StartsCapture(x, a))
  BY <1>1, <1>3, DroppedFollows DEF EpochGiven, EpochRefused, StartsCapture
<1>4. CASE MediaDenied(x, a) \/ (Abandoned(w, a) /\ MediaGranted(x, a))
  BY <1>1, <1>4, OverFollows DEF MediaDenied, MediaGranted
<1>5. ASSUME ~Abandoned(w, a)
      PROVE  /\ ~w.stopped /\ a.gen = w.gen /\ w.loop = 0 /\ w.stop = "no"
             /\ \A b \in w.awaits : b.gen = w.gen => b = a
             /\ a.at = "media" <=> w.cam = "none"
  BY <1>1, <1>5 DEF Abandoned, Sound
<1>6. ASSUME NEW n \in Nat
      PROVE  LET e == [w EXCEPT !.awaits = @ \ {a}, !.epoch = n] IN
             /\ e \in RecorderFields
             /\ e.made = w.made /\ e.stopped = w.stopped /\ e.spilt = w.spilt /\ e.stop = w.stop
             /\ e.gen = w.gen /\ e.loop = w.loop /\ e.cam = w.cam /\ e.awaits = w.awaits \ {a}
  BY <1>1 DEF RecorderFields
<1>7. CASE ~Abandoned(w, a) /\ EpochGiven(x, a)
  <2> DEFINE n == recEpoch'
             e == [w EXCEPT !.awaits = @ \ {a}, !.epoch = n]
             f == Waits(e, "play", a.why)
  <2>1. Becomes(x, f) /\ n \in Nat /\ a.at = "epoch"
    BY <1>1, <1>7 DEF EpochGiven
  <2>2. /\ e \in RecorderFields
        /\ e.made = w.made /\ e.stopped = w.stopped /\ e.spilt = w.spilt /\ e.stop = w.stop
        /\ e.gen = w.gen /\ e.loop = w.loop /\ e.cam = w.cam /\ e.awaits = w.awaits \ {a}
    BY <1>6, <2>1
  <2> HIDE DEF e
  <2>3. /\ f.made = w.made /\ f.stopped = w.stopped /\ f.spilt = w.spilt /\ f.stop = w.stop
        /\ f.gen = w.gen /\ f.loop = w.loop /\ f.cam = w.cam
        /\ f.awaits = (w.awaits \ {a}) \cup {[at |-> "play", why |-> a.why, gen |-> w.gen]}
    BY <1>2, <2>2, WaitsIs
  <2> HIDE DEF f
  <2>4. Follows(w, f)
    BY <1>1, <1>2, <1>5, <1>7, <2>1, <2>3 DEF Follows, Sound, Idle
  <2> QED
    BY <2>1, <2>4
<1>8. CASE ~Abandoned(w, a) /\ EpochRefused(x, a)
  <2> DEFINE o == Dropped(w, a)
             e == [o EXCEPT !.active = FALSE]
  <2>1. Becomes(x, e)
    BY <1>8 DEF EpochRefused
  <2>2. /\ o \in RecorderFields
        /\ o.made = w.made /\ o.stopped = w.stopped /\ o.spilt = w.spilt /\ o.stop = w.stop
        /\ o.gen = w.gen /\ o.loop = w.loop /\ o.awaits = w.awaits \ {a}
        /\ o.cam = "none"
    BY <1>1, <1>5, <1>8, DroppedIs
  <2> HIDE DEF o
  <2>3. /\ e.made = w.made /\ e.stopped = w.stopped /\ e.spilt = w.spilt /\ e.stop = w.stop
        /\ e.gen = w.gen /\ e.loop = w.loop /\ e.awaits = w.awaits \ {a}
        /\ e.cam = "none"
    BY <2>2 DEF RecorderFields
  <2> HIDE DEF e
  <2>4. Follows(w, e)
    BY <1>1, <1>5, <1>8, <2>3 DEF Follows, Sound, Idle
  <2> QED
    BY <2>1, <2>4
<1>9. CASE ~Abandoned(w, a) /\ StartsCapture(x, a)
  <2> DEFINE o == Over(w, a)
             n == o.loop + 1
             e == [o EXCEPT !.hooked = TRUE, !.loop = n]
             f == Shot(e)
  <2>1. Becomes(x, f) /\ a.at = "play"
    BY <1>9 DEF StartsCapture
  <2>2. /\ o \in RecorderFields
        /\ o.made = w.made /\ o.stopped = w.stopped /\ o.spilt = w.spilt /\ o.stop = w.stop
        /\ o.gen = w.gen /\ o.loop = 0 /\ o.cam = w.cam /\ o.awaits = w.awaits \ {a}
    BY <1>1, <1>5, <1>9, OverIs
  <2> HIDE DEF o
  <2>3. n = 1
    BY <2>2
  <2> HIDE DEF n
  <2>4. /\ e \in RecorderFields
        /\ e.made = w.made /\ e.stopped = w.stopped /\ e.spilt = w.spilt /\ e.stop = w.stop
        /\ e.gen = w.gen /\ e.loop = 1 /\ e.cam = w.cam /\ e.awaits = w.awaits \ {a}
    BY <2>2, <2>3 DEF RecorderFields
  <2> HIDE DEF e
  <2>5. Alike(e, f)
    BY <2>4, ShotIs
  <2> HIDE DEF f
  <2>6. Follows(w, f)
    BY <1>1, <1>2, <1>5, <1>9, <2>1, <2>4, <2>5 DEF Follows, Sound, Idle, Alike
  <2> QED
    BY <2>1, <2>6
<1>10. CASE ~Abandoned(w, a) /\ MediaGranted(x, a)
  <2> DEFINE e == [w EXCEPT !.awaits = @ \ {a}, !.stopped = FALSE]
             f == Begun(e, a.why)
  <2>1. Becomes(x, f) /\ a.at = "media"
    BY <1>10 DEF MediaGranted
  <2>2. /\ e \in RecorderFields
        /\ e.made = w.made /\ ~e.stopped /\ e.spilt = w.spilt /\ e.stop = w.stop
        /\ e.gen = w.gen /\ e.loop = w.loop /\ e.cam = "none" /\ e.awaits = w.awaits \ {a}
    BY <1>1, <1>5, <1>10, <2>1 DEF RecorderFields
  <2> HIDE DEF e
  <2>3. /\ f.made = w.made /\ f.stopped = e.stopped /\ f.stop = w.stop
        /\ f.gen = w.gen /\ f.loop = w.loop /\ f.cam = "live"
        /\ f.awaits = (w.awaits \ {a}) \cup {[at |-> "epoch", why |-> a.why, gen |-> w.gen]}
    BY <1>2, <2>2, BegunIs
  <2>4. ~f.spilt
    <3>1. f.spilt = (e.spilt \/ e.cam # "none")
      BY <1>2, <2>2, BegunIs
    <3> QED
      BY <1>1, <2>2, <3>1 DEF Sound
  <2> HIDE DEF f
  <2>5. Follows(w, f)
    BY <1>1, <1>2, <1>5, <1>10, <2>1, <2>2, <2>3, <2>4 DEF Follows, Sound, Idle
  <2> QED
    BY <2>1, <2>5
<1> QED
  BY <1>3, <1>4, <1>7, <1>8, <1>9, <1>10

\* After tearDown() every older continuation is abandoned; one new request for the media
\* may wait in the new generation.
LEMMA TornFollows ==
  ASSUME NEW d \in RecorderFields, NEW f, NEW why, Sound(d), d.made,
         f.made = d.made, f.stopped = d.stopped, f.spilt = d.spilt,
         f.gen = d.gen + 1, f.loop = 0, f.cam = "none",
         f.stop \in {d.stop, "over"}, f.stop = "over" => d.stop # "no",
         \/ f.awaits = d.awaits
         \/ /\ ~d.stopped
            /\ f.awaits = d.awaits \cup {[at |-> "media", why |-> why, gen |-> d.gen + 1]}
  PROVE  Follows(d, f)
<1> DEFINE n == d.gen + 1
           m == [at |-> "media", why |-> why, gen |-> n]
<1>1. \A a \in d.awaits : a.gen <= d.gen /\ a.gen \in Nat
  BY DEF Sound, RecorderFields
<1>2. d.gen \in Nat
  BY DEF RecorderFields
<1>3. n \in Nat /\ n <= n /\ \A a \in d.awaits : a.gen <= n /\ a.gen # n
  BY <1>1, <1>2
<1>4. f.gen = n /\ (f.awaits = d.awaits \/ (~d.stopped /\ f.awaits = d.awaits \cup {m}))
  OBVIOUS
<1> HIDE DEF n
<1>5. m.gen = n /\ m.at = "media"
  OBVIOUS
<1> HIDE DEF m
<1>6. f.awaits \subseteq d.awaits \cup {m}
  BY <1>4
<1>7. /\ \A a \in f.awaits : a.gen <= f.gen
      /\ \A a, b \in f.awaits : a.gen = f.gen /\ b.gen = f.gen => a = b
      /\ \A a \in f.awaits : a.gen = f.gen => a = m
  BY <1>3, <1>4, <1>5, <1>6
<1>8. /\ ~d.spilt /\ (d.stop # "no" => d.stopped)
  BY DEF Sound
<1>9. Sound(f)
  BY <1>5, <1>7, <1>8 DEF Sound
<1> QED
  BY <1>8, <1>9 DEF Follows, Idle

\* Cycles, a lost camera, the end of stop() and uploads.
LEMMA StepFollows ==
  ASSUME CaptureInv, NEW x \in Recorders, RecorderSteps(x)
  PROVE  \E e : Becomes(x, e) /\ Follows(rec[x], e)
<1> DEFINE w == rec[x]
<1>1. w \in RecorderFields /\ Sound(w) /\ w.gen \in Nat
  BY DEF CaptureInv, EpochInv, RecorderFields
<1>2. Alike(w, Shot(w)) /\ Shot(w) \in RecorderFields
  BY <1>1, ShotIs
<1>3. CASE Cycles(x)
  BY <1>1, <1>2, <1>3, AlikeFollows DEF Cycles
<1>4. CASE LosesTrack(x)
  <2> DEFINE t == Torn(w)
             b == [t EXCEPT !.busy = TRUE]
             f == Waits(b, "media", "lost")
             l == [w EXCEPT !.cam = "lost"]
  <2>1. w.cam = "live" /\ w.made
    BY <1>1, <1>4 DEF LosesTrack, Sound
  <2>2. (Becomes(x, f) /\ ~w.stopped) \/ Becomes(x, l)
    BY <1>4 DEF LosesTrack
  <2>3. /\ t \in RecorderFields
        /\ t.made = w.made /\ t.stopped = w.stopped /\ t.spilt = w.spilt /\ t.stop = w.stop
        /\ t.gen = w.gen + 1 /\ t.loop = 0 /\ t.cam = "none" /\ t.awaits = w.awaits
    BY <1>1, TornIs
  <2> HIDE DEF t
  <2>4. b \in RecorderFields /\ Alike(t, b)
    BY <2>3 DEF RecorderFields, Alike
  <2> HIDE DEF b
  <2>5. /\ f.made = b.made /\ f.stopped = b.stopped /\ f.spilt = b.spilt /\ f.stop = b.stop
        /\ f.gen = b.gen /\ f.loop = b.loop /\ f.cam = b.cam
        /\ f.awaits = b.awaits \cup {[at |-> "media", why |-> "lost", gen |-> b.gen]}
    BY <2>4, WaitsIs
  <2> HIDE DEF f
  <2>6. ASSUME ~w.stopped PROVE Follows(w, f)
    BY <1>1, <2>1, <2>3, <2>4, <2>5, <2>6, TornFollows DEF Alike
  <2>7. /\ l.made = w.made /\ l.stopped = w.stopped /\ l.spilt = w.spilt /\ l.stop = w.stop
        /\ l.gen = w.gen /\ l.loop = w.loop /\ l.cam = "lost" /\ l.awaits = w.awaits
    BY <1>1 DEF RecorderFields
  <2> HIDE DEF l
  <2>8. Follows(w, l)
    BY <1>1, <2>1, <2>7 DEF Follows, Sound, Idle
  <2> QED
    BY <2>2, <2>6, <2>8
<1>5. CASE LastChunk(x)
  <2>1. PICK d \in {w, Shot(w)} : Becomes(x, [d EXCEPT !.stop = "flush"])
    BY <1>5 DEF LastChunk
  <2> DEFINE e == [d EXCEPT !.stop = "flush"]
  <2>2. d \in RecorderFields /\ Alike(w, d) /\ w.stop = "chunk"
    BY <1>1, <1>2, <1>5 DEF Alike, LastChunk
  <2>3. /\ e.made = d.made /\ e.stopped = d.stopped /\ e.spilt = d.spilt /\ e.stop = "flush"
        /\ e.gen = d.gen /\ e.loop = d.loop /\ e.cam = d.cam /\ e.awaits = d.awaits
    BY <2>2 DEF RecorderFields
  <2> HIDE DEF e
  <2>4. Follows(w, e)
    BY <1>1, <2>2, <2>3 DEF Alike, Follows, Sound, Idle
  <2> QED
    BY <2>1, <2>4 DEF e
<1>6. CASE StopEnds(x)
  <2> DEFINE t == Torn(w)
             e == [t EXCEPT !.stop = "over"]
  <2>1. Becomes(x, e) /\ w.stop = "flush"
    BY <1>6 DEF StopEnds
  <2>2. /\ t \in RecorderFields
        /\ t.made = w.made /\ t.stopped = w.stopped /\ t.spilt = w.spilt /\ t.stop = w.stop
        /\ t.gen = w.gen + 1 /\ t.loop = 0 /\ t.cam = "none" /\ t.awaits = w.awaits
    BY <1>1, TornIs
  <2> HIDE DEF t
  <2>3. /\ e.made = t.made /\ e.stopped = t.stopped /\ e.spilt = t.spilt /\ e.stop = "over"
        /\ e.gen = t.gen /\ e.loop = t.loop /\ e.cam = t.cam /\ e.awaits = t.awaits
    BY <2>2 DEF RecorderFields
  <2> HIDE DEF e
  <2>4. w.made
    BY <1>1, <2>1 DEF Sound
  <2>5. Follows(w, e)
    BY <1>1, <2>1, <2>2, <2>3, <2>4, TornFollows
  <2> QED
    BY <2>1, <2>5
<1>7. CASE Uploads(x)
  <2>1. PICK s \in w.queue : Becomes(x, [w EXCEPT !.queue = @ \ {s}])
    BY <1>7 DEF Uploads
  <2>2. Alike(w, [w EXCEPT !.queue = @ \ {s}])
    BY <1>1 DEF Alike, RecorderFields
  <2> QED
    BY <1>1, <2>1, <2>2, AlikeFollows
<1> QED
  BY <1>3, <1>4, <1>5, <1>6, <1>7, ContinuesFollows DEF RecorderSteps

\* A step of one recorder keeps what the page may rely on.
LEMMA FollowsKeeps ==
  ASSUME CaptureInv, EpochInv', NEW x \in Recorders, NEW e, Becomes(x, e), Follows(rec[x], e),
         UNCHANGED <<screen, ref, submitting, stray, beaconed>>
  PROVE  CaptureInv'
<1>1. rec'[x] = e /\ \A y \in Recorders \ {x} : rec'[y] = rec[y]
  BY DEF Becomes, CaptureInv, EpochInv
<1>2. \A y \in Recorders : Follows(rec[y], rec'[y]) \/ rec'[y] = rec[y]
  BY <1>1
<1>3. ref \in Recorders \cup {None}
  BY DEF CaptureInv, EpochInv
<1>4. \A y \in Recorders : Sound(rec'[y])
  BY <1>2 DEF CaptureInv, Follows
<1>5. \A y \in Recorders : Idle(rec[y]) => Idle(rec'[y])
  BY <1>2 DEF Follows
<1>6. ref # None => rec'[ref].made /\ (rec'[ref].stopped => rec'[ref].stop # "no")
  BY <1>2, <1>3 DEF CaptureInv, Follows
<1>7. ref # None /\ rec[ref].stopped => rec'[ref].stopped
  BY <1>2, <1>3 DEF Follows
<1> QED
  BY <1>4, <1>5, <1>6, <1>7 DEF CaptureInv, Sound, Idle

\* A new recorder for a page that waits for one; others make the page stray.
LEMMA MakesKeeps ==
  ASSUME CaptureInv, EpochInv', NEW x \in Recorders, Makes(x),
         UNCHANGED <<screen, submitting, beaconed>>
  PROVE  CaptureInv'
<1> DEFINE b == [Blank EXCEPT !.made = TRUE]
           d == Begun(b, "first")
<1>1. /\ b \in RecorderFields /\ b.made /\ ~b.stopped /\ ~b.spilt /\ b.stop = "no"
      /\ b.gen = 0 /\ b.loop = 0 /\ b.cam = "none" /\ b.awaits = {}
  BY DEF Blank, RecorderFields
<1>2. Becomes(x, d) /\ ref' = x
  BY DEF Makes
<1> HIDE DEF b
<1>3. /\ d.made = b.made /\ d.stopped = b.stopped /\ d.stop = "no"
      /\ d.gen = 0 /\ d.loop = 0 /\ d.cam = "live"
      /\ d.awaits = {[at |-> "epoch", why |-> "first", gen |-> 0]}
  BY <1>1, BegunIs
<1>4. ~d.spilt
  <2>1. d.spilt = (b.spilt \/ b.cam # "none")
    BY <1>1, BegunIs
  <2> QED
    BY <1>1, <2>1
<1> HIDE DEF d
<1>5. Sound(d) /\ d.made /\ ~d.stopped
  BY <1>1, <1>3, <1>4 DEF Sound
<1>6. rec'[x] = d /\ \A y \in Recorders \ {x} : rec'[y] = rec[y]
  BY <1>2 DEF Becomes, CaptureInv, EpochInv
<1>7. \A y \in Recorders : Sound(rec'[y])
  BY <1>5, <1>6 DEF CaptureInv
<1>8. ASSUME ~stray'
      PROVE  /\ screen = "room" /\ ref = None /\ submitting = "no"
             /\ \A y \in Recorders : y # x => Idle(rec'[y])
  <2>1. ~stray /\ screen = "room" /\ ref = None /\ submitting = "no"
    BY <1>8 DEF Makes
  <2>2. \A y \in Recorders : Idle(rec[y])
    BY <2>1, RecorderConstants DEF CaptureInv
  <2> QED
    BY <1>6, <2>1, <2>2
<1> QED
  BY <1>2, <1>5, <1>6, <1>7, <1>8 DEF CaptureInv, Sound, Idle

\* stop() and retry() of the page's recorder.
LEMMA StopsFollows ==
  ASSUME CaptureInv, ref # None, ~rec[ref].stopped, Stops(ref)
  PROVE  \E e : Becomes(ref, e) /\ Follows(rec[ref], e) /\ e.stopped
<1> DEFINE w == rec[ref]
           st == IF w.loop > 0 THEN "chunk" ELSE "flush"
           e == [w EXCEPT !.stopped = TRUE, !.active = FALSE, !.loop = 0, !.stop = st]
<1>1. w \in RecorderFields /\ Sound(w)
  BY DEF CaptureInv, EpochInv
<1>2. Becomes(ref, e) /\ st \in {"chunk", "flush"}
  BY DEF Stops
<1> HIDE DEF st
<1>3. /\ e.made = w.made /\ e.stopped /\ e.spilt = w.spilt /\ e.stop = st
      /\ e.gen = w.gen /\ e.loop = 0 /\ e.cam = w.cam /\ e.awaits = w.awaits
  BY <1>1, <1>2 DEF RecorderFields
<1> HIDE DEF e
<1>4. Follows(w, e)
  BY <1>1, <1>2, <1>3, ~w.stopped, w.made DEF Follows, Sound, Idle, CaptureInv
<1> QED
  BY <1>2, <1>3, <1>4

LEMMA RetryFollows ==
  ASSUME CaptureInv, ClicksRetry
  PROVE  \E e : Becomes(ref, e) /\ Follows(rec[ref], e)
<1> DEFINE w == rec[ref]
           t == Torn(w)
           b == [t EXCEPT !.busy = TRUE]
           f == Waits(b, "media", "retry")
<1>1. w \in RecorderFields /\ Sound(w) /\ w.gen \in Nat /\ w.made /\ ~w.stopped
  BY DEF ClicksRetry, CaptureInv, EpochInv, RecorderFields
<1>2. Becomes(ref, f)
  BY DEF ClicksRetry
<1>3. /\ t \in RecorderFields
      /\ t.made = w.made /\ t.stopped = w.stopped /\ t.spilt = w.spilt /\ t.stop = w.stop
      /\ t.gen = w.gen + 1 /\ t.loop = 0 /\ t.cam = "none" /\ t.awaits = w.awaits
  BY <1>1, TornIs
<1> HIDE DEF t
<1>4. b \in RecorderFields /\ Alike(t, b)
  BY <1>3 DEF RecorderFields, Alike
<1> HIDE DEF b
<1>5. /\ f.made = b.made /\ f.stopped = b.stopped /\ f.spilt = b.spilt /\ f.stop = b.stop
      /\ f.gen = b.gen /\ f.loop = b.loop /\ f.cam = b.cam
      /\ f.awaits = b.awaits \cup {[at |-> "media", why |-> "retry", gen |-> b.gen]}
  BY <1>4, WaitsIs
<1> HIDE DEF f
<1>6. Follows(w, f)
  BY <1>1, <1>3, <1>4, <1>5, TornFollows DEF Alike
<1> QED
  BY <1>2, <1>6

\* Every step of the page keeps the invariant.
LEMMA PageKeeps == ASSUME CaptureInv, EpochInv', PageSteps PROVE CaptureInv'
<1> USE DEF engineVars, pageVars
<1>1. ref \in Recorders \cup {None} /\ None \notin Recorders
  BY RecorderConstants DEF CaptureInv, EpochInv
<1>2. CASE EntersRoom \/ CameraDenied \/ ClicksAnew \/ ClickDenied
             \/ GoesToReflection \/ GoesBack \/ InviteCloses
  BY <1>2 DEF EntersRoom, CameraDenied, ClicksAnew, ClickDenied, GoesToReflection, GoesBack,
              InviteCloses, CaptureInv, Sound, Idle
<1>3. CASE ClicksRetry
  <2>1. ref \in Recorders /\ UNCHANGED <<screen, ref, submitting, stray, beaconed>>
    BY <1>1, <1>3 DEF ClicksRetry
  <2> QED
    BY <1>3, <2>1, RetryFollows, FollowsKeeps
<1>4. CASE Submits
  <2>1. UNCHANGED <<screen, ref, stray, beaconed>> /\ submitting' = "flushing" /\ screen = "reflection"
        /\ Stops(ref)
    BY <1>4 DEF Submits
  <2>2. CASE ref = None \/ rec[ref].stopped
    BY <2>1, <2>2 DEF Stops, CaptureInv, Sound, Idle
  <2>3. CASE ref # None /\ ~rec[ref].stopped
    <3>1. PICK e : Becomes(ref, e) /\ Follows(rec[ref], e) /\ e.stopped
      BY <2>1, <2>3, StopsFollows
    <3>2. rec'[ref] = e /\ \A y \in Recorders \ {ref} : rec'[y] = rec[y]
      BY <1>1, <2>3, <3>1 DEF Becomes, CaptureInv, EpochInv
    <3>3. \A y \in Recorders : Sound(rec'[y])
      BY <3>1, <3>2 DEF CaptureInv, Follows
    <3>4. rec'[ref].made /\ rec'[ref].stopped /\ rec'[ref].stop # "no"
      BY <2>3, <3>1, <3>2 DEF CaptureInv, Follows
    <3>5. \A y \in Recorders : y # ref /\ Idle(rec[y]) => Idle(rec'[y])
      BY <3>2
    <3> QED
      BY <2>1, <3>3, <3>4, <3>5 DEF CaptureInv, Sound, Idle
  <2> QED
    BY <2>2, <2>3
<1>5. CASE SendsSubmit
  <2>1. /\ UNCHANGED <<screen, stray, beaconed, rec>> /\ submitting' = "sent" /\ ref' = None
        /\ submitting = "flushing"
        /\ \A x \in Recorders : rec[x].stop \notin {"chunk", "flush"}
    BY <1>5 DEF SendsSubmit
  <2>2. \A x \in Recorders : rec[x].stop \in {"no", "chunk", "flush", "over"}
    BY DEF CaptureInv, EpochInv, RecorderFields
  <2>3. ~stray => \A x \in Recorders : Idle(rec[x])
    BY <1>1, <2>1, <2>2 DEF CaptureInv, Sound, Idle
  <2> QED
    BY <1>1, <2>1, <2>3 DEF CaptureInv, Sound, Idle
<1>6. CASE SubmitReturns \/ BeaconSubmits
  BY <1>6 DEF SubmitReturns, BeaconSubmits, CaptureInv, Sound, Idle
<1>7. CASE Reloads
  <2>1. /\ screen' = "room" /\ ref' = None /\ submitting' = "no"
        /\ rec' = [x \in Recorders |->
             IF rec[x].made THEN [Blank EXCEPT !.made = TRUE, !.stopped = TRUE] ELSE Blank]
    BY <1>7 DEF Reloads
  <2>2. \A x \in Recorders : Sound(rec'[x]) /\ Idle(rec'[x])
    BY <2>1 DEF Blank, Sound, Idle
  <2> QED
    BY <2>1, <2>2 DEF CaptureInv, Sound, Idle
<1>8. ASSUME NEW x \in Recorders, CameraGranted(x) \/ ClickGranted(x) PROVE CaptureInv'
  BY <1>8, MakesKeeps DEF CameraGranted, ClickGranted
<1> QED
  BY <1>2, <1>3, <1>4, <1>5, <1>6, <1>7, <1>8 DEF PageSteps

LEMMA CaptureBegins == ASSUME RecorderInit PROVE CaptureInv
<1>1. EpochInv
  <2>1. Blank \in RecorderFields /\ Blank.epoch = 0 /\ Numbered(Blank)
    BY DEF Blank, RecorderFields, Numbered
  <2> QED
    BY <2>1 DEF RecorderInit, EpochInv, EvidenceKept
<1>2. Sound(Blank) /\ Idle(Blank)
  BY DEF Blank, Sound, Idle
<1> QED
  BY <1>1, <1>2 DEF RecorderInit, CaptureInv

LEMMA CaptureStep == ASSUME CaptureInv, [RecorderNext]_recorderVars PROVE CaptureInv'
<1>1. CASE UNCHANGED recorderVars
  BY <1>1 DEF recorderVars, engineVars, pageVars, CaptureInv, EpochInv, EvidenceKept,
                    Numbered, Sound, Idle
<1>2. ASSUME NEW x \in Recorders, RecorderSteps(x) PROVE CaptureInv'
  <2>1. EpochInv'
    BY <1>2, RecorderStep DEF CaptureInv
  <2>2. UNCHANGED <<screen, ref, submitting, stray, beaconed>>
    BY <1>2 DEF RecorderSteps, Cycles, LosesTrack, LastChunk, StopEnds, Uploads, EpochGiven,
                EpochRefused, StartsCapture, MediaGranted, MediaDenied, pageVars
  <2> QED
    BY <1>2, <2>1, <2>2, StepFollows, FollowsKeeps
<1>3. CASE PageSteps
  BY <1>3, PageStep, PageKeeps DEF CaptureInv
<1> QED
  BY <1>1, <1>2, <1>3 DEF RecorderNext

\* A recorder that was stopped lets go of the camera for good, no second loop begins, and
\* after the submit no camera stays open, however answers, clicks, reloads and lost cameras
\* interleave, but that of the page's own recorder when the page submitted by beacon, and
\* those of recorders that were made for a page that had moved on.
THEOREM CaptureIsOver == RecorderSpec => []NoZombieCapture
<1>1. CaptureInv => NoZombieCapture
  <2> SUFFICES ASSUME CaptureInv PROVE NoZombieCapture
    OBVIOUS
  <2>1. ASSUME NEW x \in Recorders
        PROVE  /\ rec[x].loop <= 1 /\ ~rec[x].spilt
               /\ rec[x].loop > 0 => rec[x].cam # "none" /\ ~rec[x].stopped
               /\ rec[x].stop = "over" => rec[x].cam = "none" /\ rec[x].stopped
    BY DEF CaptureInv, Sound
  <2>2. ~stray /\ screen = "done" =>
          \A x \in Recorders : rec[x].cam # "none" => beaconed /\ x = ref
    BY RecorderConstants DEF CaptureInv, Idle
  <2> QED
    BY <2>1, <2>2 DEF NoZombieCapture
<1> QED
  BY CaptureBegins, CaptureStep, <1>1, PTL DEF RecorderSpec

-----------------------------------------------------------------------------
(* The bounds of the type invariant                                           *)

\* A recorder loses its media at most MaxGen times, and once more when it ends; its
\* shots are numbered.
Bounded(d) ==
  /\ d.gen <= MaxGen + 1 /\ (d.stop # "over" => d.gen <= MaxGen)
  /\ d.shots <= MaxShots /\ d.queue \subseteq 0..MaxShots

PageTypes ==
  /\ writable \in BOOLEAN /\ recEpoch <= MaxEpochs
  /\ stored \subseteq [epoch : 1..MaxEpochs, seq : 0..MaxShots, by : Recorders]
  /\ effect \in {"due", "asking", "over"} /\ clicks \in 0..MaxClicks
  /\ shown \in {"off", "recording", "paused"} /\ stray \in BOOLEAN /\ beaconed \in BOOLEAN

BoundInv ==
  /\ CaptureInv /\ PageTypes
  /\ \A x \in Recorders : Bounded(rec[x])

\* The fields the bounds are about.
Measured(d, e) ==
  e.gen = d.gen /\ e.stop = d.stop /\ e.shots = d.shots /\ e.queue = d.queue

\* Continuations, waits and the beginning of start() leave them alone.
LEMMA QuietPieces ==
  ASSUME NEW d \in RecorderFields
  PROVE  /\ \A a : Measured(d, Over(d, a)) /\ Measured(d, Dropped(d, a))
         /\ \A at, why : Measured(d, Waits(d, at, why)) /\ Measured(d, Begun(d, why))
<1>1. \A a : Measured(d, Over(d, a))
  BY DEF Over, Measured, RecorderFields
<1>2. \A a : Measured(d, Dropped(d, a))
  BY DEF Over, Dropped, Measured, RecorderFields
<1>3. \A at, why : Measured(d, Waits(d, at, why))
  BY DEF Waits, Measured, RecorderFields
<1>4. \A why : Measured(d, Begun(d, why))
  BY DEF Waits, Begun, Measured, RecorderFields
<1> QED
  BY <1>1, <1>2, <1>3, <1>4

\* A shot keeps the bounds; so does a teardown before the last one.
LEMMA LoudPieces ==
  ASSUME NEW d \in RecorderFields, Bounded(d)
  PROVE  /\ Bounded(Shot(d))
         /\ Torn(d).gen = d.gen + 1 /\ Torn(d).stop = d.stop
         /\ Torn(d).shots = d.shots /\ Torn(d).queue = d.queue
<1>1. MaxGen \in Nat /\ MaxShots \in Nat
  BY RecorderConstants
<1>2. Bounded(Shot(d))
  <2> DEFINE e == [d EXCEPT !.shots = d.shots + 1, !.queue = d.queue \cup {d.shots}]
  <2>1. CASE Shot(d) = d
    BY <2>1
  <2>2. CASE Shot(d) # d
    <3>1. Shot(d) = e /\ d.shots < MaxShots
      BY <2>2 DEF Shot
    <3>2. /\ e.gen = d.gen /\ e.stop = d.stop /\ e.shots = d.shots + 1
          /\ e.queue = d.queue \cup {d.shots}
      BY DEF RecorderFields
    <3>3. d.shots \in Nat
      BY DEF RecorderFields
    <3> QED
      BY <1>1, <3>1, <3>2, <3>3 DEF Bounded
  <2> QED
    BY <2>1, <2>2
<1>3. /\ Torn(d).gen = d.gen + 1 /\ Torn(d).stop = d.stop
      /\ Torn(d).shots = d.shots /\ Torn(d).queue = d.queue
  BY DEF Torn, RecorderFields
<1> QED
  BY <1>2, <1>3

LEMMA MeasuredBounds ==
  ASSUME NEW d, NEW e, Bounded(d), Measured(d, e)
  PROVE  Bounded(e)
BY DEF Bounded, Measured

\* The continuations of a recorder keep its bounds.
LEMMA ContinuesBounded ==
  ASSUME BoundInv, NEW x \in Recorders, NEW a \in rec[x].awaits,
         \/ EpochGiven(x, a) \/ EpochRefused(x, a) \/ StartsCapture(x, a)
         \/ MediaGranted(x, a) \/ MediaDenied(x, a)
  PROVE  \E e : Becomes(x, e) /\ Bounded(e)
<1> DEFINE w == rec[x]
           o == Over(w, a)
           p == Dropped(w, a)
<1>1. w \in RecorderFields /\ Bounded(w) /\ recEpoch \in Nat
  BY DEF BoundInv, CaptureInv, EpochInv
<1>2. a.why \in {"first", "lost", "retry"}
  BY <1>1 DEF RecorderFields
<1>3. o \in RecorderFields /\ Bounded(o) /\ p \in RecorderFields /\ Bounded(p)
  BY <1>1, OverIs, DroppedIs, QuietPieces, MeasuredBounds
<1>4. CASE EpochGiven(x, a) /\ ~Abandoned(w, a)
  <2> DEFINE n == recEpoch + 1
             e == [w EXCEPT !.awaits = @ \ {a}, !.epoch = n]
             d == Waits(e, "play", a.why)
  <2>1. Becomes(x, d) /\ n \in Nat
    BY <1>1, <1>4 DEF EpochGiven
  <2> HIDE DEF n
  <2>2. e \in RecorderFields /\ Measured(w, e)
    BY <1>1, <2>1 DEF RecorderFields, Measured
  <2> HIDE DEF e
  <2> QED
    BY <1>1, <2>1, <2>2, QuietPieces, MeasuredBounds
<1>5. CASE EpochRefused(x, a)
  <2> DEFINE e == [p EXCEPT !.active = FALSE]
  <2>1. Becomes(x, p) \/ Becomes(x, e)
    BY <1>5 DEF EpochRefused
  <2> HIDE DEF p
  <2>2. Measured(p, e)
    BY <1>3 DEF RecorderFields, Measured
  <2> HIDE DEF e
  <2> QED
    BY <1>3, <2>1, <2>2, MeasuredBounds
<1>6. CASE StartsCapture(x, a) /\ ~Abandoned(w, a)
  <2> DEFINE n == o.loop + 1
             e == [o EXCEPT !.hooked = TRUE, !.loop = n]
  <2>1. Becomes(x, Shot(e))
    BY <1>6 DEF StartsCapture
  <2> HIDE DEF o
  <2>2. n \in Nat
    BY <1>3 DEF RecorderFields
  <2> HIDE DEF n
  <2>3. e \in RecorderFields /\ Measured(o, e)
    BY <1>3, <2>2 DEF RecorderFields, Measured
  <2> HIDE DEF e
  <2> QED
    BY <1>3, <2>1, <2>3, LoudPieces, MeasuredBounds
<1>7. CASE MediaGranted(x, a) /\ ~Abandoned(w, a)
  <2> DEFINE e == [w EXCEPT !.awaits = @ \ {a}, !.stopped = FALSE]
  <2>1. Becomes(x, Begun(e, a.why))
    BY <1>7 DEF MediaGranted
  <2>2. e \in RecorderFields /\ Measured(w, e)
    BY <1>1 DEF RecorderFields, Measured
  <2> HIDE DEF e
  <2> QED
    BY <1>1, <2>1, <2>2, QuietPieces, MeasuredBounds
<1>8. CASE \/ MediaDenied(x, a)
           \/ Abandoned(w, a) /\ (EpochGiven(x, a) \/ StartsCapture(x, a) \/ MediaGranted(x, a))
  <2>1. Becomes(x, o) \/ Becomes(x, p)
    BY <1>8 DEF MediaDenied, EpochGiven, StartsCapture, MediaGranted
  <2> QED
    BY <1>3, <2>1
<1> QED
  BY <1>4, <1>5, <1>6, <1>7, <1>8

\* So does everything else a recorder does.
LEMMA StepBounded ==
  ASSUME BoundInv, NEW x \in Recorders, RecorderSteps(x)
  PROVE  \E e : Becomes(x, e) /\ Bounded(e)
<1> DEFINE w == rec[x]
           t == Torn(w)
<1>1. w \in RecorderFields /\ Bounded(w) /\ w.gen \in Nat /\ MaxGen \in Nat
  BY RecorderConstants DEF BoundInv, CaptureInv, EpochInv, RecorderFields
<1>2. /\ t \in RecorderFields /\ t.gen = w.gen + 1 /\ t.stop = w.stop
      /\ t.shots = w.shots /\ t.queue = w.queue
  BY <1>1, TornIs, LoudPieces
<1>3. CASE Cycles(x)
  BY <1>1, <1>3, LoudPieces DEF Cycles
<1>4. CASE LosesTrack(x)
  <2> DEFINE b == [t EXCEPT !.busy = TRUE]
             l == [w EXCEPT !.cam = "lost"]
  <2>1. (Becomes(x, Waits(b, "media", "lost")) \/ Becomes(x, l)) /\ w.gen < MaxGen
    BY <1>4 DEF LosesTrack
  <2> HIDE DEF t
  <2>2. b \in RecorderFields /\ Measured(t, b) /\ Measured(w, l)
    BY <1>1, <1>2 DEF RecorderFields, Measured
  <2>3. Bounded(t)
    BY <1>1, <1>2, <2>1 DEF Bounded
  <2> HIDE DEF b, l
  <2> QED
    BY <1>1, <2>1, <2>2, <2>3, QuietPieces, MeasuredBounds
<1>5. CASE LastChunk(x)
  <2>1. PICK d \in {w, Shot(w)} : Becomes(x, [d EXCEPT !.stop = "flush"])
    BY <1>5 DEF LastChunk
  <2>2. d \in RecorderFields /\ Bounded(d) /\ d.stop = "chunk"
    BY <1>1, <1>5, ShotIs, LoudPieces DEF LastChunk, Alike
  <2> DEFINE e == [d EXCEPT !.stop = "flush"]
  <2>3. e.gen = d.gen /\ e.shots = d.shots /\ e.queue = d.queue
    BY <2>2 DEF RecorderFields
  <2> QED
    BY <2>1, <2>2, <2>3 DEF Bounded
<1>6. CASE StopEnds(x)
  <2> DEFINE e == [t EXCEPT !.stop = "over"]
  <2>1. Becomes(x, e) /\ w.stop = "flush"
    BY <1>6 DEF StopEnds
  <2> HIDE DEF t
  <2>2. e.gen = w.gen + 1 /\ e.shots = w.shots /\ e.queue = w.queue /\ e.stop = "over"
    BY <1>2 DEF RecorderFields
  <2>3. Bounded(e)
    BY <1>1, <2>1, <2>2 DEF Bounded
  <2> QED
    BY <2>1, <2>3
<1>7. CASE Uploads(x)
  <2>1. PICK s \in w.queue : Becomes(x, [w EXCEPT !.queue = @ \ {s}])
    BY <1>7 DEF Uploads
  <2> DEFINE e == [w EXCEPT !.queue = @ \ {s}]
  <2>2. e.gen = w.gen /\ e.shots = w.shots /\ e.queue = w.queue \ {s} /\ e.stop = w.stop
    BY <1>1 DEF RecorderFields
  <2> QED
    BY <1>1, <2>1, <2>2 DEF Bounded
<1> QED
  BY <1>3, <1>4, <1>5, <1>6, <1>7, ContinuesBounded DEF RecorderSteps

\* What the steps of a recorder do to the engine and to the page.
LEMMA StepTypes ==
  ASSUME BoundInv, NEW x \in Recorders, RecorderSteps(x)
  PROVE  PageTypes'
<1> USE DEF engineVars, pageVars
<1> DEFINE w == rec[x]
<1>1. w \in RecorderFields /\ recEpoch \in Nat /\ MaxEpochs \in Nat /\ Bounded(w)
  BY RecorderConstants DEF BoundInv, CaptureInv, EpochInv
<1>2. CASE Cycles(x) \/ LosesTrack(x) \/ LastChunk(x) \/ StopEnds(x)
  BY <1>2 DEF Cycles, LosesTrack, LastChunk, StopEnds, BoundInv, PageTypes
<1>3. CASE Uploads(x)
  <2>1. PICK s \in w.queue :
          stored' \in {stored, stored \cup {[epoch |-> w.epoch, seq |-> s, by |-> x]}}
    BY <1>3 DEF Uploads
  <2>2. s \in 0..MaxShots
    BY <1>1, <2>1 DEF Bounded
  <2>3. w.epoch \in 1..MaxEpochs
    <3>1. w.epoch \in Nat /\ w.epoch <= recEpoch /\ w.epoch # 0
      BY <1>1, <2>1 DEF BoundInv, CaptureInv, EpochInv, Numbered, RecorderFields
    <3> QED
      BY <1>1, <3>1 DEF BoundInv, PageTypes
  <2> QED
    BY <1>3, <2>1, <2>2, <2>3 DEF Uploads, BoundInv, PageTypes
<1>4. ASSUME NEW a \in w.awaits,
             \/ EpochGiven(x, a) \/ EpochRefused(x, a) \/ StartsCapture(x, a)
             \/ MediaGranted(x, a) \/ MediaDenied(x, a)
      PROVE  PageTypes'
  <2>1. recEpoch' <= MaxEpochs
    BY <1>1, <1>4 DEF EpochGiven, EpochRefused, StartsCapture, MediaGranted, MediaDenied,
                      BoundInv, PageTypes
  <2>2. shown' \in {"off", "recording", "paused"}
    BY <1>4 DEF EpochGiven, EpochRefused, StartsCapture, MediaGranted, MediaDenied, Answered,
                BoundInv, PageTypes
  <2>3. UNCHANGED <<writable, stored, effect, clicks, stray, beaconed>>
    BY <1>4 DEF EpochGiven, EpochRefused, StartsCapture, MediaGranted, MediaDenied
  <2> QED
    BY <2>1, <2>2, <2>3 DEF BoundInv, PageTypes
<1> QED
  BY <1>2, <1>3, <1>4 DEF RecorderSteps

\* The steps of the page keep the bounds of the recorders, and its own.
LEMMA PageBounded ==
  ASSUME BoundInv, PageSteps
  PROVE  PageTypes' /\ \A x \in Recorders : Bounded(rec[x])'
<1> USE DEF engineVars, pageVars
<1>1. /\ rec \in [Recorders -> RecorderFields] /\ ref \in Recorders \cup {None}
      /\ None \notin Recorders /\ MaxGen \in Nat /\ MaxShots \in Nat /\ MaxClicks \in Nat
  BY RecorderConstants DEF BoundInv, CaptureInv, EpochInv
<1>2. Bounded(Blank) /\ Bounded([Blank EXCEPT !.made = TRUE])
        /\ Bounded([Blank EXCEPT !.made = TRUE, !.stopped = TRUE])
  BY <1>1 DEF Blank, Bounded
<1>3. ASSUME NEW x \in Recorders, NEW e, Becomes(x, e), Bounded(e)
      PROVE  \A y \in Recorders : Bounded(rec[y])'
  <2>1. rec'[x] = e /\ \A y \in Recorders \ {x} : rec'[y] = rec[y]
    BY <1>1, <1>3 DEF Becomes
  <2> QED
    BY <1>3, <2>1 DEF BoundInv, Bounded
<1>4. CASE EntersRoom \/ CameraDenied \/ ClicksAnew \/ ClickDenied \/ GoesToReflection
             \/ GoesBack \/ SendsSubmit \/ SubmitReturns \/ BeaconSubmits \/ InviteCloses
  <2>1. UNCHANGED <<rec, recEpoch, stored>>
    BY <1>4 DEF EntersRoom, CameraDenied, ClicksAnew, ClickDenied, GoesToReflection, GoesBack,
                SendsSubmit, SubmitReturns, BeaconSubmits, InviteCloses
  <2>2. effect' \in {"due", "asking", "over"} /\ shown' \in {"off", "recording", "paused"}
    BY <1>4 DEF EntersRoom, CameraDenied, ClicksAnew, ClickDenied, GoesToReflection,
                GoesBack, SendsSubmit, SubmitReturns, BeaconSubmits, InviteCloses, BoundInv, PageTypes
  <2>3. clicks' \in 0..MaxClicks
    <3>1. clicks \in 0..MaxClicks
      BY DEF BoundInv, PageTypes
    <3>2. CASE ClicksAnew
      BY <1>1, <3>1, <3>2 DEF ClicksAnew
    <3>3. CASE ClickDenied
      BY <1>1, <3>1, <3>3 DEF ClickDenied
    <3> QED
      BY <1>4, <3>1, <3>2, <3>3 DEF EntersRoom, CameraDenied, GoesToReflection, GoesBack,
         SendsSubmit, SubmitReturns, BeaconSubmits, InviteCloses
  <2>4. UNCHANGED stray /\ (UNCHANGED writable \/ writable' = FALSE)
    BY <1>4 DEF EntersRoom, CameraDenied, ClicksAnew, ClickDenied, GoesToReflection,
                GoesBack, SendsSubmit, SubmitReturns, BeaconSubmits, InviteCloses
  <2>5. beaconed' = beaconed \/ beaconed' = TRUE
    BY <1>4 DEF EntersRoom, CameraDenied, ClicksAnew, ClickDenied, GoesToReflection,
                GoesBack, SendsSubmit, SubmitReturns, BeaconSubmits, InviteCloses
  <2>6. writable' \in BOOLEAN /\ beaconed' \in BOOLEAN
    BY <2>4, <2>5 DEF BoundInv, PageTypes
  <2> QED
    BY <2>1, <2>2, <2>3, <2>4, <2>6 DEF BoundInv, PageTypes, Bounded
<1>5. CASE ClicksRetry
  <2> DEFINE w == rec[ref]
             t == Torn(w)
             b == [t EXCEPT !.busy = TRUE]
  <2>1. ref \in Recorders /\ Becomes(ref, Waits(b, "media", "retry")) /\ w.gen < MaxGen
    BY <1>1, <1>5 DEF ClicksRetry
  <2>2. w \in RecorderFields /\ Bounded(w) /\ w.gen \in Nat
    BY <1>1, <2>1 DEF BoundInv, RecorderFields
  <2>3. /\ t \in RecorderFields /\ t.gen = w.gen + 1 /\ t.stop = w.stop
        /\ t.shots = w.shots /\ t.queue = w.queue
    BY <2>2, TornIs, LoudPieces
  <2> HIDE DEF t
  <2>4. b \in RecorderFields /\ Measured(t, b)
    BY <2>3 DEF RecorderFields, Measured
  <2>5. Bounded(t)
    BY <1>1, <2>1, <2>2, <2>3 DEF Bounded
  <2> HIDE DEF b
  <2>6. Bounded(Waits(b, "media", "retry"))
    BY <2>4, <2>5, QuietPieces, MeasuredBounds
  <2>7. PageTypes'
    BY <1>5 DEF ClicksRetry, BoundInv, PageTypes
  <2> QED
    BY <1>3, <2>1, <2>6, <2>7
<1>6. CASE Submits
  <2>1. PageTypes'
    BY <1>6 DEF Submits, BoundInv, PageTypes
  <2>2. CASE ref = None \/ rec[ref].stopped
    BY <1>6, <2>1, <2>2 DEF Submits, Stops, BoundInv, Bounded
  <2>3. CASE ref # None /\ ~rec[ref].stopped
    <3> DEFINE w == rec[ref]
               st == IF w.loop > 0 THEN "chunk" ELSE "flush"
               e == [w EXCEPT !.stopped = TRUE, !.active = FALSE, !.loop = 0, !.stop = st]
    <3>1. Becomes(ref, e) /\ st \in {"chunk", "flush"} /\ ref \in Recorders
      BY <1>1, <1>6, <2>3 DEF Submits, Stops
    <3> HIDE DEF st
    <3>2. e.gen = w.gen /\ e.shots = w.shots /\ e.queue = w.queue
      BY <1>1, <3>1 DEF RecorderFields
    <3>3. w.stop = "no" /\ Bounded(w)
      BY <1>1, <2>3, <3>1 DEF BoundInv, CaptureInv, Sound
    <3>4. Bounded(e)
      BY <3>1, <3>2, <3>3 DEF Bounded
    <3> QED
      BY <1>3, <2>1, <3>1, <3>4
  <2> QED
    BY <2>2, <2>3
<1>7. CASE Reloads
  <2>1. \A x \in Recorders : Bounded(rec'[x])
    BY <1>2, <1>7 DEF Reloads
  <2>2. \A x \in Recorders : Bounded(rec[x])'
    BY <2>1 DEF Bounded
  <2>3. UNCHANGED <<writable, recEpoch, stored>> /\ effect' = "due" /\ clicks' = 0
          /\ shown' = "off" /\ stray' = FALSE /\ beaconed' = FALSE
    BY <1>7 DEF Reloads
  <2>4. clicks' \in 0..MaxClicks
    BY <1>1, <2>3
  <2>5. effect' \in {"due", "asking", "over"} /\ shown' \in {"off", "recording", "paused"}
    BY <2>3
  <2>6. stray' \in BOOLEAN /\ beaconed' \in BOOLEAN
    BY <2>3
  <2>7. PageTypes'
    BY <2>3, <2>4, <2>5, <2>6 DEF BoundInv, PageTypes
  <2> QED
    BY <2>2, <2>7
<1>8. ASSUME NEW x \in Recorders, CameraGranted(x) \/ ClickGranted(x)
      PROVE  PageTypes' /\ \A y \in Recorders : Bounded(rec[y])'
  <2> DEFINE b == [Blank EXCEPT !.made = TRUE]
  <2>1. Becomes(x, Begun(b, "first"))
    BY <1>8 DEF CameraGranted, ClickGranted, Makes
  <2>2. b \in RecorderFields /\ Bounded(b)
    BY <1>2 DEF Blank, RecorderFields
  <2> HIDE DEF b
  <2>3. \A y \in Recorders : Bounded(rec[y])'
    BY <1>3, <2>1, <2>2, QuietPieces, MeasuredBounds
  <2>4. UNCHANGED <<writable, recEpoch, stored, shown>> /\ effect' \in {effect, "over"}
    BY <1>8 DEF CameraGranted, ClickGranted
  <2>5. clicks' \in 0..MaxClicks
    BY <1>1, <1>8 DEF CameraGranted, ClickGranted, BoundInv, PageTypes
  <2>6. stray' \in BOOLEAN /\ beaconed' \in BOOLEAN
    BY <1>8 DEF CameraGranted, ClickGranted, Makes, BoundInv, PageTypes
  <2>7. PageTypes'
    BY <2>4, <2>5, <2>6 DEF BoundInv, PageTypes
  <2> QED
    BY <2>3, <2>7
<1> QED
  BY <1>4, <1>5, <1>6, <1>7, <1>8 DEF PageSteps

LEMMA BoundFollows == BoundInv => RecorderTypeOK
<1> SUFFICES ASSUME BoundInv PROVE RecorderTypeOK
  OBVIOUS
<1>1. MaxGen \in Nat /\ MaxShots \in Nat /\ MaxEpochs \in Nat /\ recEpoch \in Nat
  BY RecorderConstants DEF BoundInv, CaptureInv, EpochInv
<1> DEFINE Fields ==
       [made : BOOLEAN, active : BOOLEAN, stopped : BOOLEAN, busy : BOOLEAN,
        gen : 0..(MaxGen + 1), epoch : 0..MaxEpochs, loop : 0..2,
        cam : {"none", "live", "lost"}, hooked : BOOLEAN, spilt : BOOLEAN,
        awaits : SUBSET Awaits, stop : {"no", "chunk", "flush", "over"},
        shots : 0..MaxShots, queue : SUBSET (0..MaxShots)]
<1>2. ASSUME NEW x \in Recorders PROVE rec[x] \in Fields
  <2> DEFINE d == rec[x]
  <2>1. d \in RecorderFields /\ Sound(d) /\ Bounded(d) /\ d.epoch <= recEpoch
    BY DEF BoundInv, CaptureInv, EpochInv
  <2> HIDE DEF d
  <2>2. d.gen \in 0..(MaxGen + 1) /\ d.shots \in 0..MaxShots /\ d.queue \subseteq 0..MaxShots
    BY <1>1, <2>1 DEF RecorderFields, Bounded
  <2>3. d.loop \in 0..2
    BY <2>1 DEF Sound
  <2>4. d.epoch \in 0..MaxEpochs
    BY <1>1, <2>1 DEF RecorderFields, BoundInv, PageTypes
  <2>5. d.awaits \subseteq Awaits
    <3> SUFFICES ASSUME NEW a \in d.awaits PROVE a \in Awaits
      OBVIOUS
    <3>1. /\ a \in [at : {"media", "epoch", "play"}, why : {"first", "lost", "retry"},
                    gen : Nat]
          /\ a.gen <= d.gen
      BY <2>1 DEF RecorderFields, Sound
    <3>2. a.gen \in 0..(MaxGen + 1)
      BY <1>1, <2>2, <3>1
    <3> QED
      BY <3>1, <3>2 DEF Awaits
  <2>6. d \in Fields
    BY <2>1, <2>2, <2>3, <2>4, <2>5 DEF RecorderFields
  <2> QED
    BY <2>6 DEF d
<1>3. rec \in [Recorders -> Fields]
  BY <1>2 DEF BoundInv, CaptureInv, EpochInv
<1>4. recEpoch \in 0..MaxEpochs
  BY <1>1 DEF BoundInv, PageTypes
<1>5. /\ screen \in {"room", "reflection", "done"} /\ submitting \in {"no", "flushing", "sent"}
      /\ ref \in Recorders \cup {None}
  BY DEF BoundInv, CaptureInv, EpochInv
<1>6. /\ writable \in BOOLEAN
      /\ stored \subseteq [epoch : 1..MaxEpochs, seq : 0..MaxShots, by : Recorders]
      /\ effect \in {"due", "asking", "over"} /\ clicks \in 0..MaxClicks
      /\ shown \in {"off", "recording", "paused"} /\ stray \in BOOLEAN /\ beaconed \in BOOLEAN
  BY DEF BoundInv, PageTypes
<1> QED
  BY <1>3, <1>4, <1>5, <1>6, Zenon DEF RecorderTypeOK

LEMMA BoundBegins == ASSUME RecorderInit PROVE BoundInv
<1>1. Bounded(Blank)
  BY RecorderConstants DEF Blank, Bounded
<1>2. writable \in BOOLEAN /\ stray \in BOOLEAN /\ beaconed \in BOOLEAN
  BY DEF RecorderInit
<1>3. recEpoch <= MaxEpochs /\ clicks \in 0..MaxClicks
  BY RecorderConstants DEF RecorderInit
<1>4. PageTypes
  BY <1>2, <1>3 DEF RecorderInit, PageTypes
<1>5. \A x \in Recorders : rec[x] = Blank
  BY DEF RecorderInit
<1> QED
  BY <1>1, <1>4, <1>5, CaptureBegins DEF BoundInv

LEMMA BoundStep == ASSUME BoundInv, [RecorderNext]_recorderVars PROVE BoundInv'
<1>1. CaptureInv'
  BY CaptureStep DEF BoundInv
<1>2. CASE UNCHANGED recorderVars
  BY <1>1, <1>2 DEF recorderVars, engineVars, pageVars, BoundInv, PageTypes, Bounded
<1>3. CASE PageSteps
  BY <1>1, <1>3, PageBounded DEF BoundInv
<1>4. ASSUME NEW x \in Recorders, RecorderSteps(x) PROVE BoundInv'
  <2>1. PICK e : Becomes(x, e) /\ Bounded(e)
    BY <1>4, StepBounded
  <2>2. \A y \in Recorders : rec'[y] = IF y = x THEN e ELSE rec[y]
    BY <2>1 DEF Becomes, BoundInv, CaptureInv, EpochInv
  <2>3. \A y \in Recorders : Bounded(rec[y])'
    BY <2>1, <2>2 DEF BoundInv, Bounded
  <2> QED
    BY <1>1, <1>4, <2>3, StepTypes DEF BoundInv
<1> QED
  BY <1>2, <1>3, <1>4 DEF RecorderNext

\* However often media are lost and reopened and pages reloaded, a recorder stays what its
\* class says: one generation per loss, one number per shot, an epoch the engine gave.
THEOREM RecorderTyped == RecorderSpec => []RecorderTypeOK
BY BoundBegins, BoundStep, BoundFollows, PTL DEF RecorderSpec
=============================================================================
