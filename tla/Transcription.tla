---------------------------- MODULE Transcription ----------------------------
(***************************************************************************)
(* The transcription of one task: the engine counts the speech that the    *)
(* model has gone through (engine.py), the estimator turns the counts into *)
(* a percentage and a range for the time that is left (progress.py), the   *)
(* executor's callback stores them in the task's record (executor.py), and *)
(* what the model returns is checked on its way to result.json (models.py, *)
(* schema.py).                                                             *)
(*                                                                         *)
(* Time goes in whole seconds.  A rate is known or unknown, and with a     *)
(* known rate the time left is any of LeftOver.  Sentences have times in   *)
(* tenths of a millisecond, which the code cuts off.                       *)
(***************************************************************************)
EXTENDS Jobs, Order

CONSTANTS
  MinObservation, StallSeconds,  \* the estimator's two parameters
  MaxTime,       \* bound on the clock
  MaxRevision,   \* bound: from this revision on the model reports nothing more
  MaxBatched,    \* bound: with so much speech counted it gets no more batches
  Speech,        \* amounts of speech that voice detection may find
  Batches,       \* the lengths of batches, 0 for one that cannot be taken
  Reported,      \* counts and totals that the model may report by itself
  LeftOver,      \* times that may be left at a known rate
  Transcripts    \* what the model may return: sequences of sentences

ASSUME TimesAssumption ==
  /\ MinObservation \in Nat /\ StallSeconds \in Nat /\ LeftOver \subseteq Nat
  /\ MaxTime \in Nat /\ MaxRevision \in Nat /\ MaxBatched \in Nat
ASSUME CountsAssumption ==
  Speech \subseteq Nat /\ Batches \subseteq Nat /\ Reported \subseteq Int
ASSUME TranscriptsAssumption ==
  Transcripts \subseteq Seq([text : STRING, start : Int, end : Int, speaker : Int])

VARIABLES
  now,
  vad,         \* has the model a separate voice detection?
  stage,       \* of execute_job
  speech,      \* vad_total_ms: the speech voice detection has found
  batched,     \* the lengths of the batches so far, added up (history)
  processed,   \* processed_ms: what the engine counts of it
  est,         \* the estimator
  record, confidence,  \* the task's record
  segments,    \* of the result
  exit         \* the task's exit code

engineVars == <<vad, speech, batched, processed>>
vars == <<now, stage, engineVars, est, record, confidence, segments, exit>>

Unset == -1

Estimate(percent, c, t, low, high, conf) ==
  [percent |-> percent, processed |-> c, total |-> t, low |-> low, high |-> high,
   confidence |-> conf]

Init ==
  /\ now = 0
  /\ vad \in BOOLEAN
  /\ stage = "vad"
  /\ speech = 0 /\ batched = 0 /\ processed = 0
  /\ est = [started |-> Unset, updated |-> Unset, previous |-> 0, rate |-> FALSE,
            last |-> Estimate(15, 0, 0, NoEta, NoEta, "calculating")]
  /\ record = [Created EXCEPT !.status = "running", !.percent = 10]
  /\ confidence = "calculating"
  /\ segments = <<>>
  /\ exit = Unset

-----------------------------------------------------------------------------
(* ProgressEstimator.                                                      *)

\* current: an estimate that has got old is widened.
CurrentEstimate ==
  LET stalled == now - est.updated IN
    IF est.updated = Unset \/ stalled < StallSeconds \/ est.last.high = NoEta
    THEN est.last
    ELSE [est.last EXCEPT !.high = (7 * @ + 3) \div 4 + stalled, !.confidence = "low"]

Sensible(c, t) == t > 0 /\ c >= 0 /\ c <= t /\ c >= est.previous

Percent(c, t) == 15 + (80 * c) \div t

\* The first count starts the clock.
First(c, t) ==
  [started |-> now, updated |-> now, previous |-> c, rate |-> FALSE,
   last |-> Estimate(Percent(c, t), c, t, NoEta, NoEta, "calculating")]

\* Mutant of Later: the observation time is measured from the last count.
LaterFromLast(c, t, left) ==
  LET moved == c > est.previous /\ now > est.updated
      rate  == est.rate \/ moved
      known == now - est.updated >= MinObservation /\ rate
      rest  == IF c = t THEN 0 ELSE left
  IN  [started  |-> est.started,
       updated  |-> IF moved THEN now ELSE est.updated,
       previous |-> IF moved THEN c ELSE est.previous,
       rate     |-> rate,
       last     |-> IF known
                    THEN Estimate(Percent(c, t), c, t, (4 * rest) \div 5, (5 * rest + 3) \div 4, "normal")
                    ELSE Estimate(Percent(c, t), c, t, NoEta, NoEta, "calculating")]

\* A later count moves the rate when both units and time have advanced.
Later(c, t, left) ==
  LET moved == c > est.previous /\ now > est.updated
      rate  == est.rate \/ moved
      known == now - est.started >= MinObservation /\ rate
      rest  == IF c = t THEN 0 ELSE left
  IN  [started  |-> est.started,
       updated  |-> IF moved THEN now ELSE est.updated,
       previous |-> IF moved THEN c ELSE est.previous,
       rate     |-> rate,
       last     |-> IF known
                    THEN Estimate(Percent(c, t), c, t, (4 * rest) \div 5, (5 * rest + 3) \div 4, "normal")
                    ELSE Estimate(Percent(c, t), c, t, NoEta, NoEta, "calculating")]

\* persist_progress stores what observe returns; the store refuses a task that has
\* ended, and safe_progress swallows that.
Store(estimate) ==
  IF record.status \in Live
  THEN record' = WithProgress(record, estimate) /\ confidence' = estimate.confidence
  ELSE UNCHANGED <<record, confidence>>

\* Mutant of Observe: a count above the total is taken.
ObserveAnything(c, t) ==
  /\ \/ t <= 0 /\ UNCHANGED est
     \/ t > 0 /\ est.started = Unset /\ est' = First(c, t)
     \/ t > 0 /\ est.started # Unset /\ \E left \in LeftOver : est' = Later(c, t, left)
  /\ Store(IF t <= 0 THEN CurrentEstimate ELSE est'.last)

Observe(c, t) ==
  /\ \/ ~Sensible(c, t) /\ UNCHANGED est
     \/ Sensible(c, t) /\ est.started = Unset /\ est' = First(c, t)
     \/ Sensible(c, t) /\ est.started # Unset /\ \E left \in LeftOver : est' = Later(c, t, left)
  /\ Store(IF Sensible(c, t) THEN est'.last ELSE CurrentEstimate)

-----------------------------------------------------------------------------
(* TranscriptionEngine.transcribe.                                         *)

\* The result of voice detection gives the total.
Detect ==
  /\ stage = "vad" /\ vad
  /\ stage' = "asr"
  /\ speech' \in Speech
  /\ IF speech' > 0 THEN Observe(0, speech') ELSE UNCHANGED <<est, record, confidence>>
  /\ UNCHANGED <<now, vad, batched, processed, segments, exit>>

\* Mutant of Batch: what is processed may exceed the speech.
BatchUncut(b) ==
  /\ stage = "asr" /\ vad /\ speech > 0
  /\ batched < MaxBatched /\ record.revision < MaxRevision
  /\ batched' = batched + b
  /\ processed' = processed + b
  /\ Observe(processed', speech)
  /\ UNCHANGED <<now, vad, stage, speech, segments, exit>>

\* A batch has gone through the model; its samples are padded and rounded.  Nothing
\* ties the batches to the speech: they may fall short of it or exceed it.
Batch(b) ==
  /\ stage = "asr" /\ vad /\ speech > 0
  /\ batched < MaxBatched /\ record.revision < MaxRevision
  /\ batched' = batched + b
  /\ processed' = IF processed + b < speech THEN processed + b ELSE speech
  /\ Observe(processed', speech)
  /\ UNCHANGED <<now, vad, stage, speech, segments, exit>>

\* Without voice detection the model's own counts are taken as they come.
Native(c, t) ==
  /\ stage = "vad" /\ ~vad /\ record.revision < MaxRevision
  /\ Observe(c, t)
  /\ UNCHANGED <<now, stage, engineVars, segments, exit>>

Tick ==
  /\ stage \in {"vad", "asr"} /\ now < MaxTime
  /\ now' = now + 1
  /\ UNCHANGED <<stage, engineVars, est, record, confidence, segments, exit>>

\* The manager's cancel has found the task queued, and writes late.
Overtaken ==
  /\ record.status \in Live /\ stage # "ended"
  /\ record' = WithStatus(record, "cancelled")
  /\ UNCHANGED <<now, stage, engineVars, est, confidence, segments, exit>>

-----------------------------------------------------------------------------
(* The result.                                                             *)

NoSpeaker == Unset

\* validate_raw_result refuses the transcript for one of these ...
Malformed(s) ==
  \/ s.text = "blank"
  \/ s.text = "speech" /\ (s.start < 0 \/ s.end <= s.start \/ s.speaker = NoSpeaker)

\* ... drops sentences that hold nothing but tags, and cuts the times.  There is
\* one such list; it is picked by the places of the sentences.
Cut(s) == [start |-> s.start \div 10, end |-> s.end \div 10, speaker |-> s.speaker]
Kept(raw) ==
  LET said == {i \in DOMAIN raw : raw[i].text = "speech"}
  IN  {[n \in DOMAIN at |-> Cut(raw[at[n]])] : at \in Picked([i \in DOMAIN raw |-> i], said)}

\* What Segment demands of one, and CanonicalResult of two in a row.
Wellformed(s) == s.start >= 0 /\ s.end > s.start

\* Mutant of Ordered: a segment is compared with the first one.
OrderedAfterFirst(segs) == \A i \in 2..Len(segs) : segs[i].start >= segs[1].end
Ordered(segs) == \A i \in 2..Len(segs) : segs[i].start >= segs[i - 1].end

\* The except clauses of execute_job; ValueError counts as an error of the input.
Fail(code) ==
  /\ stage' = "ended" /\ exit' = code
  /\ record' = IF record.status \in Live THEN WithStatus(record, "failed") ELSE record
  /\ UNCHANGED <<now, engineVars, est, confidence, segments>>

ModelFails == stage \in {"vad", "asr"} /\ Fail(3)

Transcribed == stage = IF vad THEN "asr" ELSE "vad"

Refuse(raw) ==
  /\ Transcribed
  /\ \/ raw = <<>> \/ \E i \in DOMAIN raw : Malformed(raw[i])
     \/ \E kept \in Kept(raw) : \E i \in DOMAIN kept : ~Wellformed(kept[i])
  /\ Fail(2)

\* The stage "finalizing" is stored, if the task has not ended meanwhile.
Finalize(raw) ==
  /\ Transcribed /\ record.status \in Live
  /\ raw # <<>> /\ \A i \in DOMAIN raw : ~Malformed(raw[i])
  /\ segments' \in Kept(raw)
  /\ \A i \in DOMAIN segments' : Wellformed(segments'[i])
  /\ stage' = "finalizing"
  /\ record' = WithProgress(record, Estimate(95, 0, 0, NoEta, NoEta, "normal"))
  /\ UNCHANGED <<now, engineVars, est, confidence, exit>>

\* update_progress refuses a task that has ended: a ValueError again.
TooLate ==
  /\ Transcribed /\ record.status \notin Live
  /\ Fail(2)

Overlapping ==
  /\ stage = "finalizing" /\ ~Ordered(segments)
  /\ Fail(2)

\* result.json and the exports, which read it back, are written.
Write ==
  /\ stage = "finalizing" /\ Ordered(segments)
  /\ stage' = "written"
  /\ UNCHANGED <<now, engineVars, est, record, confidence, segments, exit>>

Succeed ==
  /\ stage = "written" /\ record.status \in Live
  /\ stage' = "ended" /\ exit' = 0
  /\ record' = WithStatus(record, "succeeded") /\ confidence' = "normal"
  /\ UNCHANGED <<now, engineVars, est, segments>>

SucceedLate ==
  /\ stage = "written" /\ record.status \notin Live
  /\ Fail(2)

Next ==
  \/ Detect
  \/ \E b \in Batches : Batch(b)
  \/ \E c, t \in Reported : Native(c, t)
  \/ Tick
  \/ Overtaken
  \/ ModelFails
  \/ \E raw \in Transcripts : Refuse(raw) \/ Finalize(raw)
  \/ TooLate \/ Overlapping \/ Write \/ Succeed \/ SucceedLate

Spec == Init /\ [][Next]_vars
-----------------------------------------------------------------------------
\* What the estimator may return, now or at any later time, is a legal report of
\* update_progress: never above 99%, units within the total, both ends of the
\* range or none, and the lower one below the upper one.  JobRecord, JobStore and
\* Executor assume that of their Reports.
ReportIsLegal ==
  /\ est.last.percent \in 15..95
  /\ \A e \in {est.last, CurrentEstimate} :
       /\ e.percent \in 0..99 /\ e.processed \in Nat /\ e.total \in Nat
       /\ e.processed <= e.total
       /\ e.low = NoEta <=> e.high = NoEta
       /\ e.low # NoEta => e.low \in Nat /\ e.high \in Nat /\ e.low <= e.high

\* The stored confidence tells whether there is a stored range: update_progress
\* keeps an old range when a report has none, but takes the confidence as it
\* comes, so a range must never get lost again (progress.py:67, jobs.py:195).
ConfidenceMatchesEta ==
  record.status \in Live => (confidence = "calculating" <=> record.high = NoEta)

\* While the model runs, what has gone through it is stored as processed, up to all
\* that voice detection had found, and with its percentage: no report is refused on
\* its way, although batches are padded, rounded or not counted (engine.py:99-106).
SpeechIsReported ==
  stage = "asr" /\ speech > 0 /\ record.status \in Live =>
    LET count == IF batched < speech THEN batched ELSE speech
    IN  record.processed = count /\ record.percent = Percent(count, speech)

\* The segments of a result that is written come one after the other, whatever
\* the model returned: the exports, which read it back, accept it, and the lines
\* of the subtitles do not overlap.
ResultIsInOrder ==
  stage = "written" \/ exit = 0 =>
    \A i, j \in DOMAIN segments : i < j =>
      segments[i].start < segments[i].end /\ segments[i].end <= segments[j].start

\* docs/acceptance/progress-and-eta.md:13: on a stall the range is widened and
\* marked low.  Nobody asks for the current estimate unless a count was refused.
StallIsShown ==
  /\ stage \in {"vad", "asr"} /\ record.status \in Live
  /\ est.last.high # NoEta /\ now - est.updated >= StallSeconds
  => confidence = "low"

\* docs/acceptance/phase-b.md:19: errors of the input and of the model have
\* different exit codes, and implementation plan, line 703, gives the input's 2.
ModelErrorIsNotTheInputs == exit = 2 => record.status = "cancelled"
=============================================================================
