------------------------ MODULE Transcription_proofs ------------------------
(* For every amount of speech, every batching, every report of the model    *)
(* and every course of time: the estimator's reports are those the store    *)
(* expects, the stored confidence fits the stored range, the count of what  *)
(* has gone through the model is the stored one, and the segments of a      *)
(* result come one after the other.                                         *)
EXTENDS Transcription, FiniteSetTheorems, SequenceTheorems, WellFoundedInduction, TLAPS

\* A report that update_progress takes, with a confidence that fits its range.
Estimates ==
  [percent : 15..95, processed : Nat, total : Nat, low : Nat \cup {NoEta},
   high : Nat \cup {NoEta}, confidence : {"calculating", "low", "normal"}]
Legal(e) ==
  /\ e \in Estimates
  /\ e.processed <= e.total
  /\ e.low = NoEta <=> e.high = NoEta
  /\ e.low # NoEta => e.low <= e.high
  /\ e.confidence = "calculating" <=> e.high = NoEta

Typed ==
  /\ now \in Nat /\ speech \in Nat /\ batched \in Nat /\ processed \in Nat
  /\ record \in Record
  /\ est \in [started : Int, updated : Int, previous : Nat, rate : BOOLEAN, last : Estimates]

\* The estimator's times have passed, and once it knows a rate it keeps it.
Clock ==
  /\ \/ est.started = Unset /\ est.updated = Unset
     \/ est.started \in 0..now /\ est.updated \in 0..now
  /\ est.last.high # NoEta =>
       est.started # Unset /\ now - est.started >= MinObservation /\ est.rate = TRUE

\* The record has a range exactly if the estimator has one.
Stored ==
  record.status \in Live =>
    /\ record.high = NoEta <=> est.last.high = NoEta
    /\ confidence = "calculating" <=> record.high = NoEta

\* The engine counts what it has given to the model, and the record has the count.
Counted ==
  /\ stage = "vad" /\ vad =>
       /\ batched = 0 /\ processed = 0 /\ est.previous = 0
       /\ record.status \in Live => record.processed = 0 /\ record.percent <= 15
  /\ stage = "asr" /\ speech > 0 =>
       /\ vad
       /\ processed = IF batched < speech THEN batched ELSE speech
       /\ est.previous <= processed
       /\ record.status \in Live =>
            record.processed = processed /\ record.percent = Percent(processed, speech)

IInv == Typed /\ Legal(est.last) /\ Clock /\ Stored /\ Counted

-----------------------------------------------------------------------------
(* The estimator.                                                          *)

LEMMA PercentType ==
  ASSUME NEW c \in Nat, NEW t \in Nat \ {0}, c <= t
  PROVE  Percent(c, t) \in 15..95 /\ Percent(t, t) = 95
<1> DEFINE q == (80 * c) \div t
<1>1. q \in Int /\ t * q <= 80 * c /\ q >= 0
  BY SMT
<1>2. q <= 80
  <2>1. SUFFICES ASSUME q >= 81 PROVE FALSE
    BY <1>1
  <2>2. t * q >= t * 81
    BY <1>1, <2>1
  <2> QED
    BY <1>1, <2>2
<1>3. (80 * t) \div t = 80
  BY SMT
<1> QED
  BY <1>1, <1>2, <1>3 DEF Percent

\* An estimate that is widened is still legal, and has a range if the last one had.
LEMMA CurrentLegal ==
  ASSUME Typed, Legal(est.last), Clock
  PROVE  Legal(CurrentEstimate) /\ (CurrentEstimate.high = NoEta <=> est.last.high = NoEta)
<1> DEFINE old  == now - est.updated
           high == (7 * est.last.high + 3) \div 4 + old
<1>1. CASE est.updated = Unset \/ old < StallSeconds \/ est.last.high = NoEta
  BY <1>1 DEF CurrentEstimate
<1>2. CASE ~(est.updated = Unset \/ old < StallSeconds \/ est.last.high = NoEta)
  <2>1. est.last \in Estimates /\ est.last.high \in Nat /\ est.last.low \in Nat
    BY <1>2 DEF Typed, Legal, Estimates
  <2>2. old \in Nat /\ est.last.low <= est.last.high
    BY <1>2, <2>1 DEF Typed, Clock, Legal, NoEta
  <2>3. high \in Nat /\ est.last.high <= high
    BY <2>1, <2>2
  <2>4. CurrentEstimate = [est.last EXCEPT !.high = high, !.confidence = "low"]
    BY <1>2 DEF CurrentEstimate
  <2>5. /\ CurrentEstimate \in Estimates
        /\ CurrentEstimate.high = high /\ CurrentEstimate.low = est.last.low
        /\ CurrentEstimate.processed = est.last.processed
        /\ CurrentEstimate.total = est.last.total /\ CurrentEstimate.confidence = "low"
    BY <2>1, <2>3, <2>4 DEF Estimates
  <2> QED
    BY <1>2, <2>1, <2>2, <2>3, <2>5 DEF Legal, NoEta
<1> QED
  BY <1>1, <1>2

LEMMA FirstLegal ==
  ASSUME Typed, Clock, NEW c \in Int, NEW t \in Int, Sensible(c, t)
  PROVE  /\ Legal(First(c, t).last)
         /\ First(c, t).last.high = NoEta
         /\ First(c, t).last.processed = c /\ First(c, t).last.percent = Percent(c, t)
<1>1. c \in Nat /\ t \in Nat \ {0} /\ c <= t
  BY DEF Sensible
<1> QED
  BY <1>1, PercentType DEF First, Estimate, Legal, Estimates

LEMMA LaterLegal ==
  ASSUME Typed, Clock, NEW c \in Int, NEW t \in Int, Sensible(c, t), NEW left \in LeftOver
  PROVE  /\ Legal(Later(c, t, left).last)
         /\ Later(c, t, left).last.processed = c /\ Later(c, t, left).last.percent = Percent(c, t)
<1>1. c \in Nat /\ t \in Nat \ {0} /\ c <= t /\ left \in Nat
  BY TimesAssumption DEF Sensible
<1>2. Percent(c, t) \in 15..95
  BY <1>1, PercentType
<1> DEFINE rest == IF c = t THEN 0 ELSE left
<1>3. /\ (4 * rest) \div 5 \in Nat /\ (5 * rest + 3) \div 4 \in Nat
      /\ (4 * rest) \div 5 <= (5 * rest + 3) \div 4
  BY <1>1
<1> HIDE DEF rest
<1>4. Legal(Estimate(Percent(c, t), c, t, (4 * rest) \div 5, (5 * rest + 3) \div 4, "normal"))
  BY <1>1, <1>2, <1>3 DEF Estimate, Legal, Estimates, NoEta
<1>5. Legal(Estimate(Percent(c, t), c, t, NoEta, NoEta, "calculating"))
  BY <1>1, <1>2 DEF Estimate, Legal, Estimates, NoEta
<1> QED
  BY <1>4, <1>5 DEF Later, Estimate, rest

\* An estimator that knows a rate has a range for every later count.
LEMMA LaterClock ==
  ASSUME Typed, Clock, est.started # Unset, NEW c \in Int, NEW t \in Int, Sensible(c, t),
         NEW left \in LeftOver, now' = now, est' = Later(c, t, left)
  PROVE  /\ Clock'
         /\ est.last.high # NoEta => est'.last.high # NoEta
         /\ est'.previous <= c
         /\ est' \in [started : Int, updated : Int, previous : Nat, rate : BOOLEAN, last : Estimates]
<1> DEFINE moved == c > est.previous /\ now > est.updated
           rest  == IF c = t THEN 0 ELSE left
           known == now - est.started >= MinObservation /\ (est.rate \/ moved)
<1>1. /\ now \in Nat /\ now' = now
      /\ est.started \in 0..now /\ est.updated \in 0..now /\ c \in Nat /\ est.previous <= c
  BY DEF Typed, Clock, Sensible
<1>2. /\ est'.started = est.started
      /\ est'.updated = (IF moved THEN now ELSE est.updated)
      /\ est'.previous = (IF moved THEN c ELSE est.previous)
      /\ est'.rate = (est.rate \/ moved)
      /\ est'.last.high = IF known THEN (5 * rest + 3) \div 4 ELSE NoEta
  BY DEF Later, Estimate
<1>3. (5 * rest + 3) \div 4 # NoEta
  BY TimesAssumption DEF NoEta
<1>4. est'.last.high # NoEta => known
  BY <1>2
<1>5. est.last.high # NoEta => known
  BY DEF Clock
<1>6. known => est'.rate = TRUE /\ now - est.started >= MinObservation
  BY <1>2, Zenon
<1>7. est' \in [started : Int, updated : Int, previous : Nat, rate : BOOLEAN, last : Estimates]
  <2>1. est'.last \in Estimates
    BY LaterLegal DEF Legal
  <2>2. (IF moved THEN now ELSE est.updated) \in Int /\ (IF moved THEN c ELSE est.previous) \in Nat
    BY <1>1 DEF Typed
  <2>3. (est.rate \/ moved) \in BOOLEAN
    OBVIOUS
  <2>4. est' = [started |-> est'.started, updated |-> est'.updated, previous |-> est'.previous,
                rate |-> est'.rate, last |-> est'.last]
    BY DEF Later
  <2> QED
    <3>1. est'.started \in Int /\ est'.updated \in Int /\ est'.previous \in Nat
      BY <1>1, <1>2, <2>2
    <3>2. est'.rate \in BOOLEAN
      BY <1>2, <2>3
    <3> QED
      BY <2>1, <2>4, <3>1, <3>2
<1>8. est'.last.high # NoEta => est'.started # Unset /\ now' - est'.started >= MinObservation
  BY <1>1, <1>2, <1>4 DEF Unset
<1>9. est'.started \in 0..now' /\ est'.updated \in 0..now'
  BY <1>1, <1>2
<1>10. Clock'
  BY <1>4, <1>6, <1>8, <1>9 DEF Clock
<1> QED
  BY <1>1, <1>2, <1>3, <1>5, <1>7, <1>10

-----------------------------------------------------------------------------
(* The record.                                                             *)

\* What update_progress makes of a record and a report.
LEMMA ReportStored ==
  ASSUME record \in Record, NEW e \in Estimates, e.low = NoEta <=> e.high = NoEta
  PROVE  LET w == WithProgress(record, e) IN
         /\ w \in Record /\ w.status = record.status
         /\ w.percent = Larger(record.percent, e.percent)
         /\ w.processed = Larger(record.processed, e.processed)
         /\ e.high = NoEta => w.high = record.high
         /\ e.high # NoEta => w.high # NoEta
<1> DEFINE low == IF e.low = NoEta THEN record.low ELSE e.low
           w   == WithProgress(record, e)
<1>1. /\ e.percent \in 15..95 /\ e.processed \in Nat /\ e.total \in Nat
      /\ e.low \in Nat \cup {NoEta} /\ e.high \in Nat \cup {NoEta}
  BY DEF Estimates
<1>2. /\ Larger(record.percent, e.percent) \in 0..100
      /\ Larger(record.processed, e.processed) \in Nat
      /\ Larger(record.total, e.total) \in Nat
  BY <1>1 DEF Record, Larger
<1>3. low \in Nat \cup {NoEta}
  BY <1>1 DEF Record
<1>4. e.high # NoEta => Larger(Larger(low, 0), e.high) \in Nat
  BY <1>1, <1>3 DEF Larger, NoEta
<1>5. (IF e.high = NoEta THEN record.high ELSE Larger(Larger(low, 0), e.high)) \in Nat \cup {NoEta}
  BY <1>4 DEF Record
<1>6. w = [record EXCEPT !.percent = Larger(record.percent, e.percent),
                         !.processed = Larger(record.processed, e.processed),
                         !.total = Larger(record.total, e.total), !.low = low,
                         !.high = IF e.high = NoEta THEN record.high ELSE Larger(Larger(low, 0), e.high),
                         !.revision = record.revision + 1]
  BY DEF WithProgress
<1> HIDE DEF low, w
<1>7. record.revision + 1 \in Nat
  BY DEF Record
<1>8. /\ w \in Record /\ w.status = record.status
      /\ w.percent = Larger(record.percent, e.percent)
      /\ w.processed = Larger(record.processed, e.processed)
      /\ w.high = IF e.high = NoEta THEN record.high ELSE Larger(Larger(low, 0), e.high)
  BY <1>2, <1>3, <1>5, <1>6, <1>7 DEF Record
<1>9. e.high # NoEta => w.high # NoEta
  BY <1>4, <1>8 DEF NoEta
<1> QED
  BY <1>8, <1>9 DEF w

\* What a count does to the estimator and, as long as the task is live, to the record.
LEMMA ObserveKeeps ==
  ASSUME IInv, NEW c \in Int, NEW t \in Int, Observe(c, t), now' = now
  PROVE  /\ est' \in [started : Int, updated : Int, previous : Nat, rate : BOOLEAN, last : Estimates]
         /\ record' \in Record
         /\ Legal(est'.last) /\ Clock' /\ Stored'
         /\ Sensible(c, t) =>
              /\ est'.previous <= c
              /\ record'.status \in Live =>
                   /\ record.status \in Live
                   /\ record'.percent = Larger(record.percent, Percent(c, t))
                   /\ record'.processed = Larger(record.processed, c)
<1> DEFINE e == IF Sensible(c, t) THEN est'.last ELSE CurrentEstimate
<1>0. Typed /\ Legal(est.last) /\ Clock /\ Stored
  BY DEF IInv
<1>1. Store(e)
  BY DEF Observe
<1>2. /\ est' \in [started : Int, updated : Int, previous : Nat, rate : BOOLEAN, last : Estimates]
      /\ Legal(est'.last) /\ Clock'
      /\ est.last.high # NoEta => est'.last.high # NoEta
      /\ Sensible(c, t) => /\ est'.previous <= c
                           /\ est'.last.processed = c /\ est'.last.percent = Percent(c, t)
  <2>1. CASE ~Sensible(c, t)
    <3>1. est' = est
      BY <2>1 DEF Observe
    <3> QED
      BY <1>0, <2>1, <3>1 DEF Typed, Clock
  <2>2. CASE Sensible(c, t) /\ est.started = Unset
    <3>1. est' = First(c, t)
      BY <2>2 DEF Observe
    <3>2. /\ Legal(est'.last) /\ est'.last.high = NoEta
          /\ est'.last.processed = c /\ est'.last.percent = Percent(c, t)
      BY <1>0, <2>2, <3>1, FirstLegal
    <3>3. est.last.high = NoEta
      BY <1>0, <2>2 DEF Clock
    <3>4. now \in Nat /\ c \in Nat
      BY <1>0, <2>2 DEF Typed, Sensible
    <3>5. /\ est' \in [started : Int, updated : Int, previous : Nat, rate : BOOLEAN, last : Estimates]
          /\ est'.started = now /\ est'.updated = now /\ est'.previous = c
      BY <3>1, <3>2, <3>4 DEF First, Legal
    <3>6. Clock'
      BY <3>2, <3>4, <3>5 DEF Clock
    <3> QED
      BY <2>2, <3>2, <3>3, <3>4, <3>5, <3>6
  <2>3. CASE Sensible(c, t) /\ est.started # Unset
    <3>1. PICK left \in LeftOver : est' = Later(c, t, left)
      BY <2>3 DEF Observe
    <3>2. Legal(est'.last) /\ est'.last.processed = c /\ est'.last.percent = Percent(c, t)
      BY <1>0, <2>3, <3>1, LaterLegal
    <3>3. /\ Clock' /\ est'.previous <= c
          /\ est.last.high # NoEta => est'.last.high # NoEta
          /\ est' \in [started : Int, updated : Int, previous : Nat, rate : BOOLEAN, last : Estimates]
      BY <1>0, <2>3, <3>1, LaterClock
    <3> QED
      BY <3>2, <3>3
  <2> QED
    BY <2>1, <2>2, <2>3
<1>3. Legal(e) /\ (e.high = NoEta <=> est'.last.high = NoEta)
  <2>1. CASE Sensible(c, t)
    BY <1>2, <2>1
  <2>2. CASE ~Sensible(c, t)
    <3>1. est' = est
      BY <2>2 DEF Observe
    <3> QED
      BY <1>0, <2>2, <3>1, CurrentLegal
  <2> QED
    BY <2>1, <2>2
<1>4. Sensible(c, t) => e.processed = c /\ e.percent = Percent(c, t)
  BY <1>2
<1> HIDE DEF e
<1>5. CASE record.status \notin Live
  <2>1. record' = record /\ confidence' = confidence
    BY <1>1, <1>5 DEF Store
  <2> QED
    BY <1>0, <1>2, <1>5, <2>1 DEF Typed, Stored
<1>6. CASE record.status \in Live
  <2>1. record' = WithProgress(record, e) /\ confidence' = e.confidence
    BY <1>1, <1>6 DEF Store
  <2>2. record \in Record /\ e \in Estimates /\ (e.low = NoEta <=> e.high = NoEta)
    BY <1>0, <1>3 DEF Typed, Legal
  <2>3. /\ record' \in Record /\ record'.status = record.status
        /\ record'.percent = Larger(record.percent, e.percent)
        /\ record'.processed = Larger(record.processed, e.processed)
        /\ e.high = NoEta => record'.high = record.high
        /\ e.high # NoEta => record'.high # NoEta
    BY <2>1, <2>2, ReportStored
  <2>4. record'.high = NoEta <=> est'.last.high = NoEta
    <3>1. CASE e.high # NoEta
      BY <1>3, <2>3, <3>1
    <3>2. CASE e.high = NoEta
      BY <1>0, <1>2, <1>3, <1>6, <2>3, <3>2 DEF Stored
    <3> QED
      BY <3>1, <3>2
  <2>5. confidence' = "calculating" <=> e.high = NoEta
    BY <1>3, <2>1 DEF Legal
  <2>6. Stored'
    BY <1>3, <2>4, <2>5 DEF Stored
  <2> QED
    BY <1>2, <1>4, <1>6, <2>3, <2>6
<1> QED
  BY <1>5, <1>6

-----------------------------------------------------------------------------
(* The invariant.                                                          *)

LEMMA InitIInv == Init => IInv
<1> SUFFICES ASSUME Init PROVE IInv
  OBVIOUS
<1>1. record \in Record /\ record.high = NoEta /\ record.processed = 0 /\ record.percent = 10
  <2>1. record = [status |-> "running", percent |-> 10, processed |-> 0, total |-> 0,
                  low |-> NoEta, high |-> NoEta, artifacts |-> FALSE, revision |-> 0]
    BY DEF Init, Created, NoJob
  <2> QED
    BY <2>1 DEF Record, Status, Live
<1>2. est.last \in Estimates /\ Legal(est.last)
  BY DEF Init, Estimate, Estimates, Legal, NoEta
<1>3. Typed
  BY <1>1, <1>2 DEF Init, Typed, Unset
<1>4. Clock
  BY <1>3 DEF Init, Clock, Estimate, Unset
<1>5. Stored
  BY <1>1 DEF Init, Stored, Estimate
<1>6. Counted
  BY <1>1 DEF Init, Counted
<1> QED
  BY <1>2, <1>3, <1>4, <1>5, <1>6 DEF IInv

\* A task that ends, in whatever way, changes nothing of the engine.
LEMMA EndedKeeps ==
  ASSUME IInv, NEW s \in Terminal, stage' \in {stage, "ended"},
         record' = IF record.status \in Live THEN WithStatus(record, s) ELSE record,
         UNCHANGED <<now, engineVars, est>>
  PROVE  IInv'
<1>1. record' \in Record /\ record'.status \notin Live
  BY record.revision + 1 \in Nat, 0 \in Nat, 100 \in 0..100
     DEF IInv, Typed, Status, Live, Terminal, WithStatus, Record
<1>2. UNCHANGED <<now, vad, speech, batched, processed, est>>
  BY DEF engineVars
<1>3. Typed' /\ Clock' /\ Legal(est.last)'
  BY <1>1, <1>2 DEF IInv, Typed, Legal, Clock
<1>4. Stored'
  BY <1>1 DEF Stored
<1>5. Counted'
  <2>1. Counted
    BY DEF IInv
  <2>2. CASE stage' = "ended"
    BY <2>2 DEF Counted
  <2>3. CASE stage' = stage
    BY <1>1, <1>2, <2>1, <2>3 DEF Counted
  <2> QED
    BY <2>2, <2>3
<1> QED
  BY <1>3, <1>4, <1>5 DEF IInv

\* A higher count gives no lower percentage.
LEMMA PercentGrows ==
  ASSUME NEW c \in Nat, NEW d \in Nat, NEW t \in Nat \ {0}, c <= d
  PROVE  Larger(Percent(c, t), Percent(d, t)) = Percent(d, t)
<1> DEFINE p == (80 * c) \div t
           q == (80 * d) \div t
<1>1. p \in Int /\ t * p <= 80 * c /\ q \in Int /\ 80 * d < t * q + t
  BY SMT
<1>2. p <= q
  <2>1. SUFFICES ASSUME p >= q + 1 PROVE FALSE
    BY <1>1
  <2>2. t * p >= t * (q + 1) /\ t * (q + 1) = t * q + t
    <3> HIDE DEF p, q
    <3> QED
      BY <1>1, <2>1
  <2> QED
    BY <1>1, <2>2
<1> HIDE DEF p, q
<1>3. Percent(c, t) = 15 + p /\ Percent(d, t) = 15 + q
  BY DEF Percent, p, q
<1> QED
  BY <1>1, <1>2, <1>3 DEF Larger

LEMMA FirstPercent ==
  ASSUME NEW t \in Nat \ {0}
  PROVE  Percent(0, t) = 15
<1>1. (80 * 0) \div t = 0
  BY SMT
<1> QED
  BY <1>1 DEF Percent

LEMMA DetectKeeps == IInv /\ Detect => IInv'
<1> SUFFICES ASSUME IInv, Detect PROVE IInv'
  OBVIOUS
<1>1. /\ stage = "vad" /\ vad /\ stage' = "asr" /\ vad' = vad /\ now' = now
      /\ batched' = batched /\ processed' = processed /\ speech' \in Nat
  BY CountsAssumption DEF Detect
<1>2. /\ now \in Nat /\ batched = 0 /\ processed = 0 /\ est.previous = 0
      /\ record.status \in Live => record.processed = 0 /\ record.percent <= 15
  BY <1>1 DEF IInv, Typed, Counted
<1>3. CASE speech' = 0
  <2>1. UNCHANGED <<est, record, confidence>>
    BY <1>3 DEF Detect
  <2>2. Typed' /\ Clock' /\ Legal(est.last)' /\ Stored'
    BY <1>1, <2>1 DEF IInv, Typed, Clock, Legal, Stored
  <2>3. Counted'
    BY <1>1, <1>2, <1>3, <2>1 DEF Counted
  <2> QED
    BY <2>2, <2>3 DEF IInv
<1>4. CASE speech' > 0
  <2>1. Observe(0, speech') /\ Sensible(0, speech')
    BY <1>1, <1>2, <1>4 DEF Detect, Sensible
  <2>2. 0 \in Int /\ speech' \in Int
    BY <1>1
  <2>3. /\ est' \in [started : Int, updated : Int, previous : Nat, rate : BOOLEAN, last : Estimates]
        /\ record' \in Record
        /\ Legal(est'.last) /\ Clock' /\ Stored'
        /\ est'.previous <= 0
        /\ record'.status \in Live =>
             /\ record.status \in Live
             /\ record'.percent = Larger(record.percent, Percent(0, speech'))
             /\ record'.processed = Larger(record.processed, 0)
    BY <1>1, <2>1, <2>2, ObserveKeeps
  <2>4. Typed'
    BY <1>1, <1>2, <2>3 DEF Typed
  <2>5. ASSUME record'.status \in Live
        PROVE  record'.processed = 0 /\ record'.percent = Percent(0, speech')
    <3>1. record.processed = 0 /\ record.percent <= 15 /\ record.percent \in Nat
      BY <1>2, <2>3, <2>5 DEF IInv, Typed, Record
    <3>2. Percent(0, speech') = 15
      BY <1>1, <1>4, FirstPercent
    <3> QED
      BY <2>3, <2>5, <3>1, <3>2 DEF Larger
  <2>6. Counted'
    BY <1>1, <1>2, <1>4, <2>3, <2>5 DEF Counted
  <2> QED
    BY <2>3, <2>4, <2>6 DEF IInv
<1> QED
  BY <1>1, <1>3, <1>4

LEMMA BatchKeeps == ASSUME NEW b \in Batches, IInv, Batch(b) PROVE IInv'
<1>1. /\ stage = "asr" /\ vad /\ speech > 0 /\ batched' = batched + b
      /\ processed' = IF processed + b < speech THEN processed + b ELSE speech
      /\ stage' = "asr" /\ vad' = vad /\ now' = now /\ speech' = speech
  BY DEF Batch
<1>2. /\ b \in Nat /\ now \in Nat /\ batched \in Nat /\ processed \in Nat /\ speech \in Nat
      /\ processed = IF batched < speech THEN batched ELSE speech
  BY <1>1, CountsAssumption DEF IInv, Typed, Counted
<1>3. /\ batched' \in Nat /\ processed' \in Nat /\ processed <= processed' /\ processed' <= speech
      /\ processed' = IF batched' < speech THEN batched' ELSE speech
  BY <1>1, <1>2
<1>4. Observe(processed', speech) /\ Sensible(processed', speech)
  <2>1. est.previous <= processed /\ est.previous \in Nat
    BY <1>1 DEF IInv, Typed, Counted
  <2> QED
    BY <1>2, <1>3, <2>1 DEF Batch, Sensible
<1>5. /\ est' \in [started : Int, updated : Int, previous : Nat, rate : BOOLEAN, last : Estimates]
      /\ record' \in Record
      /\ Legal(est'.last) /\ Clock' /\ Stored'
      /\ est'.previous <= processed'
      /\ record'.status \in Live =>
           /\ record.status \in Live
           /\ record'.percent = Larger(record.percent, Percent(processed', speech))
           /\ record'.processed = Larger(record.processed, processed')
  <2>1. processed' \in Int /\ speech \in Int
    BY <1>2, <1>3
  <2> QED
    BY <1>1, <1>4, <2>1, ObserveKeeps
<1>6. Typed'
  BY <1>1, <1>2, <1>3, <1>5 DEF Typed
<1>7. ASSUME record'.status \in Live
      PROVE  record'.processed = processed' /\ record'.percent = Percent(processed', speech)
  <2>1. record.processed = processed /\ record.percent = Percent(processed, speech)
    BY <1>1, <1>5, <1>7 DEF IInv, Counted
  <2>2. record'.processed = processed'
    <3>1. record'.processed = Larger(processed, processed')
      BY <1>5, <1>7, <2>1
    <3>2. processed \in Nat /\ processed' \in Nat /\ processed <= processed'
      BY <1>2, <1>3
    <3> QED
      BY <3>1, <3>2 DEF Larger
  <2> QED
    BY <1>1, <1>2, <1>3, <1>5, <1>7, <2>1, <2>2, PercentGrows
<1>8. Counted'
  BY <1>1, <1>3, <1>5, <1>7 DEF Counted
<1> QED
  BY <1>5, <1>6, <1>8 DEF IInv

LEMMA NativeKeeps == ASSUME NEW c \in Reported, NEW t \in Reported, IInv, Native(c, t) PROVE IInv'
<1>1. c \in Int /\ t \in Int
  BY CountsAssumption
<1>2. Observe(c, t) /\ stage = "vad" /\ ~vad
      /\ UNCHANGED <<now, stage, vad, speech, batched, processed>>
  BY DEF Native, engineVars
<1>3. /\ est' \in [started : Int, updated : Int, previous : Nat, rate : BOOLEAN, last : Estimates]
      /\ record' \in Record /\ Legal(est'.last) /\ Clock' /\ Stored'
  BY <1>1, <1>2, ObserveKeeps
<1>4. Typed'
  BY <1>2, <1>3 DEF IInv, Typed
<1>5. Counted'
  BY <1>2 DEF Counted
<1> QED
  BY <1>3, <1>4, <1>5 DEF IInv

LEMMA TickKeeps == IInv /\ Tick => IInv'
<1> SUFFICES ASSUME IInv, Tick PROVE IInv'
  OBVIOUS
<1>1. /\ now' = now + 1
      /\ UNCHANGED <<stage, vad, speech, batched, processed, est, record, confidence>>
  BY DEF Tick, engineVars
<1>2. Typed' /\ Legal(est.last)' /\ Stored' /\ Counted'
  BY <1>1 DEF IInv, Typed, Legal, Stored, Counted
<1>3. Clock'
  <2>1. now \in Nat /\ est.started \in Int /\ est.updated \in Int /\ Clock
    BY DEF IInv, Typed
  <2>2. /\ est.started \in 0..now => est.started \in 0..now'
        /\ est.updated \in 0..now => est.updated \in 0..now'
        /\ now - est.started >= MinObservation => now' - est.started >= MinObservation
    BY <1>1, <2>1, TimesAssumption
  <2> QED
    BY <1>1, <2>1, <2>2 DEF Clock
<1> QED
  BY <1>2, <1>3 DEF IInv

\* From here on nothing is counted any more.
LEMMA FinalizeKeeps == ASSUME NEW raw \in Transcripts, IInv, Finalize(raw) PROVE IInv'
<1> DEFINE e == Estimate(95, 0, 0, NoEta, NoEta, "normal")
<1>1. /\ stage' = "finalizing" /\ record' = WithProgress(record, e) /\ record.status \in Live
      /\ UNCHANGED <<now, vad, speech, batched, processed, est, confidence>>
  BY DEF Finalize, engineVars
<1>2. e \in Estimates /\ e.low = NoEta /\ e.high = NoEta
  BY DEF Estimate, Estimates
<1>3. record' \in Record /\ record'.status = record.status /\ record'.high = record.high
  BY <1>1, <1>2, ReportStored DEF IInv, Typed
<1>4. Typed' /\ Legal(est.last)' /\ Clock'
  BY <1>1, <1>3 DEF IInv, Typed, Legal, Clock
<1>5. Stored' /\ Counted'
  BY <1>1, <1>3 DEF IInv, Stored, Counted
<1> QED
  BY <1>4, <1>5 DEF IInv

LEMMA NextIInv == IInv /\ [Next]_vars => IInv'
<1> SUFFICES ASSUME IInv, [Next]_vars PROVE IInv'
  OBVIOUS
<1>1. CASE Detect
  BY <1>1, DetectKeeps
<1>2. ASSUME NEW b \in Batches, Batch(b) PROVE IInv'
  BY <1>2, BatchKeeps
<1>3. ASSUME NEW c \in Reported, NEW t \in Reported, Native(c, t) PROVE IInv'
  BY <1>3, NativeKeeps
<1>4. CASE Tick
  BY <1>4, TickKeeps
<1>5. CASE Overtaken
  BY <1>5, EndedKeeps DEF Overtaken, Terminal
<1>6. ASSUME NEW code, Fail(code) PROVE IInv'
  BY <1>6, EndedKeeps DEF Fail, Terminal
<1>7. CASE ModelFails \/ TooLate \/ Overlapping \/ SucceedLate
  BY <1>6, <1>7 DEF ModelFails, TooLate, Overlapping, SucceedLate
<1>8. ASSUME NEW raw \in Transcripts, Refuse(raw) PROVE IInv'
  BY <1>6, <1>8 DEF Refuse
<1>9. ASSUME NEW raw \in Transcripts, Finalize(raw) PROVE IInv'
  BY <1>9, FinalizeKeeps
<1>10. CASE Write
  <2>1. stage' = "written" /\ UNCHANGED <<now, vad, speech, batched, processed, est, record, confidence>>
    BY <1>10 DEF Write, engineVars
  <2>2. Typed' /\ Legal(est.last)' /\ Clock' /\ Stored' /\ Counted'
    BY <2>1 DEF IInv, Typed, Legal, Clock, Stored, Counted
  <2> QED
    BY <2>2 DEF IInv
<1>11. CASE Succeed
  BY <1>11, EndedKeeps DEF Succeed, Terminal
<1>12. CASE UNCHANGED vars
  <2>1. UNCHANGED <<now, stage, vad, speech, batched, processed, est, record, confidence>>
    BY <1>12 DEF vars, engineVars
  <2>2. Typed' /\ Legal(est.last)' /\ Clock' /\ Stored' /\ Counted'
    BY <2>1 DEF IInv, Typed, Legal, Clock, Stored, Counted
  <2> QED
    BY <2>2 DEF IInv
<1> QED
  BY <1>1, <1>2, <1>3, <1>4, <1>5, <1>7, <1>8, <1>9, <1>10, <1>11, <1>12 DEF Next

LEMMA Invariance == Spec => []IInv
BY InitIInv, NextIInv, PTL DEF Spec

-----------------------------------------------------------------------------
\* Every report of the estimator, a fresh one or one that is widened after a stall,
\* is one that update_progress takes.
THEOREM Reports == Spec => []ReportIsLegal
<1>1. IInv => ReportIsLegal
  <2> SUFFICES ASSUME IInv PROVE ReportIsLegal
    OBVIOUS
  <2>1. Legal(est.last) /\ Legal(CurrentEstimate)
    BY CurrentLegal DEF IInv
  <2>2. ASSUME NEW e, Legal(e)
        PROVE  /\ e.percent \in 15..95 /\ e.processed \in Nat /\ e.total \in Nat
               /\ e.processed <= e.total
               /\ e.low = NoEta <=> e.high = NoEta
               /\ e.low # NoEta => e.low \in Nat /\ e.high \in Nat /\ e.low <= e.high
    BY <2>2 DEF Legal, Estimates
  <2> QED
    BY <2>1, <2>2 DEF ReportIsLegal
<1> QED
  BY <1>1, Invariance, PTL

\* As long as a task is live, its stored confidence tells whether it has a range.
THEOREM Confidence == Spec => []ConfidenceMatchesEta
<1>1. IInv => ConfidenceMatchesEta
  BY DEF IInv, Stored, ConfidenceMatchesEta
<1> QED
  BY <1>1, Invariance, PTL

\* While the model runs, the record has what has gone through it, up to the speech that
\* voice detection had found, with its percentage, whatever the batches are.
THEOREM SpeechReported == Spec => []SpeechIsReported
<1>1. IInv => SpeechIsReported
  BY DEF IInv, Typed, Counted, SpeechIsReported
<1> QED
  BY <1>1, Invariance, PTL

-----------------------------------------------------------------------------
(* The result.                                                             *)

Sentence == [text : STRING, start : Int, end : Int, speaker : Int]
Segment  == [start : Int, end : Int, speaker : Int]

\* Segments are well-formed from the beginning, and in order when they are written.
Checked ==
  /\ segments \in Seq(Segment) /\ \A i \in DOMAIN segments : Wellformed(segments[i])
  /\ stage = "written" => Ordered(segments)
  /\ exit = 0 => stage = "ended" /\ Ordered(segments)

\* What is kept of a transcript is a list of segments.
LEMMA KeptSegments ==
  ASSUME NEW raw \in Transcripts, NEW kept \in Kept(raw)
  PROVE  kept \in Seq(Segment)
<1> DEFINE said == {i \in DOMAIN raw : raw[i].text = "speech"}
<1>1. raw \in Seq(Sentence)
  BY TranscriptsAssumption DEF Sentence
<1>2. Cardinality(said) \in Nat
  <2>1. DOMAIN raw = 1..Len(raw) /\ Len(raw) \in Nat
    BY <1>1
  <2>2. IsFiniteSet(DOMAIN raw)
    BY <2>1, FS_Interval
  <2> QED
    BY <2>2, FS_Subset, FS_CardinalityType
<1>3. PICK at \in [1..Cardinality(said) -> said] : kept = [n \in DOMAIN at |-> Cut(raw[at[n]])]
  BY DEF Kept, Picked
<1>4. ASSUME NEW i \in said PROVE Cut(raw[i]) \in Segment
  <2>1. PICK s : s = raw[i]
    OBVIOUS
  <2>2. s \in Sentence
    BY <1>1, <2>1
  <2>3. s.start \in Int /\ s.end \in Int /\ s.speaker \in Int
    BY <2>2 DEF Sentence
  <2> QED
    BY <2>1, <2>3 DEF Cut, Segment
<1> HIDE DEF said
<1>5. kept \in [1..Cardinality(said) -> Segment]
  BY <1>3, <1>4
<1> QED
  BY <1>2, <1>5

\* What holds between one segment and the next holds between any two.
LEMMA OrderedPairs ==
  ASSUME NEW segs \in Seq(Segment), \A i \in DOMAIN segs : Wellformed(segs[i]), Ordered(segs),
         NEW i \in DOMAIN segs
  PROVE  \A j \in DOMAIN segs : i < j => segs[i].end <= segs[j].start
<1> DEFINE Late == {j \in DOMAIN segs : i < j /\ ~(segs[i].end <= segs[j].start)}
<1>1. SUFFICES ASSUME Late # {} PROVE FALSE
  OBVIOUS
<1>2. /\ DOMAIN segs = 1..Len(segs) /\ Len(segs) \in Nat
      /\ \A k \in DOMAIN segs : segs[k].start \in Int /\ segs[k].end \in Int
  <2>1. \A k \in DOMAIN segs : segs[k] \in Segment
    OBVIOUS
  <2>2. \A s \in Segment : s.start \in Int /\ s.end \in Int
    BY DEF Segment
  <2> QED
    BY <2>1, <2>2
<1>3. Late \subseteq Nat
  BY <1>2
<1>4. IsWellFoundedOn(OpToRel(<, Nat), Nat)
  BY NatLessThanWellFounded
<1>5. PICK j \in Late : \A k \in Late : <<k, j>> \notin OpToRel(<, Nat)
  <2> HIDE DEF Late
  <2> QED
    BY <1>1, <1>3, <1>4, WFMin
<1>6. j \in DOMAIN segs /\ i < j /\ ~(segs[i].end <= segs[j].start)
  BY <1>5
<1>7. j - 1 \in DOMAIN segs /\ segs[j].start >= segs[j - 1].end
  BY <1>2, <1>6 DEF Ordered
<1>8. CASE i = j - 1
  BY <1>2, <1>6, <1>7, <1>8
<1>9. CASE i # j - 1
  <2>1. i < j - 1 /\ j - 1 \in Nat /\ j \in Nat /\ j - 1 < j
    BY <1>2, <1>6, <1>9
  <2>2. <<j - 1, j>> \in OpToRel(<, Nat)
    BY <2>1 DEF OpToRel
  <2>3. j - 1 \notin Late
    BY <1>5, <2>2
  <2>4. segs[i].end <= segs[j - 1].start
    BY <1>7, <2>1, <2>3
  <2>5. segs[j - 1].start < segs[j - 1].end
    BY <1>2, <1>7 DEF Wellformed
  <2> QED
    BY <1>2, <1>6, <1>7, <2>4, <2>5
<1> QED
  BY <1>8, <1>9

LEMMA CheckedStep == Checked /\ [Next]_vars => Checked'
<1> SUFFICES ASSUME Checked, [Next]_vars PROVE Checked'
  OBVIOUS
<1>1. ASSUME UNCHANGED <<segments, exit>>, stage' \in {stage, "asr"}, stage' # stage => stage = "vad"
      PROVE  Checked'
  BY <1>1 DEF Checked
<1>2. ASSUME NEW code \in {2, 3}, Fail(code) PROVE Checked'
  BY <1>2 DEF Checked, Fail
<1>3. CASE Detect \/ Tick \/ Overtaken \/ UNCHANGED vars
  BY <1>1, <1>3 DEF Detect, Tick, Overtaken, vars
<1>4. ASSUME NEW b \in Batches, Batch(b) PROVE Checked'
  BY <1>1, <1>4 DEF Batch
<1>5. ASSUME NEW c \in Reported, NEW t \in Reported, Native(c, t) PROVE Checked'
  BY <1>1, <1>5 DEF Native
<1>6. CASE ModelFails \/ TooLate \/ Overlapping \/ SucceedLate
  BY <1>2, <1>6 DEF ModelFails, TooLate, Overlapping, SucceedLate
<1>7. ASSUME NEW raw \in Transcripts, Refuse(raw) PROVE Checked'
  BY <1>2, <1>7 DEF Refuse
<1>8. ASSUME NEW raw \in Transcripts, Finalize(raw) PROVE Checked'
  <2>1. segments' \in Seq(Segment)
    BY <1>8, KeptSegments DEF Finalize
  <2> QED
    BY <1>8, <2>1 DEF Finalize, Checked, Transcribed
<1>9. CASE Write
  BY <1>9 DEF Write, Checked
<1>10. CASE Succeed
  BY <1>10 DEF Succeed, Checked
<1> QED
  BY <1>3, <1>4, <1>5, <1>6, <1>7, <1>8, <1>9, <1>10 DEF Next

\* The segments of a written result, each of which lasts, do not overlap: of any two
\* the first has ended when the second starts.
THEOREM ResultInOrder == Spec => []ResultIsInOrder
<1>1. Init => Checked
  BY EmptySeq DEF Init, Checked, Unset
<1>2. ASSUME Checked PROVE ResultIsInOrder
  <2> SUFFICES ASSUME stage = "written" \/ exit = 0
               PROVE  \A i, j \in DOMAIN segments : i < j =>
                        segments[i].start < segments[i].end /\ segments[i].end <= segments[j].start
    BY DEF ResultIsInOrder
  <2>1. segments \in Seq(Segment) /\ Ordered(segments)
    BY <1>2 DEF Checked
  <2>2. \A i \in DOMAIN segments : Wellformed(segments[i]) /\ segments[i] \in Segment
    BY <1>2, <2>1 DEF Checked
  <2>3. \A i \in DOMAIN segments : segments[i].start < segments[i].end
    BY <2>2 DEF Wellformed, Segment
  <2> QED
    BY <2>1, <2>2, <2>3, OrderedPairs
<1> QED
  BY <1>1, <1>2, CheckedStep, PTL DEF Spec
=============================================================================
