SPECIFICATION Spec
CONSTANTS
  MinObservation = 2
  StallSeconds = 3
  MaxTime = 5
  MaxRevision = 4
  MaxBatched = 5
  Speech = {0, 2, 4}
  Batches = {0, 1, 3}
  Reported = {0, 1, 2, 3}
  LeftOver = {0, 3}
  Transcripts <- MCTranscripts
CHECK_DEADLOCK FALSE
INVARIANTS
  ReportIsLegal
  ConfidenceMatchesEta
  SpeechIsReported
  ResultIsInOrder
