--------------------------- MODULE MCTranscription ---------------------------
(* Five seconds, of which two make an observation and three a stall, up to   *)
(* four units of speech in batches of none, one or three, three sentences.   *)
EXTENDS Transcription

Sentence(kind, start, end, who) == [text |-> kind, start |-> start, end |-> end, speaker |-> who]

MCSentences ==
  {Sentence("speech", 0, 20, 0), Sentence("speech", 5, 9, 0), Sentence("speech", 15, 40, 1),
   Sentence("speech", 20, 31, 0), Sentence("tags", 0, 0, NoSpeaker), Sentence("blank", 0, 9, 0),
   Sentence("speech", 20, 31, NoSpeaker)}
MCTranscripts == BoundedSeq(MCSentences, 2) \cup
  {<<Sentence("speech", 0, 20, 0), Sentence("speech", 25, 50, 1), s>> : s \in MCSentences}
=============================================================================
