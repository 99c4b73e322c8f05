\* Two responses of one audio and one text delta, one start of speech, two
\* events in flight, every fault.
SPECIFICATION FairSpec
CONSTANTS
  MaxResponses = 2
  MaxDeltas = 1
  MaxSpeeches = 1
  MaxInbox = 2
  Faults = {"provider", "redis", "tool"}
INVARIANTS
  TypeOK
  TruncationWithinSent
  CallsAnsweredInTurn
PROPERTIES
  TranscriptKept
  BargeInSilences
CHECK_DEADLOCK FALSE
