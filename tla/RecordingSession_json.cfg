\* The transcript file when a stop reports success.
SPECIFICATION Spec
CONSTANTS
  Mic = Mic
  System = System
  Batch = Batch
  Nobody = Nobody
  Sessions <- TwoSessions
  Offers <- OneOfTheMicrophone
  MaxSpeech = 1
INVARIANTS
  TranscriptFileIsComplete
CHECK_DEADLOCK FALSE
