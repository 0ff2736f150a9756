\* Two sessions one after the other, both origins, a batch beside them.
SPECIFICATION FairSpec
CONSTANTS
  Mic = Mic
  System = System
  Batch = Batch
  Nobody = Nobody
  Sessions <- TwoSessions
  Offers <- OneOfBothOrTwo
  MaxSpeech = 1
INVARIANTS
  NoRecordingVanishes
  CompletedHasEverything
  SegmentsStayWithTheirSession
PROPERTIES
  BatchSparesRecordings
  EveryStopReturns
CHECK_DEADLOCK FALSE
