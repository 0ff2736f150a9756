\* Audio, its transcripts and their summaries, cut short anywhere.
SPECIFICATION AudioSpec
CONSTANTS
  j1 = j1
  j2 = j2
  v1 = v1
  v2 = v2
  Jobs = {j1, j2}
  Meetings = {m1}
  Origins = {mic, sys}
  Declared = {m1}
  Original = Original
  None = None
  MaxTake = 1
  MaxRevision = 0
  MaxStranded = 0
  LaterJobs = {j3}
  MaxLaterTake = 2
  Inputs = {Mic, Sys}
  SlowInputs = {Sys}
  Block = 2
  Capacity = 3
  MaxCall = 1
  MaxAudio = 4
  MinSpeech = 2
  Quiet = Quiet
  Mic = Mic
  Sys = Sys
  Interval = 2
  MaxChunk = 2
  Imports = {j1, j2}
  Nothing = Nothing
  MaxPackets = 9
  MaxStretches = 2
  MaxPiece = 3
  Radius = 2
  Second = 2
  Minimum = 2
  Said = {"a", "b"}
  Results <- SomeResults
  MaxRuns = 2
  Words = {"a", "b", "c"}
  MaxWords = 7
  Tasks = {j1, j2}
  Texts = {v1, v2}
  English = en
  Others = {fr}
  Edited = ed
  Stale = Stale
  MaxAsks = 2
  MaxTroubles = 1
  MaxLength = 8
  Size = 4
  FileCount = 2
  Diarizations = {"job"}
  Installs = {"install"}
  Pages = {"page"}
  Gone = Gone
  RecoverableLimit = 2
  Window <- Windows
  Overlap = 1
  MaxTime <- Times
  MaxFaults <- Faults
  MaxCrashes <- Crashes
  Unused = Unused
INVARIANTS
  CapturedSpeechIsSent
  RecordingsAreRecoverable
  ImportIsWholeOrNothing
  SpeechIsHeardOnce
  TimelinesMerge
  TextIsKept
  SummariesAreTrueAndKept
  DurationIsTrue
PROPERTIES
  TranscriptsAreTrue
  ModelsAreWhole
SYMMETRY ValueSymmetry
CHECK_DEADLOCK FALSE
