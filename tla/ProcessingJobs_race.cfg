\* Two commands on two Sessions with one audio origin each.
SPECIFICATION Spec
CONSTANTS
  j1 = j1
  j2 = j2
  m1 = m1
  m2 = m2
  mic = mic
  sys = sys
  Original = Original
  None = None
  Jobs <- TwoJobs
  Meetings <- TwoMeetings
  Origins <- OneOrigin
  Declared <- OneMeeting
  MaxTake = 1
  MaxRevision = 1
  MaxStranded = 1
INVARIANTS
  RunningRowHasItsWorker
  CancellationIsExact
PROPERTIES
  RevisionFollowsTranscript
  KeepsItsPromise
SYMMETRY JobSymmetry
