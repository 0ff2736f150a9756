\* Loads, the monitor of the devices and the jobs, each in the end.
SPECIFICATION ServicesFairSpec
CONSTANTS
  j1 = j1
  j2 = j2
  m1 = m1
  m2 = m2
  mic = mic
  sys = sys
  big = big
  small = small
  Live = Live
  Batch = Batch
  Command = Command
  Nobody = Nobody
  Mic = Mic
  Sys = Sys
  Unused = Unused
  Original = Original
  None = None
  Jobs <- TwoJobs
  Meetings <- OneMeeting
  Origins <- OneOrigin
  Declared <- OneMeeting
  MaxTake = 1
  MaxRevision = 0
  MaxStranded = 1
PROPERTIES
  JobsEnd
  LoadsReturnUnlessOneSwitches
  LastReportIsTrue
CHECK_DEADLOCK FALSE
