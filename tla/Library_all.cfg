\* Secrets, rows, files and the first setup, cut short anywhere.
SPECIFICATION LibrarySpec
CONSTANTS
  Destinations = {d1, d2}
  Legacy = Legacy
  None = None
  MaxGeneration = 3
  External = {e1, e2}
  Managed = Managed
  Own = Own
  Fresh = Fresh
  Startup = Startup
  WithSecret = {e1, Own}
  People = {p1, p2}
  Transcripts <- Passages
  Names = {"Al", "Bo"}
  Texts = {"x"}
  Heard = "x"
  Called = "Al"
  Absent = Absent
  MaxEdits = 1
  MaxRevision = 2
  Meetings = {d1, d2}
  Lengths = {0, 3}
  PageSize = 2
  MaxEditions = 2
  Exports = {d1, d2}
  Places = {p1}
  Nowhere = Nowhere
  Other = Other
  Half = Half
  MaxChanges = 1
  Completions = {d1, d2}
  LastStep = 2
  MaxSaves = 1
  Choices = {d1, d2}
  Detections = {e1}
  Languages = {pt}
  MaxEdition = 2
  MaxLoads <- Loads
  MaxFaults <- Faults
  MaxCrashes <- Crashes
  Unused = Unused
INVARIANTS
  ImportKeepsSecretsAndData
  EditsAreSafe
  PagesAreWhole
  HandoffIsWhole
  OnboardingIsKept
  LanguagesAreKept
PROPERTIES
  CredentialsAreKept
SYMMETRY ValueSymmetry
CHECK_DEADLOCK FALSE
