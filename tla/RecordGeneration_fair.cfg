\* Two generations, a cancel command, edits, changes of type, fair commands.
SPECIFICATION FairSpec
CONSTANTS
  c1 = c1
  c2 = c2
  c3 = c3
  x1 = x1
  x2 = x2
  None = None
  Calls <- TwoCalls
  Cancels <- OneCancel
  RecordTypes <- TwoTypes
  DefaultType = "meeting"
  MaxRevision = 1
  MaxStranded = 1
INVARIANTS
  ShownFindingsAreCurrent
  WithdrawnCallIsNeverAccepted
  ProcessingRowHasItsCall
PROPERTIES
  AttemptsAreContained
  GenerationsEnd
