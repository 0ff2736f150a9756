\* Two previews, edits, replaced credentials, a left page, fair commands.
SPECIFICATION FairSpec
CONSTANTS
  t1 = t1
  t2 = t2
  t3 = t3
  a = a
  b = b
  None = None
  Transfers <- TwoTransfers
  Contents <- TwoContents
  MaxVersion = 2
  MaxGeneration = 2
INVARIANTS
  UnsettledIsAlone
  AcceptedIsRemembered
PROPERTIES
  SendsWhatWasConfirmed
  PageIsAnswered
