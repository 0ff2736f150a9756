\* Downloads that fail, are cancelled, refused, deleted and asked again.
SPECIFICATION DownloadsFairSpec
CONSTANTS
  Calls = {c1, c2}
  Models = {big}
  NoModel = Nobody
  Absent = Absent
  Page = Page
  Unused = Unused
  MaxWhims = 1
  MaxFaults = 1
  MaxRestarts = 1
PROPERTIES
  ReceivedIsWhole
  ModelIsObtainable
CHECK_DEADLOCK FALSE
