\* Loading a model while another one is loaded.
SPECIFICATION FairSpec
CONSTANTS
  big = big
  small = small
  Live = Live
  Batch = Batch
  Command = Command
  Nobody = Nobody
  Default = small
  Models <- TwoModels
  Configurations <- BigOrNone
  Requested <- SmallOrNone
  Disks <- TwoWhole
PROPERTIES
  EveryLoadReturns
CHECK_DEADLOCK FALSE
