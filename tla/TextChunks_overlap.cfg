\* Whether consecutive chunks overlap.
SPECIFICATION Spec
CONSTANTS
  MaxLength = 8
  Size = 4
  Overlap = 1
INVARIANTS
  ChunksOverlap
CHECK_DEADLOCK FALSE
