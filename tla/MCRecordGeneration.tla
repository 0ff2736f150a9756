------------------------- MODULE MCRecordGeneration -------------------------
(* Small instances of RecordGeneration for TLC. *)
EXTENDS RecordGeneration, TLC

CONSTANTS c1, c2, c3, x1, x2

TwoCalls == {c1, c2}
ThreeCalls == {c1, c2, c3}
OneCancel == {x1}
TwoCancels == {x1, x2}
OneType == {"meeting"}
TwoTypes == {"meeting", "interview"}

CommandSymmetry == Permutations(Calls) \cup Permutations(Cancels)
=============================================================================
