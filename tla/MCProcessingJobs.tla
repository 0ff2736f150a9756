-------------------------- MODULE MCProcessingJobs --------------------------
(* Small instances of ProcessingJobs for TLC. *)
EXTENDS ProcessingJobs, TLC

CONSTANTS j1, j2, m1, m2, mic, sys

OneMeeting == {m1}
TwoMeetings == {m1, m2}
TwoJobs == {j1, j2}
OneJob == {j1}
OneOrigin == {mic}
TwoOrigins == {mic, sys}

JobSymmetry == Permutations(Jobs)
=============================================================================
