------------------------- MODULE MCRecordingSession -------------------------
(* Small instances of RecordingSession for TLC. *)
EXTENDS RecordingSession

TwoSessions == {1, 2}

Both == {<<Mic, 1>>, <<Mic, 2>>, <<System, 1>>}
Short == {<<Mic, 1>>}

\* One recording of both origins, or two recordings of the microphone.
OneOfBothOrTwo ==
  {<<Both, {}>>, <<Short, Short>>}

\* One recording of the microphone.
OneOfTheMicrophone == {<<Short, {}>>}
=============================================================================
