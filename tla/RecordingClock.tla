--------------------------- MODULE RecordingClock ---------------------------
(***************************************************************************)
(* The time of one recording: what the page shows as its active duration,  *)
(* with pauses, with errors of the devices that end it before its user     *)
(* does, and with the stop, and what the metadata says of its duration     *)
(* once the last passages are transcribed.  Time is counted in ticks; what *)
(* is captured in a tick is one tick of audio.                             *)
(*                                                                         *)
(* Sources: audio/recording_state.rs, audio/recording_manager.rs,          *)
(* audio/recording_commands.rs and audio/recording_saver.rs of             *)
(* src/frontend/src-tauri/src.                                             *)
(***************************************************************************)
EXTENDS Integers

CONSTANTS
    Unknown,           \* no instant, no duration
    RecoverableLimit,  \* recoverable errors that end a recording
    MaxTime,           \* bound: ticks
    MaxFaults          \* bound: saves that fail

VARIABLES
    now,          \* Instant::now
    phase,        \* of stop_recording
    isRecording, isPaused,  \* flags of RecordingState
    recordingStart, pauseStart, totalPause,
    recoverable,  \* recoverable_error_count
    captured,     \* history: ticks of audio that the streams gave
    transcribed,  \* the end of the last passage
    duration,     \* duration_seconds of the metadata
    faults

clock == <<recordingStart, pauseStart, totalPause>>
flags == <<isRecording, isPaused>>
vars == <<now, phase, flags, clock, recoverable, captured, transcribed,
          duration, faults>>

-----------------------------------------------------------------------------
(* Types *)

Times == 0..MaxTime

TypeOK ==
    /\ now \in Times
    /\ phase \in {"idle", "running", "flushing", "draining", "over"}
    /\ isRecording \in BOOLEAN
    /\ isPaused \in BOOLEAN
    /\ recordingStart \in Times \cup {Unknown}
    /\ pauseStart \in Times \cup {Unknown}
    /\ totalPause \in Times
    /\ recoverable \in 0..RecoverableLimit
    /\ captured \in Times
    /\ transcribed \in Times \cup {Unknown}
    /\ duration \in Times \cup {Unknown}
    /\ faults \in 0..MaxFaults

Init ==
    /\ now = 0
    /\ phase = "idle"
    /\ isRecording = FALSE
    /\ isPaused = FALSE
    /\ recordingStart = Unknown
    /\ pauseStart = Unknown
    /\ totalPause = 0
    /\ recoverable = 0
    /\ captured = 0
    /\ transcribed = Unknown
    /\ duration = Unknown
    /\ faults = 0

\* get_active_recording_duration.
ActiveDuration ==
    IF recordingStart = Unknown
      THEN Unknown
      ELSE now - recordingStart - totalPause
             - (IF isPaused /\ pauseStart /= Unknown THEN now - pauseStart
                                                     ELSE 0)

-----------------------------------------------------------------------------
(* Commands of a recording that runs; they hold RECORDING_MANAGER. *)

Start ==
    /\ phase = "idle"
    /\ phase' = "running"
    /\ isRecording' = TRUE
    /\ recordingStart' = now
    /\ recoverable' = 0
    /\ UNCHANGED <<now, isPaused, pauseStart, totalPause, captured,
                   transcribed, duration, faults>>

Pause ==
    /\ phase = "running"
    /\ isRecording /\ ~isPaused
    /\ isPaused' = TRUE
    /\ pauseStart' = now
    /\ UNCHANGED <<now, phase, isRecording, recordingStart, totalPause,
                   recoverable, captured, transcribed, duration, faults>>

\* Mutation of AddPause: only the last pause counts.
OnlyThisPause == now - pauseStart

AddPause == totalPause + (now - pauseStart)

Resume ==
    /\ phase = "running"
    /\ isRecording /\ isPaused
    /\ isPaused' = FALSE
    /\ totalPause' = IF pauseStart = Unknown THEN totalPause ELSE AddPause
    /\ pauseStart' = Unknown
    /\ UNCHANGED <<now, phase, isRecording, recordingStart, recoverable,
                   captured, transcribed, duration, faults>>

-----------------------------------------------------------------------------
(* RecordingState *)

\* RecordingState::stop_recording: a pause that lasts is dropped.
StopState ==
    /\ isRecording' = FALSE
    /\ isPaused' = FALSE
    /\ pauseStart' = Unknown

\* report_error of a callback: one that is not recoverable, or one too many,
\* ends the recording, which its user has still to stop.
ReportError ==
    /\ phase = "running"
    /\ isRecording
    /\ \/ /\ recoverable' = recoverable + 1
          /\ IF recoverable' >= RecoverableLimit
               THEN StopState ELSE UNCHANGED <<flags, pauseStart>>
       \/ StopState /\ UNCHANGED recoverable
    /\ UNCHANGED <<now, phase, recordingStart, totalPause, captured,
                   transcribed, duration, faults>>

\* Mutation of CleanUp: the clock is left as it was.
LeaveClock == recoverable' = 0 /\ UNCHANGED clock

\* RecordingState::cleanup.
CleanUp ==
    /\ recordingStart' = Unknown
    /\ pauseStart' = Unknown
    /\ totalPause' = 0
    /\ recoverable' = 0

-----------------------------------------------------------------------------
(* stop_recording *)

\* The manager leaves its slot and its state stops.
Stop ==
    /\ phase = "running"
    /\ phase' = "flushing"
    /\ StopState
    /\ UNCHANGED <<now, recordingStart, totalPause, recoverable, captured,
                   transcribed, duration, faults>>

\* stop_streams_and_force_flush has flushed the pipeline.
Flushed ==
    /\ phase = "flushing"
    /\ phase' = "draining"
    /\ CleanUp
    /\ UNCHANGED <<now, flags, captured, transcribed, duration, faults>>

\* A passage is transcribed, at last the one that was captured last.
Transcribe ==
    /\ phase \notin {"idle", "over"}
    /\ \E end \in 1..captured :
         /\ IF transcribed = Unknown THEN TRUE ELSE end > transcribed
         /\ transcribed' = end
    /\ UNCHANGED <<now, phase, flags, clock, recoverable, captured, duration,
                   faults>>

\* save_recording_only: the duration of the state, else the end of the last
\* passage, else none.
Save ==
    /\ phase = "draining"
    /\ phase' = "over"
    /\ \/ /\ duration' = IF ActiveDuration /= Unknown THEN ActiveDuration
                                                      ELSE transcribed
          /\ UNCHANGED faults
       \/ /\ faults < MaxFaults /\ faults' = faults + 1
          /\ UNCHANGED duration
    /\ UNCHANGED <<now, flags, clock, recoverable, captured, transcribed>>

-----------------------------------------------------------------------------

\* The streams give audio while the recording is neither paused nor ended.
Tick ==
    /\ now < MaxTime
    /\ now' = now + 1
    /\ captured' = captured + (IF isRecording /\ ~isPaused THEN 1 ELSE 0)
    /\ UNCHANGED <<phase, flags, clock, recoverable, transcribed, duration,
                   faults>>

Next ==
    \/ Start \/ Pause \/ Resume \/ ReportError
    \/ Stop \/ Flushed \/ Transcribe \/ Save
    \/ Tick

Spec == Init /\ [][Next]_vars

-----------------------------------------------------------------------------
(* Properties *)

\* While it records, the active duration is the time that was captured,
\* however often it was paused (get_active_recording_duration).
ClockIsTrue == isRecording => ActiveDuration = captured

\* The metadata never gives a recording more time than was captured, however
\* long the last passages take to be transcribed (save_recording_only).
DurationWasCaptured == duration /= Unknown => duration <= captured

-----------------------------------------------------------------------------
(* What makes the properties inductive *)

\* The parts of the type invariant that the others rest on.
Shape ==
    /\ now \in Nat
    /\ captured \in Nat
    /\ totalPause \in Nat
    /\ recordingStart \in Nat \cup {Unknown}
    /\ pauseStart = Unknown \/ pauseStart \in 0..now
    /\ transcribed \in Nat \cup {Unknown}
    /\ duration \in Nat \cup {Unknown}

\* A recording that has not begun has a clock at zero.
IdleIsFresh ==
    phase = "idle" =>
        /\ ~isRecording /\ ~isPaused
        /\ pauseStart = Unknown /\ totalPause = 0 /\ captured = 0

\* The flags and the instants of one that records agree.
FlagsAgree ==
    isRecording =>
        /\ phase = "running"
        /\ recordingStart /= Unknown
        /\ isPaused <=> pauseStart /= Unknown

\* What is transcribed was captured.
TranscribedWasCaptured == transcribed /= Unknown => transcribed <= captured

\* The clock is gone when the last passages are waited for.
DrainingHasNoClock == phase = "draining" => recordingStart = Unknown

IInv ==
    /\ Shape
    /\ IdleIsFresh /\ FlagsAgree
    /\ TranscribedWasCaptured /\ DrainingHasNoClock
    /\ ClockIsTrue /\ DurationWasCaptured
=============================================================================
