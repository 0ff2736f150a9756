----------------------------- MODULE AudioProofs -----------------------------
(***************************************************************************)
(* Proofs about Audio, for any values of its constants that its            *)
(* assumptions allow.  A component keeps its inductive invariant by each   *)
(* of its steps, one lemma for each conjunct; a behaviour of the audio is  *)
(* one of one component, so that the invariant of the component holds in   *)
(* all of it, and the property follows.  Of the algorithms that prepare    *)
(* speech and text, the cutting of the speech of an origin, the filter of  *)
(* repetitions and the chunks of a text are here.                          *)
(***************************************************************************)
EXTENDS Audio, ProcessingJobsProofs, SpeechProofs

-----------------------------------------------------------------------------
(* The transcripts of the Sessions whose audio changes: what is proved of  *)
(* ProcessingJobs is true of them, with their jobs and their audio.        *)

Proved == INSTANCE ProcessingJobsProofs WITH
    Jobs <- LaterJobs, MaxTake <- MaxLaterTake, up <- nUp, gate <- nGate,
    pc <- nPc, session <- nSession, hash <- nHash, status <- nStatus,
    code <- nCode, warning <- nWarning, todo <- nTodo, heard <- nHeard,
    failed <- nFailed, labelled <- nLabelled, problem <- nProblem,
    exists <- nExists, author <- nAuthor, content <- nContent,
    revision <- nRevision, present <- nPresent, take <- nTake,
    cancelled <- nCancelled, stranded <- nStranded

\* The steps of a command are those that the proofs are about.
LEMMA ChangingSteps ==
  ASSUME NEW j \in LaterJobs
  PROVE  Changing!Step(j) <=> Proved!Step(j)
  <1> USE DEF Changing!Goto, Proved!Goto, Changing!Forget, Proved!Forget,
    Changing!Running, Proved!Running, Changing!row, Proved!row,
    Changing!verdict, Proved!verdict, Changing!memory, Proved!memory,
    Changing!record, Proved!record, Changing!audio, Proved!audio,
    Changing!ghosts, Proved!ghosts, Changing!Silence, Proved!Silence
  <1>1. Changing!DiscoverOrigins(j) <=> Proved!DiscoverOrigins(j)
    BY DEF Changing!DiscoverOrigins, Proved!DiscoverOrigins,
      Changing!Manifest, Proved!Manifest, Changing!Missing, Proved!Missing
  <1>2. Changing!RefuseStart(j) <=> Proved!RefuseStart(j)
    BY DEF Changing!RefuseStart, Proved!RefuseStart, Changing!End, Proved!End
  <1>3. Changing!InsertRow(j) <=> Proved!InsertRow(j)
    BY DEF Changing!InsertRow, Proved!InsertRow, Changing!Insert,
      Proved!Insert
  <1>4. Changing!InsertRowUnread(j) <=> Proved!InsertRowUnread(j)
    BY DEF Changing!InsertRowUnread, Proved!InsertRowUnread, Changing!Insert,
      Proved!Insert, Changing!End, Proved!End, Changing!Cardinality,
      Proved!Cardinality
  <1>5. Changing!AcquireGate(j) <=> Proved!AcquireGate(j)
    BY DEF Changing!AcquireGate, Proved!AcquireGate
  <1>6. Changing!GateRefused(j) <=> Proved!GateRefused(j)
    BY DEF Changing!GateRefused, Proved!GateRefused
  <1>7. Changing!RecordRefusal(j) <=> Proved!RecordRefusal(j)
    BY DEF Changing!RecordRefusal, Proved!RecordRefusal, Changing!End,
      Proved!End, Changing!CloseRow, Proved!CloseRow
  <1>8. Changing!SnapshotParticipants(j) <=> Proved!SnapshotParticipants(j)
    BY DEF Changing!SnapshotParticipants, Proved!SnapshotParticipants,
      Changing!Fail, Proved!Fail
  <1>9. \A o \in Origins :
           Changing!OpenOrigin(j, o) <=> Proved!OpenOrigin(j, o)
    BY DEF Changing!OpenOrigin, Proved!OpenOrigin
  <1>10. \A o \in Origins :
           Changing!OriginFails(j, o) <=> Proved!OriginFails(j, o)
    BY DEF Changing!OriginFails, Proved!OriginFails, Changing!Fail,
      Proved!Fail, Changing!Open, Proved!Open
  <1>11. Changing!FinishOrigin(j) <=> Proved!FinishOrigin(j)
    BY DEF Changing!FinishOrigin, Proved!FinishOrigin, Changing!Open,
      Proved!Open
  <1>12. Changing!OriginCancelled(j) <=> Proved!OriginCancelled(j)
    BY DEF Changing!OriginCancelled, Proved!OriginCancelled, Changing!Fail,
      Proved!Fail
  <1>13. Changing!CombineOrigins(j) <=> Proved!CombineOrigins(j)
    BY DEF Changing!CombineOrigins, Proved!CombineOrigins, Changing!Fail,
      Proved!Fail, Changing!MustPreserve, Proved!MustPreserve
  <1>14. Changing!VerifySource(j) <=> Proved!VerifySource(j)
    BY DEF Changing!VerifySource, Proved!VerifySource, Changing!Fail,
      Proved!Fail, Changing!Manifest, Proved!Manifest
  <1>15. Changing!ClaimSave(j) <=> Proved!ClaimSave(j)
    BY DEF Changing!ClaimSave, Proved!ClaimSave, Changing!Fail, Proved!Fail
  <1>16. Changing!RecordWarning(j) <=> Proved!RecordWarning(j)
    BY DEF Changing!RecordWarning, Proved!RecordWarning, Changing!Fail,
      Proved!Fail, Changing!WarningOf, Proved!WarningOf
  <1>17. Changing!CommitTranscript(j) <=> Proved!CommitTranscript(j)
    BY DEF Changing!CommitTranscript, Proved!CommitTranscript,
      Changing!ReplaceTranscript, Proved!ReplaceTranscript
  <1>18. Changing!CommitFails(j) <=> Proved!CommitFails(j)
    BY DEF Changing!CommitFails, Proved!CommitFails, Changing!Fail,
      Proved!Fail
  <1>19. Changing!RecordFailure(j) <=> Proved!RecordFailure(j)
    BY DEF Changing!RecordFailure, Proved!RecordFailure, Changing!CloseRow,
      Proved!CloseRow
  <1>20. Changing!CloseRowRefused(j) <=> Proved!CloseRowRefused(j)
    BY DEF Changing!CloseRowRefused, Proved!CloseRowRefused,
      Changing!Cardinality, Proved!Cardinality
  <1>21. Changing!ReleaseGate(j) <=> Proved!ReleaseGate(j)
    BY DEF Changing!ReleaseGate, Proved!ReleaseGate, Changing!End, Proved!End
  <1> QED
    BY <1>1, <1>2, <1>3, <1>4, <1>5, <1>6, <1>7, <1>8, <1>9, <1>10, <1>11,
      <1>12, <1>13, <1>14, <1>15, <1>16, <1>17, <1>18, <1>19, <1>20, <1>21
      DEF Changing!Step, Proved!Step

\* The same of every step.
LEMMA ChangingSame ==
  /\ Changing!Init <=> Proved!Init
  /\ Changing!Next <=> Proved!Next
  /\ Changing!TranscriptMatchesItsRow <=> Proved!TranscriptMatchesItsRow
  <1> USE DEF Changing!Goto, Proved!Goto, Changing!Forget, Proved!Forget,
    Changing!Running, Proved!Running, Changing!row, Proved!row,
    Changing!verdict, Proved!verdict, Changing!memory, Proved!memory,
    Changing!record, Proved!record, Changing!audio, Proved!audio,
    Changing!ghosts, Proved!ghosts, Changing!Silence, Proved!Silence
  <1>1. \A j \in LaterJobs, m \in Meetings :
           Changing!StartCommand(j, m) <=> Proved!StartCommand(j, m)
    BY DEF Changing!StartCommand, Proved!StartCommand
  <1>2. \A j \in LaterJobs, m \in Meetings :
           Changing!StartFromImport(j, m) <=> Proved!StartFromImport(j, m)
    BY DEF Changing!StartFromImport, Proved!StartFromImport
  <1>3. Changing!CancelRetranscription <=> Proved!CancelRetranscription
    BY DEF Changing!CancelRetranscription, Proved!CancelRetranscription,
      Changing!Inside, Proved!Inside, Changing!Cancellable,
      Proved!Cancellable, Changing!Saving, Proved!Saving, Changing!Unwinding,
      Proved!Unwinding
  <1>4. \A m \in Meetings :
           Changing!SaveCorrection(m) <=> Proved!SaveCorrection(m)
    BY DEF Changing!SaveCorrection, Proved!SaveCorrection
  <1>5. \A m \in Meetings :
           Changing!DeleteMeeting(m) <=> Proved!DeleteMeeting(m)
    BY DEF Changing!DeleteMeeting, Proved!DeleteMeeting
  <1>6. \A m \in Meetings, o \in Origins :
           Changing!ChangeAudio(m, o) <=> Proved!ChangeAudio(m, o)
    BY DEF Changing!ChangeAudio, Proved!ChangeAudio
  <1>7. Changing!Crash <=> Proved!Crash
    BY DEF Changing!Crash, Proved!Crash
  <1>8. Changing!Restart <=> Proved!Restart
    BY DEF Changing!Restart, Proved!Restart, Changing!Interruptible,
      Proved!Interruptible
  <1>9. Changing!Init <=> Proved!Init
    BY DEF Changing!Init, Proved!Init
  <1>10. Changing!Next <=> Proved!Next
    BY ChangingSteps, <1>1, <1>2, <1>3, <1>4, <1>5, <1>6, <1>7, <1>8 DEF
      Changing!Next, Proved!Next
  <1>11. Changing!TranscriptMatchesItsRow <=> Proved!TranscriptMatchesItsRow
    BY DEF Changing!TranscriptMatchesItsRow,
      Proved!TranscriptMatchesItsRow
  <1> QED
    BY <1>9, <1>10, <1>11

\* The constants of the Sessions whose audio changes are as the proofs want
\* them.
LEMMA ChangingConstants == Proved!ConstantsAssumption
  BY ConstantsAssumption, ChangingAssumption DEF Proved!ConstantsAssumption

\* It holds of the first state.
LEMMA ChangingBegins == Changing!Init => Proved!TranscriptInv
  BY ChangingSame, ChangingConstants, Proved!TranscriptBegins

\* The step of a job or of the audio, whatever it is.
LEMMA ChangingStep ==
  ASSUME Proved!TranscriptInv, [Changing!Next]_changingVars
  PROVE  Proved!TranscriptInv'
  <1>1. [Proved!Next]_(Proved!vars)
    BY ChangingSame DEF changingVars, Proved!vars, Proved!row,
      Proved!verdict, Proved!memory, Proved!record, Proved!audio,
      Proved!ghosts
  <1> QED
    BY <1>1, ChangingConstants, Proved!TranscriptStep

\* The transcript of a Session was heard in the audio its row names, also when
\* the audio changes while it is heard, and a result that lacks an origin
\* never replaces one (run_retranscription,
\* must_preserve_existing_transcript).
THEOREM TranscriptsStayTrue == AudioSpec => TranscriptsAreTrue
  <1> DEFINE JobsInv == component = "jobs" => TranscriptInv
             LaterInv == component = "changing" => Proved!TranscriptInv
             Preserved == component = "jobs" =>
               \A m \in Meetings, j \in Jobs :
                 author'[m] = j /\ author[m] # j /\ failed[j] # {}
                   => author[m] = None
  <1>1. AudioInit => JobsInv /\ LaterInv
    BY TranscriptBegins, ChangingBegins DEF AudioInit, JobsInit,
      ChangingInit, CaptureInit, TrackInit, ImportInit, OriginInit,
      TimelinesInit, FilterInit,
      SummaryInit, ChunksInit, ModelsInit, ClockInit
  <1>2. JobsInv /\ [AudioNext]_everything => JobsInv'
    <2> SUFFICES ASSUME JobsInv, [AudioNext]_everything, component' = "jobs"
                 PROVE  TranscriptInv'
      OBVIOUS
    <2>1. [Next]_vars /\ component = "jobs"
      BY DEF AudioNext, everything, JobsNext, ChangingNext, CaptureNext,
        TrackNext, ImportNext, OriginNext, TimelinesNext, FilterNext,
        SummaryNext, ChunksNext, ModelsNext, ClockNext
    <2> QED
      BY <2>1, TranscriptStep
  <1>3. LaterInv /\ [AudioNext]_everything => LaterInv'
    <2> SUFFICES ASSUME LaterInv, [AudioNext]_everything,
                        component' = "changing"
                 PROVE  Proved!TranscriptInv'
      OBVIOUS
    <2>1. [Changing!Next]_changingVars /\ component = "changing"
      BY DEF AudioNext, everything, JobsNext, ChangingNext, CaptureNext,
        TrackNext, ImportNext, OriginNext, TimelinesNext, FilterNext,
        SummaryNext, ChunksNext, ModelsNext, ClockNext
    <2> QED
      BY <2>1, ChangingStep
  <1>4. JobsInv => (component = "jobs" => TranscriptMatchesItsRow)
    BY DEF TranscriptInv
  <1>5. LaterInv =>
          (component = "changing" => Changing!TranscriptMatchesItsRow)
    BY ChangingSame DEF Proved!TranscriptInv
  <1>6. JobsInv /\ [AudioNext]_everything => [Preserved]_everything
    <2> SUFFICES ASSUME JobsInv, [AudioNext]_everything, component = "jobs"
                 PROVE  Preserved
      OBVIOUS
    <2>1. [Next]_vars
      BY DEF AudioNext, everything, JobsNext, ChangingNext, CaptureNext,
        TrackNext, ImportNext, OriginNext, TimelinesNext, FilterNext,
        SummaryNext, ChunksNext, ModelsNext, ClockNext
    <2> QED
      BY <2>1, PartialReplacesNothing
  <1>7. AudioSpec => []JobsInv /\ []LaterInv
    BY <1>1, <1>2, <1>3, PTL DEF AudioSpec
  <1> QED
    BY <1>4, <1>5, <1>6, <1>7, PTL DEF AudioSpec, TranscriptsAreTrue

-----------------------------------------------------------------------------
(* The time of a recording                                                 *)

\* A clock begins with the invariant.
LEMMA ClockBegins == Clock!Init => Clock!IInv
  BY ClockAssumption DEF Clock!Init, Clock!IInv, Clock!Shape,
    Clock!IdleIsFresh, Clock!FlagsAgree, Clock!TranscribedWasCaptured,
    Clock!DrainingHasNoClock, Clock!ClockIsTrue, Clock!DurationWasCaptured

\* What the variables of the clock are.
LEMMA ClockShape ==
  ASSUME Clock!Shape, Clock!DrainingHasNoClock, [Clock!Next]_clockVars
  PROVE  Clock!Shape'
  <1> USE DEF clockVars, Clock!clock, Clock!flags
  <1>1. CASE UNCHANGED <<now, wCaptured, totalPause, recordingStart,
    pauseStart, transcribed, duration>>
    BY <1>1 DEF Clock!Shape
  <1>2. ASSUME Clock!Start PROVE Clock!Shape'
    BY <1>2, ClockAssumption DEF Clock!Start, Clock!Shape
  <1>3. ASSUME Clock!Pause PROVE Clock!Shape'
    BY <1>3, ClockAssumption DEF Clock!Pause, Clock!Shape
  <1>4. ASSUME Clock!Resume PROVE Clock!Shape'
    BY <1>4, ClockAssumption DEF Clock!Resume, Clock!AddPause, Clock!Shape
  <1>5. ASSUME Clock!ReportError PROVE Clock!Shape'
    BY <1>5, ClockAssumption DEF Clock!ReportError, Clock!StopState,
      Clock!Shape
  <1>6. ASSUME Clock!Stop PROVE Clock!Shape'
    BY <1>6, ClockAssumption DEF Clock!Stop, Clock!StopState, Clock!Shape
  <1>7. ASSUME Clock!Flushed PROVE Clock!Shape'
    BY <1>7, ClockAssumption DEF Clock!Flushed, Clock!CleanUp, Clock!Shape
  <1>8. ASSUME Clock!Transcribe PROVE Clock!Shape'
    BY <1>8, ClockAssumption DEF Clock!Transcribe, Clock!Shape
  <1>9. ASSUME Clock!Save PROVE Clock!Shape'
    BY <1>9, ClockAssumption DEF Clock!Save, Clock!Shape,
      Clock!DrainingHasNoClock, Clock!ActiveDuration
  <1>10. ASSUME Clock!Tick PROVE Clock!Shape'
    BY <1>10, ClockAssumption DEF Clock!Tick, Clock!Shape
  <1> QED
    BY <1>1, <1>2, <1>3, <1>4, <1>5, <1>6, <1>7, <1>8, <1>9, <1>10 DEF
      Clock!Next

\* Outside a recording nothing of the last one is left.
LEMMA ClockIdle ==
  ASSUME Clock!Shape, Clock!IdleIsFresh, Clock!FlagsAgree,
    [Clock!Next]_clockVars
  PROVE  Clock!IdleIsFresh'
  <1> USE DEF clockVars, Clock!clock, Clock!flags
  <1>1. CASE UNCHANGED <<wPhase, isRecording, isPaused, pauseStart,
    totalPause, wCaptured>>
    BY <1>1 DEF Clock!IdleIsFresh
  <1>2. ASSUME Clock!Start PROVE Clock!IdleIsFresh'
    BY <1>2, ClockAssumption DEF Clock!Start, Clock!IdleIsFresh
  <1>3. ASSUME Clock!Pause PROVE Clock!IdleIsFresh'
    BY <1>3, ClockAssumption DEF Clock!Pause, Clock!IdleIsFresh
  <1>4. ASSUME Clock!Resume PROVE Clock!IdleIsFresh'
    BY <1>4, ClockAssumption DEF Clock!Resume, Clock!AddPause,
      Clock!IdleIsFresh
  <1>5. ASSUME Clock!ReportError PROVE Clock!IdleIsFresh'
    BY <1>5, ClockAssumption DEF Clock!ReportError, Clock!StopState,
      Clock!IdleIsFresh
  <1>6. ASSUME Clock!Stop PROVE Clock!IdleIsFresh'
    BY <1>6, ClockAssumption DEF Clock!Stop, Clock!StopState,
      Clock!IdleIsFresh
  <1>7. ASSUME Clock!Flushed PROVE Clock!IdleIsFresh'
    BY <1>7, ClockAssumption DEF Clock!Flushed, Clock!CleanUp,
      Clock!IdleIsFresh
  <1>8. ASSUME Clock!Transcribe PROVE Clock!IdleIsFresh'
    BY <1>8, ClockAssumption DEF Clock!Transcribe, Clock!IdleIsFresh
  <1>9. ASSUME Clock!Save PROVE Clock!IdleIsFresh'
    BY <1>9, ClockAssumption DEF Clock!Save, Clock!IdleIsFresh
  <1>10. ASSUME Clock!Tick PROVE Clock!IdleIsFresh'
    BY <1>10, ClockAssumption DEF Clock!Tick, Clock!IdleIsFresh
  <1> QED
    BY <1>1, <1>2, <1>3, <1>4, <1>5, <1>6, <1>7, <1>8, <1>9, <1>10 DEF
      Clock!Next

\* A pause is one of a recording, and has its beginning.
LEMMA ClockFlags ==
  ASSUME Clock!Shape, Clock!IdleIsFresh, Clock!FlagsAgree,
    [Clock!Next]_clockVars
  PROVE  Clock!FlagsAgree'
  <1> USE DEF clockVars, Clock!clock, Clock!flags
  <1>1. CASE UNCHANGED <<wPhase, isRecording, isPaused, pauseStart,
    recordingStart>>
    BY <1>1 DEF Clock!FlagsAgree
  <1>2. ASSUME Clock!Start PROVE Clock!FlagsAgree'
    BY <1>2, ClockAssumption DEF Clock!Start, Clock!FlagsAgree,
      Clock!IdleIsFresh, Clock!Shape
  <1>3. ASSUME Clock!Pause PROVE Clock!FlagsAgree'
    BY <1>3, ClockAssumption DEF Clock!Pause, Clock!FlagsAgree, Clock!Shape
  <1>4. ASSUME Clock!Resume PROVE Clock!FlagsAgree'
    BY <1>4, ClockAssumption DEF Clock!Resume, Clock!AddPause,
      Clock!FlagsAgree
  <1>5. ASSUME Clock!ReportError PROVE Clock!FlagsAgree'
    BY <1>5, ClockAssumption DEF Clock!ReportError, Clock!StopState,
      Clock!FlagsAgree
  <1>6. ASSUME Clock!Stop PROVE Clock!FlagsAgree'
    BY <1>6, ClockAssumption DEF Clock!Stop, Clock!StopState,
      Clock!FlagsAgree
  <1>7. ASSUME Clock!Flushed PROVE Clock!FlagsAgree'
    BY <1>7, ClockAssumption DEF Clock!Flushed, Clock!CleanUp,
      Clock!FlagsAgree
  <1>8. ASSUME Clock!Save PROVE Clock!FlagsAgree'
    BY <1>8, ClockAssumption DEF Clock!Save, Clock!FlagsAgree
  <1> QED
    BY <1>1, <1>2, <1>3, <1>4, <1>5, <1>6, <1>7, <1>8 DEF Clock!Next,
      Clock!Transcribe, Clock!Tick

\* What is transcribed was captured.
LEMMA ClockTranscribed ==
  ASSUME Clock!Shape, Clock!TranscribedWasCaptured, [Clock!Next]_clockVars
  PROVE  Clock!TranscribedWasCaptured'
  <1> USE DEF clockVars, Clock!clock, Clock!flags
  <1>1. CASE UNCHANGED <<transcribed, wCaptured>>
    BY <1>1 DEF Clock!TranscribedWasCaptured, Clock!Shape
  <1>2. ASSUME Clock!Transcribe PROVE Clock!TranscribedWasCaptured'
    BY <1>2, ClockAssumption DEF Clock!Transcribe,
      Clock!TranscribedWasCaptured, Clock!Shape
  <1>3. ASSUME Clock!Tick PROVE Clock!TranscribedWasCaptured'
    BY <1>3, ClockAssumption DEF Clock!Tick, Clock!TranscribedWasCaptured,
      Clock!Shape
  <1> QED
    BY <1>1, <1>2, <1>3 DEF Clock!Next, Clock!Start, Clock!Pause,
      Clock!Resume, Clock!ReportError, Clock!Stop, Clock!Flushed, Clock!Save,
      Clock!StopState, Clock!CleanUp, Clock!AddPause

\* While the workers end no clock runs.
LEMMA ClockDraining ==
  ASSUME Clock!DrainingHasNoClock, [Clock!Next]_clockVars
  PROVE  Clock!DrainingHasNoClock'
  <1> USE DEF clockVars, Clock!clock, Clock!flags
  <1>1. CASE UNCHANGED <<wPhase, recordingStart>>
    BY <1>1 DEF Clock!DrainingHasNoClock
  <1>2. ASSUME Clock!Start PROVE Clock!DrainingHasNoClock'
    BY <1>2 DEF Clock!Start, Clock!DrainingHasNoClock
  <1>3. ASSUME Clock!Stop PROVE Clock!DrainingHasNoClock'
    BY <1>3 DEF Clock!Stop, Clock!StopState, Clock!DrainingHasNoClock
  <1>4. ASSUME Clock!Flushed PROVE Clock!DrainingHasNoClock'
    BY <1>4 DEF Clock!Flushed, Clock!CleanUp, Clock!DrainingHasNoClock
  <1>5. ASSUME Clock!Save PROVE Clock!DrainingHasNoClock'
    BY <1>5 DEF Clock!Save, Clock!DrainingHasNoClock
  <1> QED
    BY <1>1, <1>2, <1>3, <1>4, <1>5 DEF Clock!Next, Clock!Pause,
      Clock!Resume, Clock!ReportError, Clock!Transcribe, Clock!Tick,
      Clock!StopState, Clock!AddPause

\* While a recording runs, its clock stands at what was captured.
LEMMA ClockTrue ==
  ASSUME Clock!Shape, Clock!IdleIsFresh, Clock!FlagsAgree, Clock!ClockIsTrue,
    [Clock!Next]_clockVars
  PROVE  Clock!ClockIsTrue'
  <1> USE DEF clockVars, Clock!clock, Clock!flags
  <1>1. CASE UNCHANGED <<now, isRecording, isPaused, pauseStart, totalPause,
    recordingStart, wCaptured>>
    BY <1>1 DEF Clock!ClockIsTrue, Clock!ActiveDuration
  <1>2. ASSUME Clock!Start PROVE Clock!ClockIsTrue'
    <2>1. /\ ~isPaused'
          /\ totalPause = 0 /\ wCaptured = 0
      BY <1>2 DEF Clock!Start, Clock!IdleIsFresh
    <2>2. /\ recordingStart' = now /\ now' = now
          /\ totalPause' = totalPause /\ wCaptured' = wCaptured
      BY <1>2 DEF Clock!Start
    <2>3. Clock!ActiveDuration' = now - now - 0 - 0
      BY <2>1, <2>2, ClockAssumption DEF Clock!ActiveDuration, Clock!Shape
    <2> QED
      BY <2>1, <2>2, <2>3 DEF Clock!ClockIsTrue, Clock!Shape
  <1>3. ASSUME Clock!Pause PROVE Clock!ClockIsTrue'
    BY <1>3, ClockAssumption DEF Clock!Pause, Clock!ClockIsTrue,
      Clock!ActiveDuration, Clock!Shape, Clock!FlagsAgree, Clock!IdleIsFresh
  <1>4. ASSUME Clock!Resume PROVE Clock!ClockIsTrue'
    BY <1>4, ClockAssumption DEF Clock!Resume, Clock!AddPause,
      Clock!ClockIsTrue, Clock!ActiveDuration, Clock!Shape, Clock!FlagsAgree,
      Clock!IdleIsFresh
  <1>5. ASSUME Clock!ReportError PROVE Clock!ClockIsTrue'
    BY <1>5, ClockAssumption DEF Clock!ReportError, Clock!StopState,
      Clock!ClockIsTrue, Clock!ActiveDuration, Clock!Shape, Clock!FlagsAgree,
      Clock!IdleIsFresh
  <1>6. ASSUME Clock!Stop PROVE Clock!ClockIsTrue'
    BY <1>6, ClockAssumption DEF Clock!Stop, Clock!StopState,
      Clock!ClockIsTrue, Clock!ActiveDuration, Clock!Shape, Clock!FlagsAgree,
      Clock!IdleIsFresh
  <1>7. ASSUME Clock!Flushed PROVE Clock!ClockIsTrue'
    BY <1>7, ClockAssumption DEF Clock!Flushed, Clock!CleanUp,
      Clock!ClockIsTrue, Clock!ActiveDuration, Clock!Shape, Clock!FlagsAgree,
      Clock!IdleIsFresh
  <1>8. ASSUME Clock!Tick PROVE Clock!ClockIsTrue'
    BY <1>8, ClockAssumption DEF Clock!Tick, Clock!ClockIsTrue,
      Clock!ActiveDuration, Clock!Shape, Clock!FlagsAgree, Clock!IdleIsFresh
  <1> QED
    BY <1>1, <1>2, <1>3, <1>4, <1>5, <1>6, <1>7, <1>8 DEF Clock!Next,
      Clock!Transcribe, Clock!Save

\* What the metadata says was captured.
LEMMA ClockDuration ==
  ASSUME Clock!Shape, Clock!TranscribedWasCaptured, Clock!DrainingHasNoClock,
    Clock!DurationWasCaptured, [Clock!Next]_clockVars
  PROVE  Clock!DurationWasCaptured'
  <1> USE DEF clockVars, Clock!clock, Clock!flags
  <1>1. CASE UNCHANGED <<duration, wCaptured>>
    BY <1>1 DEF Clock!DurationWasCaptured
  <1>2. ASSUME Clock!Save PROVE Clock!DurationWasCaptured'
    BY <1>2, ClockAssumption DEF Clock!Save, Clock!DurationWasCaptured,
      Clock!DrainingHasNoClock, Clock!ActiveDuration,
      Clock!TranscribedWasCaptured
  <1>3. ASSUME Clock!Tick PROVE Clock!DurationWasCaptured'
    BY <1>3, ClockAssumption DEF Clock!Tick, Clock!DurationWasCaptured,
      Clock!Shape
  <1> QED
    BY <1>1, <1>2, <1>3 DEF Clock!Next, Clock!Start, Clock!Pause,
      Clock!Resume, Clock!ReportError, Clock!Stop, Clock!Flushed,
      Clock!Transcribe, Clock!StopState, Clock!CleanUp, Clock!AddPause

\* No step of the component leaves the invariant.
LEMMA ClockStep ==
  ASSUME Clock!IInv, [Clock!Next]_clockVars
  PROVE  Clock!IInv'
  BY ClockShape, ClockIdle, ClockFlags, ClockTranscribed, ClockDraining,
    ClockTrue, ClockDuration DEF Clock!IInv

\* However a recording is paused, however its devices fail and whenever its
\* user stops it, its active duration is the time that was captured while it
\* runs, and its metadata never says that there was more
\* (get_active_recording_duration, save_recording_only).
THEOREM DurationStaysTrue == AudioSpec => []DurationIsTrue
  <1> DEFINE Inv == component = "clock" => Clock!IInv
  <1>1. AudioInit => Inv
    BY ClockBegins DEF AudioInit, JobsInit, ChangingInit, CaptureInit,
      TrackInit, ImportInit, OriginInit, TimelinesInit, FilterInit,
      SummaryInit, ChunksInit, ModelsInit, ClockInit
  <1>2. Inv /\ [AudioNext]_everything => Inv'
    <2> SUFFICES ASSUME Inv, [AudioNext]_everything, component' = "clock"
                 PROVE  Clock!IInv'
      OBVIOUS
    <2>1. [Clock!Next]_clockVars /\ component = "clock"
      BY DEF AudioNext, everything, JobsNext, ChangingNext, CaptureNext,
        TrackNext, ImportNext, OriginNext, TimelinesNext, FilterNext,
        SummaryNext, ChunksNext, ModelsNext, ClockNext
    <2> QED
      BY <2>1, ClockStep
  <1>3. Inv => DurationIsTrue
    BY DEF DurationIsTrue, Clock!IInv
  <1> QED
    BY <1>1, <1>2, <1>3, PTL DEF AudioSpec

-----------------------------------------------------------------------------
(* The model that tells speakers apart                                     *)

\* The first in the line is one of those that may hold the lock.
LEMMA FirstInLine ==
  ASSUME Models!Shape, line # << >>
  PROVE  /\ Head(line) \in Models!Holders
         /\ Head(line) \in Models!Calls
         /\ Tail(line) \in Seq(Models!Holders)
         /\ Len(line) \in Nat \ {0}
         /\ Head(line) = line[1]
         /\ Len(Tail(line)) = Len(line) - 1
         /\ \A n \in 1..Len(Tail(line)) : Tail(line)[n] = line[n + 1]
  BY DEF Models!Shape, Models!Holders, Models!Calls

\* An empty directory is one, and stays one with another file in it.
LEMMA Directories ==
  /\ Models!Empty \in Models!Directory
  /\ \A d \in Models!Directory, f \in Models!Files,
        holding \in {"verified", "wrong", "missing"} :
       [d EXCEPT ![f] = holding] \in Models!Directory
  BY DEF Models!Empty, Models!Directory

\* What the calls are after one begins to work or goes on.
LEMMA CallGoesOn ==
  ASSUME Models!Shape, NEW c \in Models!Calls, NEW place \in Models!PCs,
         Models!Begin(c, place) \/ Models!Goes(c, place)
  PROVE  /\ dPc' \in [Models!Calls -> Models!PCs]
         /\ at' \in [Models!Calls -> Nat \ {0}]
         /\ dVerdict' \in [Models!Calls -> Models!Verdicts]
         /\ dPc' = [dPc EXCEPT ![c] = place]
  <1>1. CASE Models!Goes(c, place)
    BY <1>1 DEF Models!Goes, Models!Shape
  <1>2. CASE Models!Begin(c, place)
    <2>1. "available" \in Models!Verdicts /\ 1 \in Nat \ {0}
      BY DEF Models!Verdicts
    <2> QED
      BY <1>2, <2>1 DEF Models!Begin, Models!Shape
  <1> QED
    BY <1>1, <1>2

\* What the calls are after one has verified a file.
LEMMA CallVerifies ==
  ASSUME Models!Shape, NEW c \in Models!Calls,
         NEW d \in Models!Directory, Models!Verified(c, d)
  PROVE  /\ dPc' = dPc
         /\ at' \in [Models!Calls -> Nat \ {0}]
         /\ dVerdict' \in [Models!Calls -> Models!Verdicts]
         /\ at' = [at EXCEPT ![c] = at[c] + 1]
         /\ at[c] \in Models!Files
         /\ \A o \in Models!Calls \ {c} : dVerdict'[o] = dVerdict[o]
         /\ dVerdict'[c] = "available"
              => dVerdict[c] = "available" /\ d[at[c]] = "verified"
         /\ touched' = touched
  <1>1. /\ at[c] \in Models!Files
        /\ d[at[c]] \in {"verified", "wrong", "missing"}
        /\ dVerdict[c] \in Models!Verdicts
    BY DEF Models!Verified, Models!Shape, Models!Directory
  <1> DEFINE judged == Models!Judged(dVerdict[c], d[at[c]])
  <1>2. /\ judged \in Models!Verdicts
        /\ judged = "available"
             => dVerdict[c] = "available" /\ d[at[c]] = "verified"
    BY <1>1 DEF Models!Judged, Models!Verdicts
  <1> HIDE DEF judged
  <1>3. dVerdict' = [dVerdict EXCEPT ![c] = judged]
    BY DEF Models!Verified, judged
  <1>4. dVerdict \in [Models!Calls -> Models!Verdicts]
    BY DEF Models!Shape
  <1> QED
    BY <1>1, <1>2, <1>3, <1>4 DEF Models!Verified, Models!Shape

\* The places of the calls.
LEMMA Places ==
  /\ \A p \in {"idle", "waiting", "verifying", "using", "downloading",
               "checking", "activating", "confirming", "told"} :
        p \in Models!PCs
  /\ Diarizations \subseteq Models!Calls /\ Installs \subseteq Models!Calls
  /\ Pages \subseteq Models!Calls /\ Models!Holders \subseteq Models!Calls
  /\ Diarizations \subseteq Models!Holders
  /\ Installs \subseteq Models!Holders
  /\ Pages \cap Models!Holders = {}
  BY ModelsAssumption DEF Models!PCs, Models!Calls, Models!Holders

\* A verification reads the model, or the directory of an install.
LEMMA WhatIsVerified ==
  ASSUME Models!Shape, Models!StagingIsSound, NEW c \in Models!Calls,
         Models!VerifyFile(c)
  PROVE  \/ /\ dPc[c] \in {"verifying", "confirming"}
            /\ target \in Models!Directory /\ Models!Verified(c, target)
         \/ /\ dPc[c] = "checking" /\ c \in Installs
            /\ staging[c] \in Models!Directory
            /\ Models!Verified(c, staging[c])
  BY DEF Models!VerifyFile, Models!Shape, Models!StagingIsSound

\* What the variables of the model are.
LEMMA ModelsShape ==
  ASSUME Models!Shape, Models!StagingIsSound, [Models!Next]_modelsVars
  PROVE  Models!Shape'
  <1> USE DEF modelsVars, Models!lock, Models!calls
  <1>1. CASE UNCHANGED <<target, staging, line, inside, dPc, at, dVerdict,
    dFaults>>
    BY <1>1 DEF Models!Shape
  <1>2. ASSUME NEW c \in Models!Holders, Models!Wait(c) PROVE Models!Shape'
    <2>1. /\ dPc' \in [Models!Calls -> Models!PCs]
          /\ at' \in [Models!Calls -> Nat \ {0}]
          /\ dVerdict' \in [Models!Calls -> Models!Verdicts]
      BY <1>2, CallGoesOn, Places DEF Models!Wait
    <2>2. target' \in Models!Directory
      BY <1>2 DEF Models!Wait, Models!Shape
    <2>3. staging' \in [Installs -> Models!Directory \cup {Gone}]
      BY <1>2 DEF Models!Wait, Models!Shape
    <2>4. line' \in Seq(Models!Holders) /\ inside' \in SUBSET Models!Holders
      BY <1>2, Places DEF Models!Wait, Models!Shape
    <2> QED
      BY <1>2, <2>1, <2>2, <2>3, <2>4 DEF Models!Wait, Models!Shape
  <1>3. ASSUME Models!Enter PROVE Models!Shape'
    <2>1. /\ dPc' \in [Models!Calls -> Models!PCs]
          /\ at' \in [Models!Calls -> Nat \ {0}]
          /\ dVerdict' \in [Models!Calls -> Models!Verdicts]
      BY <1>3, CallGoesOn, Places, FirstInLine DEF Models!Enter
    <2>2. target' \in Models!Directory
      BY <1>3 DEF Models!Enter, Models!Shape
    <2>3. staging' \in [Installs -> Models!Directory \cup {Gone}]
      BY <1>3 DEF Models!Enter, Models!Shape
    <2>4. line' \in Seq(Models!Holders) /\ inside' \in SUBSET Models!Holders
      BY <1>3, Places, FirstInLine DEF Models!Enter, Models!Shape
    <2> QED
      BY <1>3, <2>1, <2>2, <2>3, <2>4 DEF Models!Enter, Models!Shape
  <1>4. ASSUME NEW c \in Models!Calls, Models!VerifyFile(c)
         PROVE  Models!Shape'
    <2>0. /\ dPc' = dPc
          /\ at' \in [Models!Calls -> Nat \ {0}]
          /\ dVerdict' \in [Models!Calls -> Models!Verdicts]
      BY <1>4, WhatIsVerified, CallVerifies
    <2>1. /\ dPc' \in [Models!Calls -> Models!PCs]
          /\ at' \in [Models!Calls -> Nat \ {0}]
          /\ dVerdict' \in [Models!Calls -> Models!Verdicts]
      BY <2>0 DEF Models!Shape
    <2>2. target' \in Models!Directory
      BY <1>4 DEF Models!VerifyFile, Models!Shape
    <2>3. staging' \in [Installs -> Models!Directory \cup {Gone}]
      BY <1>4 DEF Models!VerifyFile, Models!Shape
    <2>4. line' \in Seq(Models!Holders) /\ inside' \in SUBSET Models!Holders
      BY <1>4, Places DEF Models!VerifyFile, Models!Shape, Models!lock
    <2> QED
      BY <1>4, <2>1, <2>2, <2>3, <2>4 DEF Models!VerifyFile, Models!Shape
  <1>5. ASSUME NEW c \in Models!Calls, Models!Forget(c) PROVE Models!Shape'
    <2>1. /\ dPc' \in [Models!Calls -> Models!PCs]
          /\ at' \in [Models!Calls -> Nat \ {0}]
          /\ dVerdict' \in [Models!Calls -> Models!Verdicts]
      BY <1>5, CallGoesOn, Places DEF Models!Forget
    <2>2. target' \in Models!Directory
      BY <1>5 DEF Models!Forget, Models!Shape
    <2>3. staging' \in [Installs -> Models!Directory \cup {Gone}]
      BY <1>5 DEF Models!Forget, Models!Shape
    <2>4. line' \in Seq(Models!Holders) /\ inside' \in SUBSET Models!Holders
      BY <1>5, Places DEF Models!Forget, Models!Shape, Models!lock
    <2> QED
      BY <1>5, <2>1, <2>2, <2>3, <2>4 DEF Models!Forget, Models!Shape
  <1>6. ASSUME NEW j \in Diarizations, Models!UseModel(j) PROVE Models!Shape'
    <2>1. /\ dPc' \in [Models!Calls -> Models!PCs]
          /\ at' \in [Models!Calls -> Nat \ {0}]
          /\ dVerdict' \in [Models!Calls -> Models!Verdicts]
      BY <1>6, CallGoesOn, Places DEF Models!UseModel
    <2>2. target' \in Models!Directory
      BY <1>6 DEF Models!UseModel, Models!Shape
    <2>3. staging' \in [Installs -> Models!Directory \cup {Gone}]
      BY <1>6 DEF Models!UseModel, Models!Shape
    <2>4. line' \in Seq(Models!Holders) /\ inside' \in SUBSET Models!Holders
      BY <1>6, Places DEF Models!UseModel, Models!Shape, Models!Leave,
        Models!lock
    <2> QED
      BY <1>6, <2>1, <2>2, <2>3, <2>4 DEF Models!UseModel, Models!Shape
  <1>7. ASSUME NEW j \in Diarizations, Models!EndDiarization(j)
         PROVE  Models!Shape'
    <2>1. /\ dPc' \in [Models!Calls -> Models!PCs]
          /\ at' \in [Models!Calls -> Nat \ {0}]
          /\ dVerdict' \in [Models!Calls -> Models!Verdicts]
      BY <1>7, CallGoesOn, Places DEF Models!EndDiarization
    <2>2. target' \in Models!Directory
      BY <1>7 DEF Models!EndDiarization, Models!Shape
    <2>3. staging' \in [Installs -> Models!Directory \cup {Gone}]
      BY <1>7 DEF Models!EndDiarization, Models!Shape
    <2>4. line' \in Seq(Models!Holders) /\ inside' \in SUBSET Models!Holders
      BY <1>7, Places DEF Models!EndDiarization, Models!Shape, Models!Leave
    <2> QED
      BY <1>7, <2>1, <2>2, <2>3, <2>4 DEF Models!EndDiarization, Models!Shape
  <1>8. ASSUME NEW p \in Pages, Models!AskStatus(p) PROVE Models!Shape'
    <2>1. /\ dPc' \in [Models!Calls -> Models!PCs]
          /\ at' \in [Models!Calls -> Nat \ {0}]
          /\ dVerdict' \in [Models!Calls -> Models!Verdicts]
      BY <1>8, CallGoesOn, Places DEF Models!AskStatus
    <2>2. target' \in Models!Directory
      BY <1>8 DEF Models!AskStatus, Models!Shape
    <2>3. staging' \in [Installs -> Models!Directory \cup {Gone}]
      BY <1>8 DEF Models!AskStatus, Models!Shape
    <2>4. line' \in Seq(Models!Holders) /\ inside' \in SUBSET Models!Holders
      BY <1>8, Places DEF Models!AskStatus, Models!Shape, Models!lock
    <2> QED
      BY <1>8, <2>1, <2>2, <2>3, <2>4 DEF Models!AskStatus, Models!Shape
  <1>9. ASSUME NEW p \in Pages, Models!TellStatus(p) PROVE Models!Shape'
    <2>1. /\ dPc' \in [Models!Calls -> Models!PCs]
          /\ at' \in [Models!Calls -> Nat \ {0}]
          /\ dVerdict' \in [Models!Calls -> Models!Verdicts]
      BY <1>9, CallGoesOn, Places DEF Models!TellStatus
    <2>2. target' \in Models!Directory
      BY <1>9 DEF Models!TellStatus, Models!Shape
    <2>3. staging' \in [Installs -> Models!Directory \cup {Gone}]
      BY <1>9 DEF Models!TellStatus, Models!Shape
    <2>4. line' \in Seq(Models!Holders) /\ inside' \in SUBSET Models!Holders
      BY <1>9, Places DEF Models!TellStatus, Models!Shape, Models!lock
    <2> QED
      BY <1>9, <2>1, <2>2, <2>3, <2>4 DEF Models!TellStatus, Models!Shape
  <1>10. ASSUME NEW w \in Installs, Models!CheckInstalled(w)
          PROVE  Models!Shape'
    <2>1. /\ dPc' \in [Models!Calls -> Models!PCs]
          /\ at' \in [Models!Calls -> Nat \ {0}]
          /\ dVerdict' \in [Models!Calls -> Models!Verdicts]
      BY <1>10, CallGoesOn, Places DEF Models!CheckInstalled
    <2>2. target' \in Models!Directory
      BY <1>10 DEF Models!CheckInstalled, Models!Shape
    <2>3. staging' \in [Installs -> Models!Directory \cup {Gone}]
      BY <1>10, Directories DEF Models!CheckInstalled, Models!Shape
    <2>4. line' \in Seq(Models!Holders) /\ inside' \in SUBSET Models!Holders
      BY <1>10, Places DEF Models!CheckInstalled, Models!Shape, Models!lock
    <2> QED
      BY <1>10, <2>1, <2>2, <2>3, <2>4 DEF Models!CheckInstalled, Models!Shape
  <1>11. ASSUME NEW w \in Installs, Models!DownloadFile(w) PROVE Models!Shape'
    <2>1. /\ dPc' \in [Models!Calls -> Models!PCs]
          /\ at' \in [Models!Calls -> Nat \ {0}]
          /\ dVerdict' \in [Models!Calls -> Models!Verdicts]
      BY <1>11, Places DEF Models!DownloadFile, Models!Shape,
        Models!Files
    <2>2. target' \in Models!Directory
      BY <1>11 DEF Models!DownloadFile, Models!Shape
    <2>3. staging' \in [Installs -> Models!Directory \cup {Gone}]
      BY <1>11, Directories DEF Models!DownloadFile, Models!Shape,
        Models!StagingIsSound, Models!Calls
    <2>4. line' \in Seq(Models!Holders) /\ inside' \in SUBSET Models!Holders
      BY <1>11, Places DEF Models!DownloadFile, Models!Shape, Models!lock
    <2> QED
      BY <1>11, <2>1, <2>2, <2>3, <2>4 DEF Models!DownloadFile, Models!Shape
  <1>12. ASSUME NEW w \in Installs, Models!InstallFails(w) PROVE Models!Shape'
    <2>1. /\ dPc' \in [Models!Calls -> Models!PCs]
          /\ at' \in [Models!Calls -> Nat \ {0}]
          /\ dVerdict' \in [Models!Calls -> Models!Verdicts]
      BY <1>12, CallGoesOn, Places DEF Models!InstallFails
    <2>2. target' \in Models!Directory
      BY <1>12 DEF Models!InstallFails, Models!Shape
    <2>3. staging' \in [Installs -> Models!Directory \cup {Gone}]
      BY <1>12 DEF Models!InstallFails, Models!Shape
    <2>4. line' \in Seq(Models!Holders) /\ inside' \in SUBSET Models!Holders
      BY <1>12, Places DEF Models!InstallFails, Models!Shape, Models!Leave
    <2> QED
      BY <1>12, <2>1, <2>2, <2>3, <2>4 DEF Models!InstallFails, Models!Shape,
        Models!Fault
  <1>13. ASSUME NEW w \in Installs, Models!CheckStaging(w) PROVE Models!Shape'
    <2>1. /\ dPc' \in [Models!Calls -> Models!PCs]
          /\ at' \in [Models!Calls -> Nat \ {0}]
          /\ dVerdict' \in [Models!Calls -> Models!Verdicts]
      BY <1>13, CallGoesOn, Places DEF Models!CheckStaging
    <2>2. target' \in Models!Directory
      BY <1>13 DEF Models!CheckStaging, Models!Shape
    <2>3. staging' \in [Installs -> Models!Directory \cup {Gone}]
      BY <1>13 DEF Models!CheckStaging, Models!Shape
    <2>4. line' \in Seq(Models!Holders) /\ inside' \in SUBSET Models!Holders
      BY <1>13, Places DEF Models!CheckStaging, Models!Shape, Models!lock
    <2> QED
      BY <1>13, <2>1, <2>2, <2>3, <2>4 DEF Models!CheckStaging, Models!Shape
  <1>14. ASSUME NEW w \in Installs, Models!StagingChecked(w)
          PROVE  Models!Shape'
    <2>1. /\ dPc' \in [Models!Calls -> Models!PCs]
          /\ at' \in [Models!Calls -> Nat \ {0}]
          /\ dVerdict' \in [Models!Calls -> Models!Verdicts]
      BY <1>14, CallGoesOn, Places DEF Models!StagingChecked
    <2>2. target' \in Models!Directory
      BY <1>14 DEF Models!StagingChecked, Models!Shape
    <2>3. staging' \in [Installs -> Models!Directory \cup {Gone}]
      BY <1>14 DEF Models!StagingChecked, Models!Shape
    <2>4. line' \in Seq(Models!Holders) /\ inside' \in SUBSET Models!Holders
      BY <1>14, Places DEF Models!StagingChecked, Models!Shape, Models!Leave,
        Models!lock
    <2> QED
      BY <1>14, <2>1, <2>2, <2>3, <2>4 DEF Models!StagingChecked, Models!Shape
  <1>15. ASSUME NEW w \in Installs, Models!Activate(w) PROVE Models!Shape'
    <2>1. /\ dPc' \in [Models!Calls -> Models!PCs]
          /\ at' \in [Models!Calls -> Nat \ {0}]
          /\ dVerdict' \in [Models!Calls -> Models!Verdicts]
      BY <1>15, CallGoesOn, Places DEF Models!Activate
    <2>2. target' \in Models!Directory
      BY <1>15 DEF Models!Activate, Models!StagingIsSound, Models!Calls
    <2>3. staging' \in [Installs -> Models!Directory \cup {Gone}]
      BY <1>15 DEF Models!Activate, Models!Shape
    <2>4. line' \in Seq(Models!Holders) /\ inside' \in SUBSET Models!Holders
      BY <1>15, Places DEF Models!Activate, Models!Shape, Models!lock
    <2> QED
      BY <1>15, <2>1, <2>2, <2>3, <2>4 DEF Models!Activate, Models!Shape
  <1>16. ASSUME NEW w \in Installs, Models!ConfirmInstall(w)
          PROVE  Models!Shape'
    <2>1. /\ dPc' \in [Models!Calls -> Models!PCs]
          /\ at' \in [Models!Calls -> Nat \ {0}]
          /\ dVerdict' \in [Models!Calls -> Models!Verdicts]
      BY <1>16, CallGoesOn, Places DEF Models!ConfirmInstall
    <2>2. target' \in Models!Directory
      BY <1>16 DEF Models!ConfirmInstall, Models!Shape
    <2>3. staging' \in [Installs -> Models!Directory \cup {Gone}]
      BY <1>16 DEF Models!ConfirmInstall, Models!Shape
    <2>4. line' \in Seq(Models!Holders) /\ inside' \in SUBSET Models!Holders
      BY <1>16, Places DEF Models!ConfirmInstall, Models!Shape, Models!Leave
    <2> QED
      BY <1>16, <2>1, <2>2, <2>3, <2>4 DEF Models!ConfirmInstall, Models!Shape
  <1>17. ASSUME NEW w \in Installs, Models!DamageStaging(w)
          PROVE  Models!Shape'
    <2>1. /\ dPc' \in [Models!Calls -> Models!PCs]
          /\ at' \in [Models!Calls -> Nat \ {0}]
          /\ dVerdict' \in [Models!Calls -> Models!Verdicts]
      BY <1>17 DEF Models!DamageStaging, Models!Shape, Models!calls
    <2>2. target' \in Models!Directory
      BY <1>17 DEF Models!DamageStaging, Models!Shape
    <2>3. staging' \in [Installs -> Models!Directory \cup {Gone}]
      <3>1. PICK f \in Models!Files, holding \in {"wrong", "missing"} :
              staging' = [staging EXCEPT ![w][f] = holding]
        BY <1>17 DEF Models!DamageStaging
      <3>2. staging[w] \in Models!Directory
        BY <1>17, Places DEF Models!DamageStaging, Models!StagingIsSound
      <3>3. [staging[w] EXCEPT ![f] = holding] \in Models!Directory
        BY <3>2, Directories
      <3> QED
        BY <3>1, <3>3 DEF Models!Shape
    <2>4. line' \in Seq(Models!Holders) /\ inside' \in SUBSET Models!Holders
      BY <1>17, Places DEF Models!DamageStaging, Models!Shape, Models!lock
    <2> QED
      BY <1>17, <2>1, <2>2, <2>3, <2>4 DEF Models!DamageStaging, Models!Shape,
        Models!Fault
  <1>18. ASSUME Models!ChangeFile PROVE Models!Shape'
    <2>1. /\ dPc' \in [Models!Calls -> Models!PCs]
          /\ at' \in [Models!Calls -> Nat \ {0}]
          /\ dVerdict' \in [Models!Calls -> Models!Verdicts]
      BY <1>18 DEF Models!ChangeFile, Models!Shape
    <2>2. target' \in Models!Directory
      <3>1. PICK f \in Models!Files,
                 holding \in {"verified", "wrong", "missing"} :
              target' = [target EXCEPT ![f] = holding]
        BY <1>18 DEF Models!ChangeFile
      <3>2. target \in Models!Directory
        BY DEF Models!Shape
      <3> QED
        BY <3>1, <3>2, Directories
    <2>3. staging' \in [Installs -> Models!Directory \cup {Gone}]
      BY <1>18 DEF Models!ChangeFile, Models!Shape
    <2>4. line' \in Seq(Models!Holders) /\ inside' \in SUBSET Models!Holders
      BY <1>18, Places DEF Models!ChangeFile, Models!Shape, Models!lock
    <2> QED
      BY <1>18, <2>1, <2>2, <2>3, <2>4 DEF Models!ChangeFile, Models!Shape,
        Models!Fault
  <1>19. ASSUME Models!Crash PROVE Models!Shape'
    BY <1>19, Places DEF Models!Crash, Models!Shape, Models!Calls,
      Models!Holders
  <1> QED
    BY <1>1, <1>2, <1>3, <1>4, <1>5, <1>6, <1>7, <1>8, <1>9, <1>10, <1>11,
      <1>12, <1>13, <1>14, <1>15, <1>16, <1>17, <1>18, <1>19 DEF Models!Next

\* A call that is not in the line goes on, and the line stays as it is.
LEMMA OthersWait ==
  ASSUME Models!Shape, Models!LineWaits, line' = line,
         NEW c \in Models!Calls, NEW place, dPc[c] # "waiting",
         dPc' = [dPc EXCEPT ![c] = place]
  PROVE  Models!LineWaits'
  <1>1. \A n \in 1..Len(line) : line[n] \in Models!Calls /\ line[n] # c
    BY DEF Models!Shape, Models!LineWaits, Models!Holders, Models!Calls
  <1>2. \A n \in 1..Len(line) : dPc'[line[n]] = dPc[line[n]]
    BY <1>1 DEF Models!Shape
  <1> QED
    BY <1>2 DEF Models!LineWaits

\* Whoever is in the line waits there once.
LEMMA ModelsLine ==
  ASSUME Models!Shape, Models!LineWaits, Models!StagingIsSound,
    [Models!Next]_modelsVars
  PROVE  Models!LineWaits'
  <1> USE DEF modelsVars, Models!lock, Models!calls
  <1>1. CASE UNCHANGED <<line, dPc>>
    BY <1>1 DEF Models!LineWaits
  <1>2. ASSUME NEW c \in Models!Holders, Models!Wait(c)
         PROVE  Models!LineWaits'
    <2>1. /\ c \in Models!Calls
          /\ Len(line') = Len(line) + 1 /\ Len(line) \in Nat
          /\ line'[Len(line) + 1] = c
          /\ \A n \in 1..Len(line) : line'[n] = line[n]
      BY <1>2, Places DEF Models!Wait, Models!Shape
    <2>2. \A n \in 1..Len(line) : line[n] \in Models!Calls /\ line[n] # c
      BY <1>2 DEF Models!Wait, Models!LineWaits, Models!Shape,
        Models!Holders, Models!Calls
    <2>3. dPc' = [dPc EXCEPT ![c] = "waiting"]
      BY <1>2 DEF Models!Wait, Models!Goes
    <2>4. \A n \in 1..Len(line') :
             n \in 1..Len(line) \/ n = Len(line) + 1
      BY <2>1
    <2>5. \A n \in 1..Len(line') : dPc'[line'[n]] = "waiting"
      BY <2>1, <2>2, <2>3, <2>4 DEF Models!LineWaits, Models!Shape
    <2>6. \A n, m \in 1..Len(line') : line'[n] = line'[m] => n = m
      BY <2>1, <2>2, <2>4 DEF Models!LineWaits
    <2> QED
      BY <2>5, <2>6 DEF Models!LineWaits
  <1>3. ASSUME Models!Enter PROVE Models!LineWaits'
    <2>1. /\ Head(line) \in Models!Calls
          /\ Len(line) \in Nat \ {0} /\ Len(line') = Len(line) - 1
          /\ Head(line) = line[1]
          /\ \A n \in 1..Len(line') : line'[n] = line[n + 1]
      BY <1>3, FirstInLine DEF Models!Enter
    <2>2. \A n \in 1..Len(line') :
             /\ n + 1 \in 1..Len(line) /\ line[n + 1] # line[1]
             /\ line[n + 1] \in Models!Calls
      BY <2>1 DEF Models!LineWaits, Models!Shape, Models!Holders,
        Models!Calls
    <2>3. dPc' = [dPc EXCEPT ![line[1]] = "verifying"]
      BY <1>3, <2>1 DEF Models!Enter, Models!Begin
    <2>4. \A n \in 1..Len(line') : dPc'[line'[n]] = "waiting"
      BY <2>1, <2>2, <2>3 DEF Models!LineWaits, Models!Shape
    <2>5. \A n, m \in 1..Len(line') : line'[n] = line'[m] => n = m
      BY <2>1, <2>2 DEF Models!LineWaits
    <2> QED
      BY <2>4, <2>5 DEF Models!LineWaits
  <1>4. ASSUME NEW c \in Models!Calls, Models!VerifyFile(c)
         PROVE  Models!LineWaits'
    BY <1>4, WhatIsVerified, CallVerifies DEF Models!VerifyFile,
      Models!lock, Models!LineWaits
  <1>5. ASSUME NEW c \in Models!Calls, Models!Forget(c)
         PROVE  Models!LineWaits'
    <2>1. /\ c \in Models!Calls /\ dPc[c] # "waiting"
          /\ line' = line
          /\ \E place : dPc' = [dPc EXCEPT ![c] = place]
      BY <1>5, Places DEF Models!Forget, Models!Goes, Models!lock
    <2> QED
      BY <2>1, OthersWait
  <1>6. ASSUME NEW j \in Diarizations, Models!UseModel(j)
         PROVE  Models!LineWaits'
    <2>1. /\ j \in Models!Calls /\ dPc[j] # "waiting"
          /\ line' = line
          /\ \E place : dPc' = [dPc EXCEPT ![j] = place]
      BY <1>6, Places DEF Models!UseModel, Models!Goes, Models!Leave,
        Models!lock
    <2> QED
      BY <2>1, OthersWait
  <1>7. ASSUME NEW j \in Diarizations, Models!EndDiarization(j)
         PROVE  Models!LineWaits'
    <2>1. /\ j \in Models!Calls /\ dPc[j] # "waiting"
          /\ line' = line
          /\ \E place : dPc' = [dPc EXCEPT ![j] = place]
      BY <1>7, Places DEF Models!EndDiarization, Models!Goes, Models!Leave,
        Models!lock
    <2> QED
      BY <2>1, OthersWait
  <1>8. ASSUME NEW p \in Pages, Models!AskStatus(p) PROVE Models!LineWaits'
    <2>1. /\ p \in Models!Calls /\ dPc[p] # "waiting"
          /\ line' = line
          /\ \E place : dPc' = [dPc EXCEPT ![p] = place]
      BY <1>8, Places DEF Models!AskStatus, Models!Begin, Models!lock
    <2> QED
      BY <2>1, OthersWait
  <1>9. ASSUME NEW p \in Pages, Models!TellStatus(p) PROVE Models!LineWaits'
    <2>1. /\ p \in Models!Calls /\ dPc[p] # "waiting"
          /\ line' = line
          /\ \E place : dPc' = [dPc EXCEPT ![p] = place]
      BY <1>9, Places DEF Models!TellStatus, Models!Goes, Models!lock
    <2> QED
      BY <2>1, OthersWait
  <1>10. ASSUME NEW w \in Installs, Models!CheckInstalled(w)
          PROVE  Models!LineWaits'
    <2>1. /\ w \in Models!Calls /\ dPc[w] # "waiting"
          /\ line' = line
          /\ \E place : dPc' = [dPc EXCEPT ![w] = place]
      BY <1>10, Places DEF Models!CheckInstalled, Models!Begin, Models!lock
    <2> QED
      BY <2>1, OthersWait
  <1>11. ASSUME NEW w \in Installs, Models!InstallFails(w)
          PROVE  Models!LineWaits'
    <2>1. /\ w \in Models!Calls /\ dPc[w] # "waiting"
          /\ line' = line
          /\ \E place : dPc' = [dPc EXCEPT ![w] = place]
      BY <1>11, Places DEF Models!InstallFails, Models!Goes, Models!Leave,
        Models!lock
    <2> QED
      BY <2>1, OthersWait
  <1>12. ASSUME NEW w \in Installs, Models!CheckStaging(w)
          PROVE  Models!LineWaits'
    <2>1. /\ w \in Models!Calls /\ dPc[w] # "waiting"
          /\ line' = line
          /\ \E place : dPc' = [dPc EXCEPT ![w] = place]
      BY <1>12, Places DEF Models!CheckStaging, Models!Begin, Models!lock
    <2> QED
      BY <2>1, OthersWait
  <1>13. ASSUME NEW w \in Installs, Models!StagingChecked(w)
          PROVE  Models!LineWaits'
    <2>1. /\ w \in Models!Calls /\ dPc[w] # "waiting"
          /\ line' = line
          /\ \E place : dPc' = [dPc EXCEPT ![w] = place]
      BY <1>13, Places DEF Models!StagingChecked, Models!Goes, Models!Leave,
        Models!lock
    <2> QED
      BY <2>1, OthersWait
  <1>14. ASSUME NEW w \in Installs, Models!Activate(w) PROVE Models!LineWaits'
    <2>1. /\ w \in Models!Calls /\ dPc[w] # "waiting"
          /\ line' = line
          /\ \E place : dPc' = [dPc EXCEPT ![w] = place]
      BY <1>14, Places DEF Models!Activate, Models!Begin, Models!lock
    <2> QED
      BY <2>1, OthersWait
  <1>15. ASSUME NEW w \in Installs, Models!ConfirmInstall(w)
          PROVE  Models!LineWaits'
    <2>1. /\ w \in Models!Calls /\ dPc[w] # "waiting"
          /\ line' = line
          /\ \E place : dPc' = [dPc EXCEPT ![w] = place]
      BY <1>15, Places DEF Models!ConfirmInstall, Models!Goes, Models!Leave,
        Models!lock
    <2> QED
      BY <2>1, OthersWait
  <1>16. ASSUME Models!Crash PROVE Models!LineWaits'
    BY <1>16 DEF Models!Crash, Models!LineWaits
  <1> QED
    BY <1>1, <1>2, <1>3, <1>4, <1>5, <1>6, <1>7, <1>8, <1>9, <1>10, <1>11,
      <1>12, <1>13, <1>14, <1>15, <1>16 DEF Models!Next, Models!DownloadFile,
      Models!DamageStaging, Models!ChangeFile, Models!Fault

\* What a call does that holds the lock before and after, or neither.
LEMMA SameSide ==
  ASSUME Models!Shape, Models!WorkersAreInside, inside' = inside,
         NEW c \in Models!Calls, NEW place,
         \/ c \notin Models!Holders
         \/ dPc[c] \in {"idle", "waiting", "told"}
              <=> place \in {"idle", "waiting", "told"},
         dPc' = [dPc EXCEPT ![c] = place]
  PROVE  Models!WorkersAreInside'
  BY Places DEF Models!Shape, Models!WorkersAreInside

\* A call that leaves has done with the files.
LEMMA LeaveInside ==
  ASSUME Models!Shape, Models!WorkersAreInside, NEW c \in Models!Calls,
         NEW place \in {"idle", "told"},
         inside' = inside \ {c}, dPc' = [dPc EXCEPT ![c] = place]
  PROVE  Models!WorkersAreInside'
  BY Places DEF Models!Shape, Models!WorkersAreInside

\* Whoever works on the files holds the lock.
LEMMA ModelsInside ==
  ASSUME Models!Shape, Models!WorkersAreInside, Models!StagingIsSound,
    [Models!Next]_modelsVars
  PROVE  Models!WorkersAreInside'
  <1> USE DEF modelsVars, Models!lock, Models!calls
  <1>1. CASE UNCHANGED <<inside, dPc>>
    BY <1>1 DEF Models!WorkersAreInside
  <1>2. ASSUME NEW c \in Models!Holders, Models!Wait(c)
         PROVE  Models!WorkersAreInside'
    <2>1. /\ c \in Models!Calls /\ inside' = inside
          /\ dPc' = [dPc EXCEPT ![c] = "waiting"]
          /\ dPc[c] \in {"idle", "waiting", "told"}
                <=> "waiting" \in {"idle", "waiting", "told"}
      BY <1>2, Places DEF Models!Wait, Models!Goes, Models!lock
    <2> QED
      BY <2>1, SameSide
  <1>3. ASSUME Models!Enter PROVE Models!WorkersAreInside'
    <2>1. Head(line) \in Models!Holders /\ Head(line) \in Models!Calls
      BY <1>3, FirstInLine DEF Models!Enter
    <2>2. /\ inside' = inside \cup {Head(line)}
          /\ dPc' = [dPc EXCEPT ![Head(line)] = "verifying"]
      BY <1>3 DEF Models!Enter, Models!Begin
    <2> QED
      BY <2>1, <2>2, Places DEF Models!Shape, Models!WorkersAreInside
  <1>4. ASSUME NEW c \in Models!Calls, Models!VerifyFile(c)
         PROVE  Models!WorkersAreInside'
    BY <1>4, WhatIsVerified, CallVerifies DEF Models!VerifyFile,
      Models!lock, Models!WorkersAreInside
  <1>5. ASSUME NEW c \in Models!Calls, Models!Forget(c)
         PROVE  Models!WorkersAreInside'
    <2>1. /\ c \in Models!Calls /\ inside' = inside
          /\ dPc' = [dPc EXCEPT ![c] = "idle"]
          /\ dPc[c] \in {"idle", "waiting", "told"}
                <=> "idle" \in {"idle", "waiting", "told"}
      BY <1>5, Places DEF Models!Forget, Models!Goes, Models!lock
    <2> QED
      BY <2>1, SameSide
  <1>6. ASSUME NEW j \in Diarizations, Models!UseModel(j)
         PROVE  Models!WorkersAreInside'
    <2>1. j \in Models!Calls /\ dPc[j] = "verifying"
      BY <1>6, Places DEF Models!UseModel
    <2>2. CASE dVerdict[j] = "available"
      <3>1. /\ inside' = inside /\ dPc' = [dPc EXCEPT ![j] = "using"]
        BY <1>6, <2>2 DEF Models!UseModel, Models!Goes, Models!lock,
          Models!StagingIsWhole
      <3> QED
        BY <2>1, <3>1, SameSide
    <2>3. CASE ~(dVerdict[j] = "available")
      <3>1. /\ inside' = inside \ {j}
            /\ dPc' = [dPc EXCEPT ![j] = "idle"]
        BY <1>6, <2>3 DEF Models!UseModel, Models!Goes, Models!Leave,
          Models!StagingIsWhole
      <3> QED
        BY <2>1, <3>1, LeaveInside
    <2> QED
      BY <2>2, <2>3
  <1>7. ASSUME NEW j \in Diarizations, Models!EndDiarization(j)
         PROVE  Models!WorkersAreInside'
    <2>1. /\ j \in Models!Calls /\ inside' = inside \ {j}
          /\ dPc' = [dPc EXCEPT ![j] = "idle"]
      BY <1>7, Places DEF Models!EndDiarization, Models!Goes, Models!Leave
    <2> QED
      BY <2>1, LeaveInside
  <1>8. ASSUME NEW p \in Pages, Models!AskStatus(p)
         PROVE  Models!WorkersAreInside'
    <2>1. /\ p \in Models!Calls /\ inside' = inside
          /\ dPc' = [dPc EXCEPT ![p] = "verifying"]
          /\ p \notin Models!Holders
      BY <1>8, Places DEF Models!AskStatus, Models!Begin, Models!lock
    <2> QED
      BY <2>1, SameSide
  <1>9. ASSUME NEW p \in Pages, Models!TellStatus(p)
         PROVE  Models!WorkersAreInside'
    <2>1. /\ p \in Models!Calls /\ inside' = inside
          /\ dPc' = [dPc EXCEPT ![p] = "told"]
          /\ p \notin Models!Holders
      BY <1>9, Places DEF Models!TellStatus, Models!Goes, Models!lock
    <2> QED
      BY <2>1, SameSide
  <1>10. ASSUME NEW w \in Installs, Models!CheckInstalled(w)
          PROVE  Models!WorkersAreInside'
    <2>1. /\ w \in Models!Calls /\ dPc[w] = "verifying"
          /\ inside' = inside
      BY <1>10, Places DEF Models!CheckInstalled, Models!lock
    <2>2. \/ dPc' = [dPc EXCEPT ![w] = "confirming"]
          \/ dPc' = [dPc EXCEPT ![w] = "downloading"]
      BY <1>10 DEF Models!CheckInstalled, Models!Begin
    <2> QED
      BY <2>1, <2>2, SameSide
  <1>11. ASSUME NEW w \in Installs, Models!InstallFails(w)
          PROVE  Models!WorkersAreInside'
    <2>1. /\ w \in Models!Calls /\ inside' = inside \ {w}
          /\ dPc' = [dPc EXCEPT ![w] = "idle"]
      BY <1>11, Places DEF Models!InstallFails, Models!Goes, Models!Leave
    <2> QED
      BY <2>1, LeaveInside
  <1>12. ASSUME NEW w \in Installs, Models!CheckStaging(w)
          PROVE  Models!WorkersAreInside'
    <2>1. /\ w \in Models!Calls /\ inside' = inside
          /\ dPc' = [dPc EXCEPT ![w] = "checking"]
          /\ dPc[w] \in {"idle", "waiting", "told"}
                <=> "checking" \in {"idle", "waiting", "told"}
      BY <1>12, Places DEF Models!CheckStaging, Models!Begin, Models!lock
    <2> QED
      BY <2>1, SameSide
  <1>13. ASSUME NEW w \in Installs, Models!StagingChecked(w)
          PROVE  Models!WorkersAreInside'
    <2>1. w \in Models!Calls /\ dPc[w] = "checking"
      BY <1>13, Places DEF Models!StagingChecked
    <2>2. CASE dVerdict[w] = "available"
      <3>1. /\ inside' = inside /\ dPc' = [dPc EXCEPT ![w] = "activating"]
        BY <1>13, <2>2 DEF Models!StagingChecked, Models!Goes, Models!lock,
          Models!StagingIsWhole
      <3> QED
        BY <2>1, <3>1, SameSide
    <2>3. CASE ~(dVerdict[w] = "available")
      <3>1. /\ inside' = inside \ {w}
            /\ dPc' = [dPc EXCEPT ![w] = "idle"]
        BY <1>13, <2>3 DEF Models!StagingChecked, Models!Goes, Models!Leave,
          Models!StagingIsWhole
      <3> QED
        BY <2>1, <3>1, LeaveInside
    <2> QED
      BY <2>2, <2>3
  <1>14. ASSUME NEW w \in Installs, Models!Activate(w)
          PROVE  Models!WorkersAreInside'
    <2>1. /\ w \in Models!Calls /\ inside' = inside
          /\ dPc' = [dPc EXCEPT ![w] = "confirming"]
          /\ dPc[w] \in {"idle", "waiting", "told"}
                <=> "confirming" \in {"idle", "waiting", "told"}
      BY <1>14, Places DEF Models!Activate, Models!Begin, Models!lock
    <2> QED
      BY <2>1, SameSide
  <1>15. ASSUME NEW w \in Installs, Models!ConfirmInstall(w)
          PROVE  Models!WorkersAreInside'
    <2>1. /\ w \in Models!Calls /\ inside' = inside \ {w}
          /\ dPc' = [dPc EXCEPT ![w] = "told"]
      BY <1>15, Places DEF Models!ConfirmInstall, Models!Goes, Models!Leave
    <2> QED
      BY <2>1, LeaveInside
  <1>16. ASSUME Models!Crash PROVE Models!WorkersAreInside'
    BY <1>16, Places DEF Models!Crash, Models!WorkersAreInside
  <1> QED
    BY <1>1, <1>2, <1>3, <1>4, <1>5, <1>6, <1>7, <1>8, <1>9, <1>10, <1>11,
      <1>12, <1>13, <1>14, <1>15, <1>16 DEF Models!Next, Models!DownloadFile,
      Models!DamageStaging, Models!ChangeFile, Models!Fault

\* An install holds the lock alone.
LEMMA ModelsAlone ==
  ASSUME Models!Shape, Models!InstallsAreAlone, [Models!Next]_modelsVars
  PROVE  Models!InstallsAreAlone'
  <1> USE DEF modelsVars, Models!lock, Models!calls
  <1>1. CASE UNCHANGED <<inside>>
    BY <1>1 DEF Models!InstallsAreAlone
  <1>2. ASSUME Models!Enter PROVE Models!InstallsAreAlone'
    BY <1>2 DEF Models!Enter, Models!Begin, Models!MayEnter,
      Models!InstallsAreAlone
  <1>3. ASSUME NEW j \in Diarizations, Models!UseModel(j)
         PROVE  Models!InstallsAreAlone'
    BY <1>3 DEF Models!UseModel, Models!Goes, Models!Leave,
      Models!HasVerified, Models!InstallsAreAlone
  <1>4. ASSUME NEW j \in Diarizations, Models!EndDiarization(j)
         PROVE  Models!InstallsAreAlone'
    BY <1>4 DEF Models!EndDiarization, Models!Goes, Models!Leave,
      Models!InstallsAreAlone
  <1>5. ASSUME NEW w \in Installs, Models!InstallFails(w)
         PROVE  Models!InstallsAreAlone'
    BY <1>5 DEF Models!InstallFails, Models!Goes, Models!Leave, Models!Fault,
      Models!InstallsAreAlone
  <1>6. ASSUME NEW w \in Installs, Models!StagingChecked(w)
         PROVE  Models!InstallsAreAlone'
    BY <1>6 DEF Models!StagingChecked, Models!Goes, Models!Leave,
      Models!HasVerified, Models!StagingIsWhole, Models!InstallsAreAlone
  <1>7. ASSUME NEW w \in Installs, Models!ConfirmInstall(w)
         PROVE  Models!InstallsAreAlone'
    BY <1>7 DEF Models!ConfirmInstall, Models!Goes, Models!Leave,
      Models!HasVerified, Models!InstallsAreAlone
  <1>8. ASSUME Models!Crash PROVE Models!InstallsAreAlone'
    BY <1>8 DEF Models!Crash, Models!InstallsAreAlone
  <1> QED
    BY <1>1, <1>2, <1>3, <1>4, <1>5, <1>6, <1>7, <1>8 DEF Models!Next,
      Models!Wait, Models!VerifyFile, Models!Forget, Models!AskStatus,
      Models!TellStatus, Models!CheckInstalled, Models!DownloadFile,
      Models!CheckStaging, Models!Activate, Models!DamageStaging,
      Models!ChangeFile, Models!Goes, Models!Begin, Models!Verified,
      Models!Fault, Models!HasVerified

\* A call that begins has verified nothing yet.
LEMMA BeginIsSound ==
  ASSUME Models!Shape, Models!VerifiedSoFar, target' = target,
         NEW c \in Models!Calls, NEW place, Models!Begin(c, place)
  PROVE  Models!VerifiedSoFar'
  <1> SUFFICES ASSUME NEW o \in Models!Calls, NEW f \in Models!Files,
                      dPc'[o] \in {"verifying", "confirming", "using", "told"},
                      dVerdict'[o] = "available", o \notin touched',
                      f < at'[o]
               PROVE  target[f] = "verified"
    BY DEF Models!VerifiedSoFar
  <1>1. CASE o = c
    <2>1. at'[o] = 1 /\ f \in 1..FileCount
      BY <1>1 DEF Models!Begin, Models!Shape, Models!Files
    <2> QED
      BY <2>1, ModelsAssumption
  <1>2. CASE o # c
    <2>1. /\ dPc'[o] = dPc[o] /\ dVerdict'[o] = dVerdict[o]
          /\ at'[o] = at[o] /\ o \notin touched
      BY <1>2 DEF Models!Begin, Models!Shape
    <2> QED
      BY <2>1 DEF Models!VerifiedSoFar
  <1> QED
    BY <1>1, <1>2

\* A call that goes on with what it has verified.
LEMMA GoesIsSound ==
  ASSUME Models!Shape, Models!VerifiedSoFar, target' = target,
         NEW c \in Models!Calls, NEW place, Models!Goes(c, place),
         place \in {"verifying", "confirming", "using", "told"}
           => dPc[c] \in {"verifying", "confirming", "using", "told"}
  PROVE  Models!VerifiedSoFar'
  BY DEF Models!Goes, Models!Shape, Models!VerifiedSoFar

\* A call uses the model, or tells of it, once it has verified every file.
LEMMA GoesIsVerified ==
  ASSUME Models!Shape, Models!AllIsVerified,
         NEW c \in Models!Calls, NEW place,
         Models!Goes(c, place) \/ Models!Begin(c, place),
         place \in {"using", "told"}
           => Models!Goes(c, place) /\ Models!HasVerified(c)
  PROVE  Models!AllIsVerified'
  BY DEF Models!Goes, Models!Begin, Models!Shape, Models!AllIsVerified,
     Models!HasVerified

\* What a call has verified and nobody has touched is still verified.
LEMMA ModelsVerified ==
  ASSUME Models!Shape, Models!VerifiedSoFar, Models!StagingIsSound,
    [Models!Next]_modelsVars
  PROVE  Models!VerifiedSoFar'
  <1> USE DEF modelsVars, Models!lock, Models!calls
  <1>1. CASE UNCHANGED <<target, dPc, at, dVerdict, touched>>
    BY <1>1 DEF Models!VerifiedSoFar
  <1>2. ASSUME NEW c \in Models!Holders, Models!Wait(c)
         PROVE  Models!VerifiedSoFar'
    <2>1. /\ c \in Models!Calls /\ target' = target
          /\ Models!Goes(c, "waiting")
      BY <1>2, Places DEF Models!Wait
    <2> QED
      BY <2>1, GoesIsSound
  <1>3. ASSUME Models!Enter PROVE Models!VerifiedSoFar'
    <2>1. /\ Head(line) \in Models!Calls /\ target' = target
          /\ Models!Begin(Head(line), "verifying")
      BY <1>3, Places, FirstInLine DEF Models!Enter
    <2> QED
      BY <2>1, BeginIsSound
  <1>4. ASSUME NEW c \in Models!Calls, Models!VerifyFile(c)
         PROVE  Models!VerifiedSoFar'
    <2>1. target' = target /\ dPc' = dPc /\ touched' = touched
      BY <1>4, WhatIsVerified, CallVerifies DEF Models!VerifyFile
    <2>2. SUFFICES ASSUME NEW o \in Models!Calls, NEW f \in Models!Files,
                 dPc[o] \in {"verifying", "confirming", "using", "told"},
                 dVerdict'[o] = "available", o \notin touched, f < at'[o]
               PROVE  target[f] = "verified"
      BY <2>1 DEF Models!VerifiedSoFar
    <2>3. CASE o # c
      <3>1. dVerdict'[o] = dVerdict[o] /\ at'[o] = at[o]
        BY <1>4, <2>2, <2>3, WhatIsVerified, CallVerifies DEF Models!Shape
      <3> QED
        BY <2>2, <3>1 DEF Models!VerifiedSoFar
    <2>4. CASE o = c
      <3>1. /\ target \in Models!Directory
            /\ Models!Verified(c, target)
        BY <1>4, <2>2, <2>4, WhatIsVerified
      <3>2. /\ dVerdict[c] = "available" /\ target[at[c]] = "verified"
            /\ at'[c] = at[c] + 1 /\ at[c] \in Nat /\ f \in Nat
        BY <2>2, <2>4, <3>1, CallVerifies, ModelsAssumption DEF
          Models!Shape, Models!Files
      <3>3. f < at[c] \/ f = at[c]
        BY <2>2, <2>4, <3>2
      <3> QED
        BY <2>2, <2>4, <3>2, <3>3 DEF Models!VerifiedSoFar
    <2> QED
      BY <2>3, <2>4
  <1>5. ASSUME NEW c \in Models!Calls, Models!Forget(c)
         PROVE  Models!VerifiedSoFar'
    <2>1. /\ c \in Models!Calls /\ target' = target
          /\ Models!Goes(c, "idle")
      BY <1>5, Places DEF Models!Forget
    <2> QED
      BY <2>1, GoesIsSound
  <1>6. ASSUME NEW j \in Diarizations, Models!UseModel(j)
         PROVE  Models!VerifiedSoFar'
    <2>1. /\ j \in Models!Calls /\ target' = target
          /\ dPc[j] = "verifying"
          /\ Models!Goes(j, "using") \/ Models!Goes(j, "idle")
      BY <1>6, Places DEF Models!UseModel
    <2> QED
      BY <2>1, GoesIsSound
  <1>7. ASSUME NEW j \in Diarizations, Models!EndDiarization(j)
         PROVE  Models!VerifiedSoFar'
    <2>1. /\ j \in Models!Calls /\ target' = target
          /\ Models!Goes(j, "idle")
      BY <1>7, Places DEF Models!EndDiarization
    <2> QED
      BY <2>1, GoesIsSound
  <1>8. ASSUME NEW p \in Pages, Models!AskStatus(p)
         PROVE  Models!VerifiedSoFar'
    <2>1. /\ p \in Models!Calls /\ target' = target
          /\ Models!Begin(p, "verifying")
      BY <1>8, Places DEF Models!AskStatus
    <2> QED
      BY <2>1, BeginIsSound
  <1>9. ASSUME NEW p \in Pages, Models!TellStatus(p)
         PROVE  Models!VerifiedSoFar'
    <2>1. /\ p \in Models!Calls /\ target' = target
          /\ Models!Goes(p, "told")
          /\ dPc[p] \in {"verifying", "confirming"}
      BY <1>9, Places DEF Models!TellStatus
    <2> QED
      BY <2>1, GoesIsSound
  <1>10. ASSUME NEW w \in Installs, Models!CheckInstalled(w)
          PROVE  Models!VerifiedSoFar'
    <2>1. /\ w \in Models!Calls /\ target' = target
          /\ \/ Models!Begin(w, "confirming")
             \/ Models!Begin(w, "downloading")
      BY <1>10, Places DEF Models!CheckInstalled
    <2> QED
      BY <2>1, BeginIsSound
  <1>11. ASSUME NEW w \in Installs, Models!DownloadFile(w)
          PROVE  Models!VerifiedSoFar'
    <2>1. w \in Models!Calls /\ dPc[w] = "downloading"
      BY <1>11, Places DEF Models!DownloadFile
    <2> QED
      BY <1>11, <2>1 DEF Models!DownloadFile, Models!VerifiedSoFar,
        Models!Shape
  <1>12. ASSUME NEW w \in Installs, Models!InstallFails(w)
          PROVE  Models!VerifiedSoFar'
    <2>1. /\ w \in Models!Calls /\ target' = target
          /\ Models!Goes(w, "idle")
      BY <1>12, Places DEF Models!InstallFails
    <2> QED
      BY <2>1, GoesIsSound
  <1>13. ASSUME NEW w \in Installs, Models!CheckStaging(w)
          PROVE  Models!VerifiedSoFar'
    <2>1. /\ w \in Models!Calls /\ target' = target
          /\ Models!Begin(w, "checking")
      BY <1>13, Places DEF Models!CheckStaging
    <2> QED
      BY <2>1, BeginIsSound
  <1>14. ASSUME NEW w \in Installs, Models!StagingChecked(w)
          PROVE  Models!VerifiedSoFar'
    <2>1. /\ w \in Models!Calls /\ target' = target
          /\ dPc[w] = "checking"
          /\ Models!Goes(w, "activating") \/ Models!Goes(w, "idle")
      BY <1>14, Places DEF Models!StagingChecked
    <2> QED
      BY <2>1, GoesIsSound
  <1>15. ASSUME NEW w \in Installs, Models!Activate(w)
          PROVE  Models!VerifiedSoFar'
    <2>1. Models!Whole(staging[w]) /\ target' = staging[w]
      BY <1>15, Places DEF Models!Activate, Models!StagingIsSound
    <2> QED
      BY <2>1 DEF Models!VerifiedSoFar, Models!Whole
  <1>16. ASSUME NEW w \in Installs, Models!ConfirmInstall(w)
          PROVE  Models!VerifiedSoFar'
    <2>1. /\ w \in Models!Calls /\ target' = target
          /\ Models!Goes(w, "told")
          /\ dPc[w] \in {"verifying", "confirming"}
      BY <1>16, Places DEF Models!ConfirmInstall
    <2> QED
      BY <2>1, GoesIsSound
  <1>17. ASSUME Models!ChangeFile PROVE Models!VerifiedSoFar'
    BY <1>17 DEF Models!ChangeFile, Models!VerifiedSoFar
  <1>18. ASSUME Models!Crash PROVE Models!VerifiedSoFar'
    BY <1>18 DEF Models!Crash, Models!VerifiedSoFar
  <1> QED
    BY <1>1, <1>2, <1>3, <1>4, <1>5, <1>6, <1>7, <1>8, <1>9, <1>10, <1>11,
      <1>12, <1>13, <1>14, <1>15, <1>16, <1>17, <1>18 DEF Models!Next,
      Models!DamageStaging, Models!Fault

\* A call that uses a model, or was told of it, has had it verified.
LEMMA ModelsAllVerified ==
  ASSUME Models!Shape, Models!AllIsVerified, Models!StagingIsSound,
    [Models!Next]_modelsVars
  PROVE  Models!AllIsVerified'
  <1> USE DEF modelsVars, Models!lock, Models!calls
  <1>1. CASE UNCHANGED <<dPc, at>>
    BY <1>1 DEF Models!AllIsVerified, Models!HasVerified
  <1>2. ASSUME NEW c \in Models!Holders, Models!Wait(c)
         PROVE  Models!AllIsVerified'
    <2>1. /\ c \in Models!Calls /\ Models!Goes(c, "waiting")
      BY <1>2, Places DEF Models!Wait
    <2> QED
      BY <2>1, GoesIsVerified
  <1>3. ASSUME Models!Enter PROVE Models!AllIsVerified'
    <2>1. /\ Head(line) \in Models!Calls
          /\ Models!Begin(Head(line), "verifying")
      BY <1>3, Places, FirstInLine DEF Models!Enter
    <2> QED
      BY <2>1, GoesIsVerified
  <1>4. ASSUME NEW c \in Models!Calls, Models!VerifyFile(c)
         PROVE  Models!AllIsVerified'
    <2>1. /\ dPc' = dPc
          /\ \A o \in Models!Calls : at'[o] \in Nat /\ at[o] \in Nat
                                     /\ at'[o] >= at[o]
      BY <1>4, WhatIsVerified, CallVerifies DEF Models!Shape
    <2> QED
      BY <2>1, ModelsAssumption DEF Models!AllIsVerified,
        Models!HasVerified
  <1>5. ASSUME NEW c \in Models!Calls, Models!Forget(c)
         PROVE  Models!AllIsVerified'
    <2>1. /\ c \in Models!Calls /\ Models!Goes(c, "idle")
      BY <1>5, Places DEF Models!Forget
    <2> QED
      BY <2>1, GoesIsVerified
  <1>6. ASSUME NEW j \in Diarizations, Models!UseModel(j)
         PROVE  Models!AllIsVerified'
    <2>1. /\ j \in Models!Calls /\ Models!HasVerified(j)
          /\ Models!Goes(j, "using") \/ Models!Goes(j, "idle")
      BY <1>6, Places DEF Models!UseModel
    <2> QED
      BY <2>1, GoesIsVerified
  <1>7. ASSUME NEW j \in Diarizations, Models!EndDiarization(j)
         PROVE  Models!AllIsVerified'
    <2>1. /\ j \in Models!Calls /\ Models!Goes(j, "idle")
      BY <1>7, Places DEF Models!EndDiarization
    <2> QED
      BY <2>1, GoesIsVerified
  <1>8. ASSUME NEW p \in Pages, Models!AskStatus(p)
         PROVE  Models!AllIsVerified'
    <2>1. /\ p \in Models!Calls
          /\ Models!Begin(p, "verifying")
      BY <1>8, Places DEF Models!AskStatus
    <2> QED
      BY <2>1, GoesIsVerified
  <1>9. ASSUME NEW p \in Pages, Models!TellStatus(p)
         PROVE  Models!AllIsVerified'
    <2>1. /\ p \in Models!Calls /\ Models!Goes(p, "told")
          /\ Models!HasVerified(p)
      BY <1>9, Places DEF Models!TellStatus
    <2> QED
      BY <2>1, GoesIsVerified
  <1>10. ASSUME NEW w \in Installs, Models!CheckInstalled(w)
          PROVE  Models!AllIsVerified'
    <2>1. /\ w \in Models!Calls
          /\ \/ Models!Begin(w, "confirming")
             \/ Models!Begin(w, "downloading")
      BY <1>10, Places DEF Models!CheckInstalled
    <2> QED
      BY <2>1, GoesIsVerified
  <1>11. ASSUME NEW w \in Installs, Models!DownloadFile(w)
          PROVE  Models!AllIsVerified'
    <2>1. /\ dPc' = dPc
          /\ \A o \in Models!Calls : at'[o] \in Nat /\ at[o] \in Nat
                                     /\ at'[o] >= at[o]
      BY <1>11 DEF Models!DownloadFile, Models!Shape
    <2> QED
      BY <2>1, ModelsAssumption DEF Models!AllIsVerified,
        Models!HasVerified
  <1>12. ASSUME NEW w \in Installs, Models!InstallFails(w)
          PROVE  Models!AllIsVerified'
    <2>1. /\ w \in Models!Calls /\ Models!Goes(w, "idle")
      BY <1>12, Places DEF Models!InstallFails
    <2> QED
      BY <2>1, GoesIsVerified
  <1>13. ASSUME NEW w \in Installs, Models!CheckStaging(w)
          PROVE  Models!AllIsVerified'
    <2>1. /\ w \in Models!Calls
          /\ Models!Begin(w, "checking")
      BY <1>13, Places DEF Models!CheckStaging
    <2> QED
      BY <2>1, GoesIsVerified
  <1>14. ASSUME NEW w \in Installs, Models!StagingChecked(w)
          PROVE  Models!AllIsVerified'
    <2>1. /\ w \in Models!Calls /\ Models!HasVerified(w)
          /\ Models!Goes(w, "activating") \/ Models!Goes(w, "idle")
      BY <1>14, Places DEF Models!StagingChecked
    <2> QED
      BY <2>1, GoesIsVerified
  <1>15. ASSUME NEW w \in Installs, Models!Activate(w)
          PROVE  Models!AllIsVerified'
    <2>1. /\ w \in Models!Calls
          /\ Models!Begin(w, "confirming")
      BY <1>15, Places DEF Models!Activate
    <2> QED
      BY <2>1, GoesIsVerified
  <1>16. ASSUME NEW w \in Installs, Models!ConfirmInstall(w)
          PROVE  Models!AllIsVerified'
    <2>1. /\ w \in Models!Calls /\ Models!Goes(w, "told")
          /\ Models!HasVerified(w)
      BY <1>16, Places DEF Models!ConfirmInstall
    <2> QED
      BY <2>1, GoesIsVerified
  <1>17. ASSUME Models!Crash PROVE Models!AllIsVerified'
    BY <1>17 DEF Models!Crash, Models!AllIsVerified
  <1> QED
    BY <1>1, <1>2, <1>3, <1>4, <1>5, <1>6, <1>7, <1>8, <1>9, <1>10, <1>11,
      <1>12, <1>13, <1>14, <1>15, <1>16, <1>17 DEF Models!Next,
      Models!DamageStaging, Models!ChangeFile, Models!Fault

\* The directories of installs stay as they are while a call goes on to a
\* place where it does not work on one, or only begins to.
LEMMA OthersStage ==
  ASSUME Models!Shape, Models!StagingIsSound,
         NEW c \in Models!Calls, NEW place \in Models!PCs,
         Models!Goes(c, place) \/ Models!Begin(c, place),
         \A o \in Installs \ {c} : staging'[o] = staging[o],
         place \notin {"downloading", "checking", "activating"}
  PROVE  Models!StagingIsSound'
  <1>1. /\ dPc'[c] = place
        /\ \A o \in Models!Calls \ {c} :
              /\ dPc'[o] = dPc[o] /\ at'[o] = at[o]
              /\ dVerdict'[o] = dVerdict[o]
    BY DEF Models!Goes, Models!Begin, Models!Shape
  <1> QED
    BY <1>1 DEF Models!StagingIsSound, Models!Whole

\* What one call does to its own directory does not disturb the others.
LEMMA OwnStage ==
  ASSUME Models!Shape, Models!StagingIsSound, NEW c \in Installs,
         \A o \in Models!Calls \ {c} :
             /\ dPc'[o] = dPc[o] /\ at'[o] = at[o]
             /\ dVerdict'[o] = dVerdict[o],
         \A o \in Installs \ {c} : staging'[o] = staging[o],
         dPc'[c] \in {"downloading", "checking", "activating"}
           => staging'[c] \in Models!Directory,
         dPc'[c] = "checking" /\ dVerdict'[c] = "available"
           => \A f \in Models!Files :
                 f < at'[c] => staging'[c][f] = "verified",
         dPc'[c] = "activating" => Models!Whole(staging'[c])
  PROVE  Models!StagingIsSound'
  BY DEF Models!StagingIsSound, Models!Whole

\* What a call that begins or goes on leaves of the others.
LEMMA OthersStand ==
  ASSUME Models!Shape, NEW c \in Models!Calls, NEW place,
         Models!Goes(c, place) \/ Models!Begin(c, place)
  PROVE  /\ dPc'[c] = place
         /\ \A o \in Models!Calls \ {c} :
               /\ dPc'[o] = dPc[o] /\ at'[o] = at[o]
               /\ dVerdict'[o] = dVerdict[o]
         /\ Models!Goes(c, place)
              => at'[c] = at[c] /\ dVerdict'[c] = dVerdict[c]
         /\ Models!Begin(c, place) => at'[c] = 1
  BY DEF Models!Goes, Models!Begin, Models!Shape

\* What an install works on is its own, and is checked before it is used.
LEMMA ModelsStaging ==
  ASSUME Models!Shape, Models!StagingIsSound, [Models!Next]_modelsVars
  PROVE  Models!StagingIsSound'
  <1> USE DEF modelsVars, Models!lock, Models!calls
  <1>1. CASE UNCHANGED <<staging, dPc, at, dVerdict>>
    BY <1>1 DEF Models!StagingIsSound, Models!Whole
  <1>2. ASSUME NEW c \in Models!Holders, Models!Wait(c)
         PROVE  Models!StagingIsSound'
    <2>1. c \in Models!Calls /\ Models!Goes(c, "waiting")
      BY <1>2, Places DEF Models!Wait
    <2>2. \A o \in Installs \ {c} : staging'[o] = staging[o]
      BY <1>2 DEF Models!Wait, Models!Shape
    <2> QED
      BY <2>1, <2>2, OthersStage, Places
  <1>3. ASSUME Models!Enter PROVE Models!StagingIsSound'
    <2>1. Head(line) \in Models!Calls /\ Models!Begin(Head(line), "verifying")
      BY <1>3, Places, FirstInLine DEF Models!Enter
    <2>2. \A o \in Installs \ {Head(line)} : staging'[o] = staging[o]
      BY <1>3 DEF Models!Enter, Models!Shape
    <2> QED
      BY <2>1, <2>2, OthersStage, Places
  <1>4. ASSUME NEW c \in Models!Calls, Models!VerifyFile(c)
         PROVE  Models!StagingIsSound'
    <2>1. staging' = staging /\ dPc' = dPc
      BY <1>4, WhatIsVerified, CallVerifies DEF Models!VerifyFile
    <2>2. SUFFICES ASSUME NEW o \in Models!Calls, NEW f \in Models!Files,
                 dPc[o] = "checking", dVerdict'[o] = "available", f < at'[o]
               PROVE  staging[o][f] = "verified"
      BY <2>1 DEF Models!StagingIsSound, Models!Whole
    <2>3. CASE o # c
      <3>1. dVerdict'[o] = dVerdict[o] /\ at'[o] = at[o]
        BY <1>4, <2>2, <2>3, WhatIsVerified, CallVerifies DEF Models!Shape
      <3> QED
        BY <2>2, <3>1 DEF Models!StagingIsSound
    <2>4. CASE o = c
      <3>1. /\ staging[c] \in Models!Directory
            /\ Models!Verified(c, staging[c])
        BY <1>4, <2>2, <2>4, WhatIsVerified
      <3>2. /\ dVerdict[c] = "available"
            /\ staging[c][at[c]] = "verified"
            /\ at'[c] = at[c] + 1 /\ at[c] \in Nat /\ f \in Nat
        BY <2>2, <2>4, <3>1, CallVerifies, ModelsAssumption DEF
          Models!Shape, Models!Files
      <3>3. f < at[c] \/ f = at[c]
        BY <2>2, <2>4, <3>2
      <3> QED
        BY <2>2, <2>4, <3>2, <3>3 DEF Models!StagingIsSound
    <2> QED
      BY <2>3, <2>4
  <1>5. ASSUME NEW c \in Models!Calls, Models!Forget(c)
         PROVE  Models!StagingIsSound'
    <2>1. c \in Models!Calls /\ Models!Goes(c, "idle")
      BY <1>5, Places DEF Models!Forget
    <2>2. \A o \in Installs \ {c} : staging'[o] = staging[o]
      BY <1>5 DEF Models!Forget, Models!Shape
    <2> QED
      BY <2>1, <2>2, OthersStage, Places
  <1>6. ASSUME NEW j \in Diarizations, Models!UseModel(j)
         PROVE  Models!StagingIsSound'
    <2>1. /\ j \in Models!Calls /\ staging' = staging
          /\ Models!Goes(j, "using") \/ Models!Goes(j, "idle")
      BY <1>6, Places DEF Models!UseModel
    <2> QED
      BY <2>1, OthersStage, Places
  <1>7. ASSUME NEW j \in Diarizations, Models!EndDiarization(j)
         PROVE  Models!StagingIsSound'
    <2>1. j \in Models!Calls /\ Models!Goes(j, "idle")
      BY <1>7, Places DEF Models!EndDiarization
    <2>2. \A o \in Installs \ {j} : staging'[o] = staging[o]
      BY <1>7 DEF Models!EndDiarization, Models!Shape
    <2> QED
      BY <2>1, <2>2, OthersStage, Places
  <1>8. ASSUME NEW p \in Pages, Models!AskStatus(p)
         PROVE  Models!StagingIsSound'
    <2>1. p \in Models!Calls /\ Models!Begin(p, "verifying")
      BY <1>8, Places DEF Models!AskStatus
    <2>2. \A o \in Installs \ {p} : staging'[o] = staging[o]
      BY <1>8 DEF Models!AskStatus, Models!Shape
    <2> QED
      BY <2>1, <2>2, OthersStage, Places
  <1>9. ASSUME NEW p \in Pages, Models!TellStatus(p)
         PROVE  Models!StagingIsSound'
    <2>1. p \in Models!Calls /\ Models!Goes(p, "told")
      BY <1>9, Places DEF Models!TellStatus
    <2>2. \A o \in Installs \ {p} : staging'[o] = staging[o]
      BY <1>9 DEF Models!TellStatus, Models!Shape
    <2> QED
      BY <2>1, <2>2, OthersStage, Places
  <1>10. ASSUME NEW w \in Installs, Models!CheckInstalled(w)
          PROVE  Models!StagingIsSound'
    <2>1. w \in Models!Calls
      BY Places
    <2>2. CASE dVerdict[w] = "available"
      BY <1>10, <2>1, <2>2, OthersStage, Places DEF Models!CheckInstalled
    <2>3. CASE dVerdict[w] # "available"
      <3>1. /\ Models!Begin(w, "downloading")
            /\ staging' = [staging EXCEPT ![w] = Models!Empty]
        BY <1>10, <2>3 DEF Models!CheckInstalled
      <3> QED
        BY <2>1, <3>1, OthersStand, OwnStage, Directories DEF Models!Shape
    <2> QED
      BY <2>2, <2>3
  <1>11. ASSUME NEW w \in Installs, Models!DownloadFile(w)
          PROVE  Models!StagingIsSound'
    <2>1. /\ w \in Models!Calls /\ dPc[w] = "downloading"
          /\ at[w] \in Models!Files /\ dPc' = dPc
          /\ dVerdict' = dVerdict
          /\ \A o \in Models!Calls \ {w} : at'[o] = at[o]
          /\ \A o \in Installs \ {w} : staging'[o] = staging[o]
          /\ staging'[w] = [staging[w] EXCEPT ![at[w]] = "verified"]
      BY <1>11, Places DEF Models!DownloadFile, Models!Shape
    <2>2. staging[w] \in Models!Directory
      BY <2>1 DEF Models!StagingIsSound
    <2>3. staging'[w] \in Models!Directory
      BY <2>1, <2>2, Directories
    <2> QED
      BY <2>1, <2>3, OwnStage
  <1>12. ASSUME NEW w \in Installs, Models!InstallFails(w)
          PROVE  Models!StagingIsSound'
    <2>1. w \in Models!Calls /\ Models!Goes(w, "idle")
      BY <1>12, Places DEF Models!InstallFails
    <2>2. \A o \in Installs \ {w} : staging'[o] = staging[o]
      BY <1>12 DEF Models!InstallFails, Models!Shape
    <2> QED
      BY <2>1, <2>2, OthersStage, Places
  <1>13. ASSUME NEW w \in Installs, Models!CheckStaging(w)
          PROVE  Models!StagingIsSound'
    <2>1. /\ w \in Models!Calls /\ dPc[w] = "downloading"
          /\ staging' = staging /\ Models!Begin(w, "checking")
      BY <1>13, Places DEF Models!CheckStaging
    <2>2. staging[w] \in Models!Directory
      BY <2>1 DEF Models!StagingIsSound
    <2>3. \A f \in Models!Files : ~(f < 1)
      BY ModelsAssumption DEF Models!Files
    <2> QED
      BY <2>1, <2>2, <2>3, OthersStand, OwnStage
  <1>14. ASSUME NEW w \in Installs, Models!StagingChecked(w)
          PROVE  Models!StagingIsSound'
    <2>1. /\ w \in Models!Calls /\ dPc[w] = "checking"
          /\ Models!HasVerified(w)
          /\ \A o \in Installs \ {w} : staging'[o] = staging[o]
      BY <1>14, Places DEF Models!StagingChecked, Models!Shape
    <2>2. CASE dVerdict[w] = "available"
      <3>1. Models!Goes(w, "activating") /\ staging' = staging
        BY <1>14, <2>2 DEF Models!StagingChecked, Models!StagingIsWhole
      <3>2. /\ staging[w] \in Models!Directory
            /\ \A f \in Models!Files :
                   f < at[w] => staging[w][f] = "verified"
        BY <2>1, <2>2 DEF Models!StagingIsSound
      <3>3. \A f \in Models!Files : f < at[w]
        BY <2>1, ModelsAssumption DEF Models!HasVerified, Models!Files,
          Models!Shape
      <3>4. Models!Whole(staging[w])
        BY <3>2, <3>3 DEF Models!Whole
      <3> QED
        BY <2>1, <3>1, <3>2, <3>4, OthersStand, OwnStage
    <2>3. CASE dVerdict[w] # "available"
      BY <1>14, <2>1, <2>3, OthersStage, Places DEF Models!StagingChecked,
        Models!StagingIsWhole
    <2> QED
      BY <2>2, <2>3
  <1>15. ASSUME NEW w \in Installs, Models!Activate(w)
          PROVE  Models!StagingIsSound'
    <2>1. w \in Models!Calls /\ Models!Begin(w, "confirming")
      BY <1>15, Places DEF Models!Activate
    <2>2. \A o \in Installs \ {w} : staging'[o] = staging[o]
      BY <1>15 DEF Models!Activate, Models!Shape
    <2> QED
      BY <2>1, <2>2, OthersStage, Places
  <1>16. ASSUME NEW w \in Installs, Models!ConfirmInstall(w)
          PROVE  Models!StagingIsSound'
    <2>1. w \in Models!Calls /\ Models!Goes(w, "told")
      BY <1>16, Places DEF Models!ConfirmInstall
    <2>2. \A o \in Installs \ {w} : staging'[o] = staging[o]
      BY <1>16 DEF Models!ConfirmInstall, Models!Shape
    <2> QED
      BY <2>1, <2>2, OthersStage, Places
  <1>17. ASSUME NEW w \in Installs, Models!DamageStaging(w)
          PROVE  Models!StagingIsSound'
    <2>1. PICK f \in Models!Files, holding \in {"wrong", "missing"} :
            staging' = [staging EXCEPT ![w][f] = holding]
      BY <1>17 DEF Models!DamageStaging
    <2>2. /\ w \in Models!Calls /\ dPc[w] = "downloading"
          /\ dPc' = dPc /\ dVerdict' = dVerdict /\ at' = at
          /\ \A o \in Installs \ {w} : staging'[o] = staging[o]
          /\ staging'[w] = [staging[w] EXCEPT ![f] = holding]
      BY <1>17, <2>1, Places DEF Models!DamageStaging, Models!Shape,
        Models!calls
    <2>3. staging[w] \in Models!Directory
      BY <2>2 DEF Models!StagingIsSound
    <2>4. /\ holding \in {"verified", "wrong", "missing"}
          /\ f \in Models!Files
      BY <2>1
    <2>5. [staging[w] EXCEPT ![f] = holding] \in Models!Directory
      BY <2>3, <2>4, Directories
    <2>6. staging'[w] \in Models!Directory
      BY <2>2, <2>5
    <2> QED
      BY <2>2, <2>6, OwnStage
  <1>18. ASSUME Models!Crash PROVE Models!StagingIsSound'
    BY <1>18 DEF Models!Crash, Models!StagingIsSound
  <1> QED
    BY <1>1, <1>2, <1>3, <1>4, <1>5, <1>6, <1>7, <1>8, <1>9, <1>10, <1>11,
      <1>12, <1>13, <1>14, <1>15, <1>16, <1>17, <1>18 DEF Models!Next,
      Models!ChangeFile, Models!Fault

\* No step of the component leaves the invariant.
LEMMA ModelsStep ==
  ASSUME Models!IInv, [Models!Next]_modelsVars
  PROVE  Models!IInv'
  BY ModelsShape, ModelsLine, ModelsInside, ModelsAlone, ModelsVerified,
    ModelsAllVerified, ModelsStaging DEF Models!IInv

\* No model at all is one that nobody has found available.
LEMMA ModelsBegins == Models!Init => Models!IInv
  <1> SUFFICES ASSUME Models!Init PROVE Models!IInv
    OBVIOUS
  <1>1. Models!Shape
    <2>1. "idle" \in Models!PCs /\ "available" \in Models!Verdicts
      BY Places DEF Models!Verdicts
    <2> QED
      BY <2>1, Directories DEF Models!Init, Models!Shape
  <1>2. Models!LineWaits /\ Models!WorkersAreInside /\ Models!InstallsAreAlone
    BY Places DEF Models!Init, Models!LineWaits, Models!WorkersAreInside,
      Models!InstallsAreAlone
  <1>3. /\ Models!VerifiedSoFar /\ Models!AllIsVerified
        /\ Models!StagingIsSound
    BY DEF Models!Init, Models!VerifiedSoFar, Models!AllIsVerified,
      Models!StagingIsSound
  <1> QED
    BY <1>1, <1>2, <1>3 DEF Models!IInv

\* Only an install puts another model in place, a whole one and while no job
\* uses the old one.
LEMMA ModelsReplaced ==
  ASSUME Models!IInv, [Models!Next]_modelsVars,
         target' # target, dFaults' = dFaults
  PROVE  /\ Models!Whole(target')
         /\ \A j \in Diarizations : dPc[j] # "using"
  <1>1. ~ UNCHANGED modelsVars
    BY DEF modelsVars
  <1>2. ~ Models!ChangeFile
    BY DEF Models!ChangeFile, Models!Fault, Models!IInv, Models!Shape
  <1>3. PICK w \in Installs : Models!Activate(w)
    BY <1>1, <1>2 DEF Models!Next, Models!Wait, Models!Enter,
      Models!VerifyFile, Models!Forget, Models!UseModel,
      Models!EndDiarization, Models!AskStatus, Models!TellStatus,
      Models!CheckInstalled, Models!DownloadFile, Models!InstallFails,
      Models!CheckStaging, Models!StagingChecked, Models!ConfirmInstall,
      Models!DamageStaging, Models!Crash
  <1>4. /\ w \in Models!Calls /\ dPc[w] = "activating"
        /\ target' = staging[w]
    BY <1>3, Places DEF Models!Activate
  <1>5. Models!Whole(staging[w])
    BY <1>4 DEF Models!IInv, Models!StagingIsSound
  <1>6. inside = {w}
    BY <1>4, Places DEF Models!IInv, Models!WorkersAreInside,
      Models!InstallsAreAlone
  <1>7. ASSUME NEW j \in Diarizations, dPc[j] = "using" PROVE FALSE
    BY <1>4, <1>6, <1>7, Places DEF Models!IInv, Models!WorkersAreInside
  <1> QED
    BY <1>4, <1>5, <1>7

\* A model that was found available, file by file and whatever was installed
\* meanwhile, is whole unless somebody touched its files; only an install
\* replaces it, by a whole one in one step and while no job uses it
\* (verify_directory, activate_staging, processing_guard).
THEOREM ModelsStayWhole == AudioSpec => ModelsAreWhole
  <1> DEFINE Inv == component = "models" => Models!IInv
             Replaced == component = "models" =>
               (target' # target /\ dFaults' = dFaults
                  => /\ Models!Whole(target')
                     /\ \A j \in Diarizations : dPc[j] # "using")
  <1>1. AudioInit => Inv
    BY ModelsBegins DEF AudioInit, JobsInit, ChangingInit, CaptureInit,
      TrackInit, ImportInit, OriginInit, TimelinesInit, FilterInit,
      SummaryInit, ChunksInit, ModelsInit, ClockInit
  <1>2. Inv /\ [AudioNext]_everything => Inv'
    <2> SUFFICES ASSUME Inv, [AudioNext]_everything, component' = "models"
                 PROVE  Models!IInv'
      OBVIOUS
    <2>1. [Models!Next]_modelsVars /\ component = "models"
      BY DEF AudioNext, everything, JobsNext, ChangingNext,
        CaptureNext, TrackNext, ImportNext, OriginNext, TimelinesNext,
        FilterNext, SummaryNext, ChunksNext, ModelsNext, ClockNext
    <2> QED
      BY <2>1, ModelsStep
  <1>3. Inv => (component = "models" => Models!TrustedIsWhole)
    <2> SUFFICES ASSUME Models!IInv PROVE Models!TrustedIsWhole
      OBVIOUS
    <2> SUFFICES ASSUME NEW c \in Models!Calls, dPc[c] \in {"using", "told"},
                        dVerdict[c] = "available", c \notin touched
                 PROVE  Models!Whole(target)
      BY DEF Models!TrustedIsWhole
    <2>1. \A f \in Models!Files : f < at[c] => target[f] = "verified"
      BY DEF Models!IInv, Models!VerifiedSoFar
    <2>2. \A f \in Models!Files : f < at[c]
      BY ModelsAssumption DEF Models!IInv, Models!Shape,
        Models!AllIsVerified, Models!HasVerified, Models!Files
    <2> QED
      BY <2>1, <2>2 DEF Models!Whole
  <1>4. Inv /\ [AudioNext]_everything => [Replaced]_everything
    <2> SUFFICES ASSUME Inv, [AudioNext]_everything, component = "models"
                 PROVE  Replaced
      OBVIOUS
    <2>1. [Models!Next]_modelsVars
      BY DEF AudioNext, everything, JobsNext, ChangingNext,
        CaptureNext, TrackNext, ImportNext, OriginNext, TimelinesNext,
        FilterNext, SummaryNext, ChunksNext, ModelsNext, ClockNext
    <2> QED
      BY <2>1, ModelsReplaced
  <1>5. AudioSpec => []Inv
    BY <1>1, <1>2, PTL DEF AudioSpec
  <1> QED
    BY <1>3, <1>4, <1>5, PTL DEF AudioSpec, ModelsAreWhole

-----------------------------------------------------------------------------
(* The import of a file                                                    *)

\* An import begins with nothing.
LEMMA ImportBegins == Import!Init => Import!IInv
  BY DEF Import!Init, Import!IInv, Import!Shape, Import!Stages,
    Import!StageHasItsFolder, Import!HeldAt, Import!Interruptible,
    Import!RowHasItsFolder

\* What the variables of the imports are.
LEMMA ImportShape ==
  ASSUME Import!Shape, [Import!Next]_importVars
  PROVE  Import!Shape'
  <1> USE DEF importVars, Import!task, Import!flags, Import!page,
    Import!bounds
  <1>1. CASE UNCHANGED <<iPc, folder, holds, iRow>>
    BY <1>1 DEF Import!Shape, Import!Stages, Import!Files
  <1>2. ASSUME NEW w \in Imports, Import!Acquire(w) PROVE Import!Shape'
    BY <1>2 DEF Import!Acquire, Import!Goes, Import!Shape, Import!Stages,
      Import!Files
  <1>3. ASSUME NEW w \in Imports, Import!Refuse(w) PROVE Import!Shape'
    BY <1>3 DEF Import!Refuse, Import!Goes, Import!Shape, Import!Stages,
      Import!Files
  <1>4. ASSUME NEW w \in Imports, Import!ClearCancel(w) PROVE Import!Shape'
    BY <1>4 DEF Import!ClearCancel, Import!Goes, Import!Shape, Import!Stages,
      Import!Files
  <1>5. ASSUME NEW w \in Imports, Import!CreateStaging(w) PROVE Import!Shape'
    BY <1>5 DEF Import!CreateStaging, Import!Goes, Import!Shape,
      Import!Stages, Import!Files
  <1>6. ASSUME NEW w \in Imports, Import!CopyOriginal(w) PROVE Import!Shape'
    BY <1>6 DEF Import!CopyOriginal, Import!Goes, Import!Shape,
      Import!Stages, Import!Files
  <1>7. ASSUME NEW w \in Imports, Import!ExtractAudio(w) PROVE Import!Shape'
    BY <1>7 DEF Import!ExtractAudio, Import!Goes, Import!Shape,
      Import!Stages, Import!Files
  <1>8. ASSUME NEW w \in Imports, Import!WriteMetadata(w) PROVE Import!Shape'
    BY <1>8 DEF Import!WriteMetadata, Import!Goes, Import!Shape,
      Import!Stages, Import!Files
  <1>9. ASSUME NEW w \in Imports, Import!Commit(w) PROVE Import!Shape'
    BY <1>9 DEF Import!Commit, Import!Goes, Import!Shape, Import!Stages,
      Import!Files
  <1>10. ASSUME NEW w \in Imports, Import!CreateMeeting(w) PROVE Import!Shape'
    BY <1>10 DEF Import!CreateMeeting, Import!Goes, Import!Shape,
      Import!Stages, Import!Files
  <1>11. ASSUME NEW w \in Imports, Import!SkipTranscription(w)
          PROVE  Import!Shape'
    BY <1>11 DEF Import!SkipTranscription, Import!Goes, Import!Shape,
      Import!Stages, Import!Files
  <1>12. ASSUME NEW w \in Imports, Import!AskTranscription(w)
          PROVE  Import!Shape'
    BY <1>12 DEF Import!AskTranscription, Import!Goes, Import!Shape,
      Import!Stages, Import!Files
  <1>13. ASSUME NEW w \in Imports, Import!Transcribe(w) PROVE Import!Shape'
    BY <1>13 DEF Import!Transcribe, Import!Goes, Import!Shape, Import!Stages,
      Import!Files
  <1>14. ASSUME NEW w \in Imports, Import!NotTranscribed(w)
          PROVE  Import!Shape'
    BY <1>14 DEF Import!NotTranscribed, Import!Goes, Import!Shape,
      Import!Stages, Import!Files
  <1>15. ASSUME NEW w \in Imports, Import!EndTranscription(w)
          PROVE  Import!Shape'
    BY <1>15 DEF Import!EndTranscription, Import!Goes, Import!Shape,
      Import!Stages, Import!Files
  <1>16. ASSUME NEW w \in Imports, Import!Release(w) PROVE Import!Shape'
    BY <1>16 DEF Import!Release, Import!Goes, Import!Shape, Import!Stages,
      Import!Files
  <1>17. ASSUME NEW w \in Imports, Import!StopCancelled(w) PROVE Import!Shape'
    BY <1>17 DEF Import!StopCancelled, Import!Drop, Import!Shape,
      Import!Stages, Import!Files
  <1>18. ASSUME NEW w \in Imports, Import!StopFailed(w) PROVE Import!Shape'
    BY <1>18 DEF Import!StopFailed, Import!Drop, Import!Trouble,
      Import!Shape, Import!Stages, Import!Files
  <1>19. ASSUME NEW w \in Imports, Import!StopUnremoved(w) PROVE Import!Shape'
    BY <1>19 DEF Import!StopUnremoved, Import!Trouble, Import!Shape,
      Import!Stages, Import!Files
  <1>20. ASSUME Import!Crash PROVE Import!Shape'
    BY <1>20 DEF Import!Crash, Import!Shape, Import!Stages, Import!Files
  <1> QED
    BY <1>1, <1>2, <1>3, <1>4, <1>5, <1>6, <1>7, <1>8, <1>9, <1>10, <1>11,
      <1>12, <1>13, <1>14, <1>15, <1>16, <1>17, <1>18, <1>19, <1>20 DEF
      Import!Next, Import!Task, Import!Open, Import!Close, Import!AskCancel,
      Import!CancelRefused, Import!CancelAllowed, Import!Cancel, Import!Hear,
      Import!OtherBegins, Import!OtherEnds, Import!StartImport

\* The task of an import has the folder of its stage.
LEMMA ImportStages ==
  ASSUME Import!Shape, Import!StageHasItsFolder, [Import!Next]_importVars
  PROVE  Import!StageHasItsFolder'
  <1> USE DEF importVars, Import!task, Import!flags, Import!page,
    Import!bounds
  <1>1. CASE UNCHANGED <<iPc, folder, holds, iRow>>
    BY <1>1 DEF Import!Shape, Import!StageHasItsFolder, Import!HeldAt,
      Import!Interruptible, Import!Files
  <1>2. ASSUME NEW w \in Imports, Import!Acquire(w)
         PROVE  Import!StageHasItsFolder'
    BY <1>2 DEF Import!Acquire, Import!Goes, Import!Shape,
      Import!StageHasItsFolder, Import!HeldAt, Import!Interruptible,
      Import!Files
  <1>3. ASSUME NEW w \in Imports, Import!Refuse(w)
         PROVE  Import!StageHasItsFolder'
    BY <1>3 DEF Import!Refuse, Import!Goes, Import!Shape,
      Import!StageHasItsFolder, Import!HeldAt, Import!Interruptible,
      Import!Files
  <1>4. ASSUME NEW w \in Imports, Import!ClearCancel(w)
         PROVE  Import!StageHasItsFolder'
    BY <1>4 DEF Import!ClearCancel, Import!Goes, Import!Shape,
      Import!StageHasItsFolder, Import!HeldAt, Import!Interruptible,
      Import!Files
  <1>5. ASSUME NEW w \in Imports, Import!CreateStaging(w)
         PROVE  Import!StageHasItsFolder'
    BY <1>5 DEF Import!CreateStaging, Import!Goes, Import!Shape,
      Import!StageHasItsFolder, Import!HeldAt, Import!Interruptible,
      Import!Files
  <1>6. ASSUME NEW w \in Imports, Import!CopyOriginal(w)
         PROVE  Import!StageHasItsFolder'
    BY <1>6 DEF Import!CopyOriginal, Import!Goes, Import!Shape,
      Import!StageHasItsFolder, Import!HeldAt, Import!Interruptible,
      Import!Files
  <1>7. ASSUME NEW w \in Imports, Import!ExtractAudio(w)
         PROVE  Import!StageHasItsFolder'
    BY <1>7 DEF Import!ExtractAudio, Import!Goes, Import!Shape,
      Import!StageHasItsFolder, Import!HeldAt, Import!Interruptible,
      Import!Files
  <1>8. ASSUME NEW w \in Imports, Import!WriteMetadata(w)
         PROVE  Import!StageHasItsFolder'
    BY <1>8 DEF Import!WriteMetadata, Import!Goes, Import!Shape,
      Import!StageHasItsFolder, Import!HeldAt, Import!Interruptible,
      Import!Files
  <1>9. ASSUME NEW w \in Imports, Import!Commit(w)
         PROVE  Import!StageHasItsFolder'
    BY <1>9 DEF Import!Commit, Import!Goes, Import!Shape,
      Import!StageHasItsFolder, Import!HeldAt, Import!Interruptible,
      Import!Files
  <1>10. ASSUME NEW w \in Imports, Import!CreateMeeting(w)
          PROVE  Import!StageHasItsFolder'
    BY <1>10 DEF Import!CreateMeeting, Import!Goes, Import!Shape,
      Import!StageHasItsFolder, Import!HeldAt, Import!Interruptible,
      Import!Files
  <1>11. ASSUME NEW w \in Imports, Import!SkipTranscription(w)
          PROVE  Import!StageHasItsFolder'
    BY <1>11 DEF Import!SkipTranscription, Import!Goes, Import!Shape,
      Import!StageHasItsFolder, Import!HeldAt, Import!Interruptible,
      Import!Files
  <1>12. ASSUME NEW w \in Imports, Import!AskTranscription(w)
          PROVE  Import!StageHasItsFolder'
    BY <1>12 DEF Import!AskTranscription, Import!Goes, Import!Shape,
      Import!StageHasItsFolder, Import!HeldAt, Import!Interruptible,
      Import!Files
  <1>13. ASSUME NEW w \in Imports, Import!Transcribe(w)
          PROVE  Import!StageHasItsFolder'
    BY <1>13 DEF Import!Transcribe, Import!Goes, Import!Shape,
      Import!StageHasItsFolder, Import!HeldAt, Import!Interruptible,
      Import!Files
  <1>14. ASSUME NEW w \in Imports, Import!NotTranscribed(w)
          PROVE  Import!StageHasItsFolder'
    BY <1>14 DEF Import!NotTranscribed, Import!Goes, Import!Shape,
      Import!StageHasItsFolder, Import!HeldAt, Import!Interruptible,
      Import!Files
  <1>15. ASSUME NEW w \in Imports, Import!EndTranscription(w)
          PROVE  Import!StageHasItsFolder'
    BY <1>15 DEF Import!EndTranscription, Import!Goes, Import!Shape,
      Import!StageHasItsFolder, Import!HeldAt, Import!Interruptible,
      Import!Files
  <1>16. ASSUME NEW w \in Imports, Import!Release(w)
          PROVE  Import!StageHasItsFolder'
    BY <1>16 DEF Import!Release, Import!Goes, Import!Shape,
      Import!StageHasItsFolder, Import!HeldAt, Import!Interruptible,
      Import!Files
  <1>17. ASSUME NEW w \in Imports, Import!StopCancelled(w)
          PROVE  Import!StageHasItsFolder'
    BY <1>17 DEF Import!StopCancelled, Import!Drop, Import!Shape,
      Import!StageHasItsFolder, Import!HeldAt, Import!Interruptible,
      Import!Files
  <1>18. ASSUME NEW w \in Imports, Import!StopFailed(w)
          PROVE  Import!StageHasItsFolder'
    BY <1>18 DEF Import!StopFailed, Import!Drop, Import!Trouble,
      Import!Shape, Import!StageHasItsFolder, Import!HeldAt,
      Import!Interruptible, Import!Files
  <1>19. ASSUME NEW w \in Imports, Import!StopUnremoved(w)
          PROVE  Import!StageHasItsFolder'
    BY <1>19 DEF Import!StopUnremoved, Import!Trouble, Import!Shape,
      Import!StageHasItsFolder, Import!HeldAt, Import!Interruptible,
      Import!Files
  <1>20. ASSUME Import!Crash PROVE Import!StageHasItsFolder'
    BY <1>20 DEF Import!Crash, Import!Shape, Import!StageHasItsFolder,
      Import!HeldAt, Import!Interruptible, Import!Files
  <1> QED
    BY <1>1, <1>2, <1>3, <1>4, <1>5, <1>6, <1>7, <1>8, <1>9, <1>10, <1>11,
      <1>12, <1>13, <1>14, <1>15, <1>16, <1>17, <1>18, <1>19, <1>20 DEF
      Import!Next, Import!Task, Import!Open, Import!Close, Import!AskCancel,
      Import!CancelRefused, Import!CancelAllowed, Import!Cancel, Import!Hear,
      Import!OtherBegins, Import!OtherEnds, Import!StartImport

\* A row has its folder.
LEMMA ImportRows ==
  ASSUME Import!Shape, Import!StageHasItsFolder, Import!RowHasItsFolder,
    [Import!Next]_importVars
  PROVE  Import!RowHasItsFolder'
  <1> USE DEF importVars, Import!task, Import!flags, Import!page,
    Import!bounds
  <1>1. CASE UNCHANGED <<folder, holds, iRow>>
    BY <1>1 DEF Import!Shape, Import!StageHasItsFolder,
      Import!RowHasItsFolder, Import!HeldAt, Import!Interruptible
  <1>2. ASSUME NEW w \in Imports, Import!CreateStaging(w)
         PROVE  Import!RowHasItsFolder'
    BY <1>2 DEF Import!CreateStaging, Import!Goes, Import!Shape,
      Import!StageHasItsFolder, Import!RowHasItsFolder, Import!HeldAt,
      Import!Interruptible
  <1>3. ASSUME NEW w \in Imports, Import!CopyOriginal(w)
         PROVE  Import!RowHasItsFolder'
    BY <1>3 DEF Import!CopyOriginal, Import!Goes, Import!Shape,
      Import!StageHasItsFolder, Import!RowHasItsFolder, Import!HeldAt,
      Import!Interruptible
  <1>4. ASSUME NEW w \in Imports, Import!ExtractAudio(w)
         PROVE  Import!RowHasItsFolder'
    BY <1>4 DEF Import!ExtractAudio, Import!Goes, Import!Shape,
      Import!StageHasItsFolder, Import!RowHasItsFolder, Import!HeldAt,
      Import!Interruptible
  <1>5. ASSUME NEW w \in Imports, Import!WriteMetadata(w)
         PROVE  Import!RowHasItsFolder'
    BY <1>5 DEF Import!WriteMetadata, Import!Goes, Import!Shape,
      Import!StageHasItsFolder, Import!RowHasItsFolder, Import!HeldAt,
      Import!Interruptible
  <1>6. ASSUME NEW w \in Imports, Import!Commit(w)
         PROVE  Import!RowHasItsFolder'
    BY <1>6 DEF Import!Commit, Import!Goes, Import!Shape,
      Import!StageHasItsFolder, Import!RowHasItsFolder, Import!HeldAt,
      Import!Interruptible
  <1>7. ASSUME NEW w \in Imports, Import!CreateMeeting(w)
         PROVE  Import!RowHasItsFolder'
    BY <1>7 DEF Import!CreateMeeting, Import!Goes, Import!Shape,
      Import!StageHasItsFolder, Import!RowHasItsFolder, Import!HeldAt,
      Import!Interruptible
  <1>8. ASSUME NEW w \in Imports, Import!StopCancelled(w)
         PROVE  Import!RowHasItsFolder'
    BY <1>8 DEF Import!StopCancelled, Import!Drop, Import!Shape,
      Import!StageHasItsFolder, Import!RowHasItsFolder, Import!HeldAt,
      Import!Interruptible
  <1>9. ASSUME NEW w \in Imports, Import!StopFailed(w)
         PROVE  Import!RowHasItsFolder'
    BY <1>9 DEF Import!StopFailed, Import!Drop, Import!Trouble, Import!Shape,
      Import!StageHasItsFolder, Import!RowHasItsFolder, Import!HeldAt,
      Import!Interruptible
  <1> QED
    BY <1>1, <1>2, <1>3, <1>4, <1>5, <1>6, <1>7, <1>8, <1>9 DEF Import!Next,
      Import!Task, Import!Open, Import!Close, Import!AskCancel,
      Import!CancelRefused, Import!CancelAllowed, Import!Cancel, Import!Hear,
      Import!OtherBegins, Import!OtherEnds, Import!Crash, Import!StartImport,
      Import!Acquire, Import!Refuse, Import!ClearCancel,
      Import!SkipTranscription, Import!AskTranscription, Import!Transcribe,
      Import!NotTranscribed, Import!EndTranscription, Import!Release,
      Import!StopUnremoved, Import!Goes, Import!Trouble

\* No step of the component leaves the invariant.
LEMMA ImportStep ==
  ASSUME Import!IInv, [Import!Next]_importVars
  PROVE  Import!IInv'
  BY ImportShape, ImportStages, ImportRows DEF Import!IInv

\* A Session that an import made has its folder in place with every file of it,
\* and an import that failed or was cancelled leaves none, wherever it fails,
\* is cancelled or the process ends (run_import).
THEOREM ImportsAreWhole == AudioSpec => []ImportIsWholeOrNothing
  <1> DEFINE Inv == component = "import" => Import!IInv
  <1>1. AudioInit => Inv
    BY ImportBegins DEF AudioInit, JobsInit, ChangingInit, CaptureInit,
      TrackInit, ImportInit, OriginInit, TimelinesInit, FilterInit,
      SummaryInit, ChunksInit, ModelsInit, ClockInit
  <1>2. Inv /\ [AudioNext]_everything => Inv'
    <2> SUFFICES ASSUME Inv, [AudioNext]_everything, component' = "import"
                 PROVE  Import!IInv'
      OBVIOUS
    <2>1. [Import!Next]_importVars /\ component = "import"
      BY DEF AudioNext, everything, JobsNext, ChangingNext, CaptureNext,
        TrackNext, ImportNext, OriginNext, TimelinesNext, FilterNext,
        SummaryNext, ChunksNext, ModelsNext, ClockNext
    <2> QED
      BY <2>1, ImportStep
  <1>3. Inv => ImportIsWholeOrNothing
    BY DEF ImportIsWholeOrNothing, Import!IInv, Import!StageHasItsFolder,
      Import!FailureLeavesNoFolder
  <1> QED
    BY <1>1, <1>2, <1>3, PTL DEF AudioSpec

-----------------------------------------------------------------------------
(* The summaries                                                           *)

\* What a task that is over leaves.
LEMMA OverEnds ==
  ASSUME Summary!Shape, Summary!EnglishIsOfItsText,
         NEW t \in Tasks, Summary!Over(t)
  PROVE  /\ Summary!Shape' /\ Summary!EnglishIsOfItsText'
         /\ sPc'[t] = "idle"
  BY DEF Summary!Over, Summary!At, Summary!Shape, Summary!TaskPCs,
    Summary!Passes, Summary!EnglishIsOfItsText

\* A task that goes to another place, and not to one where its English
\* matters.
LEMMA AtAnother ==
  ASSUME Summary!Shape, Summary!EnglishIsOfItsText, NEW t \in Tasks,
         sPc[t] # "idle",
         NEW place \in {"spawned", "registered"}, Summary!At(t, place),
         UNCHANGED <<pass, text, english, outcome>>
  PROVE  Summary!Shape' /\ Summary!EnglishIsOfItsText'
  BY DEF Summary!At, Summary!Shape, Summary!TaskPCs,
    Summary!EnglishIsOfItsText

\* A call of the model, or the end of the generation: the English form is of
\* the text where it is going to be used.
LEMMA CallsKeepEnglish ==
  ASSUME Summary!Shape, Summary!EnglishIsOfItsText, NEW t \in Tasks,
         sPc[t] # "idle", text' = text,
         english' \in [Tasks -> Texts \cup {None}],
         \A o \in Tasks \ {t} : english'[o] = english[o],
         NEW p \in Summary!Passes, NEW n,
         Summary!Calls(t, p, n),
         p \in {"translate", "normalize"} => english'[t] = text[t]
  PROVE  Summary!Shape' /\ Summary!EnglishIsOfItsText'
  <1>1. CASE t \in sCancelled
    <2>1. /\ sPc' = [sPc EXCEPT ![t] = "leaving"]
          /\ outcome' = [outcome EXCEPT ![t] = "cancelled"]
          /\ pass' = [pass EXCEPT ![t] = "final"]
      BY <1>1 DEF Summary!Calls, Summary!Ends, Summary!At
    <2> QED
      BY <2>1 DEF Summary!Shape, Summary!TaskPCs, Summary!Passes,
        Summary!EnglishIsOfItsText
  <1>2. CASE t \notin sCancelled
    <2>1. /\ sPc' = [sPc EXCEPT ![t] = "awaiting"]
          /\ outcome' = outcome
          /\ pass' = [pass EXCEPT ![t] = p]
      BY <1>2 DEF Summary!Calls, Summary!At
    <2> QED
      BY <2>1 DEF Summary!Shape, Summary!TaskPCs,
        Summary!EnglishIsOfItsText
  <1> QED
    BY <1>1, <1>2

\* What a task leaves that ends: a good end has made the English of its text.
LEMMA EndsKeepEnglish ==
  ASSUME Summary!Shape, Summary!EnglishIsOfItsText, NEW t \in Tasks,
         sPc[t] # "idle", text' = text,
         english' \in [Tasks -> Texts \cup {None}],
         \A o \in Tasks \ {t} : english'[o] = english[o],
         NEW how \in {"ok", "failed", "cancelled"}, Summary!Ends(t, how),
         how = "ok" => english'[t] = text[t]
  PROVE  Summary!Shape' /\ Summary!EnglishIsOfItsText'
  <1>1. /\ sPc' = [sPc EXCEPT ![t] = "leaving"]
        /\ outcome' = [outcome EXCEPT ![t] = how]
        /\ pass' = [pass EXCEPT ![t] = "final"]
    BY DEF Summary!Ends, Summary!At
  <1> QED
    BY <1>1 DEF Summary!Shape, Summary!TaskPCs, Summary!Passes,
      Summary!EnglishIsOfItsText

\* The English form that is cached is none, or is of the text.
LEMMA CachedIsOfItsText ==
  ASSUME Summary!SummaryIsOfItsText, NEW t \in Tasks, text[t] \in Texts
  PROVE  Summary!CachedEnglish(t) \in {None, text[t]}
  BY SummaryAssumption DEF Summary!CachedEnglish, Summary!SummaryIsOfItsText

\* The passes of a generation.
LEMMA PassNames ==
  \A p \in {"chunk", "combine", "final", "translate", "normalize"} :
     p \in Summary!Passes
  BY DEF Summary!Passes

\* What a task translates or writes is the English form of its text.
LEMMA SummaryEnglish ==
  ASSUME Summary!Shape, Summary!EnglishIsOfItsText,
         Summary!SummaryIsOfItsText, [Summary!Next]_summaryVars
  PROVE  Summary!Shape' /\ Summary!EnglishIsOfItsText'
  <1> DEFINE Goal == Summary!Shape' /\ Summary!EnglishIsOfItsText'
  <1> USE DEF summaryVars, Summary!row, Summary!tokens, Summary!work,
              Summary!history, Summary!bounds
  <1>0. \A t \in Tasks :
           /\ sPc[t] # "idle" => text[t] \in Texts
           /\ english[t] \in Texts \cup {None}
           /\ text[t] \in Texts \cup {None}
           /\ pass[t] \in Summary!Passes
    BY DEF Summary!EnglishIsOfItsText, Summary!Shape
  <1>1. CASE UNCHANGED <<sPc, pass, text, english, outcome>>
    BY <1>1 DEF Summary!Shape, Summary!EnglishIsOfItsText
  <1>2. ASSUME NEW t \in Tasks, NEW v \in Texts, NEW l \in Summary!Languages,
               Summary!ResetProcess(t, v, l)
        PROVE  Goal
    BY <1>2 DEF Summary!ResetProcess, Summary!At, Summary!Shape,
      Summary!TaskPCs, Summary!EnglishIsOfItsText
  <1>3. ASSUME NEW t \in Tasks, Summary!SaveTranscriptData(t) PROVE Goal
    <2>1. CASE Summary!Over(t)
      BY <2>1, OverEnds
    <2>2. CASE ~ Summary!Over(t)
      <3>1. /\ sPc[t] # "idle" /\ Summary!At(t, "spawned")
            /\ UNCHANGED <<pass, text, english, outcome>>
        BY <1>3, <2>2 DEF Summary!SaveTranscriptData
      <3> QED
        BY <3>1, AtAnother
    <2> QED
      BY <2>1, <2>2
  <1>4. ASSUME NEW t \in Tasks, Summary!RegisterToken(t) PROVE Goal
    BY <1>4, AtAnother DEF Summary!RegisterToken
  <1>5. ASSUME NEW t \in Tasks, Summary!RefuseSettings(t) PROVE Goal
    BY <1>5, OverEnds DEF Summary!RefuseSettings
  <1>6. ASSUME NEW t \in Tasks, Summary!Prepare(t) PROVE Goal
    <2>1. /\ sPc[t] # "idle" /\ text' = text /\ text[t] \in Texts
          /\ english' = [english EXCEPT ![t] = Summary!CachedEnglish(t)]
      BY <1>0, <1>6 DEF Summary!Prepare
    <2>2. Summary!CachedEnglish(t) \in {None, text[t]}
      BY <2>1, CachedIsOfItsText
    <2>3. /\ english' \in [Tasks -> Texts \cup {None}]
          /\ english'[t] = Summary!CachedEnglish(t)
          /\ \A o \in Tasks \ {t} : english'[o] = english[o]
      BY <2>1, <2>2 DEF Summary!Shape
    <2>4. CASE Summary!CachedEnglish(t) # None
      <3>1. Summary!Calls(t, "translate", 0) /\ english'[t] = text[t]
        BY <1>6, <2>2, <2>3, <2>4 DEF Summary!Prepare
      <3> QED
        BY <2>1, <2>3, <3>1, PassNames, CallsKeepEnglish
    <2>5. CASE Summary!CachedEnglish(t) = None
      <3>1. Summary!Calls(t, "final", 0) \/ Summary!Calls(t, "chunk", 0)
        BY <1>6, <2>5 DEF Summary!Prepare
      <3> QED
        BY <2>1, <2>3, <3>1, PassNames, CallsKeepEnglish
    <2> QED
      BY <2>4, <2>5
  <1>7. ASSUME NEW t \in Tasks, NEW n, sPc[t] = "awaiting", text' = text,
               Summary!AnswerChunk(t, n)
        PROVE  Goal
    <2>1. /\ sPc[t] # "idle" /\ english' = english
          /\ english' \in [Tasks -> Texts \cup {None}]
      BY <1>7 DEF Summary!AnswerChunk, Summary!Shape
    <2>2. CASE Summary!Ends(t, "failed")
      BY <1>7, <2>1, <2>2, EndsKeepEnglish
    <2>3. CASE ~ Summary!Ends(t, "failed")
      <3>1. PICK p \in {"chunk", "final", "combine"} :
               \E k : Summary!Calls(t, p, k)
        BY <1>7, <2>3 DEF Summary!AnswerChunk
      <3>2. PICK k : Summary!Calls(t, p, k)
        BY <3>1
      <3> QED
        BY <1>7, <2>1, <3>2, PassNames, CallsKeepEnglish
    <2> QED
      BY <2>2, <2>3
  <1>8. ASSUME NEW t \in Tasks, sPc[t] = "awaiting", text' = text,
               Summary!AnswerFinal(t)
        PROVE  Goal
    <2>1. /\ sPc[t] # "idle" /\ text[t] \in Texts
          /\ english' = [english EXCEPT ![t] = text[t]]
      BY <1>0, <1>8 DEF Summary!AnswerFinal
    <2>2. /\ english' \in [Tasks -> Texts \cup {None}]
          /\ english'[t] = text[t]
          /\ \A o \in Tasks \ {t} : english'[o] = english[o]
      BY <2>1 DEF Summary!Shape
    <2>3. CASE Summary!Ends(t, "ok")
      BY <1>8, <2>1, <2>2, <2>3, EndsKeepEnglish
    <2>4. CASE ~ Summary!Ends(t, "ok")
      <3>1. PICK p \in {"translate", "normalize"} : Summary!Calls(t, p, 0)
        BY <1>8, <2>4 DEF Summary!AnswerFinal
      <3> QED
        BY <1>8, <2>1, <2>2, <3>1, PassNames, CallsKeepEnglish
    <2> QED
      BY <2>3, <2>4
  <1>9. ASSUME NEW t \in Tasks, Summary!Answer(t) PROVE Goal
    <2>1. sPc[t] = "awaiting" /\ text' = text
      BY <1>9 DEF Summary!Answer
    <2>2. CASE Summary!AnswerChunk(t, 1)
      BY <2>1, <2>2, <1>7
    <2>3. CASE Summary!Calls(t, "final", 0) /\ english' = english
      <3>1. sPc[t] # "idle" /\ english' \in [Tasks -> Texts \cup {None}]
        BY <2>1, <2>3 DEF Summary!Shape
      <3> QED
        BY <2>1, <2>3, <3>1, PassNames, CallsKeepEnglish
    <2>4. CASE Summary!AnswerFinal(t)
      BY <2>1, <2>4, <1>8
    <2>5. CASE /\ pass[t] \in {"translate", "normalize"}
               /\ Summary!Ends(t, "ok") /\ english' = english
      <3>1. /\ sPc[t] # "idle" /\ english' \in [Tasks -> Texts \cup {None}]
            /\ english'[t] = text[t]
        BY <2>1, <2>5 DEF Summary!Shape, Summary!EnglishIsOfItsText
      <3> QED
        BY <2>1, <2>5, <3>1, EndsKeepEnglish
    <2> QED
      BY <1>9, <2>2, <2>3, <2>4, <2>5 DEF Summary!Answer
  <1>10. ASSUME NEW t \in Tasks, Summary!AnswerFails(t) PROVE Goal
    <2>1. sPc[t] = "awaiting" /\ text' = text
      BY <1>10 DEF Summary!AnswerFails
    <2>2. CASE Summary!AnswerChunk(t, 0)
      BY <2>1, <2>2, <1>7
    <2>3. CASE ~ Summary!AnswerChunk(t, 0)
      <3>1. /\ english' = english /\ sPc[t] # "idle"
            /\ english' \in [Tasks -> Texts \cup {None}]
        BY <1>10, <2>1, <2>3 DEF Summary!AnswerFails, Summary!Shape
      <3>2. CASE pass[t] = "normalize"
        <4>1. Summary!Ends(t, "ok") /\ english'[t] = text[t]
          BY <1>10, <2>1, <2>3, <3>1, <3>2 DEF Summary!AnswerFails,
            Summary!EnglishIsOfItsText
        <4> QED
          BY <2>1, <3>1, <4>1, EndsKeepEnglish
      <3>3. CASE pass[t] # "normalize"
        <4>1. Summary!Ends(t, "failed")
          BY <1>10, <2>3, <3>3 DEF Summary!AnswerFails
        <4> QED
          BY <2>1, <3>1, <4>1, EndsKeepEnglish
      <3> QED
        BY <3>2, <3>3
    <2> QED
      BY <2>2, <2>3
  <1>11. ASSUME NEW t \in Tasks, Summary!AnswerCancelled(t) PROVE Goal
    <2>1. /\ sPc[t] # "idle" /\ text' = text /\ english' = english
          /\ english' \in [Tasks -> Texts \cup {None}]
          /\ Summary!Ends(t, "cancelled")
      BY <1>11 DEF Summary!AnswerCancelled, Summary!Shape
    <2> QED
      BY <2>1, EndsKeepEnglish
  <1>12. ASSUME NEW t \in Tasks, Summary!CleanupToken(t) PROVE Goal
    BY <1>12 DEF Summary!CleanupToken, Summary!At, Summary!Shape,
      Summary!TaskPCs, Summary!EnglishIsOfItsText
  <1>13. ASSUME NEW t \in Tasks, Summary!Write(t) PROVE Goal
    BY <1>13, OverEnds DEF Summary!Write
  <1>14. ASSUME Summary!Restart PROVE Goal
    BY <1>14 DEF Summary!Restart, Summary!Shape, Summary!TaskPCs,
      Summary!Passes, Summary!EnglishIsOfItsText
  <1> QED
    BY <1>1, <1>2, <1>3, <1>4, <1>5, <1>6, <1>9, <1>10, <1>11, <1>12, <1>13,
      <1>14 DEF Summary!Next, Summary!TaskStep, Summary!CancelToken,
      Summary!CancelRow, Summary!SaveMeetingSummary

\* A summary is of the text it claims to be of.
LEMMA SummaryTrue ==
  ASSUME Summary!BackupIsSound, Summary!EnglishIsOfItsText,
    Summary!SummaryIsOfItsText, [Summary!Next]_summaryVars
  PROVE  Summary!SummaryIsOfItsText'
  <1> USE DEF summaryVars, Summary!row, Summary!tokens, Summary!work,
    Summary!history, Summary!bounds
  <1>1. CASE UNCHANGED <<result>>
    BY <1>1 DEF Summary!SummaryIsOfItsText, Summary!BackupIsSound,
      Summary!IsOfItsText
  <1>2. ASSUME NEW t \in Tasks, Summary!RefuseSettings(t)
         PROVE  Summary!SummaryIsOfItsText'
    BY <1>2 DEF Summary!RefuseSettings, Summary!Over, Summary!Trouble,
      Summary!Settle, Summary!Restore, Summary!SummaryIsOfItsText,
      Summary!BackupIsSound, Summary!IsOfItsText
  <1>3. ASSUME NEW t \in Tasks, Summary!Write(t)
         PROVE  Summary!SummaryIsOfItsText'
    <2>1. CASE outcome[t] = "ok" /\ Summary!Completed(
            [text |-> english[t], source |-> text[t], lang |-> lang[t]])
      <3>1. english[t] = text[t]
        BY <1>3, <2>1 DEF Summary!Write, Summary!EnglishIsOfItsText
      <3> QED
        BY <2>1, <3>1 DEF Summary!Completed, Summary!SummaryIsOfItsText
    <2>2. CASE Summary!Settle(outcome[t])
      BY <1>3, <2>2 DEF Summary!Settle, Summary!Restore, Summary!IsOfItsText,
        Summary!BackupIsSound, Summary!SummaryIsOfItsText
    <2>3. CASE UNCHANGED <<sStatus, result, backup>>
      BY <1>3, <2>3 DEF Summary!SummaryIsOfItsText
    <2> QED
      BY <1>3, <2>1, <2>2, <2>3 DEF Summary!Write
  <1>4. ASSUME Summary!CancelRow PROVE Summary!SummaryIsOfItsText'
    BY <1>4 DEF Summary!CancelRow, Summary!Trouble, Summary!Settle,
      Summary!Restore, Summary!SummaryIsOfItsText, Summary!BackupIsSound,
      Summary!IsOfItsText
  <1>5. ASSUME Summary!SaveMeetingSummary PROVE Summary!SummaryIsOfItsText'
    BY <1>5 DEF Summary!SaveMeetingSummary, Summary!Trouble,
      Summary!SummaryIsOfItsText, Summary!BackupIsSound, Summary!IsOfItsText
  <1>6. ASSUME NEW t \in Tasks, NEW v \in Texts, NEW l \in Summary!Languages,
    Summary!ResetProcess(t, v, l)
         PROVE  Summary!SummaryIsOfItsText'
    BY <1>6 DEF Summary!ResetProcess, Summary!At, Summary!SummaryIsOfItsText,
      Summary!BackupIsSound, Summary!IsOfItsText
  <1> QED
    BY <1>1, <1>2, <1>3, <1>4, <1>5, <1>6 DEF Summary!Next, Summary!TaskStep,
      Summary!SaveTranscriptData, Summary!RegisterToken, Summary!Prepare,
      Summary!Answer, Summary!AnswerFails, Summary!AnswerCancelled,
      Summary!CleanupToken, Summary!CancelToken, Summary!Restart, Summary!At,
      Summary!Over, Summary!Trouble

\* A backup is of its text and, unless edited since, the last summary.
LEMMA SummaryBackup ==
  ASSUME Summary!BackupIsSound, Summary!SummaryIsOfItsText,
    [Summary!Next]_summaryVars
  PROVE  Summary!BackupIsSound'
  <1> USE DEF summaryVars, Summary!row, Summary!tokens, Summary!work,
    Summary!history, Summary!bounds
  <1>1. CASE UNCHANGED <<backup, edited, last>>
    BY <1>1 DEF Summary!BackupIsSound, Summary!IsOfItsText
  <1>2. ASSUME NEW t \in Tasks, Summary!RefuseSettings(t)
         PROVE  Summary!BackupIsSound'
    BY <1>2 DEF Summary!RefuseSettings, Summary!Over, Summary!Trouble,
      Summary!Settle, Summary!Restore, Summary!BackupIsSound,
      Summary!IsOfItsText
  <1>3. ASSUME NEW t \in Tasks, Summary!Write(t) PROVE Summary!BackupIsSound'
    <2>1. CASE Summary!Completed(
            [text |-> english[t], source |-> text[t], lang |-> lang[t]])
      BY <2>1 DEF Summary!Completed, Summary!BackupIsSound,
        Summary!IsOfItsText
    <2>2. CASE Summary!Settle(outcome[t])
      BY <2>2 DEF Summary!Settle, Summary!Restore, Summary!BackupIsSound,
        Summary!IsOfItsText
    <2>3. CASE UNCHANGED <<sStatus, result, backup, edited, last>>
      BY <2>3 DEF Summary!BackupIsSound, Summary!IsOfItsText
    <2> QED
      BY <1>3, <2>1, <2>2, <2>3 DEF Summary!Write
  <1>4. ASSUME Summary!CancelRow PROVE Summary!BackupIsSound'
    BY <1>4 DEF Summary!CancelRow, Summary!Trouble, Summary!Settle,
      Summary!Restore, Summary!BackupIsSound, Summary!IsOfItsText
  <1>5. ASSUME Summary!SaveMeetingSummary PROVE Summary!BackupIsSound'
    <2>1. backup' = backup
      BY <1>5 DEF Summary!SaveMeetingSummary
    <2>2. CASE backup = None
      BY <2>1, <2>2 DEF Summary!BackupIsSound, Summary!IsOfItsText
    <2>3. CASE backup # None
      <3>1. edited'
        BY <1>5, <2>3 DEF Summary!SaveMeetingSummary
      <3> QED
        BY <2>1, <3>1 DEF Summary!BackupIsSound, Summary!IsOfItsText
    <2> QED
      BY <2>2, <2>3
  <1>6. ASSUME NEW t \in Tasks, NEW v \in Texts, NEW l \in Summary!Languages,
    Summary!ResetProcess(t, v, l)
         PROVE  Summary!BackupIsSound'
    <2>1. backup' = result /\ last' = last
      BY <1>6 DEF Summary!ResetProcess
    <2>2. CASE result = last
      BY <2>1, <2>2 DEF Summary!BackupIsSound, Summary!IsOfItsText,
        Summary!SummaryIsOfItsText
    <2>3. CASE result # last
      <3>1. edited'
        BY <1>6, <2>3 DEF Summary!ResetProcess
      <3> QED
        BY <2>1, <3>1 DEF Summary!BackupIsSound, Summary!IsOfItsText,
          Summary!SummaryIsOfItsText
    <2> QED
      BY <2>2, <2>3
  <1> QED
    BY <1>1, <1>2, <1>3, <1>4, <1>5, <1>6 DEF Summary!Next, Summary!TaskStep,
      Summary!SaveTranscriptData, Summary!RegisterToken, Summary!Prepare,
      Summary!Answer, Summary!AnswerFails, Summary!AnswerCancelled,
      Summary!CleanupToken, Summary!CancelToken, Summary!Restart, Summary!At,
      Summary!Over, Summary!Trouble

\* Unless it was edited meanwhile, the last summary is the one that is shown.
LEMMA SummaryKept ==
  ASSUME Summary!BackupIsSound, Summary!LastSummaryIsKept,
    [Summary!Next]_summaryVars
  PROVE  Summary!LastSummaryIsKept'
  <1> USE DEF summaryVars, Summary!row, Summary!tokens, Summary!work,
    Summary!history, Summary!bounds
  <1>1. CASE UNCHANGED <<result, edited, last>>
    BY <1>1 DEF Summary!LastSummaryIsKept, Summary!BackupIsSound
  <1>2. ASSUME NEW t \in Tasks, Summary!RefuseSettings(t)
         PROVE  Summary!LastSummaryIsKept'
    BY <1>2 DEF Summary!RefuseSettings, Summary!Over, Summary!Trouble,
      Summary!Settle, Summary!Restore, Summary!LastSummaryIsKept,
      Summary!BackupIsSound
  <1>3. ASSUME NEW t \in Tasks, Summary!Write(t)
         PROVE  Summary!LastSummaryIsKept'
    <2>1. CASE /\ Summary!Completed(
                   [text |-> english[t], source |-> text[t],
                    lang |-> lang[t]])
               /\ last' = [text |-> english[t], source |-> text[t],
                           lang |-> lang[t]]
      BY <2>1 DEF Summary!Completed, Summary!LastSummaryIsKept
    <2>2. CASE Summary!Settle(outcome[t]) /\ UNCHANGED <<edited, last>>
      BY <2>2 DEF Summary!Settle, Summary!Restore, Summary!BackupIsSound,
        Summary!LastSummaryIsKept
    <2>3. CASE UNCHANGED <<sStatus, result, backup, edited, last>>
      BY <2>3 DEF Summary!LastSummaryIsKept
    <2> QED
      BY <1>3, <2>1, <2>2, <2>3 DEF Summary!Write
  <1>4. ASSUME Summary!CancelRow PROVE Summary!LastSummaryIsKept'
    BY <1>4 DEF Summary!CancelRow, Summary!Trouble, Summary!Settle,
      Summary!Restore, Summary!LastSummaryIsKept, Summary!BackupIsSound
  <1>5. ASSUME Summary!SaveMeetingSummary PROVE Summary!LastSummaryIsKept'
    BY <1>5 DEF Summary!SaveMeetingSummary, Summary!Trouble,
      Summary!LastSummaryIsKept, Summary!BackupIsSound
  <1>6. ASSUME NEW t \in Tasks, NEW v \in Texts, NEW l \in Summary!Languages,
    Summary!ResetProcess(t, v, l)
         PROVE  Summary!LastSummaryIsKept'
    <2>1. result' = result /\ last' = last
      BY <1>6 DEF Summary!ResetProcess
    <2>2. CASE result = last
      BY <2>1, <2>2 DEF Summary!LastSummaryIsKept
    <2>3. CASE result # last
      <3>1. edited'
        BY <1>6, <2>3 DEF Summary!ResetProcess
      <3> QED
        BY <2>1, <3>1 DEF Summary!LastSummaryIsKept
    <2> QED
      BY <2>2, <2>3
  <1> QED
    BY <1>1, <1>2, <1>3, <1>4, <1>5, <1>6 DEF Summary!Next, Summary!TaskStep,
      Summary!SaveTranscriptData, Summary!RegisterToken, Summary!Prepare,
      Summary!Answer, Summary!AnswerFails, Summary!AnswerCancelled,
      Summary!CleanupToken, Summary!CancelToken, Summary!Restart, Summary!At,
      Summary!Over, Summary!Trouble

\* A row that says pending has a task, or a write failed.
LEMMA SummaryPending ==
  ASSUME Summary!Shape, Summary!EnglishIsOfItsText,
         Summary!PendingIsBeingWorkedOn, [Summary!Next]_summaryVars
  PROVE  Summary!PendingIsBeingWorkedOn'
  <1> USE DEF summaryVars, Summary!row, Summary!tokens, Summary!work,
              Summary!history, Summary!bounds
  <1>1. ASSUME NEW t \in Tasks, sPc'[t] # "idle"
        PROVE  Summary!PendingIsBeingWorkedOn'
    BY <1>1 DEF Summary!PendingIsBeingWorkedOn
  <1>2. CASE UNCHANGED <<sStatus, lapsed, sPc>>
    BY <1>2 DEF Summary!PendingIsBeingWorkedOn
  <1>3. CASE sStatus' # "PENDING" \/ lapsed'
    BY <1>3 DEF Summary!PendingIsBeingWorkedOn
  <1>4. ASSUME NEW t \in Tasks, NEW v \in Texts, NEW l \in Summary!Languages,
               Summary!ResetProcess(t, v, l)
        PROVE  sPc'[t] # "idle"
    BY <1>4 DEF Summary!ResetProcess, Summary!At, Summary!Shape
  <1>5. ASSUME NEW t \in Tasks, Summary!SaveTranscriptData(t)
        PROVE  lapsed' \/ sPc'[t] # "idle"
    BY <1>5 DEF Summary!SaveTranscriptData, Summary!At, Summary!Shape
  <1>6. ASSUME NEW t \in Tasks, Summary!RefuseSettings(t)
        PROVE  sStatus' # "PENDING"
    BY <1>6 DEF Summary!RefuseSettings, Summary!Settle
  <1>7. ASSUME NEW t \in Tasks,
               \/ Summary!RegisterToken(t) \/ Summary!CleanupToken(t)
               \/ Summary!Prepare(t) \/ Summary!Answer(t)
               \/ Summary!AnswerFails(t) \/ Summary!AnswerCancelled(t)
        PROVE  sPc'[t] # "idle"
    <2>1. \E place \in {"registered", "awaiting", "leaving", "writing"} :
             sPc' = [sPc EXCEPT ![t] = place]
      BY <1>7 DEF Summary!RegisterToken, Summary!CleanupToken,
        Summary!Prepare, Summary!Answer, Summary!AnswerFails,
        Summary!AnswerCancelled, Summary!AnswerChunk, Summary!AnswerFinal,
        Summary!Calls, Summary!Ends, Summary!At
    <2> QED
      BY <2>1 DEF Summary!Shape
  <1>8. ASSUME NEW t \in Tasks, Summary!Write(t)
        PROVE  sStatus' # "PENDING" \/ lapsed'
    <2>1. outcome[t] # "PENDING"
      BY DEF Summary!Shape
    <2> QED
      BY <1>8, <2>1 DEF Summary!Write, Summary!Settle, Summary!Completed
  <1>9. ASSUME Summary!CancelRow
        PROVE  sStatus' # "PENDING" \/ UNCHANGED <<sStatus, lapsed, sPc>>
    BY <1>9 DEF Summary!CancelRow, Summary!Settle
  <1>10. ASSUME Summary!Restart PROVE lapsed'
    BY <1>10 DEF Summary!Restart
  <1> QED
    BY <1>1, <1>2, <1>3, <1>4, <1>5, <1>6, <1>7, <1>8, <1>9, <1>10
    DEF Summary!Next, Summary!TaskStep, Summary!CancelToken,
      Summary!SaveMeetingSummary

\* No step of the component leaves the invariant.
LEMMA SummaryStep ==
  ASSUME Summary!IInv, [Summary!Next]_summaryVars
  PROVE  Summary!IInv'
  BY SummaryEnglish, SummaryTrue, SummaryBackup, SummaryKept, SummaryPending
    DEF Summary!IInv

\* A summary of an earlier day, or none, is what it claims to be.
LEMMA SummaryBegins == Summary!Init => Summary!IInv
  <1> SUFFICES ASSUME Summary!Init PROVE Summary!IInv
    OBVIOUS
  <1>1. Summary!Shape /\ Summary!EnglishIsOfItsText
    BY DEF Summary!Init, Summary!Shape, Summary!TaskPCs, Summary!Passes,
      Summary!EnglishIsOfItsText
  <1>2. Summary!BackupIsSound /\ Summary!LastSummaryIsKept
    BY DEF Summary!Init, Summary!BackupIsSound, Summary!IsOfItsText,
      Summary!LastSummaryIsKept
  <1>3. Summary!SummaryIsOfItsText
    BY DEF Summary!Init, Summary!SummaryIsOfItsText, Summary!Of
  <1>4. Summary!PendingIsBeingWorkedOn
    BY DEF Summary!Init, Summary!PendingIsBeingWorkedOn
  <1> QED
    BY <1>1, <1>2, <1>3, <1>4 DEF Summary!IInv

\* A summary is of the text it claims to be of, generated or translated from an
\* earlier one; failures, cancellations and restarts leave the last one, unless
\* it was edited meanwhile; and while nothing fails a pending one is being
\* worked on (extract_cached_english_markdown, create_or_reset_process,
\* update_process_failed).
THEOREM SummariesStayTrue == AudioSpec => []SummariesAreTrueAndKept
  <1> DEFINE Inv == component = "summary" => Summary!IInv
  <1>1. AudioInit => Inv
    BY SummaryBegins DEF AudioInit, JobsInit, ChangingInit, CaptureInit,
      TrackInit, ImportInit, OriginInit, TimelinesInit, FilterInit,
      SummaryInit, ChunksInit, ModelsInit, ClockInit
  <1>2. Inv /\ [AudioNext]_everything => Inv'
    <2> SUFFICES ASSUME Inv, [AudioNext]_everything, component' = "summary"
                 PROVE  Summary!IInv'
      OBVIOUS
    <2>1. [Summary!Next]_summaryVars /\ component = "summary"
      BY DEF AudioNext, everything, JobsNext, ChangingNext, CaptureNext,
        TrackNext, ImportNext, OriginNext, TimelinesNext, FilterNext,
        SummaryNext, ChunksNext, ModelsNext, ClockNext
    <2> QED
      BY <2>1, SummaryStep
  <1>3. Inv => SummariesAreTrueAndKept
    BY DEF SummariesAreTrueAndKept, Summary!IInv
  <1> QED
    BY <1>1, <1>2, <1>3, PTL DEF AudioSpec

-----------------------------------------------------------------------------
(* The audio of one origin                                                 *)

\* What the variables of an origin are.
OriginShape ==
  /\ stretches \in Seq([from : Int, to : Int])
  /\ \A s \in 1..Len(stretches) : stretches[s].from < stretches[s].to
  /\ position \in Int
  /\ cut \in Nat
  /\ pieces \in Seq([stretch : Int, from : Int, to : Int])
  /\ passed \in Nat
  /\ stage \in {"converting", "decoding", "detecting"} =>
       cut = 0 /\ pieces = <<>> /\ passed = 0 /\ oHeard = {}
  /\ stage \in {"splitting"} => cut < Len(stretches)
  /\ stage \in {"loading", "transcribing", "done"} => cut = Len(stretches)

\* A piece is part of its stretch, fits the model, and is too short to be heard
\* only where the stretch ends.
PiecesFit ==
  \A k \in 1..Len(pieces) :
    /\ pieces[k].stretch \in 1..(cut + 1)
    /\ pieces[k].from < pieces[k].to
    /\ pieces[k].to - pieces[k].from <= MaxPiece + Radius + Second
    /\ pieces[k].to - pieces[k].from < Minimum =>
         pieces[k].to = stretches[pieces[k].stretch].to
    /\ pieces[k].stretch = cut + 1 => pieces[k].to <= position

\* The pieces of a stretch follow each other.
PiecesAreApart ==
  \A k \in 1..Len(pieces) : \A j \in 1..(k - 1) :
    pieces[j].stretch = pieces[k].stretch => pieces[j].to <= pieces[k].from

\* The samples of a stretch before one of them are all in pieces.
CutUpTo(ps, from, s, to) ==
  \A sample \in from..(to - 1) :
    \E k \in 1..Len(ps) :
      /\ ps[k].stretch = s
      /\ ps[k].from <= sample
      /\ sample < ps[k].to

\* The stretches that are cut are in pieces, the one being cut up to where the
\* next piece begins.
StretchesAreCut ==
  /\ \A s \in 1..cut : CutUpTo(pieces, stretches[s].from, s, stretches[s].to)
  /\ stage = "splitting" =>
       /\ stretches[cut + 1].from <= position
       /\ position < stretches[cut + 1].to
       /\ CutUpTo(pieces, stretches[cut + 1].from, cut + 1, position)

\* What is heard are the pieces that were passed, but the short ones.
LongAreHeard ==
  /\ passed <= Len(pieces)
  /\ \A p \in oHeard : \E k \in 1..passed : p = pieces[k]
  /\ stage \notin {"failed", "cancelled"} =>
       \A k \in 1..passed :
         pieces[k].to - pieces[k].from >= Minimum => pieces[k] \in oHeard
  /\ stage = "done" => passed = Len(pieces)

OriginInv ==
  OriginShape /\ PiecesFit /\ PiecesAreApart /\ StretchesAreCut /\ LongAreHeard

\* An origin begins with the invariant.
LEMMA OriginBegins == OneOrigin!Init => OriginInv
  BY DEF OneOrigin!Init, OriginInv, OriginShape, PiecesFit, PiecesAreApart,
    StretchesAreCut, LongAreHeard

\* The fields of the stretches and the pieces.
LEMMA FieldsOfAudio ==
  ASSUME OriginShape
  PROVE  /\ Len(stretches) \in Nat /\ Len(pieces) \in Nat
         /\ \A s \in 1..Len(stretches) :
              stretches[s].from \in Int /\ stretches[s].to \in Int
         /\ \A k \in 1..Len(pieces) :
              /\ pieces[k].stretch \in Int
              /\ pieces[k].from \in Int /\ pieces[k].to \in Int
  <1>1. /\ stretches \in Seq([from : Int, to : Int])
        /\ pieces \in Seq([stretch : Int, from : Int, to : Int])
    BY DEF OriginShape
  <1>2. Len(stretches) \in Nat /\ Len(pieces) \in Nat
    BY <1>1
  <1>3. ASSUME NEW s \in 1..Len(stretches)
        PROVE  stretches[s].from \in Int /\ stretches[s].to \in Int
    <2> DEFINE T == [from : Int, to : Int]
    <2>1. stretches[s] \in T
      <3>1. stretches \in Seq(T)
        BY <1>1
      <3> HIDE DEF T
      <3> QED
        BY <3>1, <1>3
    <2> QED
      BY <2>1
  <1>4. ASSUME NEW k \in 1..Len(pieces)
        PROVE  /\ pieces[k].stretch \in Int
               /\ pieces[k].from \in Int /\ pieces[k].to \in Int
    <2> DEFINE T == [stretch : Int, from : Int, to : Int]
    <2>1. pieces[k] \in T
      <3>1. pieces \in Seq(T)
        BY <1>1
      <3> HIDE DEF T
      <3> QED
        BY <3>1, <1>4
    <2> QED
      BY <2>1
  <1> QED
    BY <1>2, <1>3, <1>4

\* A cut before the end of a stretch leaves a piece that is long enough, and
\* not too long for the model.
LEMMA SplitFits ==
  ASSUME OriginShape, stage = "splitting",
         OneOrigin!End - position > MaxPiece,
         NEW split \in OneOrigin!Splits, NEW silent \in BOOLEAN,
         silent => OneOrigin!Windows # {},
         NEW p, p = IF silent THEN split
                    ELSE OneOrigin!Least(split + Second, OneOrigin!End)
  PROVE  /\ p \in Int /\ position < p /\ p <= OneOrigin!End
         /\ p - position <= MaxPiece + Radius + Second
         /\ p - position < Minimum => p = OneOrigin!End
  <1>1. /\ position \in Int /\ OneOrigin!End \in Int
        /\ MaxPiece \in Nat /\ Second \in Nat /\ Radius \in Nat
        /\ Minimum \in Nat /\ Minimum > 0
        /\ Minimum <= Second /\ Minimum <= MaxPiece
        /\ Window["origin"] \in Nat
    <2>1. cut + 1 \in 1..Len(stretches) /\ position \in Int
      BY FieldsOfAudio DEF OriginShape
    <2>2. OneOrigin!End \in Int
      BY <2>1, FieldsOfAudio DEF OneOrigin!End, OneOrigin!Current
    <2> QED
      BY <2>1, <2>2, OriginAssumption
  <1>2. CASE OneOrigin!Windows = {}
    <2>1. split = position + MaxPiece /\ ~silent
      BY <1>2 DEF OneOrigin!Splits, OneOrigin!Target
    <2> QED
      BY <1>1, <2>1 DEF OneOrigin!Least
  <1>3. CASE OneOrigin!Windows # {}
    <2>1. PICK w \in OneOrigin!Windows :
                 split = w + Window["origin"] \div 2
      BY <1>3 DEF OneOrigin!Splits
    <2>2. /\ w \in Int /\ w >= position + Second
          /\ w + Window["origin"] <= OneOrigin!End - Window["origin"]
          /\ w + Window["origin"] <= position + MaxPiece + Radius
      BY <1>1, <2>1 DEF OneOrigin!Windows, OneOrigin!Target,
        OneOrigin!Most, OneOrigin!Least
    <2>3. /\ Window["origin"] \div 2 \in Nat
          /\ Window["origin"] \div 2 <= Window["origin"]
      BY <1>1
    <2> QED
      BY <1>1, <2>1, <2>2, <2>3 DEF OneOrigin!Least
  <1> QED
    BY <1>2, <1>3

\* Where the next piece begins, and what is left to do.
Goes(to) ==
  IF to = OneOrigin!End
    THEN OneOrigin!LeaveStretch
    ELSE position' = to /\ UNCHANGED <<stage, cut>>

\* A piece that begins where the last one ends, and fits, is added.
LEMMA PieceIsAdded ==
  ASSUME OriginInv, stage = "splitting",
         NEW to \in Int, position < to, to <= OneOrigin!End,
         to - position <= MaxPiece + Radius + Second,
         to - position < Minimum => to = OneOrigin!End,
         pieces' = Append(pieces, OneOrigin!Piece(to)), Goes(to),
         UNCHANGED <<stretches, passed, oHeard>>
  PROVE  OriginInv'
  <1> USE DEF OriginInv
  <1>1. /\ pieces \in Seq([stretch : Int, from : Int, to : Int])
        /\ Len(pieces) \in Nat /\ cut \in Nat /\ position \in Int
        /\ cut < Len(stretches) /\ Len(stretches) \in Nat
        /\ OneOrigin!End = stretches[cut + 1].to
        /\ OneOrigin!Piece(to) =
             [stretch |-> cut + 1, from |-> position, to |-> to]
    BY FieldsOfAudio DEF OriginShape, OneOrigin!End, OneOrigin!Current,
      OneOrigin!Piece
  <1> DEFINE N == Len(pieces)
             new == [stretch |-> cut + 1, from |-> position, to |-> to]
  <1>0. N \in Nat /\ cut \in Nat /\ position \in Int
    BY <1>1
  <1>2. /\ pieces' \in Seq([stretch : Int, from : Int, to : Int])
        /\ Len(pieces') = N + 1
        /\ \A k \in 1..N : pieces'[k] = pieces[k]
        /\ pieces'[N + 1] = new
        /\ new.stretch = cut + 1 /\ new.from = position /\ new.to = to
    BY <1>1
  <1>3. \/ /\ to # stretches[cut + 1].to
           /\ position' = to /\ cut' = cut /\ stage' = stage
        \/ /\ to = stretches[cut + 1].to
           /\ cut' = cut + 1
           /\ \/ cut + 1 = Len(stretches) /\ stage' = "loading"
                 /\ position' = position
              \/ /\ cut + 1 # Len(stretches) /\ stage' = stage
                 /\ position' = stretches[cut + 2].from
    <2>1. CASE to = stretches[cut + 1].to
      <3>1. OneOrigin!LeaveStretch
        BY <2>1, <1>1 DEF Goes
      <3>2. /\ cut' = cut + 1
            /\ IF cut + 1 = Len(stretches)
                 THEN stage' = "loading" /\ position' = position
                 ELSE position' = stretches[cut + 1 + 1].from /\ stage' = stage
        BY <3>1 DEF OneOrigin!LeaveStretch, OneOrigin!Current
      <3>3. cut + 1 + 1 = cut + 2
        BY <1>0
      <3> HIDE DEF OriginInv
      <3> QED
        BY <2>1, <3>2, <3>3
    <2>2. CASE to # stretches[cut + 1].to
      <3> HIDE DEF OriginInv
      <3> QED
        BY <2>2, <1>1 DEF Goes
    <2> QED
      BY <2>1, <2>2
  <1>4. \A s \in 1..Len(stretches) :
          stretches[s].from \in Int /\ stretches[s].to \in Int
          /\ stretches[s].from < stretches[s].to
    BY FieldsOfAudio DEF OriginShape
  <1>5. OriginShape'
    <2>1. position' \in Int
      BY <1>1, <1>3, <1>4
    <2>2. cut' \in Nat
      BY <1>1, <1>3
    <2>3. /\ stage' = "splitting" => cut' < Len(stretches)
          /\ stage' \in {"splitting", "loading"}
          /\ stage' = "loading" => cut' = Len(stretches)
      BY <1>1, <1>3
    <2>4. /\ stretches \in Seq([from : Int, to : Int]) /\ passed \in Nat
          /\ \A s \in 1..Len(stretches) : stretches[s].from < stretches[s].to
      BY DEF OriginShape
    <2>5. pieces' \in Seq([stretch : Int, from : Int, to : Int])
      BY <1>2
    <2> HIDE DEF OriginInv
    <2> QED
      BY <2>1, <2>2, <2>3, <2>4, <2>5 DEF OriginShape
  <1>12. \A k \in 1..N : /\ pieces[k].stretch \in Int
                         /\ pieces[k].from \in Int /\ pieces[k].to \in Int
    BY FieldsOfAudio
  <1> HIDE DEF new
  <1>6. PiecesFit'
    <2> SUFFICES ASSUME NEW k \in 1..(N + 1)
                 PROVE  /\ pieces'[k].stretch \in 1..(cut' + 1)
                        /\ pieces'[k].from < pieces'[k].to
                        /\ pieces'[k].to - pieces'[k].from
                             <= MaxPiece + Radius + Second
                        /\ pieces'[k].to - pieces'[k].from < Minimum =>
                             pieces'[k].to
                               = stretches[pieces'[k].stretch].to
                        /\ pieces'[k].stretch = cut' + 1 =>
                             pieces'[k].to <= position'
      BY <1>2 DEF PiecesFit
    <2>1. CASE k = N + 1
      <3>0. /\ pieces'[k].stretch = cut + 1 /\ pieces'[k].from = position
            /\ pieces'[k].to = to
        BY <2>1, <1>2
      <3>1. pieces'[k].to - pieces'[k].from < Minimum =>
              pieces'[k].to = stretches[pieces'[k].stretch].to
        BY <3>0, <1>1
      <3>2. \/ cut' = cut /\ position' = to
            \/ cut' = cut + 1
        BY <1>3
      <3>3. /\ pieces'[k].stretch \in 1..(cut' + 1)
            /\ pieces'[k].stretch = cut' + 1 => pieces'[k].to <= position'
        <4>1. /\ cut + 1 \in 1..(cut' + 1)
              /\ cut + 1 = cut' + 1 => to <= position'
          BY <3>2, <1>0
        <4> QED
          BY <3>0, <4>1
      <3> HIDE DEF N, OriginInv
      <3> QED
        BY <3>0, <3>1, <3>3
    <2>2. CASE k # N + 1
      <3>0. k \in 1..N
        BY <2>2, <1>0
      <3>a. pieces'[k] = pieces[k]
        BY <3>0, <1>2
      <3>b. pieces[k].to \in Int /\ pieces[k].stretch \in Int
        BY <3>0, <1>12
      <3>1. k \in 1..N /\ pieces'[k] = pieces[k]
            /\ pieces[k].to \in Int /\ pieces[k].stretch \in Int
        BY <3>0, <3>a, <3>b
      <3>2. /\ pieces[k].stretch \in 1..(cut + 1)
            /\ pieces[k].from < pieces[k].to
            /\ pieces[k].to - pieces[k].from <= MaxPiece + Radius + Second
            /\ pieces[k].to - pieces[k].from < Minimum =>
                 pieces[k].to = stretches[pieces[k].stretch].to
            /\ pieces[k].stretch = cut + 1 => pieces[k].to <= position
        BY <3>1 DEF PiecesFit
      <3>3. pieces[k].stretch \in 1..(cut' + 1)
            /\ (pieces[k].stretch = cut' + 1 => pieces[k].to <= position')
        <4> PICK t \in Int : t = pieces[k].to
          BY <3>1
        <4> PICK n \in Int : n = pieces[k].stretch
          BY <3>1
        <4>0. n \in 1..(cut + 1) /\ (n = cut + 1 => t <= position)
          BY <3>2
        <4>1. CASE cut' = cut /\ position' = to
          <5>1. n \in 1..(cut' + 1) /\ (n = cut' + 1 => t <= position')
            BY <4>0, <4>1, <1>0
          <5> QED
            BY <5>1
        <4>2. CASE cut' = cut + 1
          <5>1. n \in 1..(cut' + 1) /\ n # cut' + 1
            BY <4>0, <4>2, <1>0
          <5> QED
            BY <5>1
        <4> QED
          BY <4>1, <4>2, <1>3
      <3> QED
        BY <3>1, <3>2, <3>3
    <2> QED
      BY <2>1, <2>2
  <1>7. PiecesAreApart'
    <2> SUFFICES ASSUME NEW k \in 1..(N + 1), NEW j \in 1..(k - 1),
                        pieces'[j].stretch = pieces'[k].stretch
                 PROVE  pieces'[j].to <= pieces'[k].from
      BY <1>2 DEF PiecesAreApart
    <2>0. j \in 1..N
      BY <1>0
    <2>1. j \in 1..N /\ pieces'[j] = pieces[j]
      BY <2>0, <1>2
    <2>2. CASE k = N + 1
      <3>1. pieces[j].stretch = cut + 1
        BY <2>1, <2>2, <1>2
      <3> QED
        BY <2>1, <2>2, <3>1, <1>2 DEF PiecesFit
    <2>3. CASE k # N + 1
      <3>1. k \in 1..N
        BY <2>3, <1>0
      <3>2. pieces'[k] = pieces[k]
        BY <3>1, <1>2
      <3> QED
        BY <2>1, <3>1, <3>2 DEF PiecesAreApart
    <2> QED
      BY <2>2, <2>3
  <1>8. ASSUME NEW f, NEW s, NEW t, CutUpTo(pieces, f, s, t)
        PROVE  CutUpTo(pieces', f, s, t)
    <2> SUFFICES ASSUME NEW sample \in f..(t - 1)
                 PROVE  \E k \in 1..(N + 1) :
                          /\ pieces'[k].stretch = s
                          /\ pieces'[k].from <= sample
                          /\ sample < pieces'[k].to
      BY <1>2 DEF CutUpTo
    <2>1. PICK k \in 1..N : /\ pieces[k].stretch = s
                            /\ pieces[k].from <= sample
                            /\ sample < pieces[k].to
      BY <1>8 DEF CutUpTo
    <2>0. k \in 1..(N + 1)
      BY <1>0
    <2>2. k \in 1..(N + 1) /\ pieces'[k] = pieces[k]
      BY <2>0, <1>2
    <2> QED
      BY <2>1, <2>2
  <1>9. CutUpTo(pieces', stretches[cut + 1].from, cut + 1, to)
    <2> SUFFICES ASSUME NEW sample \in stretches[cut + 1].from..(to - 1)
                 PROVE  \E k \in 1..(N + 1) :
                          /\ pieces'[k].stretch = cut + 1
                          /\ pieces'[k].from <= sample
                          /\ sample < pieces'[k].to
      BY <1>1, <1>2 DEF CutUpTo
    <2>1. CASE sample < position
      <3>1. sample \in stretches[cut + 1].from..(position - 1)
        BY <2>1, <1>1, <1>4
      <3>2. CutUpTo(pieces, stretches[cut + 1].from, cut + 1, position)
        BY DEF StretchesAreCut
      <3>3. CutUpTo(pieces', stretches[cut + 1].from, cut + 1, position)
        BY <3>2, <1>8
      <3> QED
        BY <3>1, <3>3, <1>2 DEF CutUpTo
    <2>2. CASE ~(sample < position)
      <3>1. N + 1 \in 1..(N + 1) /\ position <= sample /\ sample < to
        BY <2>2, <1>1, <1>4
      <3> QED
        BY <3>1, <1>2
    <2> QED
      BY <2>1, <2>2
  <1>10. StretchesAreCut'
    <2>1. ASSUME NEW s \in 1..cut'
          PROVE  CutUpTo(pieces', stretches[s].from, s, stretches[s].to)
      <3>1. CASE s \in 1..cut
        <4>1. CutUpTo(pieces, stretches[s].from, s, stretches[s].to)
          BY <3>1 DEF StretchesAreCut
        <4> QED
          BY <4>1, <1>8
      <3>2. CASE s \notin 1..cut
        <4>1. s = cut + 1 /\ to = stretches[s].to
          BY <3>2, <1>1, <1>3
        <4> QED
          BY <4>1, <1>9
      <3> QED
        BY <3>1, <3>2
    <2>2. ASSUME stage' = "splitting"
          PROVE  /\ stretches[cut' + 1].from <= position'
                 /\ position' < stretches[cut' + 1].to
                 /\ CutUpTo(pieces', stretches[cut' + 1].from, cut' + 1,
                            position')
      <3>1. CASE to # stretches[cut + 1].to
        <4>1. position' = to /\ cut' = cut
          BY <3>1, <1>3
        <4>2. stretches[cut + 1].from <= position
          BY DEF StretchesAreCut
        <4>3. stretches[cut + 1].from \in Int /\ stretches[cut + 1].to \in Int
          BY <1>1, <1>4
        <4> QED
          BY <4>1, <4>2, <4>3, <3>1, <1>1, <1>9
      <3>2. CASE to = stretches[cut + 1].to
        <4>1. /\ cut' = cut + 1 /\ position' = stretches[cut + 2].from
              /\ cut + 1 # Len(stretches)
          BY <3>2, <2>2, <1>3
        <4>2. cut + 2 \in 1..Len(stretches) /\ cut' + 1 = cut + 2
          BY <4>1, <1>1
        <4>3. /\ stretches[cut + 2].from \in Int
              /\ stretches[cut + 2].to \in Int
              /\ stretches[cut + 2].from < stretches[cut + 2].to
          BY <4>2, <1>4
        <4>4. stretches[cut + 2].from..(stretches[cut + 2].from - 1) = {}
          BY <4>3
        <4> QED
          BY <4>1, <4>2, <4>3, <4>4 DEF CutUpTo
      <3> QED
        BY <3>1, <3>2
    <2> QED
      BY <2>1, <2>2 DEF StretchesAreCut
  <1>11. LongAreHeard'
    <2>1. passed \in Nat /\ passed <= N
      BY DEF OriginShape, LongAreHeard
    <2>2. \A k \in 1..passed : pieces'[k] = pieces[k]
      BY <2>1, <1>1, <1>2
    <2>3. passed <= N + 1 /\ stage' # "done"
      BY <2>1, <1>1, <1>3
    <2>4. \A p \in oHeard : \E k \in 1..passed : p = pieces'[k]
      BY <2>2 DEF LongAreHeard
    <2>5. stage' \notin {"failed", "cancelled"} =>
            \A k \in 1..passed :
              pieces'[k].to - pieces'[k].from >= Minimum =>
                pieces'[k] \in oHeard
      <3>1. \A k \in 1..passed :
              pieces[k].to - pieces[k].from >= Minimum => pieces[k] \in oHeard
        BY DEF LongAreHeard
      <3> HIDE DEF OriginInv
      <3> QED
        BY <3>1, <2>2
    <2> HIDE DEF OriginInv
    <2> QED
      BY <1>2, <2>3, <2>4, <2>5 DEF LongAreHeard
  <1> QED
    BY <1>5, <1>6, <1>7, <1>10, <1>11

\* What is left as it is when nothing is cut.
LEMMA NothingIsCut ==
  ASSUME OriginInv, stage # "splitting", stage' # "splitting",
         UNCHANGED <<stretches, position, cut, pieces>>
  PROVE  PiecesFit' /\ PiecesAreApart' /\ StretchesAreCut'
  BY DEF OriginInv, PiecesFit, PiecesAreApart, StretchesAreCut, CutUpTo

LEMMA OriginKeeps ==
  ASSUME OriginInv, [OneOrigin!Next]_originVars
  PROVE  OriginInv'
  <1> USE DEF originVars
  <1>1. CASE UNCHANGED originVars
    BY <1>1 DEF OriginInv, OriginShape, PiecesFit, PiecesAreApart,
      StretchesAreCut, CutUpTo, LongAreHeard
  <1>2. ASSUME UNCHANGED <<stretches, position, cut, pieces, passed, oHeard>>,
               stage # "splitting", stage' # "splitting",
               stage' = "done" => passed = Len(pieces),
               \/ stage = stage'
               \/ stage' \in {"failed", "cancelled"}
               \/ stage = "converting" /\ stage' = "decoding"
               \/ stage = "decoding" /\ stage' = "detecting"
               \/ stage = "loading" /\ stage' = "transcribing"
               \/ stage = "transcribing" /\ stage' = "done"
        PROVE  OriginInv'
    <2>1. OriginShape'
      BY <1>2 DEF OriginInv, OriginShape
    <2>2. LongAreHeard'
      BY <1>2 DEF OriginInv, LongAreHeard
    <2> QED
      BY <1>2, <2>1, <2>2, NothingIsCut DEF OriginInv
  <1>3. ASSUME OneOrigin!Convert PROVE OriginInv'
    BY <1>2, <1>3 DEF OneOrigin!Convert
  <1>4. ASSUME OneOrigin!NextPacket PROVE OriginInv'
    BY <1>2, <1>4 DEF OneOrigin!NextPacket
  <1>5. ASSUME OneOrigin!EndOfFile PROVE OriginInv'
    BY <1>2, <1>5 DEF OneOrigin!EndOfFile
  <1>6. ASSUME OneOrigin!LoadEngine PROVE OriginInv'
    BY <1>2, <1>6 DEF OneOrigin!LoadEngine
  <1>7. ASSUME OneOrigin!EndTranscription PROVE OriginInv'
    BY <1>2, <1>7 DEF OneOrigin!EndTranscription
  <1>8. ASSUME OneOrigin!Cancel PROVE OriginInv'
    BY <1>2, <1>8 DEF OneOrigin!Cancel
  <1>9. ASSUME OneOrigin!FindSpeech PROVE OriginInv'
    <2>1. PICK from \in Int, to \in Int :
            /\ from < to
            /\ stretches' = Append(stretches, [from |-> from, to |-> to])
      <3>1. 0..samples \subseteq Int
        BY SMT
      <3> QED
        BY <3>1, <1>9 DEF OneOrigin!FindSpeech
    <2>2. /\ stage = "detecting" /\ pieces = <<>> /\ cut = 0 /\ passed = 0
          /\ oHeard = {}
          /\ UNCHANGED <<stage, position, cut, pieces, passed, oHeard>>
      BY <1>9 DEF OneOrigin!FindSpeech, OriginInv, OriginShape
    <2>3. OriginShape'
      <3>1. stretches \in Seq([from : Int, to : Int])
        BY DEF OriginInv, OriginShape
      <3>2. /\ stretches' \in Seq([from : Int, to : Int])
            /\ Len(stretches') = Len(stretches) + 1
            /\ \A s \in 1..Len(stretches) : stretches'[s] = stretches[s]
            /\ stretches'[Len(stretches) + 1] = [from |-> from, to |-> to]
        BY <2>1, <3>1
      <3>3. \A s \in 1..Len(stretches') : stretches'[s].from < stretches'[s].to
        <4> SUFFICES ASSUME NEW s \in 1..(Len(stretches) + 1)
                     PROVE  stretches'[s].from < stretches'[s].to
          BY <3>2
        <4>1. CASE s = Len(stretches) + 1
          BY <4>1, <3>2, <2>1
        <4>2. CASE s # Len(stretches) + 1
          <5>0. Len(stretches) \in Nat
            BY <3>1
          <5>2. s \in 1..Len(stretches)
            BY <4>2, <5>0
          <5>1. s \in 1..Len(stretches) /\ stretches'[s] = stretches[s]
            BY <5>2, <3>2
          <5> QED
            BY <5>1 DEF OriginInv, OriginShape
        <4> QED
          BY <4>1, <4>2
      <3> QED
        BY <2>2, <3>2, <3>3 DEF OriginInv, OriginShape
    <2> QED
      BY <2>2, <2>3 DEF OriginInv, PiecesFit, PiecesAreApart, StretchesAreCut,
        LongAreHeard
  <1>10. ASSUME OneOrigin!EndDetection PROVE OriginInv'
    <2>1. /\ stage = "detecting" /\ pieces = <<>> /\ cut = 0 /\ passed = 0
          /\ oHeard = {}
          /\ UNCHANGED <<stretches, cut, pieces, passed, oHeard>>
      BY <1>10 DEF OneOrigin!EndDetection, OriginInv, OriginShape
    <2>2. CASE stretches = <<>>
      BY <1>10, <2>1, <2>2 DEF OneOrigin!EndDetection, OriginInv,
        OriginShape, PiecesFit, PiecesAreApart, StretchesAreCut, LongAreHeard
    <2>3. CASE stretches # <<>>
      <3>1. stage' = "splitting" /\ position' = stretches[1].from
        BY <1>10, <2>3 DEF OneOrigin!EndDetection
      <3>2. /\ 1 \in 1..Len(stretches)
            /\ stretches[1].from \in Int /\ stretches[1].to \in Int
            /\ stretches[1].from < stretches[1].to
        <4>1. 1 \in 1..Len(stretches)
          BY <2>3, FieldsOfAudio DEF OriginInv, OriginShape
        <4> QED
          BY <4>1, FieldsOfAudio DEF OriginInv, OriginShape
      <3>3. OriginShape'
        BY <2>1, <3>1, <3>2 DEF OriginInv, OriginShape
      <3>4. stretches[1].from..(stretches[1].from - 1) = {}
        BY <3>2
      <3>5. StretchesAreCut'
        BY <2>1, <3>1, <3>2, <3>4 DEF StretchesAreCut, CutUpTo
      <3> QED
        BY <2>1, <3>1, <3>3, <3>5 DEF OriginInv, PiecesFit, PiecesAreApart,
          LongAreHeard
    <2> QED
      BY <2>2, <2>3
  <1>11. ASSUME stage = "splitting"
         PROVE  /\ position \in Int /\ OneOrigin!End \in Int
                /\ position < OneOrigin!End
    <2>1. cut + 1 \in 1..Len(stretches) /\ position \in Int
      BY <1>11, FieldsOfAudio DEF OriginInv, OriginShape
    <2> QED
      BY <1>11, <2>1, FieldsOfAudio DEF OriginInv, StretchesAreCut,
        OneOrigin!End, OneOrigin!Current
  <1>12. ASSUME OneOrigin!CutLast PROVE OriginInv'
    <2>1. /\ stage = "splitting"
          /\ OneOrigin!End - position <= MaxPiece
          /\ pieces' = Append(pieces, OneOrigin!Piece(OneOrigin!End))
          /\ Goes(OneOrigin!End)
          /\ UNCHANGED <<stretches, passed, oHeard>>
      BY <1>12 DEF OneOrigin!CutLast, Goes
    <2>2. /\ OneOrigin!End - position <= MaxPiece + Radius + Second
          /\ OneOrigin!End <= OneOrigin!End
      BY <2>1, <1>11, OriginAssumption
    <2> QED
      BY <2>1, <2>2, <1>11, PieceIsAdded
  <1>13. ASSUME OneOrigin!CutOnce PROVE OriginInv'
    <2>1. PICK split \in OneOrigin!Splits, silent \in BOOLEAN :
            LET to == IF silent THEN split
                      ELSE OneOrigin!Least(split + Second, OneOrigin!End) IN
            /\ silent => OneOrigin!Windows # {}
            /\ pieces' = Append(pieces, OneOrigin!Piece(to))
            /\ IF to = OneOrigin!End THEN OneOrigin!LeaveStretch
               ELSE position' = to /\ UNCHANGED <<stage, cut>>
      BY <1>13 DEF OneOrigin!CutOnce
    <2> DEFINE p == IF silent THEN split
                    ELSE OneOrigin!Least(split + Second, OneOrigin!End)
    <2>2. /\ silent => OneOrigin!Windows # {}
          /\ pieces' = Append(pieces, OneOrigin!Piece(p))
          /\ Goes(p)
      BY <2>1 DEF Goes
    <2>3. /\ stage = "splitting" /\ OneOrigin!End - position > MaxPiece
          /\ UNCHANGED <<stretches, passed, oHeard>>
      BY <1>13 DEF OneOrigin!CutOnce
    <2>4. /\ p \in Int /\ position < p /\ p <= OneOrigin!End
          /\ p - position <= MaxPiece + Radius + Second
          /\ p - position < Minimum => p = OneOrigin!End
      BY <2>2, <2>3, SplitFits DEF OriginInv
    <2> HIDE DEF p
    <2> QED
      BY <2>2, <2>3, <2>4, PieceIsAdded
  <1>14. ASSUME OneOrigin!Transcribe PROVE OriginInv'
    <2>1. /\ stage = "transcribing" /\ passed < Len(pieces)
          /\ passed' = passed + 1
          /\ UNCHANGED <<stretches, position, cut, pieces>>
          /\ stage' \in {"transcribing", "failed"}
          /\ \/ /\ pieces[passed + 1].to - pieces[passed + 1].from < Minimum
                /\ oHeard' = oHeard
             \/ /\ pieces[passed + 1].to - pieces[passed + 1].from >= Minimum
                /\ oHeard' = oHeard \cup {pieces[passed + 1]}
             \/ stage' = "failed" /\ oHeard' = oHeard
      BY <1>14 DEF OneOrigin!Transcribe
    <2>2. passed \in Nat /\ Len(pieces) \in Nat
          /\ pieces \in Seq([stretch : Int, from : Int, to : Int])
          /\ passed + 1 \in 1..Len(pieces) /\ Minimum \in Nat
          /\ pieces[passed + 1].to \in Int /\ pieces[passed + 1].from \in Int
      <3>1. passed \in Nat /\ Len(pieces) \in Nat /\ Minimum \in Nat
            /\ pieces \in Seq([stretch : Int, from : Int, to : Int])
        BY FieldsOfAudio, OriginAssumption DEF OriginInv, OriginShape
      <3>2. passed + 1 \in 1..Len(pieces)
        BY <2>1, <3>1
      <3> QED
        BY <3>1, <3>2, FieldsOfAudio DEF OriginInv
    <2>6. pieces[passed + 1].to - pieces[passed + 1].from \in Int
      <3>1. pieces[passed + 1].to \in Int /\ pieces[passed + 1].from \in Int
        BY <2>2
      <3> QED
        BY <3>1
    <2>7. Minimum \in Nat
      BY <2>2
    <2>3. OriginShape'
      <3>1. /\ passed' \in Nat
            /\ stage = "transcribing" /\ stage' \in {"transcribing", "failed"}
        BY <2>1, <2>2
      <3>2. UNCHANGED <<stretches, position, cut, pieces>>
        BY <2>1
      <3> QED
        BY <3>1, <3>2 DEF OriginInv, OriginShape
    <2>4. LongAreHeard'
      <3>1. passed' <= Len(pieces)
        BY <2>1, <2>2
      <3>2. \A p \in oHeard' : \E k \in 1..(passed + 1) : p = pieces[k]
        <4>1. \A p \in oHeard : \E k \in 1..passed : p = pieces[k]
          BY DEF OriginInv, LongAreHeard
        <4>2. \A k \in 1..passed : k \in 1..(passed + 1)
          BY <2>2
        <4>3. passed + 1 \in 1..(passed + 1)
          BY <2>2
        <4>4. \A p \in oHeard' : p \in oHeard \/ p = pieces[passed + 1]
          BY <2>1
        <4> QED
          BY <4>1, <4>2, <4>3, <4>4
      <3>3. ASSUME stage' \notin {"failed", "cancelled"},
                   NEW k \in 1..(passed + 1),
                   pieces[k].to - pieces[k].from >= Minimum
            PROVE  pieces[k] \in oHeard'
        <4>1. CASE k = passed + 1
          <5>1. oHeard' = oHeard \cup {pieces[passed + 1]}
            <6> PICK length \in Int :
                   length = pieces[passed + 1].to - pieces[passed + 1].from
              BY <2>6
            <6>1. length >= Minimum /\ stage' # "failed"
              BY <4>1, <3>3
            <6>2. \/ length < Minimum
                  \/ oHeard' = oHeard \cup {pieces[passed + 1]}
                  \/ stage' = "failed"
              BY <2>1
            <6>3. ~(length < Minimum)
              BY <6>1, <2>7
            <6> QED
              BY <6>1, <6>2, <6>3
          <5> QED
            BY <5>1, <4>1
        <4>2. CASE k # passed + 1
          <5>1. k \in 1..passed
            BY <4>2, <2>2
          <5>2. pieces[k] \in oHeard
            BY <5>1, <3>3, <2>1 DEF OriginInv, LongAreHeard
          <5> QED
            BY <5>2, <2>1
        <4> QED
          BY <4>1, <4>2
      <3>4. stage' # "done"
        BY <2>1
      <3> QED
        BY <3>1, <3>2, <3>3, <3>4, <2>1 DEF LongAreHeard
    <2>5. stage # "splitting" /\ stage' # "splitting"
      BY <2>1
    <2> QED
      BY <2>1, <2>3, <2>4, <2>5, NothingIsCut DEF OriginInv
  <1> QED
    BY <1>1, <1>3, <1>4, <1>5, <1>6, <1>7, <1>8, <1>9, <1>10, <1>12, <1>13,
      <1>14 DEF OneOrigin!Next

\* What is heard is in the pieces, and of the speech they leave out only what
\* is too short.
LEMMA HeardIsOnce ==
  ASSUME OriginInv
  PROVE  OneOrigin!NothingIsHeardTwice /\ OneOrigin!OnlyTailsAreLeftOut
  <1>1. /\ pieces \in Seq([stretch : Int, from : Int, to : Int])
        /\ Len(pieces) \in Nat /\ passed \in Nat /\ passed <= Len(pieces)
    BY FieldsOfAudio DEF OriginInv, OriginShape, LongAreHeard
  <1>2. ASSUME NEW p \in oHeard
        PROVE  \E k \in 1..Len(pieces) : p = pieces[k]
    <2>1. \A q \in oHeard : \E k \in 1..passed : q = pieces[k]
      BY DEF OriginInv, LongAreHeard
    <2>2. PICK k \in 1..passed : p = pieces[k]
      BY <2>1, <1>2
    <2>3. passed \in Nat /\ Len(pieces) \in Nat /\ passed <= Len(pieces)
      BY <1>1
    <2>4. 1..passed \subseteq 1..Len(pieces)
      BY <2>3
    <2> QED
      BY <2>2, <2>4
  <1>3. OneOrigin!NothingIsHeardTwice
    <2>1. ASSUME NEW p \in oHeard, NEW q \in oHeard, p # q,
                 p.stretch = q.stretch
          PROVE  p.to <= q.from \/ q.to <= p.from
      <3>1. PICK j \in 1..Len(pieces) : p = pieces[j]
        BY <1>2
      <3>2. PICK k \in 1..Len(pieces) : q = pieces[k]
        BY <1>2
      <3>3. j \in 1..(k - 1) \/ k \in 1..(j - 1)
        BY <3>1, <3>2, <2>1
      <3> QED
        BY <3>1, <3>2, <3>3, <2>1 DEF OriginInv, PiecesAreApart
    <2>2. ASSUME NEW p \in oHeard
          PROVE  /\ p.from < p.to
                 /\ p.to - p.from <= MaxPiece + Radius + Second
      BY <1>2 DEF OriginInv, PiecesFit
    <2> QED
      BY <2>1, <2>2 DEF OneOrigin!NothingIsHeardTwice
  <1>4. OneOrigin!OnlyTailsAreLeftOut
    <2> SUFFICES ASSUME stage = "done", NEW s \in 1..Len(stretches),
                        NEW sample \in
                          stretches[s].from..(stretches[s].to - Minimum)
                 PROVE  \E p \in oHeard :
                          p.stretch = s /\ p.from <= sample /\ sample < p.to
      BY DEF OneOrigin!OnlyTailsAreLeftOut
    <2>1. /\ stretches[s].from \in Int /\ stretches[s].to \in Int
          /\ Minimum \in Nat /\ Minimum > 0
      BY FieldsOfAudio, OriginAssumption DEF OriginInv
    <2>2. CutUpTo(pieces, stretches[s].from, s, stretches[s].to)
      BY DEF OriginInv, OriginShape, StretchesAreCut
    <2>3. sample \in stretches[s].from..(stretches[s].to - 1)
      BY <2>1
    <2>4. PICK k \in 1..Len(pieces) :
            /\ pieces[k].stretch = s
            /\ pieces[k].from <= sample
            /\ sample < pieces[k].to
      BY <2>2, <2>3 DEF CutUpTo
    <2>5. pieces[k].from \in Int /\ pieces[k].to \in Int
      BY FieldsOfAudio DEF OriginInv
    <2>6. pieces[k].to - pieces[k].from < Minimum =>
            pieces[k].to = stretches[s].to
      BY <2>4 DEF OriginInv, PiecesFit
    <2>7. pieces[k].to - pieces[k].from >= Minimum
      BY <2>1, <2>4, <2>5, <2>6
    <2>8. pieces[k] \in oHeard
      BY <2>7 DEF OriginInv, LongAreHeard
    <2> QED
      BY <2>4, <2>8
  <1> QED
    BY <1>3, <1>4

\* Of the speech in an origin nothing is heard twice, nothing is left out but
\* what is shorter than the shortest piece at the end of a stretch, and no
\* piece is longer than the search for silence allows, whatever the sizes of
\* the pieces and the windows and however much speech there is
\* (split_segment_at_silence, process_audio_origin).
THEOREM SpeechStaysHeardOnce == AudioSpec => []SpeechIsHeardOnce
  <1> DEFINE Inv == component = "origin" => OriginInv
  <1>1. AudioInit => Inv
    BY OriginBegins DEF AudioInit, JobsInit, ChangingInit, CaptureInit,
      TrackInit, ImportInit, OriginInit, TimelinesInit, FilterInit,
      SummaryInit, ChunksInit, ModelsInit, ClockInit
  <1>2. Inv /\ [AudioNext]_everything => Inv'
    <2> SUFFICES ASSUME Inv, [AudioNext]_everything, component' = "origin"
                 PROVE  OriginInv'
      OBVIOUS
    <2>1. [OneOrigin!Next]_originVars /\ component = "origin"
      BY DEF AudioNext, everything, JobsNext, ChangingNext, CaptureNext,
        TrackNext, ImportNext, OriginNext, TimelinesNext, FilterNext,
        SummaryNext, ChunksNext, ModelsNext, ClockNext
    <2> QED
      BY <2>1, OriginKeeps
  <1>3. Inv => SpeechIsHeardOnce
    BY HeardIsOnce DEF SpeechIsHeardOnce
  <1> QED
    BY <1>1, <1>2, <1>3, PTL DEF AudioSpec

-----------------------------------------------------------------------------
(* The words and the chunks of a text                                      *)

\* What the variables of the chunks are.
ChunksShape ==
  /\ Len(kText) \in Nat /\ Len(kText) > 0
  /\ start \in Nat
  /\ chunks \in Seq([from : Nat, to : Nat])
  /\ done \in BOOLEAN

\* Of a text that is not done, what lies before the next window is covered
\* if each chunk so far ended in its overlap; no chunk is too large.
ChunksInv ==
  /\ \A k \in 1..Len(chunks) : chunks[k].to - chunks[k].from <= Size
  /\ ~done =>
       /\ start < Len(kText)
       /\ Chunks!BreaksAreNear => \A c \in 1..start : Chunks!Covered(c)
  /\ Chunks!NothingIsLeftOut

\* The text begins with the invariant.
LEMMA ChunksBegin == Chunks!Init => ChunksShape /\ ChunksInv
  <1> SUFFICES ASSUME Chunks!Init PROVE ChunksShape /\ ChunksInv
    OBVIOUS
  <1>1. start = 0 /\ chunks = <<>> /\ done = FALSE
    BY DEF Chunks!Init
  <1>2. PICK n \in 1..MaxLength : kText \in [1..n -> Chunks!Kinds]
    BY DEF Chunks!Init
  <1>3. Len(kText) = n /\ n \in Nat /\ n > 0
    BY <1>2
  <1>4. ChunksShape
    <2>1. chunks \in Seq([from : Nat, to : Nat]) /\ done \in BOOLEAN
      BY <1>1, EmptySeq
    <2> QED
      BY <1>1, <1>3, <2>1 DEF ChunksShape
  <1>5. Len(chunks) = 0 /\ \A k \in 1..0 : FALSE
    BY <1>1
  <1> QED
    BY <1>1, <1>3, <1>4, <1>5 DEF ChunksInv, Chunks!NothingIsLeftOut

\* A chunk has a character and is no longer than its window; the last ends
\* where the text does.
LEMMA CutIsInWindow ==
  ASSUME ChunksShape, start < Len(kText)
  PROVE  /\ Chunks!End(start) \in Nat /\ Chunks!Cut(start) \in Nat
         /\ start < Chunks!Cut(start)
         /\ Chunks!Cut(start) <= Chunks!End(start)
         /\ Chunks!End(start) <= start + Size
         /\ Chunks!End(start) <= Len(kText)
         /\ Chunks!End(start) # Len(kText) =>
              /\ Chunks!End(start) = start + Size
              /\ start + Size < Len(kText)
         /\ Chunks!End(start) = Len(kText) =>
              Chunks!Cut(start) = Len(kText)
  <1> DEFINE e == Chunks!End(start)
             sentence == {c \in (start + 2)..e : kText[c] = "stop"}
             word == {c \in (start + 1)..e : kText[c] # "char"}
  <1>1. /\ e \in Nat /\ start < e /\ e <= start + Size /\ e <= Len(kText)
        /\ e # Len(kText) => e = start + Size /\ start + Size < Len(kText)
    BY ChunksAssumption DEF ChunksShape, Chunks!End, Chunks!Total
  <1>2. ASSUME NEW S, S # {}, S \subseteq (start + 1)..e
        PROVE  Chunks!Max(S) \in (start + 1)..e
    <2>1. S \subseteq 0..e
      BY <1>1, <1>2 DEF ChunksShape
    <2>2. \E x \in S : \A y \in S : x >= y
      BY <1>1, <1>2, <2>1, GreatestNumber
    <2>3. Chunks!Max(S) \in S
      BY <2>2 DEF Chunks!Max
    <2> QED
      BY <1>2, <2>3
  <1>3. /\ word \subseteq (start + 1)..e /\ sentence \subseteq (start + 1)..e
    BY <1>1 DEF ChunksShape
  <1>4. Chunks!Cut(start) = IF e = Len(kText) THEN Len(kText)
                            ELSE IF sentence # {} THEN Chunks!Max(sentence)
                            ELSE IF word # {} THEN Chunks!Max(word)
                            ELSE e
    BY DEF Chunks!Cut, Chunks!Total
  <1> HIDE DEF sentence, word
  <1>5. Chunks!Cut(start) \in (start + 1)..e
    <2>1. CASE e = Len(kText)
      BY <2>1, <1>1, <1>4 DEF ChunksShape
    <2>2. CASE e # Len(kText) /\ sentence # {}
      BY <2>2, <1>2, <1>3, <1>4
    <2>3. CASE e # Len(kText) /\ sentence = {} /\ word # {}
      BY <2>3, <1>2, <1>3, <1>4
    <2>4. CASE e # Len(kText) /\ sentence = {} /\ word = {}
      BY <2>4, <1>1, <1>4 DEF ChunksShape
    <2> QED
      BY <2>1, <2>2, <2>3, <2>4
  <1>6. start \in Nat
    BY DEF ChunksShape
  <1> QED
    BY <1>1, <1>4, <1>5, <1>6

\* The next window begins no later than the last chunk ended, if that was in
\* the overlap, and before the end of the text.
LEMMA StepIsShort ==
  /\ Chunks!Step \in Nat /\ 0 < Chunks!Step /\ Chunks!Step <= Size
  /\ Chunks!Step > Size - Overlap
       => Chunks!Step = 1 /\ Size <= Overlap
  BY ChunksAssumption DEF Chunks!Step

\* No step of the chunks leaves anything out.
LEMMA ChunksStep ==
  ASSUME ChunksShape, ChunksInv, [Chunks!Next]_chunksVars
  PROVE  ChunksShape' /\ ChunksInv'
  <1> USE DEF chunksVars
  <1>1. CASE UNCHANGED chunksVars
    BY <1>1 DEF ChunksShape, ChunksInv, Chunks!NothingIsLeftOut,
      Chunks!BreaksAreNear, Chunks!Covered, Chunks!Total, Chunks!End
  <1>2. CASE Chunks!OneChunk
    <2>1. /\ chunks' = <<[from |-> 0, to |-> Len(kText)]>> /\ done' = TRUE
          /\ Len(kText) <= Size /\ kText' = kText /\ start' = start
      BY <1>2 DEF Chunks!OneChunk, Chunks!Total
    <2>2. ChunksShape'
      BY <2>1 DEF ChunksShape
    <2>3. /\ Len(chunks') = 1 /\ DOMAIN chunks' = {1}
          /\ chunks'[1].from = 0 /\ chunks'[1].to = Len(kText)
      BY <2>1
    <2>4. \A k \in 1..Len(chunks') :
            chunks'[k].to - chunks'[k].from <= Size
      BY <2>1, <2>3 DEF ChunksShape
    <2>5. \A c \in 1..Len(kText) : Chunks!Covered(c)'
      BY <2>3 DEF Chunks!Covered, ChunksShape
    <2> QED
      BY <2>1, <2>2, <2>3, <2>4, <2>5 DEF ChunksInv,
        Chunks!NothingIsLeftOut, Chunks!Total
  <1>3. CASE Chunks!NextChunk
    <2> DEFINE e == Chunks!End(start)
               t == Chunks!Cut(start)
               N == Len(chunks)
    <2>1. /\ ~done /\ kText' = kText /\ start < Len(kText)
          /\ chunks' = Append(chunks, [from |-> start, to |-> t])
          /\ IF e = Len(kText)
             THEN done' = TRUE /\ start' = start
             ELSE start' = start + Chunks!Step /\ done' = done
      BY <1>3 DEF Chunks!NextChunk, Chunks!Total, ChunksInv
    <2>2. /\ e \in Nat /\ t \in Nat /\ start < t /\ t <= e
          /\ e <= start + Size /\ start \in Nat /\ Len(kText) \in Nat
          /\ e # Len(kText) => e = start + Size /\ start + Size < Len(kText)
          /\ e = Len(kText) => t = Len(kText)
      BY <2>1, CutIsInWindow DEF ChunksShape
    <2> HIDE DEF e, t
    <2>3. /\ N \in Nat /\ Len(chunks') = N + 1
          /\ DOMAIN chunks = 1..N /\ DOMAIN chunks' = 1..(N + 1)
          /\ \A k \in 1..N : chunks'[k] = chunks[k]
          /\ chunks'[N + 1].from = start /\ chunks'[N + 1].to = t
          /\ chunks' \in Seq([from : Nat, to : Nat])
      BY <2>1, <2>2 DEF ChunksShape
    <2>4. ChunksShape'
      <3>1. start' \in Nat
        BY <2>1, <2>2, StepIsShort
      <3>2. done' \in BOOLEAN
        BY <2>1 DEF ChunksShape
      <3> QED
        BY <2>1, <2>3, <3>1, <3>2 DEF ChunksShape
    <2>5. \A k \in 1..Len(chunks') :
            chunks'[k].to - chunks'[k].from <= Size
      <3>1. chunks'[N + 1].to - chunks'[N + 1].from <= Size
        BY <2>2, <2>3, ChunksAssumption
      <3>2. \A k \in 1..N : chunks'[k].to - chunks'[k].from <= Size
        BY <2>3 DEF ChunksInv
      <3>3. \A k \in 1..(N + 1) : k \in 1..N \/ k = N + 1
        BY <2>3
      <3> QED
        BY <2>3, <3>1, <3>2, <3>3
    <2>6. ASSUME Chunks!BreaksAreNear'
          PROVE  \A c \in 1..t : Chunks!Covered(c)'
      <3>1. Chunks!BreaksAreNear
        <4>1. ASSUME NEW k \in 1..N
              PROVE  chunks[k].to >=
                       Chunks!End(chunks[k].from) - Overlap
          <5>1. k \in 1..(N + 1) /\ chunks'[k] = chunks[k]
            BY <2>3
          <5>2. k \in DOMAIN chunks'
            BY <2>3, <5>1
          <5> QED
            BY <5>1, <5>2, <2>6, <2>1
              DEF Chunks!BreaksAreNear, Chunks!End, Chunks!Total
        <4> QED
          BY <4>1, <2>3 DEF Chunks!BreaksAreNear
      <3>2. ASSUME NEW c \in 1..start PROVE Chunks!Covered(c)'
        <4>1. Chunks!Covered(c)
          BY <2>1, <3>1 DEF ChunksInv
        <4>2. PICK k \in 1..N : chunks[k].from < c /\ c <= chunks[k].to
          BY <4>1, <2>3 DEF Chunks!Covered
        <4>3. k \in DOMAIN chunks' /\ chunks'[k] = chunks[k]
          BY <2>3
        <4> QED
          BY <4>2, <4>3 DEF Chunks!Covered
      <3>3. ASSUME NEW c \in (start + 1)..t PROVE Chunks!Covered(c)'
        <4>1. N + 1 \in DOMAIN chunks' /\ start < c /\ c <= t
          BY <2>2, <2>3
        <4> QED
          BY <4>1, <2>3 DEF Chunks!Covered
      <3>4. \A c \in 1..t : c \in 1..start \/ c \in (start + 1)..t
        BY <2>2
      <3> QED
        BY <3>2, <3>3, <3>4
    <2>7. CASE e = Len(kText)
      <3>1. /\ done' = TRUE /\ t = Len(kText)
        BY <2>1, <2>2, <2>7
      <3> QED
        BY <2>1, <2>3, <2>4, <2>5, <2>6, <3>1 DEF ChunksInv,
          Chunks!NothingIsLeftOut, Chunks!Total
    <2>8. CASE e # Len(kText)
      <3>1. /\ done' = done /\ start' = start + Chunks!Step
            /\ start' < Len(kText) /\ start' \in Nat
        BY <2>1, <2>2, <2>8, StepIsShort, ChunksAssumption
      <3>2. Chunks!BreaksAreNear' => start' <= t
        <4> SUFFICES ASSUME Chunks!BreaksAreNear' PROVE start' <= t
          OBVIOUS
        <4>1. N + 1 \in DOMAIN chunks'
          BY <2>3
        <4>2. t >= e - Overlap
          BY <4>1, <2>1, <2>3
            DEF Chunks!BreaksAreNear, Chunks!End, Chunks!Total, e
        <4> QED
          BY <4>2, <2>2, <2>8, <3>1, StepIsShort, ChunksAssumption
      <3>3. Chunks!BreaksAreNear' => \A c \in 1..start' : Chunks!Covered(c)'
        <4>1. start' <= t => \A c \in 1..start' : c \in 1..t
          BY <2>2, <3>1
        <4> QED
          BY <2>6, <3>2, <4>1
      <3> QED
        BY <2>1, <2>3, <2>4, <2>5, <3>1, <3>3 DEF ChunksInv,
          Chunks!NothingIsLeftOut
    <2> QED
      BY <2>7, <2>8
  <1> QED
    BY <1>1, <1>2, <1>3 DEF Chunks!Next

\* No word is said twice in a row.
Unrepeated(said) == \A k \in 2..Len(said) : said[k] # said[k - 1]

\* What is kept of the first n words that are read: no word of them is lost,
\* none is repeated, and the last that is kept is the last of them.
KeptOf(n) ==
  /\ Unrepeated(fOutput)
  /\ \A k \in 1..n : Filter!Heard(fOutput, input[k]) # {}
  /\ n = 0 <=> Len(fOutput) = 0
  /\ n # 0 => fOutput[Len(fOutput)] = input[n]

\* What the variables of the filter are.
FilterShape ==
  /\ words \in Seq(Words) /\ input \in Seq(Words) /\ fOutput \in Seq(Words)
  /\ i \in Nat /\ i > 0

\* No word of the segment is lost.
KeepsWords(said) ==
  \A k \in 1..Len(words) : Filter!Heard(said, words[k]) # {}

FilterInv ==
  /\ fPhase = "text" => i = 1 /\ input = words /\ fOutput = <<>>
  /\ fPhase \in {"words", "phrases"} => i <= Len(input) + 1 /\ KeptOf(i - 1)
  /\ fPhase = "words" =>
       /\ input = words
       /\ i <= Len(input) /\ i # 1 => input[i] # input[i - 1]
  /\ fPhase = "phrases" => Unrepeated(input) /\ KeepsWords(input)
  /\ fPhase = "ratio" => Unrepeated(fOutput) /\ KeepsWords(fOutput)
  /\ Filter!RepetitionsAreGone

\* The segment begins with the invariant.
LEMMA FilterBegins == Filter!Init => FilterShape /\ FilterInv
  <1> SUFFICES ASSUME Filter!Init PROVE FilterShape /\ FilterInv
    OBVIOUS
  <1>1. words \in Seq(Words)
    <2>1. PICK n \in 1..MaxWords : words \in [1..n -> Words]
      BY DEF Filter!Init
    <2> QED
      BY <2>1
  <1>2. fPhase = "text" /\ i = 1 /\ input = words /\ fOutput = <<>>
    BY DEF Filter!Init
  <1> QED
    BY <1>1, <1>2, EmptySeq DEF FilterShape, FilterInv,
      Filter!RepetitionsAreGone

\* A word is said at least once where it is said, and the next is another.
LEMMA RepeatsFacts ==
  ASSUME FilterShape, i <= Len(input)
  PROVE  /\ Filter!Repeats(i) \in 1..(Len(input) - i + 1)
         /\ \A k \in i..(i + Filter!Repeats(i) - 1) : input[k] = input[i]
         /\ i + Filter!Repeats(i) <= Len(input) =>
              input[i + Filter!Repeats(i)] # input[i]
  <1> DEFINE L == Len(input)
             S == {n \in 1..(L - i + 1) :
                     \A j \in i..(i + n - 1) : input[j] = input[i]}
  <1>1. L \in Nat /\ i \in Nat /\ 1 <= i /\ i <= L
    BY DEF FilterShape
  <1>2. S \subseteq 0..(L - i + 1) /\ L - i + 1 \in Nat
    BY <1>1
  <1>3. 1 \in S
    <2>1. 1 \in 1..(L - i + 1) /\ \A j \in i..(i + 1 - 1) : j = i
      BY <1>1
    <2> QED
      BY <2>1
  <1>4. \E x \in S : \A y \in S : x >= y
    BY <1>2, <1>3, GreatestNumber
  <1> DEFINE r == Filter!Repeats(i)
  <1>5. r \in S /\ \A y \in S : r >= y
    BY <1>4 DEF Filter!Repeats, Filter!Max
  <1> HIDE DEF r
  <1>6. /\ r \in 1..(L - i + 1)
        /\ \A k \in i..(i + r - 1) : input[k] = input[i]
    BY <1>5
  <1>7. ASSUME i + r <= L, input[i + r] = input[i] PROVE FALSE
    <2>1. r + 1 \in 1..(L - i + 1)
      BY <1>1, <1>6, <1>7
    <2>2. \A j \in i..(i + (r + 1) - 1) : j \in i..(i + r - 1) \/ j = i + r
      BY <1>1, <1>6
    <2>3. r + 1 \in S
      BY <2>1, <2>2, <1>6, <1>7
    <2> QED
      BY <2>3, <1>5, <1>6
  <1> QED
    BY <1>6, <1>7 DEF r

\* Words that follow on what is kept, and hold those up to the m-th that is
\* read, are kept with it.
LEMMA KeptLonger ==
  ASSUME FilterShape, i <= Len(input), KeptOf(i - 1),
         i # 1 => input[i] # input[i - 1],
         NEW t \in Seq(Words), Len(t) > 0, Unrepeated(t), t[1] = input[i],
         NEW m \in Nat, i <= m, t[Len(t)] = input[m],
         \A k \in i..m : \E j \in 1..Len(t) : t[j] = input[k],
         fOutput' = fOutput \o t, input' = input
  PROVE  KeptOf(m)'
  <1> DEFINE A == Len(fOutput)
             B == Len(t)
  <1>1. /\ A \in Nat /\ B \in Nat /\ B > 0 /\ i \in Nat /\ i > 0
        /\ fOutput \in Seq(Words)
    BY DEF FilterShape
  <1>2. /\ Len(fOutput') = A + B /\ DOMAIN fOutput = 1..A
        /\ DOMAIN fOutput' = 1..(A + B)
        /\ \A k \in 1..A : fOutput'[k] = fOutput[k]
        /\ \A k \in 1..B : fOutput'[A + k] = t[k]
    <2>1. Len(fOutput') = A + B /\ DOMAIN fOutput = 1..A
          /\ DOMAIN fOutput' = 1..(A + B)
      BY <1>1
    <2>2. ASSUME NEW k \in 1..A PROVE fOutput'[k] = fOutput[k]
      BY <1>1
    <2>3. ASSUME NEW k \in 1..B PROVE fOutput'[A + k] = t[k]
      <3>1. A + k \in 1..(A + B) /\ ~(A + k <= A) /\ (A + k) - A = k
        BY <1>1, SMTT(30)
      <3> QED
        BY <1>1, <3>1
    <2> QED
      BY <2>1, <2>2, <2>3
  <1>3. /\ \A k \in 2..A : fOutput[k] # fOutput[k - 1]
        /\ \A k \in 1..(i - 1) : Filter!Heard(fOutput, input[k]) # {}
        /\ i # 1 => A # 0 /\ fOutput[A] = input[i - 1]
        /\ i = 1 => A = 0
    <2>1. i - 1 = 0 <=> i = 1
      BY <1>1
    <2> QED
      BY <2>1 DEF KeptOf, Unrepeated
  <1> HIDE DEF A, B
  <1>4. ASSUME NEW k \in 2..(A + B) PROVE fOutput'[k] # fOutput'[k - 1]
    <2>1. CASE k <= A
      <3>1. k \in 1..A /\ k - 1 \in 1..A /\ k \in 2..A
        BY <2>1, <1>1
      <3> QED
        BY <3>1, <1>2, <1>3
    <2>2. CASE k = A + 1
      <3>1. A # 0 /\ i # 1 /\ A \in 1..A /\ k - 1 = A /\ 1 \in 1..B
        BY <2>2, <1>1, <1>3
      <3>2. fOutput'[k] = t[1] /\ fOutput'[k - 1] = fOutput[A]
        BY <2>2, <3>1, <1>2
      <3> QED
        BY <3>1, <3>2, <1>3
    <2>3. CASE k > A + 1
      <3>1. /\ k - A \in 2..B /\ k - A \in 1..B /\ k - A - 1 \in 1..B
            /\ A + (k - A) = k /\ A + (k - A - 1) = k - 1
        <4>1. A \in Nat /\ B \in Nat /\ k \in Int /\ k <= A + B
          BY <1>1
        <4> QED
          BY <2>3, <4>1
      <3>2. fOutput'[k] = t[k - A] /\ fOutput'[k - 1] = t[k - A - 1]
        BY <3>1, <1>2
      <3> QED
        BY <3>1, <3>2 DEF Unrepeated, B
    <2>4. k <= A \/ k = A + 1 \/ k > A + 1
      <3>1. A \in Int /\ k \in Int
        BY <1>1
      <3> QED
        BY <3>1
    <2> QED
      BY <2>1, <2>2, <2>3, <2>4
  <1>5. Unrepeated(fOutput)'
    BY <1>2, <1>4 DEF Unrepeated
  <1>6. ASSUME NEW k \in 1..m PROVE Filter!Heard(fOutput', input[k]) # {}
    <2>1. CASE k < i
      <3>1. k \in 1..(i - 1)
        BY <2>1, <1>1
      <3>2. PICK j \in 1..A : fOutput[j] = input[k]
        BY <3>1, <1>2, <1>3 DEF Filter!Heard
      <3>3. j \in 1..(A + B)
        BY <1>1
      <3>4. j \in DOMAIN fOutput' /\ fOutput'[j] = input[k]
        BY <3>2, <3>3, <1>2
      <3> QED
        BY <3>4 DEF Filter!Heard
    <2>2. CASE ~(k < i)
      <3>1. k \in i..m
        BY <2>2, <1>1
      <3>2. PICK j \in 1..B : t[j] = input[k]
        BY <3>1 DEF B
      <3>3. A + j \in 1..(A + B)
        BY <1>1
      <3>4. A + j \in DOMAIN fOutput' /\ fOutput'[A + j] = input[k]
        BY <3>2, <3>3, <1>2
      <3> QED
        BY <3>4 DEF Filter!Heard
    <2> QED
      BY <2>1, <2>2
  <1>7. fOutput'[A + B] = input[m]
    <2>1. B \in 1..B
      BY <1>1
    <2> QED
      BY <2>1, <1>2 DEF B
  <1>8. m # 0 /\ A + B # 0
    BY <1>1
  <1> QED
    BY <1>2, <1>5, <1>6, <1>7, <1>8 DEF KeptOf

\* A word that is said once is kept as it is.
LEMMA OneIsUnrepeated ==
  ASSUME NEW w \in Words
  PROVE  /\ <<w>> \in Seq(Words) /\ Len(<<w>>) = 1 /\ Unrepeated(<<w>>)
         /\ \A s \in Seq(Words) : Append(s, w) = s \o <<w>>
  <1>1. <<w>> \in Seq(Words) /\ Len(<<w>>) = 1
    OBVIOUS
  <1>2. Unrepeated(<<w>>)
    BY <1>1 DEF Unrepeated
  <1>3. \A s \in Seq(Words) : Append(s, w) = s \o <<w>>
    BY AppendIsConcat
  <1> QED
    BY <1>1, <1>2, <1>3

\* No step of the filter repeats a word or loses one.
LEMMA FilterStep ==
  ASSUME FilterShape, FilterInv, [Filter!Next]_filterVars
  PROVE  FilterShape' /\ FilterInv'
  <1> USE DEF filterVars
  <1>1. CASE UNCHANGED filterVars
    BY <1>1 DEF FilterShape, FilterInv, KeptOf, KeepsWords, Unrepeated,
      Filter!RepetitionsAreGone
  <1>2. CASE Filter!Look
    <2>1. /\ fPhase = "text" /\ UNCHANGED <<words, meaningless, i, input>>
          /\ \/ fPhase' = "done" /\ fOutput' = <<>>
             \/ fPhase' = "done" /\ Len(words) < 3 /\ fOutput' = words
             \/ fPhase' = "words" /\ fOutput' = fOutput
      BY <1>2 DEF Filter!Look, Filter!Drop
    <2>2. i = 1 /\ input = words /\ fOutput = <<>>
      BY <2>1 DEF FilterInv
    <2>3. FilterShape'
      BY <2>1, <2>2, EmptySeq DEF FilterShape
    <2>4. CASE fPhase' = "done"
      <3>1. Len(words) > 2 => fOutput' = <<>>
        BY <2>1, <2>4 DEF FilterShape
      <3> QED
        BY <2>1, <2>3, <2>4, <3>1 DEF FilterInv, Filter!RepetitionsAreGone
    <2>5. CASE fPhase' = "words" /\ fOutput' = fOutput
      <3>1. KeptOf(0)' /\ i' = 1 /\ input' = words'
        BY <2>1, <2>2, <2>5 DEF KeptOf, Unrepeated
      <3>2. 1 <= Len(input') + 1
        BY <2>3 DEF FilterShape
      <3> QED
        BY <2>3, <2>5, <3>1, <3>2 DEF FilterInv, Filter!RepetitionsAreGone
    <2> QED
      BY <2>1, <2>4, <2>5
  <1>3. CASE Filter!NextWord
    <2>1. /\ fPhase = "words" /\ fPhase' = "words" /\ i <= Len(input)
          /\ fOutput' = Append(fOutput, input[i])
          /\ i' = i + Filter!Repeats(i)
          /\ words' = words /\ input' = input
      BY <1>3 DEF Filter!NextWord
    <2>2. PICK r : r = Filter!Repeats(i)
      OBVIOUS
    <2>3. /\ r \in 1..(Len(input) - i + 1)
          /\ \A k \in i..(i + r - 1) : input[k] = input[i]
          /\ i + r <= Len(input) => input[i + r] # input[i]
      BY <2>1, <2>2, RepeatsFacts
    <2>4. /\ i \in Nat /\ i > 0 /\ Len(input) \in Nat
          /\ input[i] \in Words /\ fOutput \in Seq(Words)
      BY <2>1 DEF FilterShape
    <2>5. /\ KeptOf(i - 1) /\ input = words
          /\ i # 1 => input[i] # input[i - 1]
      BY <2>1 DEF FilterInv
    <2>6. PICK m \in Nat : m = i + r - 1
      BY <2>3, <2>4
    <2>7. KeptOf(m)'
      <3> DEFINE t == <<input[i]>>
      <3>1. /\ t \in Seq(Words) /\ Len(t) = 1 /\ Unrepeated(t)
            /\ fOutput' = fOutput \o t /\ t[1] = input[i]
        BY <2>1, <2>4, OneIsUnrepeated
      <3>2. /\ m \in i..(i + r - 1) /\ i <= m
            /\ \A k \in i..m : k \in i..(i + r - 1)
        BY <2>3, <2>4, <2>6
      <3>3. /\ t[Len(t)] = input[m]
            /\ \A k \in i..m : \E j \in 1..Len(t) : t[j] = input[k]
        BY <2>3, <3>1, <3>2
      <3> HIDE DEF t
      <3>4. FilterShape /\ i <= Len(input) /\ Len(t) > 0 /\ input' = input
        BY <2>1, <3>1
      <3> QED
        BY <2>5, <3>1, <3>2, <3>3, <3>4, KeptLonger
    <2>8. /\ i' \in Nat /\ i' > 0 /\ i' - 1 = m
          /\ i' <= Len(input') + 1 /\ i' = i + r
      <3>1. i' = i + r /\ input' = input /\ r \in 1..(Len(input) - i + 1)
        BY <2>1, <2>2, <2>3
      <3> QED
        BY <3>1, <2>4, <2>6
    <2>9. FilterShape'
      <3>1. fOutput' \in Seq(Words)
        BY <2>1, <2>4
      <3> QED
        BY <2>1, <2>8, <3>1 DEF FilterShape
    <2>10. i' <= Len(input') => input'[i'] # input'[i' - 1]
      <3>1. m \in i..(i + r - 1)
        BY <2>3, <2>4, <2>6
      <3> QED
        BY <2>1, <2>3, <2>8, <3>1
    <2> QED
      BY <2>1, <2>5, <2>7, <2>8, <2>9, <2>10 DEF FilterInv,
        Filter!RepetitionsAreGone
  <1>4. CASE Filter!EndOfWords
    <2>1. /\ fPhase = "words" /\ i > Len(input) /\ i' = 1 /\ words' = words
          /\ \/ fPhase' = "ratio" /\ input' = input /\ fOutput' = fOutput
             \/ fPhase' = "phrases" /\ input' = fOutput /\ fOutput' = <<>>
      BY <1>4 DEF Filter!EndOfWords
    <2>2. /\ KeptOf(i - 1) /\ i - 1 = Len(words) /\ input = words
      BY <2>1 DEF FilterInv, FilterShape
    <2>3. Unrepeated(fOutput) /\ KeepsWords(fOutput)
      BY <2>2 DEF KeptOf, KeepsWords
    <2>4. FilterShape'
      <3>1. <<>> \in Seq(Words) /\ 1 \in Nat /\ 1 > 0
        BY EmptySeq
      <3>2. fOutput' \in Seq(Words) /\ input' \in Seq(Words)
        BY <2>1, <3>1 DEF FilterShape
      <3> QED
        BY <2>1, <3>1, <3>2 DEF FilterShape
    <2>5. CASE fPhase' = "ratio" /\ input' = input /\ fOutput' = fOutput
      <3>1. Unrepeated(fOutput)' /\ KeepsWords(fOutput)'
        BY <2>1, <2>3, <2>5 DEF Unrepeated, KeepsWords
      <3> QED
        BY <2>4, <2>5, <3>1 DEF FilterInv, Filter!RepetitionsAreGone
    <2>6. CASE fPhase' = "phrases" /\ input' = fOutput /\ fOutput' = <<>>
      <3>1. Unrepeated(input)' /\ KeepsWords(input)'
        BY <2>1, <2>3, <2>6 DEF Unrepeated, KeepsWords
      <3>2. KeptOf(0)'
        BY <2>6 DEF KeptOf, Unrepeated
      <3>3. i' - 1 = 0 /\ i' <= Len(input') + 1
        BY <2>1, <2>4 DEF FilterShape
      <3> QED
        BY <2>4, <2>6, <3>1, <3>2, <3>3 DEF FilterInv,
          Filter!RepetitionsAreGone
    <2> QED
      BY <2>1, <2>5, <2>6
  <1>5. CASE Filter!NextPhrase
    <2>1. /\ fPhase = "phrases" /\ fPhase' = "phrases" /\ i <= Len(input)
          /\ words' = words /\ input' = input
          /\ \/ /\ fOutput' = Append(fOutput, input[i])
                /\ i' = i + 1
             \/ /\ Filter!SaidTwice(i) # {}
                /\ fOutput' = fOutput \o SubSeq(input, i,
                                i + Filter!Min(Filter!SaidTwice(i)) - 1)
                /\ i' = i + 2 * Filter!Min(Filter!SaidTwice(i))
      BY <1>5 DEF Filter!NextPhrase
    <2>2. /\ i \in Nat /\ i > 0 /\ Len(input) \in Nat
          /\ input[i] \in Words /\ fOutput \in Seq(Words)
          /\ input \in Seq(Words)
      BY <2>1 DEF FilterShape
    <2>3. KeptOf(i - 1) /\ Unrepeated(input) /\ KeepsWords(input)
      BY <2>1 DEF FilterInv
    <2>4. i # 1 => input[i] # input[i - 1]
      BY <2>1, <2>2, <2>3 DEF Unrepeated
    <2>5. \E t \in Seq(Words), m \in Nat :
            /\ fOutput' = fOutput \o t /\ Len(t) > 0 /\ Unrepeated(t)
            /\ t[1] = input[i] /\ i <= m /\ m <= Len(input) /\ i' = m + 1
            /\ t[Len(t)] = input[m]
            /\ \A k \in i..m : \E j \in 1..Len(t) : t[j] = input[k]
      <3>1. CASE fOutput' = Append(fOutput, input[i]) /\ i' = i + 1
        <4> DEFINE t == <<input[i]>>
        <4>1. /\ t \in Seq(Words) /\ Len(t) = 1 /\ Unrepeated(t)
              /\ fOutput' = fOutput \o t /\ t[1] = input[i]
          BY <3>1, <2>2, OneIsUnrepeated
        <4>2. \A k \in i..i : \E j \in 1..Len(t) : t[j] = input[k]
          BY <4>1, <2>2
        <4>3. t[Len(t)] = input[i] /\ Len(t) > 0 /\ i <= i
          BY <4>1, <2>2
        <4> HIDE DEF t
        <4> QED
          BY <2>1, <2>2, <3>1, <4>1, <4>2, <4>3
      <3>2. CASE /\ Filter!SaidTwice(i) # {}
                 /\ fOutput' = fOutput \o SubSeq(input, i,
                                 i + Filter!Min(Filter!SaidTwice(i)) - 1)
                 /\ i' = i + 2 * Filter!Min(Filter!SaidTwice(i))
        <4>1. Filter!Min(Filter!SaidTwice(i)) \in Filter!SaidTwice(i)
          <5>1. Filter!SaidTwice(i) \subseteq Nat
            BY DEF Filter!SaidTwice
          <5>2. \E x \in Filter!SaidTwice(i) :
                  \A y \in Filter!SaidTwice(i) : x <= y
            BY <3>2, <5>1, LeastNumber
          <5> QED
            BY <5>2 DEF Filter!Min
        <4>2. PICK n : n = Filter!Min(Filter!SaidTwice(i))
          OBVIOUS
        <4>3. /\ n \in Nat /\ n >= 2 /\ i + 2 * n - 1 <= Len(input)
              /\ SubSeq(input, i, i + n - 1) =
                   SubSeq(input, i + n, i + 2 * n - 1)
          <5>1. n \in Filter!SaidTwice(i)
            BY <4>1, <4>2
          <5>2. /\ n \in 2..5 /\ i + 2 * n - 1 <= Len(input)
                /\ SubSeq(input, i, i + n - 1) =
                     SubSeq(input, i + n, i + 2 * n - 1)
            BY <5>1, Zenon DEF Filter!SaidTwice
          <5>3. n \in Nat /\ n >= 2
            BY <5>2
          <5> QED
            BY <5>2, <5>3
        <4> DEFINE t == SubSeq(input, i, i + n - 1)
                   u == SubSeq(input, i + n, i + 2 * n - 1)
        <4>4. /\ t \in Seq(Words) /\ Len(t) = n
              /\ \A k \in 1..n : t[k] = input[i + k - 1]
          <5>1. \A k \in i..(i + n - 1) : input[k] \in Words
            BY <2>2, <4>3
          <5>2. i \in Int /\ i + n - 1 \in Int /\ i <= i + n - 1
                /\ (i + n - 1) - i + 1 = n
            BY <2>2, <4>3
          <5> QED
            BY <5>1, <5>2, SubSeqProperties
        <4>5. \A k \in 1..n : u[k] = input[i + n + k - 1]
          <5>1. \A k \in (i + n)..(i + 2 * n - 1) : input[k] \in Words
            BY <2>2, <4>3
          <5>2. /\ i + n \in Int /\ i + 2 * n - 1 \in Int
                /\ i + n <= i + 2 * n - 1
                /\ (i + 2 * n - 1) - (i + n) + 1 = n
            BY <2>2, <4>3
          <5> QED
            BY <5>1, <5>2, SubSeqProperties
        <4>6. t = u
          BY <4>3
        <4> HIDE DEF t, u
        <4>7. Unrepeated(t)
          <5> SUFFICES ASSUME NEW k \in 2..n PROVE t[k] # t[k - 1]
            BY <4>4 DEF Unrepeated
          <5>1. /\ k \in 1..n /\ k - 1 \in 1..n
                /\ i + (k - 1) - 1 = (i + k - 1) - 1
                /\ i + k - 1 \in 2..Len(input)
            BY <2>2, <4>3
          <5>2. t[k] = input[i + k - 1] /\ t[k - 1] = input[(i + k - 1) - 1]
            BY <4>4, <5>1
          <5> QED
            BY <2>3, <5>1, <5>2 DEF Unrepeated
        <4>8. t[1] = input[i]
          BY <2>2, <4>3, <4>4
        <4>9. t[n] = input[i + 2 * n - 1]
          <5>1. n \in 1..n /\ i + n + n - 1 = i + 2 * n - 1
            BY <2>2, <4>3
          <5> QED
            BY <4>5, <4>6, <5>1
        <4>10. ASSUME NEW k \in i..(i + 2 * n - 1)
               PROVE  \E j \in 1..n : t[j] = input[k]
          <5>1. CASE k <= i + n - 1
            <6>1. k - i + 1 \in 1..n /\ i + (k - i + 1) - 1 = k
              BY <5>1, <2>2, <4>3
            <6> QED
              BY <6>1, <4>4
          <5>2. CASE ~(k <= i + n - 1)
            <6>1. k - i - n + 1 \in 1..n /\ i + n + (k - i - n + 1) - 1 = k
              BY <5>2, <2>2, <4>3
            <6> QED
              BY <6>1, <4>5, <4>6
          <5> QED
            BY <5>1, <5>2
        <4>11. PICK m \in Nat : m = i + 2 * n - 1
          BY <2>2, <4>3
        <4>12. i <= m /\ m <= Len(input) /\ i' = m + 1 /\ Len(t) > 0
          <5>1. i' = i + 2 * n /\ Len(t) = n
            BY <3>2, <4>2, <4>4
          <5> QED
            BY <5>1, <2>2, <4>3, <4>11
        <4>13. fOutput' = fOutput \o t
          BY <3>2, <4>2 DEF t
        <4> QED
          BY <4>4, <4>7, <4>8, <4>9, <4>10, <4>11, <4>12, <4>13
      <3> QED
        BY <2>1, <3>1, <3>2
    <2>6. PICK t \in Seq(Words), m \in Nat :
            /\ fOutput' = fOutput \o t /\ Len(t) > 0 /\ Unrepeated(t)
            /\ t[1] = input[i] /\ i <= m /\ m <= Len(input) /\ i' = m + 1
            /\ t[Len(t)] = input[m]
            /\ \A k \in i..m : \E j \in 1..Len(t) : t[j] = input[k]
      BY <2>5
    <2>7. KeptOf(m)'
      BY <2>1, <2>3, <2>4, <2>6, KeptLonger
    <2>8. FilterShape'
      BY <2>1, <2>2, <2>6 DEF FilterShape
    <2>9. i' - 1 = m /\ i' <= Len(input') + 1
      BY <2>1, <2>2, <2>6
    <2>10. Unrepeated(input)' /\ KeepsWords(input)'
      BY <2>1, <2>3 DEF Unrepeated, KeepsWords
    <2> QED
      BY <2>1, <2>7, <2>8, <2>9, <2>10 DEF FilterInv,
        Filter!RepetitionsAreGone
  <1>6. CASE Filter!EndOfPhrases
    <2>1. /\ fPhase = "phrases" /\ i > Len(input) /\ fPhase' = "ratio"
          /\ UNCHANGED <<words, i, input, fOutput>>
      BY <1>6 DEF Filter!EndOfPhrases
    <2>2. /\ KeptOf(i - 1) /\ i - 1 = Len(input) /\ KeepsWords(input)
      BY <2>1 DEF FilterInv, FilterShape
    <2>3. FilterShape'
      BY <2>1 DEF FilterShape
    <2>4. KeepsWords(fOutput)
      <3> SUFFICES ASSUME NEW k \in 1..Len(words)
                   PROVE  Filter!Heard(fOutput, words[k]) # {}
        BY DEF KeepsWords
      <3>1. PICK j \in 1..Len(input) : input[j] = words[k]
        <4>1. Filter!Heard(input, words[k]) # {}
          BY <2>2 DEF KeepsWords
        <4> QED
          BY <4>1 DEF Filter!Heard, FilterShape
      <3> QED
        BY <2>2, <3>1 DEF KeptOf
    <2>5. Unrepeated(fOutput)' /\ KeepsWords(fOutput)'
      BY <2>1, <2>2, <2>4 DEF KeptOf, Unrepeated, KeepsWords
    <2> QED
      BY <2>1, <2>3, <2>5 DEF FilterInv, Filter!RepetitionsAreGone
  <1>7. CASE Filter!Judge
    <2>1. /\ fPhase = "ratio" /\ fPhase' = "done"
          /\ UNCHANGED <<words, i, input>>
          /\ fOutput' = <<>> \/ fOutput' = fOutput
      BY <1>7 DEF Filter!Judge
    <2>2. Unrepeated(fOutput) /\ KeepsWords(fOutput)
      BY <2>1 DEF FilterInv
    <2>3. FilterShape'
      BY <2>1, EmptySeq DEF FilterShape
    <2>4. Filter!RepetitionsAreGone'
      <3> SUFFICES ASSUME fOutput' # <<>>
                   PROVE  Filter!RepetitionsAreGone'
        BY DEF Filter!RepetitionsAreGone
      <3>1. fOutput' = fOutput /\ words' = words
        BY <2>1
      <3>2. DOMAIN words = 1..Len(words)
        BY DEF FilterShape
      <3> QED
        BY <2>2, <3>1, <3>2 DEF Filter!RepetitionsAreGone, Unrepeated,
          KeepsWords
    <2> QED
      BY <2>1, <2>3, <2>4 DEF FilterInv
  <1> QED
    BY <1>1, <1>2, <1>3, <1>4, <1>5, <1>6, <1>7 DEF Filter!Next

\* Neither the filter of the words nor the cutting into chunks loses what was
\* said: a segment that is kept says every word of it and none twice in a row,
\* and where the chunks end in their overlap they have the whole text
\* (clean_repetitive_text, chunk_text).
THEOREM TextStays == AudioSpec => []TextIsKept
  <1> DEFINE Cuts == component = "chunks" => ChunksShape /\ ChunksInv
             Cleans == component = "filter" => FilterShape /\ FilterInv
  <1>1. AudioInit => Cuts /\ Cleans
    BY ChunksBegin, FilterBegins DEF AudioInit, JobsInit, ChangingInit,
      CaptureInit, TrackInit, ImportInit, OriginInit, TimelinesInit,
      FilterInit, SummaryInit, ChunksInit, ModelsInit, ClockInit
  <1>2. Cuts /\ [AudioNext]_everything => Cuts'
    <2> SUFFICES ASSUME Cuts, [AudioNext]_everything, component' = "chunks"
                 PROVE  ChunksShape' /\ ChunksInv'
      OBVIOUS
    <2>1. [Chunks!Next]_chunksVars /\ component = "chunks"
      BY DEF AudioNext, everything, JobsNext, ChangingNext, CaptureNext,
        TrackNext, ImportNext, OriginNext, TimelinesNext, FilterNext,
        SummaryNext, ChunksNext, ModelsNext, ClockNext
    <2> QED
      BY <2>1, ChunksStep
  <1>3. Cleans /\ [AudioNext]_everything => Cleans'
    <2> SUFFICES ASSUME Cleans, [AudioNext]_everything, component' = "filter"
                 PROVE  FilterShape' /\ FilterInv'
      OBVIOUS
    <2>1. [Filter!Next]_filterVars /\ component = "filter"
      BY DEF AudioNext, everything, JobsNext, ChangingNext, CaptureNext,
        TrackNext, ImportNext, OriginNext, TimelinesNext, FilterNext,
        SummaryNext, ChunksNext, ModelsNext, ClockNext
    <2> QED
      BY <2>1, FilterStep
  <1>4. Cuts /\ Cleans => TextIsKept
    BY DEF TextIsKept, ChunksInv, FilterInv
  <1> QED
    BY <1>1, <1>2, <1>3, <1>4, PTL DEF AudioSpec
=============================================================================
