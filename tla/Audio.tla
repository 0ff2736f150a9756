------------------------------- MODULE Audio --------------------------------
(***************************************************************************)
(* The audio of a Session and the text it becomes: the capture, the track  *)
(* on disk, the import of a file, the processing of several origins, with  *)
(* one audio and with audio that changes, the audio of one origin, the     *)
(* timelines of several, the filter of repetitions, the chunks of a long   *)
(* text, the summaries, the model that tells speakers apart and the time   *)
(* of a recording.  A behaviour is one of one of them.                     *)
(***************************************************************************)
EXTENDS ProcessingJobs, Integers

CONSTANTS
    (* Of ProcessingJobs, where the audio changes *)
    LaterJobs, MaxLaterTake,
    (* Of CapturePipeline *)
    Inputs, SlowInputs, Block, Capacity, MaxCall, MaxAudio, MinSpeech, Quiet,
    (* Of CheckpointedTrack *)
    Mic, Sys, Interval, MaxChunk,
    (* Of MediaImport *)
    Imports, Nothing,
    (* Of OriginAudio *)
    MaxPackets, MaxStretches, MaxPiece, Radius, Second, Minimum,
    (* Of OriginTimelines *)
    Said, Results, MaxRuns,
    (* Of RepetitionFilter *)
    Words, MaxWords,
    (* Of Summaries *)
    Tasks, Texts, English, Others, Edited, Stale, MaxAsks, MaxTroubles,
    (* Of TextChunks *)
    MaxLength, Size,
    (* Of DiarizationModels *)
    FileCount, Diarizations, Installs, Pages, Gone,
    (* Of RecordingClock *)
    RecoverableLimit,
    (* Values and bounds that several have, by the component *)
    Window, Overlap, MaxTime, MaxFaults, MaxCrashes,
    Unused  \* the value of the variables of a component that does not move

VARIABLE component  \* the one that a behaviour is about

VARIABLES
    nUp, nGate, nPc, nSession, nHash, nStatus, nCode, nWarning, nTodo, nHeard,
    nFailed, nLabelled, nProblem, nExists, nAuthor, nContent, nRevision,
    nPresent, nTake, nCancelled, nStranded

changingVars ==
    <<nUp, nGate, nPc, nSession, nHash, nStatus, nCode, nWarning, nTodo,
      nHeard, nFailed, nLabelled, nProblem, nExists, nAuthor, nContent,
      nRevision, nPresent, nTake, nCancelled, nStranded>>

VARIABLES
    recording, paused, streams, cFailed, stopping, captured, held, queue,
    stored, ring, taken, dropped, windows, pending, cHeard, cSession,
    inSpeech, current, speech, sent

captureVars ==
    <<recording, paused, streams, cFailed, stopping, captured, held, queue,
      stored, ring, taken, dropped, windows, pending, cHeard, cSession,
      inSpeech, current, speech, sent>>

VARIABLES
    phase, turn, buffer, next, count, tFailed, ready, ckpt, dir, track,
    playback, metadata, origin, report, tHeard, safe, halved, faults, crashes

trackVars ==
    <<phase, turn, buffer, next, count, tFailed, ready, ckpt, dir, track,
      playback, metadata, origin, report, tHeard, safe, halved, faults,
      crashes>>

VARIABLES
    inProgress, iCancelled, iGate, gateCancel, iPc, folder, holds, iRow,
    events, iStatus, ignores, open, starting, cancelling, iFaults, iCrashes

importVars ==
    <<inProgress, iCancelled, iGate, gateCancel, iPc, folder, holds, iRow,
      events, iStatus, ignores, open, starting, cancelling, iFaults, iCrashes>>

VARIABLES
    stage, packets, samples, stretches, position, cut, pieces, passed, oHeard,
    oFaults

originVars ==
    <<stage, packets, samples, stretches, position, cut, pieces, passed,
      oHeard, oFaults>>

VARIABLES
    timelines, labels, merged, order, shared, snapshot, runs

timelinesVars ==
    <<timelines, labels, merged, order, shared, snapshot, runs>>

VARIABLES
    words, meaningless, fPhase, i, input, fOutput

filterVars ==
    <<words, meaningless, fPhase, i, input, fOutput>>

VARIABLES
    sStatus, result, backup, registry, sCancelled, sPc, pass, text, lang,
    english, good, outcome, canceller, lapsed, edited, last, asks, troubles

summaryVars ==
    <<sStatus, result, backup, registry, sCancelled, sPc, pass, text, lang,
      english, good, outcome, canceller, lapsed, edited, last, asks, troubles>>

VARIABLES
    kText, start, chunks, done

chunksVars ==
    <<kText, start, chunks, done>>

VARIABLES
    target, staging, line, inside, dPc, at, dVerdict, touched, orphans,
    dFaults, dCrashes

modelsVars ==
    <<target, staging, line, inside, dPc, at, dVerdict, touched, orphans,
      dFaults, dCrashes>>

VARIABLES
    now, wPhase, isRecording, isPaused, recordingStart, pauseStart,
    totalPause, recoverable, wCaptured, transcribed, duration, wFaults

clockVars ==
    <<now, wPhase, isRecording, isPaused, recordingStart, pauseStart,
      totalPause, recoverable, wCaptured, transcribed, duration, wFaults>>

Changing == INSTANCE ProcessingJobs WITH
    Jobs <- LaterJobs, MaxTake <- MaxLaterTake, up <- nUp, gate <- nGate,
    pc <- nPc, session <- nSession, hash <- nHash, status <- nStatus,
    code <- nCode, warning <- nWarning, todo <- nTodo, heard <- nHeard,
    failed <- nFailed, labelled <- nLabelled, problem <- nProblem,
    exists <- nExists, author <- nAuthor, content <- nContent,
    revision <- nRevision, present <- nPresent, take <- nTake,
    cancelled <- nCancelled, stranded <- nStranded

Capturing == INSTANCE CapturePipeline WITH
    Sources <- Inputs, Resampled <- SlowInputs, Window <- Window["capture"],
    failed <- cFailed, heard <- cHeard, session <- cSession

Track == INSTANCE CheckpointedTrack WITH
    MaxTime <- MaxTime["track"], MaxFaults <- MaxFaults["track"],
    MaxCrashes <- MaxCrashes["track"], failed <- tFailed, heard <- tHeard

Import == INSTANCE MediaImport WITH
    MaxFaults <- MaxFaults["import"], MaxCrashes <- MaxCrashes["import"],
    cancelled <- iCancelled, gate <- iGate, pc <- iPc, row <- iRow,
    status <- iStatus, faults <- iFaults, crashes <- iCrashes

OneOrigin == INSTANCE OriginAudio WITH
    Window <- Window["origin"], MaxFaults <- MaxFaults["origin"],
    heard <- oHeard, faults <- oFaults

Timelines == INSTANCE OriginTimelines WITH
    Microphone <- Mic, System <- Sys, Texts <- Said,
    MaxTime <- MaxTime["timelines"]

Filter == INSTANCE RepetitionFilter WITH
    phase <- fPhase, output <- fOutput

Summary == INSTANCE Summaries WITH
    status <- sStatus, cancelled <- sCancelled, pc <- sPc

Chunks == INSTANCE TextChunks WITH
    text <- kText

Models == INSTANCE DiarizationModels WITH
    Jobs <- Diarizations, MaxFaults <- MaxFaults["models"],
    MaxCrashes <- MaxCrashes["models"], pc <- dPc, verdict <- dVerdict,
    faults <- dFaults, crashes <- dCrashes

Clock == INSTANCE RecordingClock WITH
    Unknown <- Nothing, MaxTime <- MaxTime["clock"],
    MaxFaults <- MaxFaults["clock"], phase <- wPhase, captured <- wCaptured,
    faults <- wFaults

-----------------------------------------------------------------------------
(* A behaviour is one of one component; the variables of the others are    *)
(* not used.                                                               *)

NoJobs ==
    /\ up = Unused /\ gate = Unused /\ pc = Unused /\ session = Unused
    /\ hash = Unused /\ status = Unused /\ code = Unused /\ warning = Unused
    /\ todo = Unused /\ heard = Unused /\ failed = Unused /\ labelled = Unused
    /\ problem = Unused /\ exists = Unused /\ author = Unused
    /\ content = Unused /\ revision = Unused /\ present = Unused
    /\ take = Unused /\ cancelled = Unused /\ stranded = Unused

NoChanging ==
    /\ nUp = Unused /\ nGate = Unused /\ nPc = Unused /\ nSession = Unused
    /\ nHash = Unused /\ nStatus = Unused /\ nCode = Unused
    /\ nWarning = Unused /\ nTodo = Unused /\ nHeard = Unused
    /\ nFailed = Unused /\ nLabelled = Unused /\ nProblem = Unused
    /\ nExists = Unused /\ nAuthor = Unused /\ nContent = Unused
    /\ nRevision = Unused /\ nPresent = Unused /\ nTake = Unused
    /\ nCancelled = Unused /\ nStranded = Unused

NoCapture ==
    /\ recording = Unused /\ paused = Unused /\ streams = Unused
    /\ cFailed = Unused /\ stopping = Unused /\ captured = Unused
    /\ held = Unused /\ queue = Unused /\ stored = Unused /\ ring = Unused
    /\ taken = Unused /\ dropped = Unused /\ windows = Unused
    /\ pending = Unused /\ cHeard = Unused /\ cSession = Unused
    /\ inSpeech = Unused /\ current = Unused /\ speech = Unused
    /\ sent = Unused

NoTrack ==
    /\ phase = Unused /\ turn = Unused /\ buffer = Unused /\ next = Unused
    /\ count = Unused /\ tFailed = Unused /\ ready = Unused /\ ckpt = Unused
    /\ dir = Unused /\ track = Unused /\ playback = Unused
    /\ metadata = Unused /\ origin = Unused /\ report = Unused
    /\ tHeard = Unused /\ safe = Unused /\ halved = Unused /\ faults = Unused
    /\ crashes = Unused

NoImport ==
    /\ inProgress = Unused /\ iCancelled = Unused /\ iGate = Unused
    /\ gateCancel = Unused /\ iPc = Unused /\ folder = Unused
    /\ holds = Unused /\ iRow = Unused /\ events = Unused /\ iStatus = Unused
    /\ ignores = Unused /\ open = Unused /\ starting = Unused
    /\ cancelling = Unused /\ iFaults = Unused /\ iCrashes = Unused

NoOrigin ==
    /\ stage = Unused /\ packets = Unused /\ samples = Unused
    /\ stretches = Unused /\ cut = Unused /\ passed = Unused
    /\ oHeard = Unused
    /\ position = Unused /\ pieces = Unused /\ oFaults = Unused

NoTimelines ==
    /\ timelines = Unused /\ labels = Unused /\ merged = Unused
    /\ order = Unused /\ shared = Unused /\ snapshot = Unused /\ runs = Unused

NoFilter ==
    /\ words = Unused /\ meaningless = Unused /\ fPhase = Unused /\ i = Unused
    /\ input = Unused /\ fOutput = Unused

NoSummary ==
    /\ sStatus = Unused /\ result = Unused /\ backup = Unused
    /\ registry = Unused /\ sCancelled = Unused /\ sPc = Unused
    /\ pass = Unused /\ text = Unused /\ lang = Unused /\ english = Unused
    /\ good = Unused /\ outcome = Unused /\ canceller = Unused
    /\ lapsed = Unused /\ edited = Unused /\ last = Unused /\ asks = Unused
    /\ troubles = Unused

NoChunks ==
    /\ kText = Unused /\ start = Unused /\ chunks = Unused /\ done = Unused

NoModels ==
    /\ target = Unused /\ staging = Unused /\ line = Unused /\ inside = Unused
    /\ dPc = Unused /\ at = Unused /\ dVerdict = Unused /\ touched = Unused
    /\ orphans = Unused /\ dFaults = Unused /\ dCrashes = Unused

NoClock ==
    /\ now = Unused /\ wPhase = Unused /\ isRecording = Unused
    /\ isPaused = Unused /\ recordingStart = Unused /\ pauseStart = Unused
    /\ totalPause = Unused /\ recoverable = Unused /\ wCaptured = Unused
    /\ transcribed = Unused /\ duration = Unused /\ wFaults = Unused

everything == <<component, vars, changingVars, captureVars, trackVars,
          importVars, originVars, timelinesVars, filterVars, summaryVars,
          chunksVars, modelsVars, clockVars>>

JobsInit ==
    /\ component = "jobs"
    /\ Init
    /\ NoChanging /\ NoCapture /\ NoTrack /\ NoImport /\ NoOrigin
    /\ NoTimelines /\ NoFilter /\ NoSummary /\ NoChunks /\ NoModels /\ NoClock

JobsNext ==
    /\ component = "jobs"
    /\ Next
    /\ UNCHANGED <<component, changingVars, captureVars, trackVars,
                   importVars, originVars, timelinesVars, filterVars,
                   summaryVars, chunksVars, modelsVars, clockVars>>

ChangingInit ==
    /\ component = "changing"
    /\ Changing!Init
    /\ NoJobs /\ NoCapture /\ NoTrack /\ NoImport /\ NoOrigin /\ NoTimelines
    /\ NoFilter /\ NoSummary /\ NoChunks /\ NoModels /\ NoClock

ChangingNext ==
    /\ component = "changing"
    /\ Changing!Next
    /\ UNCHANGED <<component, vars, captureVars, trackVars, importVars,
                   originVars, timelinesVars, filterVars, summaryVars,
                   chunksVars, modelsVars, clockVars>>

CaptureInit ==
    /\ component = "capture"
    /\ Capturing!Init
    /\ NoJobs /\ NoChanging /\ NoTrack /\ NoImport /\ NoOrigin /\ NoTimelines
    /\ NoFilter /\ NoSummary /\ NoChunks /\ NoModels /\ NoClock

CaptureNext ==
    /\ component = "capture"
    /\ Capturing!Next
    /\ UNCHANGED <<component, vars, changingVars, trackVars, importVars,
                   originVars, timelinesVars, filterVars, summaryVars,
                   chunksVars, modelsVars, clockVars>>

TrackInit ==
    /\ component = "track"
    /\ Track!Init
    /\ NoJobs /\ NoChanging /\ NoCapture /\ NoImport /\ NoOrigin
    /\ NoTimelines /\ NoFilter /\ NoSummary /\ NoChunks /\ NoModels /\ NoClock

TrackNext ==
    /\ component = "track"
    /\ Track!Next
    /\ UNCHANGED <<component, vars, changingVars, captureVars, importVars,
                   originVars, timelinesVars, filterVars, summaryVars,
                   chunksVars, modelsVars, clockVars>>

ImportInit ==
    /\ component = "import"
    /\ Import!Init
    /\ NoJobs /\ NoChanging /\ NoCapture /\ NoTrack /\ NoOrigin /\ NoTimelines
    /\ NoFilter /\ NoSummary /\ NoChunks /\ NoModels /\ NoClock

ImportNext ==
    /\ component = "import"
    /\ Import!Next
    /\ UNCHANGED <<component, vars, changingVars, captureVars, trackVars,
                   originVars, timelinesVars, filterVars, summaryVars,
                   chunksVars, modelsVars, clockVars>>

OriginInit ==
    /\ component = "origin"
    /\ OneOrigin!Init
    /\ NoJobs /\ NoChanging /\ NoCapture /\ NoTrack /\ NoImport /\ NoTimelines
    /\ NoFilter /\ NoSummary /\ NoChunks /\ NoModels /\ NoClock

OriginNext ==
    /\ component = "origin"
    /\ OneOrigin!Next
    /\ UNCHANGED <<component, vars, changingVars, captureVars, trackVars,
                   importVars, timelinesVars, filterVars, summaryVars,
                   chunksVars, modelsVars, clockVars>>

TimelinesInit ==
    /\ component = "timelines"
    /\ Timelines!Init
    /\ NoJobs /\ NoChanging /\ NoCapture /\ NoTrack /\ NoImport /\ NoOrigin
    /\ NoFilter /\ NoSummary /\ NoChunks /\ NoModels /\ NoClock

TimelinesNext ==
    /\ component = "timelines"
    /\ Timelines!Next
    /\ UNCHANGED <<component, vars, changingVars, captureVars, trackVars,
                   importVars, originVars, filterVars, summaryVars,
                   chunksVars, modelsVars, clockVars>>

FilterInit ==
    /\ component = "filter"
    /\ Filter!Init
    /\ NoJobs /\ NoChanging /\ NoCapture /\ NoTrack /\ NoImport /\ NoOrigin
    /\ NoTimelines /\ NoSummary /\ NoChunks /\ NoModels /\ NoClock

FilterNext ==
    /\ component = "filter"
    /\ Filter!Next
    /\ UNCHANGED <<component, vars, changingVars, captureVars, trackVars,
                   importVars, originVars, timelinesVars, summaryVars,
                   chunksVars, modelsVars, clockVars>>

SummaryInit ==
    /\ component = "summary"
    /\ Summary!Init
    /\ NoJobs /\ NoChanging /\ NoCapture /\ NoTrack /\ NoImport /\ NoOrigin
    /\ NoTimelines /\ NoFilter /\ NoChunks /\ NoModels /\ NoClock

SummaryNext ==
    /\ component = "summary"
    /\ Summary!Next
    /\ UNCHANGED <<component, vars, changingVars, captureVars, trackVars,
                   importVars, originVars, timelinesVars, filterVars,
                   chunksVars, modelsVars, clockVars>>

ChunksInit ==
    /\ component = "chunks"
    /\ Chunks!Init
    /\ NoJobs /\ NoChanging /\ NoCapture /\ NoTrack /\ NoImport /\ NoOrigin
    /\ NoTimelines /\ NoFilter /\ NoSummary /\ NoModels /\ NoClock

ChunksNext ==
    /\ component = "chunks"
    /\ Chunks!Next
    /\ UNCHANGED <<component, vars, changingVars, captureVars, trackVars,
                   importVars, originVars, timelinesVars, filterVars,
                   summaryVars, modelsVars, clockVars>>

ModelsInit ==
    /\ component = "models"
    /\ Models!Init
    /\ NoJobs /\ NoChanging /\ NoCapture /\ NoTrack /\ NoImport /\ NoOrigin
    /\ NoTimelines /\ NoFilter /\ NoSummary /\ NoChunks /\ NoClock

ModelsNext ==
    /\ component = "models"
    /\ Models!Next
    /\ UNCHANGED <<component, vars, changingVars, captureVars, trackVars,
                   importVars, originVars, timelinesVars, filterVars,
                   summaryVars, chunksVars, clockVars>>

ClockInit ==
    /\ component = "clock"
    /\ Clock!Init
    /\ NoJobs /\ NoChanging /\ NoCapture /\ NoTrack /\ NoImport /\ NoOrigin
    /\ NoTimelines /\ NoFilter /\ NoSummary /\ NoChunks /\ NoModels

ClockNext ==
    /\ component = "clock"
    /\ Clock!Next
    /\ UNCHANGED <<component, vars, changingVars, captureVars, trackVars,
                   importVars, originVars, timelinesVars, filterVars,
                   summaryVars, chunksVars, modelsVars>>

AudioInit ==
    \/ JobsInit \/ ChangingInit \/ CaptureInit \/ TrackInit \/ ImportInit
    \/ OriginInit \/ TimelinesInit \/ FilterInit \/ SummaryInit \/ ChunksInit
    \/ ModelsInit \/ ClockInit

AudioNext ==
    \/ JobsNext \/ ChangingNext \/ CaptureNext \/ TrackNext \/ ImportNext
    \/ OriginNext \/ TimelinesNext \/ FilterNext \/ SummaryNext \/ ChunksNext
    \/ ModelsNext \/ ClockNext

AudioSpec == AudioInit /\ [][AudioNext]_everything

-----------------------------------------------------------------------------
(* Assumptions about the constants: the bounds are numbers, and a value    *)
(* that stands for nothing is not one of those it stands beside.           *)

ASSUME ChangingAssumption ==
    /\ Original \notin LaterJobs /\ None \notin LaterJobs
    /\ MaxLaterTake \in Nat \ {0}

(* The longest call of a callback and what the resampler holds fit beside  *)
(* a window that is not full; there is a microphone and a system.          *)
ASSUME CaptureAssumption ==
    /\ {MaxCall, MaxAudio, MinSpeech, Capacity} \subseteq Nat
    /\ Block \in Nat \ {0} /\ Window["capture"] \in Nat \ {0}
    /\ (MaxCall + Block - 1) + (Window["capture"] - 1)
          <= Window["capture"] * Capacity
    /\ \A s, t \in Inputs : s # t => Inputs = {s, t}
    /\ Quiet \notin Nat \cup [source : Inputs, size : Nat]

ASSUME TrackAssumption ==
    /\ Interval \in Nat \ {0}
    /\ {MaxTime["track"], MaxChunk} \subseteq Nat

ASSUME SummaryAssumption == None \notin Texts

ASSUME ClockAssumption == Nothing \notin Int

ASSUME OriginAssumption ==
    /\ {MaxPiece, Radius, Window["origin"]} \subseteq Nat
    /\ Second \in Nat /\ Minimum \in Nat \ {0}
    /\ Minimum <= Second /\ Minimum <= MaxPiece

ASSUME TimelinesAssumption ==
    /\ Mic # Sys
    /\ MaxTime["timelines"] \in Nat
    /\ None \notin Said \X Nat \X Nat

ASSUME ChunksAssumption ==
    Size \in Nat \ {0} /\ Overlap \in Nat

ASSUME ModelsAssumption ==
    /\ FileCount \in Nat
    /\ Pages \cap (Diarizations \cup Installs) = {}
    /\ Gone \notin Models!Directory

-----------------------------------------------------------------------------
(* Properties: those of the components. *)

(* The transcript of a Session was heard in the audio its row names, and a *)
(* result that lacks an origin never replaces one                          *)
(* (run_retranscription, must_preserve_existing_transcript).               *)
TranscriptsAreTrue ==
    /\ [](component = "jobs" => TranscriptMatchesItsRow)
    /\ [](component = "changing" => Changing!TranscriptMatchesItsRow)
    /\ [][component = "jobs" =>
            \A m \in Meetings, j \in Jobs :
                author'[m] = j /\ author[m] # j /\ failed[j] # {}
                    => author[m] = None]_everything

(* The mixer throws no audio away, pads it within bounds, and what is      *)
(* heard in the mix is transcribed (pipeline.rs, vad.rs).                  *)
CapturedSpeechIsSent ==
    component = "capture" =>
        /\ Capturing!NothingIsDropped
        /\ Capturing!MixIsBounded
        /\ Capturing!SpeechIsSent

(* What a checkpoint holds survives failures and crashes, and neither the  *)
(* metadata of a recording nor a recovery claims more than what is stored  *)
(* (incremental_saver.rs, recording_saver.rs).                             *)
RecordingsAreRecoverable ==
    component = "track" =>
        /\ Track!NothingSavedIsLost
        /\ Track!StoredIsComplete
        /\ Track!SuccessHasEveryOrigin

(* An imported Session has its folder, and a failed import leaves none     *)
(* (run_import).                                                           *)
ImportIsWholeOrNothing ==
    component = "import" =>
        Import!RowHasItsFolder /\ Import!FailureLeavesNoFolder

(* Of the speech in an origin nothing is heard twice, nothing is left out  *)
(* but short tails, and no piece is too long for the model                 *)
(* (split_segment_at_silence, process_audio_origin).                       *)
SpeechIsHeardOnce ==
    component = "origin" =>
        OneOrigin!NothingIsHeardTwice /\ OneOrigin!OnlyTailsAreLeftOut

(* The merge of two origins is whole, does not depend on their order, and  *)
(* its speakers are complete or absent (merge_origin_timelines).           *)
TimelinesMerge ==
    component = "timelines" =>
        /\ Timelines!MergeIgnoresTheOrder
        /\ Timelines!DuplicatesAreKeptAndMarked
        /\ Timelines!SpeakersAreCompleteOrAbsent

(* A summary is of the text it claims to be of, generated or translated;   *)
(* failures, cancellations and restarts leave the last one, and while      *)
(* nothing fails a pending one is being worked on                          *)
(* (extract_cached_english_markdown, create_or_reset_process,              *)
(* update_process_failed).                                                 *)
SummariesAreTrueAndKept ==
    component = "summary" =>
        /\ Summary!SummaryIsOfItsText
        /\ Summary!LastSummaryIsKept
        /\ Summary!PendingIsBeingWorkedOn

(* A segment that is kept has lost its repetitions, and no word of it      *)
(* (clean_repetitive_text); chunks that end in their overlap miss nothing  *)
(* (chunk_text).                                                           *)
TextIsKept ==
    /\ component = "filter" => Filter!RepetitionsAreGone
    /\ component = "chunks" => Chunks!NothingIsLeftOut

(* A model that was found available is whole, and only an install replaces *)
(* it, at once and while no job uses it (diarization_models.rs).           *)
ModelsAreWhole ==
    /\ [](component = "models" => Models!TrustedIsWhole)
    /\ [][component = "models" =>
            (target' # target /\ dFaults' = dFaults
                => /\ Models!Whole(target')
                   /\ \A j \in Diarizations : dPc[j] # "using")]_everything

(* The active duration is the time that was captured, and the metadata     *)
(* never says that there was more (recording_state.rs,                     *)
(* save_recording_only).                                                   *)
DurationIsTrue ==
    component = "clock" => Clock!ClockIsTrue /\ Clock!DurationWasCaptured
=============================================================================
