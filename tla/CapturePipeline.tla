-------------------------- MODULE CapturePipeline --------------------------
(***************************************************************************)
(* The way of the audio of one recording: the callbacks of two sources     *)
(* resample what the devices give and send it to the pipeline, which hands *)
(* it to the task that stores it, mixes both sources window by window and  *)
(* lets a detector of speech cut the mix into the segments that are        *)
(* transcribed.  Audio is counted in units of one chunk of the detector;   *)
(* what a sample holds, gains and filters are left out.  The session of    *)
(* the detector is a library: it may hear speech begin or end anywhere.    *)
(*                                                                         *)
(* Sources: audio/pipeline.rs, audio/vad.rs, audio/recording_state.rs,     *)
(* audio/stream.rs, audio/recording_manager.rs of                          *)
(* src/frontend/src-tauri/src.                                             *)
(***************************************************************************)
EXTENDS Naturals, Sequences, FiniteSets

CONSTANTS
    Sources,    \* the microphone and the system
    Resampled,  \* the sources that are not at the rate of the pipeline
    Block,      \* what the resampler takes at once
    Window,     \* window_size_samples
    Capacity,   \* max_buffer_size, in windows
    MaxCall,    \* bound: the longest call of a callback
    MaxAudio,   \* bound: what a source captures
    MinSpeech,  \* the shortest segment that is transcribed
    Quiet       \* no speech, no request to flush

VARIABLES
    recording,  \* RecordingState.is_recording
    paused,     \* RecordingState.is_paused
    streams,    \* the sources whose stream runs
    failed,     \* the sources that reported an error
    stopping,   \* where the stop stands
    captured,   \* what the devices of the sources gave
    held,       \* resampler_input_buffer of each source
    queue,      \* the channel of the pipeline
    stored,     \* what the pipeline handed to the task that stores it
    ring,       \* the buffers of the mixer
    taken,      \* what was mixed
    dropped,    \* what the mixer threw away
    windows,    \* windows mixed
    pending,    \* chunks of the last window the detector has not heard
    heard,      \* processed_samples
    session,    \* where the speech the library hears began
    inSpeech,   \* in_speech
    current,    \* length of current_speech
    speech,     \* history: the speech the library heard, [from, to)
    sent        \* the segments sent to be transcribed, [from, to)

control == <<recording, paused, streams, failed, stopping>>
capture == <<captured, held>>
mixer == <<stored, ring, taken, dropped, windows>>
detector == <<heard, session, inSpeech, current, speech, sent>>
vars == <<control, capture, queue, mixer, pending, detector>>

-----------------------------------------------------------------------------
(* Types *)

Chunk == [source : Sources, size : 1..(MaxCall + Block)]
Position == 0..(Window * Cardinality(Sources) * MaxAudio)

TypeOK ==
    /\ recording \in BOOLEAN
    /\ paused \in BOOLEAN
    /\ streams \in SUBSET Sources
    /\ failed \in SUBSET Sources
    /\ stopping \in {"no", "streams", "flushing", "closed", "ended"}
    /\ captured \in [Sources -> 0..MaxAudio]
    /\ held \in [Sources -> 0..(Block - 1)]
    /\ queue \in Seq(Chunk \cup {Quiet})
    /\ stored \in [Sources -> 0..MaxAudio]
    /\ ring \in [Sources -> 0..(Window * Capacity)]
    /\ taken \in [Sources -> 0..MaxAudio]
    /\ dropped \in [Sources -> 0..MaxAudio]
    /\ windows \in Nat
    /\ pending \in 0..Window
    /\ heard \in Position
    /\ session \in Position \cup {Quiet}
    /\ inSpeech \in BOOLEAN
    /\ current \in Position
    /\ speech \in Seq(Position \X Position)
    /\ sent \in Seq(Position \X Position)

\* The sources that could be opened; the manager starts only with one.
ControlInit ==
    /\ recording = TRUE
    /\ paused = FALSE
    /\ streams \in (SUBSET Sources) \ {{}}
    /\ failed = {}
    /\ stopping = "no"

CaptureInit ==
    /\ captured = [s \in Sources |-> 0]
    /\ held = [s \in Sources |-> 0]

MixerInit ==
    /\ stored = [s \in Sources |-> 0]
    /\ ring = [s \in Sources |-> 0]
    /\ taken = [s \in Sources |-> 0]
    /\ dropped = [s \in Sources |-> 0]
    /\ windows = 0

DetectorInit ==
    /\ heard = 0
    /\ session = Quiet
    /\ inSpeech = FALSE
    /\ current = 0
    /\ speech = <<>>
    /\ sent = <<>>

PipelineInit == queue = <<>> /\ pending = 0 /\ MixerInit /\ DetectorInit

Init == ControlInit /\ CaptureInit /\ PipelineInit

-----------------------------------------------------------------------------
(* Capture *)

Least(a, b) == IF a < b THEN a ELSE b

\* What the resampler gives of what it holds, and what it keeps.
Blocks(s, n) == IF s \in Resampled THEN (n \div Block) * Block ELSE n
Rest(s, n) == IF s \in Resampled THEN n % Block ELSE 0

\* process_audio_data: a callback that finds no whole block sends nothing;
\* while the recording is paused, send_audio_chunk throws the chunk away.
Callback(s, n) ==
    /\ s \in streams
    /\ recording
    /\ captured[s] + n <= MaxAudio
    /\ captured' = [captured EXCEPT ![s] = @ + n]
    /\ held' = [held EXCEPT ![s] = Rest(s, @ + n)]
    /\ LET size == Blocks(s, held[s] + n)
       IN  \/ /\ size > 0
              /\ ~paused
              /\ queue' = Append(queue, [source |-> s, size |-> size])
           \/ /\ size = 0 \/ paused
              /\ UNCHANGED queue
    /\ UNCHANGED <<control, mixer, pending, detector>>

\* handle_stream_error: the source is marked, its stream gives no more, the
\* recording goes on.
StreamFails(s) ==
    /\ s \in streams
    /\ streams' = streams \ {s}
    /\ failed' = failed \cup {s}
    /\ UNCHANGED <<recording, paused, stopping, capture, queue, mixer,
                   pending, detector>>

PauseRecording ==
    /\ recording
    /\ ~paused
    /\ paused' = TRUE
    /\ UNCHANGED <<recording, streams, failed, stopping, capture, queue,
                   mixer, pending, detector>>

ResumeRecording ==
    /\ recording
    /\ paused
    /\ paused' = FALSE
    /\ UNCHANGED <<recording, streams, failed, stopping, capture, queue,
                   mixer, pending, detector>>

-----------------------------------------------------------------------------
(* Stopping *)

\* RecordingState::stop_recording: no callback sends any more.
StopRecording ==
    /\ stopping = "no"
    /\ stopping' = "streams"
    /\ recording' = FALSE
    /\ paused' = FALSE
    /\ UNCHANGED <<streams, failed, capture, queue, mixer, pending, detector>>

StopStreams ==
    /\ stopping = "streams"
    /\ stopping' = "flushing"
    /\ streams' = {}
    /\ recording' = FALSE
    /\ UNCHANGED <<paused, failed, capture, queue, mixer, pending, detector>>

\* force_flush_and_stop asks to flush once, and three times more.
ForceFlush ==
    /\ stopping = "flushing"
    /\ stopping' = "closed"
    /\ queue' = queue \o <<Quiet, Quiet>>
    /\ UNCHANGED <<recording, paused, streams, failed, capture, mixer,
                   pending, detector>>

\* stop_streams_and_force_flush
Stop == StopRecording \/ StopStreams \/ ForceFlush

-----------------------------------------------------------------------------
(* The mixer *)

\* Mutation of CanMix: a window waits for both sources.
BothCanMix == \A s \in Sources : ring[s] >= Window

\* can_mix
CanMix == \E s \in Sources : ring[s] >= Window

\* add_samples: what does not fit pushes the oldest out.
Kept(n) == Least(n, Window * Capacity)

\* One chunk of the channel: it is handed on to be stored, then mixed.
Receive ==
    /\ queue /= <<>>
    /\ Head(queue) /= Quiet
    /\ ~CanMix
    /\ pending = 0
    /\ queue' = Tail(queue)
    /\ LET s == Head(queue).source
           n == Head(queue).size
       IN  /\ stored' = [stored EXCEPT ![s] = @ + n]
           /\ ring' = [ring EXCEPT ![s] = Kept(@ + n)]
           /\ dropped' = [dropped EXCEPT ![s] =
                            @ + (ring[s] + n - Kept(ring[s] + n))]
    /\ UNCHANGED <<taken, windows, control, capture, pending, detector>>

\* mix_window: one window of the mix, whatever each source gave.
MixWindow == windows' = windows + 1 /\ pending' = Window

\* extract_window: a source that has less is padded.
Mix ==
    /\ CanMix
    /\ pending = 0
    /\ ring' = [s \in Sources |-> ring[s] - Least(ring[s], Window)]
    /\ taken' = [s \in Sources |-> taken[s] + Least(ring[s], Window)]
    /\ MixWindow
    /\ UNCHANGED <<stored, dropped, control, capture, queue, detector>>

-----------------------------------------------------------------------------
(* The detector of speech *)

\* A segment that is too short is not sent.
Send(from, to) ==
    sent' = IF to - from >= MinSpeech THEN Append(sent, <<from, to>>)
                                      ELSE sent

\* The speech that is heard goes on by one chunk.
Longer == [speech EXCEPT ![Len(speech)] = <<@[1], heard + 1>>]

Listen == pending > 0 /\ pending' = pending - 1 /\ heard' = heard + 1

\* process_chunk without a transition.
HearOn ==
    /\ Listen
    /\ current' = IF inSpeech THEN current + 1 ELSE current
    /\ speech' = IF session = Quiet THEN speech ELSE Longer
    /\ UNCHANGED <<session, inSpeech, sent, control, capture, queue, mixer>>

\* VadTransition::SpeechStart
SpeechStarts ==
    /\ Listen
    /\ session = Quiet
    /\ session' = heard
    /\ inSpeech' = TRUE
    /\ current' = 1
    /\ speech' = Append(speech, <<heard, heard + 1>>)
    /\ UNCHANGED <<sent, control, capture, queue, mixer>>

\* VadTransition::SpeechEnd: the samples are those of the library.
SpeechEnds ==
    /\ Listen
    /\ session /= Quiet
    /\ session' = Quiet
    /\ inSpeech' = FALSE
    /\ current' = 0
    /\ speech' = Longer
    /\ Send(session, heard + 1)
    /\ UNCHANGED <<control, capture, queue, mixer>>

\* ContinuousVadProcessor::flush: speech that goes on is ended here, though
\* the library does not learn of it.
FlushSpeech ==
    /\ current' = 0
    /\ inSpeech' = FALSE
    /\ IF inSpeech /\ current > 0 THEN Send(heard - current, heard)
                                  ELSE UNCHANGED sent
    /\ UNCHANGED <<heard, session, speech>>

\* A request to flush arrived.
Flush ==
    /\ queue /= <<>>
    /\ Head(queue) = Quiet
    /\ ~CanMix
    /\ pending = 0
    /\ queue' = Tail(queue)
    /\ FlushSpeech
    /\ UNCHANGED <<control, capture, mixer, pending>>

\* The channel is closed and empty: the pipeline flushes and ends.
EndPipeline ==
    /\ stopping = "closed"
    /\ queue = <<>>
    /\ ~CanMix
    /\ pending = 0
    /\ stopping' = "ended"
    /\ FlushSpeech
    /\ UNCHANGED <<recording, paused, streams, failed, capture, queue, mixer,
                   pending>>

Next ==
    \/ \E s \in Sources :
          \/ \E n \in 1..MaxCall : Callback(s, n)
          \/ StreamFails(s)
    \/ PauseRecording \/ ResumeRecording
    \/ Stop
    \/ Receive \/ Mix
    \/ HearOn \/ SpeechStarts \/ SpeechEnds \/ Flush \/ EndPipeline

Spec == Init /\ [][Next]_vars

-----------------------------------------------------------------------------
(* Properties *)

\* The mixer never throws audio away, however unevenly the sources deliver:
\* all that reached the pipeline is in its buffer or in the mix (pipeline.rs,
\* add_samples).
NothingIsDropped ==
    \A s \in Sources : dropped[s] = 0 /\ stored[s] = ring[s] + taken[s]

\* The mix is padded with silence when a source is late, so that it lasts
\* longer than each source, but never longer than two of them in a row: what
\* the times of the transcript may be off by (pipeline.rs, extract_window).
MixIsBounded ==
    \A s \in Sources :
        /\ taken[s] <= Window * windows
        /\ \A t \in Sources \ {s} : Window * windows <= taken[s] + taken[t]

\* What is long enough to be transcribed, in the order in which it was heard.
LongEnough(s) ==
    LET kept[n \in 0..Len(s)] ==
            IF n = 0 THEN <<>>
            ELSE IF s[n][2] - s[n][1] >= MinSpeech
                 THEN Append(kept[n - 1], s[n])
                 ELSE kept[n - 1]
    IN  kept[Len(s)]

\* When the pipeline has ended, the speech that was heard was sent to be
\* transcribed, each of it once, whole and in order, down to the speech that
\* the end of the recording cut; only what is too short was not (vad.rs,
\* flush; pipeline.rs, flush_remaining_audio and force_flush_and_stop).
SpeechIsSent ==
    stopping = "ended" => sent = LongEnough(speech)
=============================================================================
