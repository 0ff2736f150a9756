-------------------------- MODULE RecordingSession --------------------------
(***************************************************************************)
(* A live recording: the start and stop commands, the manager that passes  *)
(* between them through a global slot, the pipeline that hands every chunk *)
(* of audio to the disk and to the transcription, the worker that turns    *)
(* speech into transcript segments, the listener that files the segments,  *)
(* and the batch job that shares the speech model.                         *)
(*                                                                         *)
(* A start holds the engine lifecycle lock from its check of the recording *)
(* flag to the raising of the flag; stop and reconnect hold the mutation   *)
(* gate and take the manager out of the slot while they work.  Every await *)
(* of these commands is a step boundary.                                   *)
(*                                                                         *)
(* Sources: audio/recording_commands.rs, recording_manager.rs,             *)
(* recording_state.rs, recording_saver.rs, stream.rs, pipeline.rs,         *)
(* common.rs, transcription/worker.rs, transcription/engine.rs and the     *)
(* commands of lib.rs and tray.rs.                                         *)
(***************************************************************************)
EXTENDS Naturals, FiniteSets

CONSTANTS
  Sessions,     \* start commands, numbered in the order they get the lock
  Mic, System,  \* the two audio origins
  Batch,        \* the re-transcription job that uses the same engine
  Nobody,       \* an empty slot, a free lock
  Offers,       \* bound: the audio that the devices may deliver
  MaxSpeech     \* bound: speech segments of a session

ASSUME ConstantsAssumption ==
  /\ Sessions \subseteq Nat
  /\ Mic # System
  /\ Batch \notin Sessions
  /\ Nobody \notin Sessions \cup {Batch}
  /\ Offers \subseteq [Sessions -> SUBSET ({Mic, System} \X (Nat \ {0}))]
  /\ MaxSpeech \in Nat

VARIABLES
  supply,     \* the chunks that the devices of each session can deliver
  start,      \* where each start command stands
  lock,       \* ENGINE_LIFECYCLE_LOCK
  flag,       \* IS_RECORDING
  slot,       \* RECORDING_MANAGER
  told,       \* what the stop of a session reported to the page
  gate,       \* RECORDING_MUTATION_GATE: who is inside
  stop,       \* where the stop command stands
  held,       \* the manager that stop or reconnect took out of the slot
  awaited,    \* the session whose transcription task stop waits for
  task,       \* TRANSCRIPTION_TASK
  listener,   \* TRANSCRIPT_LISTENER_ID
  registered, \* listeners the application has
  sources,    \* origins the user chose
  streams,    \* origins that deliver audio
  live,       \* RecordingState: off, on or paused; off has no sender
  pipeline,   \* AudioPipeline::run
  place,      \* where each chunk of each origin is
  broken,     \* origins with a chunk that could not be written
  said,       \* where each speech segment is
  worker,     \* the transcription task
  history,    \* transcripts.json of each session: <<whose, which>>
  undrained,  \* history: sessions whose task nobody waited for to its end
  status,     \* status in metadata.json
  track,      \* status of each origin in metadata.json
  model,      \* the speech model is loaded
  batch       \* where the batch job stands

commandVars == <<supply, start, lock, flag, slot, told>>
stopVars == <<gate, stop, held, awaited>>
taskVars == <<task, listener, registered>>
captureVars == <<sources, streams, live>>
audioVars == <<pipeline, place, broken>>
speechVars == <<said, worker, history, undrained>>
fileVars == <<status, track>>
engineVars == <<model, batch>>

vars == <<commandVars, stopVars, taskVars, captureVars, audioVars, speechVars,
          fileVars, engineVars>>

-----------------------------------------------------------------------------
(* Types *)

Origins == {Mic, System}
Chunks == UNION {UNION {o[s] : s \in Sessions} : o \in Offers}
Managers == Sessions \cup {Nobody}

StartPCs == {"idle", "opening", "opened", "abandoning", "ready",
             "stored", "flagged", "tasked", "done", "failed"}
StopPCs == {"idle", "stopping", "flushing", "flushed", "unlistened",
            "draining", "unloading", "saving"}
\* The manager of these starts has been given to the slot.
Handed == {"stored", "flagged", "tasked", "done"}

CommandTypes ==
  /\ supply \in Offers
  /\ start \in [Sessions -> StartPCs]
  /\ lock \in Managers \cup {Batch}
  /\ flag \in BOOLEAN
  /\ slot \in Managers
  /\ told \in [Sessions -> {"nothing", "stopped", "save_failed"}]

StopTypes ==
  /\ gate \in {"free", "stop", "reconnect"}
  /\ stop \in StopPCs
  /\ held \in Managers
  /\ awaited \in Managers

TaskTypes ==
  /\ task \in Managers
  /\ listener \in Managers
  /\ registered \subseteq Sessions

CaptureTypes ==
  /\ sources \in [Sessions -> SUBSET Origins]
  /\ streams \in [Sessions -> SUBSET Origins]
  /\ live \in [Sessions -> {"off", "on", "paused"}]

AudioTypes ==
  /\ pipeline \in [Sessions -> {"none", "running", "ended"}]
  /\ place \in [Sessions -> [Chunks -> {"none", "pipeline", "saver", "stored",
                                        "lost"}]]
  /\ broken \in [Sessions -> SUBSET Origins]

SpeechTypes ==
  /\ said \in [Sessions -> [1..MaxSpeech -> {"none", "vad", "queued",
                                             "published", "dropped"}]]
  /\ worker \in [Sessions -> {"none", "starting", "ready", "ended", "gone"}]
  /\ history \in [Sessions -> SUBSET (Sessions \X (1..MaxSpeech))]
  /\ undrained \subseteq Sessions

FileTypes ==
  /\ status \in [Sessions -> {"absent", "starting", "recording", "error",
                              "completed", "partial"}]
  /\ track \in [Sessions -> [Origins -> {"waiting", "stored", "partial",
                                         "unavailable"}]]

EngineTypes ==
  /\ model \in BOOLEAN
  /\ batch \in {"idle", "using", "checked"}

TypeOK ==
  /\ CommandTypes /\ StopTypes /\ TaskTypes /\ CaptureTypes
  /\ AudioTypes /\ SpeechTypes /\ FileTypes /\ EngineTypes

-----------------------------------------------------------------------------
(* Helpers *)

Goto(s, label) == start' = [start EXCEPT ![s] = label]

In(s, where) == {c \in Chunks : place[s][c] = where}

\* The origins whose device a start command can resolve.
Devices(s) == {c[1] : c \in supply[s]}

\* An origin whose saver has written a checkpoint.
HasCheckpoint(s, o) == \E c \in In(s, "stored") : c[1] = o

\* send_audio_chunk: a paused state discards, a stopped one has no sender.
Accepts(s) == live[s] = "on" /\ pipeline[s] = "running"

\* The audio channel is closed: neither the state nor the manager holds a
\* sender, and the manager's is dropped by whoever switched the state off.
Closed(s) == live[s] = "off" /\ pipeline[s] = "running"

\* Where a segment goes that the voice detection has closed: the channel to
\* the worker, unless the worker has dropped its end.
Outlet(s) == IF worker[s] = "gone" THEN "dropped" ELSE "queued"

Speaking(s) == {k \in 1..MaxSpeech : said[s][k] = "vad"}

\* The voice detection is fed: it hears nothing new, begins a segment, or
\* closes the one it has, which is sent on unless it is shorter than 50 ms.
Hears(s) ==
  {said[s]}
    \cup {[said[s] EXCEPT ![k] = "vad"] :
            k \in {k \in 1..MaxSpeech :
                     /\ said[s][k] = "none" /\ Speaking(s) = {}
                     /\ \A i \in 1..(k - 1) : said[s][i] # "none"}}
    \cup {[said[s] EXCEPT ![k] = to] : k \in Speaking(s),
                                       to \in {"dropped", Outlet(s)}}

-----------------------------------------------------------------------------
(* start_recording *)

\* Mutation of BeginStart: the flag is checked before the lock is taken only.
BeginWithoutCheck(s, chosen) ==
  /\ start[s] = "idle" /\ lock = Nobody
  /\ \A r \in Sessions : r < s => start[r] # "idle"
  /\ chosen # {} /\ chosen \subseteq Devices(s)
  /\ lock' = s
  /\ sources' = [sources EXCEPT ![s] = chosen]
  /\ status' = [status EXCEPT ![s] = "starting"]
  /\ Goto(s, "opening")
  /\ UNCHANGED <<supply, flag, slot, told, stopVars, taskVars, streams, live,
                 audioVars, speechVars, track, engineVars>>

\* A start that finds a recording in progress, no chosen source or a source
\* whose device cannot be resolved is refused and changes nothing.
BeginStart(s, chosen) ==
  /\ start[s] = "idle" /\ lock = Nobody
  /\ \A r \in Sessions : r < s => start[r] # "idle"
  /\ ~flag
  /\ chosen # {} /\ chosen \subseteq Devices(s)
  /\ lock' = s
  /\ sources' = [sources EXCEPT ![s] = chosen]
  /\ status' = [status EXCEPT ![s] = "starting"]
  /\ Goto(s, "opening")
  /\ UNCHANGED <<supply, flag, slot, told, stopVars, taskVars, streams, live,
                 audioVars, speechVars, track, engineVars>>

\* RecordingManager::start_recording: the saver, the state and the pipeline
\* are started, then the streams.  Without the microphone that was chosen
\* the start fails; without the system audio it goes on.
OpenCapture(s, opened) ==
  /\ start[s] = "opening"
  /\ opened # {} /\ opened \subseteq sources[s]
  /\ Mic \in sources[s] => Mic \in opened
  /\ streams' = [streams EXCEPT ![s] = opened]
  /\ live' = [live EXCEPT ![s] = "on"]
  /\ pipeline' = [pipeline EXCEPT ![s] = "running"]
  /\ Goto(s, "opened")
  /\ UNCHANGED <<supply, lock, flag, slot, told, stopVars, taskVars, sources, place,
                 broken, speechVars, fileVars, engineVars>>

\* A stream cannot be created: the manager is dropped, the metadata keeps
\* saying "starting".
FailToOpen(s) ==
  /\ start[s] = "opening"
  /\ lock' = Nobody
  /\ pipeline' = [pipeline EXCEPT ![s] = "ended"]
  /\ Goto(s, "failed")
  /\ UNCHANGED <<supply, flag, slot, told, stopVars, taskVars, captureVars, place,
                 broken, speechVars, fileVars, engineVars>>

\* A recording with a microphone is only announced when a checkpoint is on
\* the disk; one of system audio alone waits for its first sample.
ConfirmStart(s) ==
  /\ start[s] = "opened"
  /\ Mic \in sources[s] => \E o \in sources[s] : HasCheckpoint(s, o)
  /\ status' = [status EXCEPT ![s] = "recording"]
  /\ Goto(s, "ready")
  /\ UNCHANGED <<supply, lock, flag, slot, told, stopVars, taskVars, captureVars,
                 audioVars, speechVars, track, engineVars>>

\* No sample was stored within three seconds, or the metadata cannot be
\* written: everything is stopped and the pipeline awaited.
AbandonStart(s) ==
  /\ start[s] = "opened"
  /\ status' = [status EXCEPT ![s] = "error"]
  /\ live' = [live EXCEPT ![s] = "off"]
  /\ streams' = [streams EXCEPT ![s] = {}]
  /\ Goto(s, "abandoning")
  /\ UNCHANGED <<supply, lock, flag, slot, told, stopVars, taskVars, sources,
                 audioVars, speechVars, track, engineVars>>

EndAbandon(s) ==
  /\ start[s] = "abandoning" /\ pipeline[s] = "ended"
  /\ lock' = Nobody
  /\ Goto(s, "failed")
  /\ UNCHANGED <<supply, flag, slot, told, stopVars, taskVars, captureVars,
                 audioVars, speechVars, fileVars, engineVars>>

StoreManager(s) ==
  /\ start[s] = "ready"
  /\ slot' = s
  /\ Goto(s, "stored")
  /\ UNCHANGED <<supply, lock, flag, told, stopVars, taskVars, captureVars,
                 audioVars, speechVars, fileVars, engineVars>>

RaiseFlag(s) ==
  /\ start[s] = "stored"
  /\ flag' = TRUE
  /\ lock' = Nobody
  /\ Goto(s, "flagged")
  /\ UNCHANGED <<supply, slot, told, stopVars, taskVars, captureVars, audioVars,
                 speechVars, fileVars, engineVars>>

SpawnTask(s) ==
  /\ start[s] = "flagged"
  /\ task' = s
  /\ worker' = [worker EXCEPT ![s] = "starting"]
  /\ Goto(s, "tasked")
  /\ UNCHANGED <<supply, lock, flag, slot, told, stopVars, listener, registered,
                 captureVars, audioVars, said, history, undrained, fileVars,
                 engineVars>>

\* The listener is registered and its id stored over the one before it.
Listen(s) ==
  /\ start[s] = "tasked"
  /\ registered' = registered \cup {s}
  /\ listener' = s
  /\ Goto(s, "done")
  /\ UNCHANGED <<supply, lock, flag, slot, told, stopVars, task, captureVars,
                 audioVars, speechVars, fileVars, engineVars>>

-----------------------------------------------------------------------------
(* pause, resume, a source that dies, reconnect *)

\* pause_recording and resume_recording, from the page or the tray.
Pause(from, to) ==
  /\ flag /\ slot # Nobody
  /\ live[slot] = from
  /\ live' = [live EXCEPT ![slot] = to]
  /\ UNCHANGED <<commandVars, stopVars, taskVars, sources, streams, audioVars,
                 speechVars, fileVars, engineVars>>

\* handle_stream_error: the state remembers the failure, the stream is dead.
SourceDies(s, o) ==
  /\ o \in streams[s]
  /\ streams' = [streams EXCEPT ![s] = @ \ {o}]
  /\ UNCHANGED <<commandVars, stopVars, taskVars, sources, live, audioVars,
                 speechVars, fileVars, engineVars>>

BeginReconnect ==
  /\ gate = "free" /\ slot # Nobody
  /\ gate' = "reconnect"
  /\ held' = slot /\ slot' = Nobody
  /\ UNCHANGED <<supply, start, lock, flag, told, stop, awaited, taskVars,
                 captureVars, audioVars, speechVars, fileVars, engineVars>>

\* The device is not there (nothing changes), or both streams are stopped and
\* some of them come back: without the microphone the system audio is not
\* started either.
RestartStreams(back) ==
  /\ gate = "reconnect" /\ held # Nobody
  /\ \/ back = streams[held]
     \/ /\ back \subseteq sources[held]
        /\ Mic \in sources[held] => Mic \in back \/ back = {}
  /\ streams' = [streams EXCEPT ![held] = back]
  /\ slot' = held /\ held' = Nobody
  /\ gate' = "free"
  /\ UNCHANGED <<supply, start, lock, flag, told, stop, awaited, taskVars, sources,
                 live, audioVars, speechVars, fileVars, engineVars>>

-----------------------------------------------------------------------------
(* stop_recording *)

BeginStop ==
  /\ gate = "free" /\ flag
  /\ gate' = "stop"
  /\ held' = slot /\ slot' = Nobody
  /\ stop' = "stopping"
  /\ UNCHANGED <<supply, start, lock, flag, told, awaited, taskVars, captureVars,
                 audioVars, speechVars, fileVars, engineVars>>

\* Mutation of StopCapture: the state keeps its sender.
StopStreamsOnly ==
  /\ stop = "stopping" /\ held # Nobody
  /\ streams' = [streams EXCEPT ![held] = {}]
  /\ stop' = "flushing"
  /\ UNCHANGED <<commandVars, gate, held, awaited, taskVars, sources, live,
                 audioVars, speechVars, fileVars, engineVars>>

\* stop_streams_and_force_flush: the monitor, the state and the streams stop,
\* then the pipeline is told to flush and awaited.
StopCapture ==
  /\ stop = "stopping" /\ held # Nobody
  /\ live' = [live EXCEPT ![held] = "off"]
  /\ streams' = [streams EXCEPT ![held] = {}]
  /\ stop' = "flushing"
  /\ UNCHANGED <<commandVars, gate, held, awaited, taskVars, sources,
                 audioVars, speechVars, fileVars, engineVars>>

CaptureStopped ==
  /\ \/ stop = "stopping" /\ held = Nobody
     \/ stop = "flushing" /\ pipeline[held] = "ended"
  /\ stop' = "flushed"
  /\ UNCHANGED <<commandVars, gate, held, awaited, taskVars, captureVars,
                 audioVars, speechVars, fileVars, engineVars>>

Unlisten ==
  /\ stop = "flushed"
  /\ registered' = registered \ {listener}
  /\ listener' = Nobody
  /\ stop' = "unlistened"
  /\ UNCHANGED <<commandVars, gate, held, awaited, task, captureVars,
                 audioVars, speechVars, fileVars, engineVars>>

AwaitTask ==
  /\ stop = "unlistened"
  /\ awaited' = task /\ task' = Nobody
  /\ undrained' = undrained \cup ({held} \ {Nobody, task})
  /\ stop' = "draining"
  /\ UNCHANGED <<commandVars, gate, held, listener, registered, captureVars,
                 audioVars, said, worker, history, fileVars, engineVars>>

\* Mutation of Drained: stop does not wait for the task.
DrainedAtOnce ==
  /\ stop = "draining"
  /\ awaited' = Nobody
  /\ stop' = "unloading"
  /\ UNCHANGED <<commandVars, gate, held, taskVars, captureVars, audioVars,
                 speechVars, fileVars, engineVars>>

Drained ==
  /\ stop = "draining"
  /\ awaited # Nobody => worker[awaited] \in {"ended", "gone"}
  /\ awaited' = Nobody
  /\ stop' = "unloading"
  /\ UNCHANGED <<commandVars, gate, held, taskVars, captureVars, audioVars,
                 speechVars, fileVars, engineVars>>

\* Ten minutes have passed: the task goes on without anyone waiting for it.
DrainTimesOut ==
  /\ stop = "draining" /\ awaited # Nobody
  /\ worker[awaited] \notin {"ended", "gone"}
  /\ awaited' = Nobody
  /\ undrained' = undrained \cup {awaited}
  /\ stop' = "unloading"
  /\ UNCHANGED <<commandVars, gate, held, taskVars, captureVars, audioVars,
                 said, worker, history, fileVars, engineVars>>

\* The model is unloaded without the lifecycle lock.
UnloadModel ==
  /\ stop = "unloading"
  /\ model' = FALSE
  /\ stop' = "saving"
  /\ UNCHANGED <<commandVars, gate, held, awaited, taskVars, captureVars,
                 audioVars, speechVars, fileVars, batch>>

\* The end of every stop: the flag falls, the gate opens, the manager is
\* dropped and the page is told.
Return(result) ==
  /\ flag' = FALSE
  /\ gate' = "free" /\ stop' = "idle" /\ held' = Nobody
  /\ told' = [s \in Sessions |-> IF s = held THEN result ELSE told[s]]

\* completed_origin_status
Verdict(s, o, finalized) ==
  CASE o \notin sources[s] -> "waiting"
    [] o \in sources[s] /\ o \in broken[s] -> "partial"
    [] o \in finalized \ broken[s] -> "stored"
    [] OTHER -> "unavailable"

\* create_mixed_track: one track is enough to play.
Mixable(finalized) == finalized # {}

\* Mutation of SaveRecording: the accumulation task is not awaited.
SaveAtOnce(finalized) ==
  /\ stop = "saving" /\ held # Nobody
  /\ Mixable(finalized)
  /\ \A o \in finalized : o \in sources[held] /\ HasCheckpoint(held, o)
  /\ status' = [status EXCEPT ![held] =
       IF broken[held] # {} \/ finalized # sources[held] THEN "partial" ELSE "completed"]
  /\ track' = [track EXCEPT ![held] = [o \in Origins |-> Verdict(held, o, finalized)]]
  /\ Return("stopped")
  /\ UNCHANGED <<supply, start, lock, slot, awaited, taskVars, captureVars,
                 audioVars, speechVars, engineVars>>

\* stop_and_save: once the accumulation task has ended, each origin that has a
\* checkpoint is merged, the mixed track is made of those that succeeded, the
\* transcripts are written and the metadata gets its verdicts.
SaveRecording(finalized) ==
  /\ stop = "saving" /\ held # Nobody
  /\ In(held, "pipeline") \cup In(held, "saver") = {}
  /\ Mixable(finalized)
  /\ \A o \in finalized : o \in sources[held] /\ HasCheckpoint(held, o)
  /\ status' = [status EXCEPT ![held] =
       IF broken[held] # {} \/ finalized # sources[held] THEN "partial" ELSE "completed"]
  /\ track' = [track EXCEPT ![held] = [o \in Origins |-> Verdict(held, o, finalized)]]
  /\ Return("stopped")
  /\ UNCHANGED <<supply, start, lock, slot, awaited, taskVars, captureVars,
                 audioVars, speechVars, engineVars>>

\* Nothing was stored, the mixed track, the transcripts or the metadata
\* cannot be written, five minutes have passed, or there is no manager.
SaveFails ==
  /\ stop = "saving"
  /\ Return("save_failed")
  /\ UNCHANGED <<supply, start, lock, slot, awaited, taskVars, captureVars,
                 audioVars, speechVars, fileVars, engineVars>>

-----------------------------------------------------------------------------
(* The pipeline, the saver and the worker *)

\* process_audio_data: the device's next chunk is sent to the pipeline.
Capture(s, c) ==
  /\ c[1] \in streams[s] /\ Accepts(s)
  /\ c \in supply[s] /\ place[s][c] = "none"
  /\ \A b \in supply[s] : b[1] = c[1] /\ b[2] < c[2] => place[s][b] # "none"
  /\ place' = [place EXCEPT ![s][c] = "pipeline"]
  /\ UNCHANGED <<commandVars, stopVars, taskVars, captureVars, pipeline,
                 broken, speechVars, fileVars, engineVars>>

\* AudioPipeline::run: a chunk goes to the saver and, mixed, to the voice
\* detection.
PipelineStep(s, c) ==
  /\ pipeline[s] = "running" /\ place[s][c] = "pipeline"
  /\ place' = [place EXCEPT ![s][c] = "saver"]
  /\ \E heard \in Hears(s) : said' = [said EXCEPT ![s] = heard]
  /\ UNCHANGED <<commandVars, stopVars, taskVars, captureVars, pipeline,
                 broken, worker, history, undrained, fileVars, engineVars>>

\* The channel is closed and empty: the voice detection is flushed.
PipelineEnds(s) ==
  /\ Closed(s) /\ In(s, "pipeline") = {}
  /\ pipeline' = [pipeline EXCEPT ![s] = "ended"]
  /\ \E to \in {"dropped", Outlet(s)} :
       said' = [said EXCEPT ![s] =
                  [k \in 1..MaxSpeech |-> IF k \in Speaking(s) THEN to ELSE @[k]]]
  /\ UNCHANGED <<commandVars, stopVars, taskVars, captureVars, place, broken,
                 worker, history, undrained, fileVars, engineVars>>

\* The accumulation task: the samples of a chunk that are not yet on the
\* track's timeline are written, or cannot be written, which marks their
\* origin for good.
Persist(s, c, result) ==
  /\ place[s][c] = "saver"
  /\ place' = [place EXCEPT ![s][c] = result]
  /\ broken' = IF result = "lost" THEN [broken EXCEPT ![s] = @ \cup {c[1]}] ELSE broken
  /\ UNCHANGED <<commandVars, stopVars, taskVars, captureVars, pipeline,
                 speechVars, fileVars, engineVars>>

\* get_or_init_transcription_engine: the model is there or is loaded now.
EngineReady(s) ==
  /\ worker[s] = "starting"
  /\ worker' = [worker EXCEPT ![s] = "ready"]
  /\ model' = TRUE
  /\ UNCHANGED <<commandVars, stopVars, taskVars, captureVars, audioVars,
                 said, history, undrained, fileVars, batch>>

\* It cannot be loaded: the task returns and drops its receiver.
EngineFails(s) ==
  /\ worker[s] = "starting"
  /\ worker' = [worker EXCEPT ![s] = "gone"]
  /\ said' = [said EXCEPT ![s] =
       [k \in 1..MaxSpeech |-> IF @[k] = "queued" THEN "dropped" ELSE @[k]]]
  /\ UNCHANGED <<commandVars, stopVars, taskVars, captureVars, audioVars,
                 history, undrained, fileVars, engineVars>>

\* The listener, whoever registered it, files a segment with the manager that
\* is in the slot.
Filed(s, k) ==
  IF registered = {} \/ slot = Nobody THEN history
  ELSE [history EXCEPT ![slot] = @ \cup {<<s, k>>}]

\* A segment is transcribed and published.
Publish(s, k) ==
  /\ worker[s] = "ready" /\ said[s][k] = "queued" /\ model
  /\ said' = [said EXCEPT ![s][k] = "published"]
  /\ history' = Filed(s, k)
  /\ UNCHANGED <<commandVars, stopVars, taskVars, captureVars, audioVars,
                 worker, undrained, fileVars, engineVars>>

\* The model is not loaded, the text is empty or doubtful, or the engine
\* fails: the segment is counted as done.
Skip(s, k) ==
  /\ worker[s] = "ready" /\ said[s][k] = "queued"
  /\ said' = [said EXCEPT ![s][k] = "dropped"]
  /\ UNCHANGED <<commandVars, stopVars, taskVars, captureVars, audioVars,
                 worker, history, undrained, fileVars, engineVars>>

WorkerEnds(s) ==
  /\ worker[s] = "ready" /\ pipeline[s] = "ended"
  /\ \A k \in 1..MaxSpeech : said[s][k] # "queued"
  /\ worker' = [worker EXCEPT ![s] = "ended"]
  /\ UNCHANGED <<commandVars, stopVars, taskVars, captureVars, audioVars,
                 said, history, undrained, fileVars, engineVars>>

-----------------------------------------------------------------------------
(* The batch job *)

BatchLoads ==
  /\ batch = "idle"
  /\ batch' = "using" /\ model' = TRUE
  /\ UNCHANGED <<commandVars, stopVars, taskVars, captureVars, audioVars,
                 speechVars, fileVars>>

\* Mutation of BatchChecks: unload_transcription_engine without the lock.
ChecksWithoutLock ==
  /\ batch = "using"
  /\ batch' = IF flag THEN "idle" ELSE "checked"
  /\ UNCHANGED <<commandVars, stopVars, taskVars, captureVars, audioVars,
                 speechVars, fileVars, model>>

\* unload_transcription_engine: takes the lock, spares a live recording.
BatchChecks ==
  /\ batch = "using" /\ lock = Nobody
  /\ IF flag THEN batch' = "idle" /\ lock' = lock
             ELSE batch' = "checked" /\ lock' = Batch
  /\ UNCHANGED <<supply, start, flag, slot, told, stopVars, taskVars, captureVars,
                 audioVars, speechVars, fileVars, model>>

BatchUnloads ==
  /\ batch = "checked"
  /\ model' = FALSE
  /\ lock' = IF lock = Batch THEN Nobody ELSE lock
  /\ batch' = "idle"
  /\ UNCHANGED <<supply, start, flag, slot, told, stopVars, taskVars, captureVars,
                 audioVars, speechVars, fileVars>>

-----------------------------------------------------------------------------
Init ==
  /\ supply \in Offers
  /\ start = [s \in Sessions |-> "idle"]
  /\ lock = Nobody /\ flag = FALSE /\ slot = Nobody
  /\ told = [s \in Sessions |-> "nothing"]
  /\ gate = "free" /\ stop = "idle" /\ held = Nobody /\ awaited = Nobody
  /\ task = Nobody /\ listener = Nobody /\ registered = {}
  /\ sources = [s \in Sessions |-> {}]
  /\ streams = [s \in Sessions |-> {}]
  /\ live = [s \in Sessions |-> "off"]
  /\ pipeline = [s \in Sessions |-> "none"]
  /\ place = [s \in Sessions |-> [c \in Chunks |-> "none"]]
  /\ broken = [s \in Sessions |-> {}]
  /\ said = [s \in Sessions |-> [k \in 1..MaxSpeech |-> "none"]]
  /\ worker = [s \in Sessions |-> "none"]
  /\ history = [s \in Sessions |-> {}]
  /\ undrained = {}
  /\ status = [s \in Sessions |-> "absent"]
  /\ track = [s \in Sessions |-> [o \in Origins |-> "waiting"]]
  /\ model = FALSE /\ batch = "idle"

\* What a start command does by itself once it has begun.
StartStep(s) ==
  \/ \E opened \in SUBSET Origins : OpenCapture(s, opened)
  \/ FailToOpen(s) \/ ConfirmStart(s) \/ AbandonStart(s) \/ EndAbandon(s)
  \/ StoreManager(s) \/ RaiseFlag(s) \/ SpawnTask(s) \/ Listen(s)

\* What a stop command does by itself once it has begun.
StopStep ==
  \/ StopCapture \/ CaptureStopped \/ Unlisten \/ AwaitTask
  \/ Drained \/ DrainTimesOut \/ UnloadModel
  \/ \E finalized \in SUBSET Origins : SaveRecording(finalized)
  \/ SaveFails

PipelineStepOf(s) == (\E c \in Chunks : PipelineStep(s, c)) \/ PipelineEnds(s)

SaverStep(s) ==
  \E c \in Chunks, result \in {"stored", "lost"} : Persist(s, c, result)

WorkerStep(s) ==
  \/ EngineReady(s) \/ EngineFails(s) \/ WorkerEnds(s)
  \/ \E k \in 1..MaxSpeech : Publish(s, k) \/ Skip(s, k)

Next ==
  \/ \E s \in Sessions :
       \/ \E chosen \in SUBSET Origins : BeginStart(s, chosen)
       \/ StartStep(s) \/ PipelineStepOf(s) \/ SaverStep(s) \/ WorkerStep(s)
       \/ \E o \in Origins : SourceDies(s, o)
       \/ \E c \in Chunks : Capture(s, c)
  \/ BeginStop \/ StopStep
  \/ Pause("on", "paused") \/ Pause("paused", "on")
  \/ BeginReconnect
  \/ \E back \in SUBSET Origins : RestartStreams(back)
  \/ BatchLoads \/ BatchChecks \/ BatchUnloads

Spec == Init /\ [][Next]_vars

\* A stop runs on from await to await, its timeouts expire, and the pipeline
\* reads its channel.
FairSpec ==
  /\ Spec
  /\ WF_vars(StopStep)
  /\ \A s \in Sessions : WF_vars(PipelineStepOf(s))

-----------------------------------------------------------------------------
(* Properties *)

\* A manager that was given to the slot stays within reach of stop until a
\* stop has reported how its session ended.
NoRecordingVanishes ==
  \A s \in Sessions :
    start[s] \in Handed /\ told[s] = "nothing" => s \in {slot, held}

\* metadata.json says "completed" only when every chunk the capture accepted
\* has been written and every origin the user chose has its track.
CompletedHasEverything ==
  \A s \in Sessions : status[s] = "completed" =>
    /\ In(s, "pipeline") \cup In(s, "saver") \cup In(s, "lost") = {}
    /\ \A o \in sources[s] : track[s][o] = "stored"

\* A transcript segment is filed with the session that spoke it, unless a stop
\* gave up on the transcription of that session or never found its task.
SegmentsStayWithTheirSession ==
  \A m \in Sessions : \A segment \in history[m] :
    segment[1] = m \/ segment[1] \in undrained

\* The batch job never takes the model from a recording that captures.
BatchSparesRecordings ==
  [][batch = "checked" /\ batch' = "idle" => \A s \in Sessions : live[s] = "off"]_vars

\* A stop that has entered the gate leaves it.
EveryStopReturns == gate = "stop" ~> gate # "stop"

\* "graceful shutdown ensuring NO transcript chunks are lost": what the worker
\* published is in the file when the stop reports success.
TranscriptFileIsComplete ==
  \A s \in Sessions : told[s] = "stopped" =>
    \A k \in 1..MaxSpeech : said[s][k] = "published" => <<s, k>> \in history[s]
-----------------------------------------------------------------------------
(* The invariant behind them *)

\* The manager of s has been handed over, and no stop has reported its end.
Pending(s) == start[s] \in Handed /\ told[s] = "nothing"

\* A start holds the lock from its check of the flag to the raising of it, and
\* the batch job holds it while it unloads the model; the flag is down.
LockInv ==
  /\ \A s \in Sessions :
       start[s] \in {"opening", "opened", "abandoning", "ready", "stored"}
         <=> lock = s
  /\ batch = "checked" <=> lock = Batch
  /\ lock # Nobody => ~flag

\* Whoever is inside the gate has the manager in its hands, and a stop is
\* inside until the flag falls.
GateInv ==
  /\ gate = "stop" <=> stop # "idle"
  /\ gate = "reconnect" => held # Nobody
  /\ gate = "free" => held = Nobody
  /\ held # Nobody => slot = Nobody
  /\ stop # "idle" => flag /\ slot = Nobody

\* The manager in the slot, or in somebody's hands, is that of a recording
\* nobody has ended, and unless the flag is up its start still has the lock.
ManagerInv ==
  /\ \A s \in Sessions : s \in {slot, held} => Pending(s)
  /\ \A s \in Sessions : Pending(s) => (flag <=> start[s] # "stored")
  /\ \A s \in Sessions : told[s] # "nothing" => start[s] \in Handed \ {"stored"}

\* A state delivers audio only from the opening of its streams to its stop.
LiveInv ==
  /\ \A s \in Sessions :
       live[s] # "off" => start[s] \in {"opened", "ready"} \/ Pending(s)
  /\ stop \notin {"idle", "stopping"} /\ held # Nobody => live[held] = "off"

\* A chunk that could not be written has marked its origin.
LossInv ==
  \A s \in Sessions : \A c \in In(s, "lost") : c[1] \in broken[s]

\* A recording that is completed has been stopped.
StatusInv == \A s \in Sessions : status[s] = "completed" => told[s] # "nothing"

\* A stop waits for the task of its recording, or gives it up for undrained.
DrainInv ==
  /\ \A s \in Sessions : worker[s] # "none" => start[s] \in {"tasked", "done"}
  /\ stop = "draining" /\ held # Nobody => held \in undrained \cup {awaited}
  /\ stop \in {"unloading", "saving"} /\ held # Nobody =>
       held \in undrained \/ worker[held] \in {"ended", "gone"}
  /\ \A s \in Sessions : told[s] # "nothing" =>
       s \in undrained \/ worker[s] \in {"ended", "gone"}

IInv ==
  /\ TypeOK
  /\ LockInv
  /\ GateInv
  /\ ManagerInv
  /\ LiveInv
  /\ LossInv
  /\ StatusInv
  /\ DrainInv
  /\ NoRecordingVanishes
  /\ CompletedHasEverything
  /\ SegmentsStayWithTheirSession
=============================================================================
