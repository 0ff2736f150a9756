------------------------- MODULE CheckpointedTrack -------------------------
(***************************************************************************)
(* How the audio of a recording reaches the disk: each origin is cut into  *)
(* checkpoints while it is recorded, the checkpoints are joined into a     *)
(* track when the recording stops, the tracks are mixed for playback, and  *)
(* after a crash the page joins the checkpoints that are left.             *)
(*                                                                         *)
(* A sample is the position of the timeline at which it was heard, or      *)
(* Silence.  The encoder refuses to overwrite a file (it is called without *)
(* "-y"), so a checkpoint that was left half written stays in the way.     *)
(*                                                                         *)
(* Sources: audio/incremental_saver.rs, audio/recording_saver.rs,          *)
(* audio/encode.rs and hooks/useTranscriptRecovery.ts.                     *)
(***************************************************************************)
EXTENDS Naturals, Sequences, FiniteSets

CONSTANTS
  Mic, Sys,    \* the origins: microphone, system audio
  Interval,    \* checkpoint_interval_samples
  MaxTime,     \* bound: length of the timeline
  MaxChunk,    \* bound: samples of a chunk
  MaxFaults,   \* bound: runs of the encoder, removals that fail
  MaxCrashes   \* bound: times the process ends

VARIABLES
  phase,      \* what the saver, or the recovery, is doing
  turn,       \* the origins that still have to be finalized or recovered
  buffer,     \* checkpoint_buffer
  next,       \* next_sample_index
  count,      \* checkpoint_count
  failed,     \* microphone_ and system_audio_had_persistence_failure
  ready,      \* finalize or recover_track produced the track of the origin
  ckpt,       \* the files in the checkpoint directory of the origin
  dir,        \* that directory exists
  track,      \* microphone.mp4, system-audio.mp4
  playback,   \* audio.mp4: the origins that are mixed in it
  metadata,   \* status of the recording in metadata.json
  origin,     \* status of each origin in metadata.json
  report,     \* what the recovery reported
  heard,      \* history: the timeline of the origin as it was captured
  safe,       \* history: samples that were in a checkpoint
  halved,     \* history: the removal of the checkpoints was interrupted
  faults,     \* operations that failed
  crashes     \* times the process ended

memory == <<buffer, next, count, failed>>
checkpoints == <<ckpt, dir>>
results == <<playback, metadata, origin, report>>
history == <<heard, safe, halved>>
vars == <<phase, turn, memory, ready, checkpoints, track, results, history,
          faults, crashes>>

-----------------------------------------------------------------------------
(* Types *)

Tracks == {Mic, Sys}
Order == <<Mic, Sys>>
Silence == 0
Samples == Seq(0..MaxTime)
Missing == <<MaxTime + 1>>  \* no file: no track holds a sample from so late
File == [data : Samples, whole : BOOLEAN]
Phases == {"recording", "saving", "merging", "removing", "mixing", "describing",
           "closed", "dead", "recovering", "replaying", "cleaning", "cleaned"}

TypeOK ==
  /\ phase \in Phases
  /\ turn \in {Order, <<Sys>>, <<>>}
  /\ buffer \in [Tracks -> Samples]
  /\ next \in [Tracks -> 0..MaxTime]
  /\ count \in [Tracks -> Nat]
  /\ failed \in [Tracks -> BOOLEAN]
  /\ ready \in [Tracks -> BOOLEAN]
  /\ \A o \in Tracks : DOMAIN ckpt[o] \subseteq Nat
                        /\ \A i \in DOMAIN ckpt[o] : ckpt[o][i] \in File
  /\ dir \in [Tracks -> BOOLEAN]
  /\ track \in [Tracks -> Samples \cup {Missing}]
  /\ playback \subseteq Tracks
  /\ metadata \in {"recording", "partial", "completed"}
  /\ origin \in [Tracks -> {"waiting", "stored", "partial", "unavailable"}]
  /\ report \in {"none", "failed", "partial", "success"}
  /\ heard \in [Tracks -> Samples]
  /\ safe \in [Tracks -> Nat]
  /\ halved \in [Tracks -> BOOLEAN]
  /\ faults \in 0..MaxFaults
  /\ crashes \in 0..MaxCrashes

NoFiles == [i \in {} |-> [data |-> <<>>, whole |-> FALSE]]

SaverInit ==
  /\ buffer = [o \in Tracks |-> <<>>]
  /\ next = [o \in Tracks |-> 0]
  /\ count = [o \in Tracks |-> 0]
  /\ ckpt = [o \in Tracks |-> NoFiles]
  /\ dir = [o \in Tracks |-> TRUE]

FolderInit ==
  /\ track = [o \in Tracks |-> Missing]
  /\ playback = {}
  /\ metadata = "recording"
  /\ origin = [o \in Tracks |-> "waiting"]

Init ==
  /\ phase = "recording"
  /\ turn = <<>>
  /\ SaverInit
  /\ FolderInit
  /\ failed = [o \in Tracks |-> FALSE]
  /\ ready = [o \in Tracks |-> FALSE]
  /\ report = "none"
  /\ heard = [o \in Tracks |-> <<>>]
  /\ safe = [o \in Tracks |-> 0]
  /\ halved = [o \in Tracks |-> FALSE]
  /\ faults = 0
  /\ crashes = 0

Fault == faults < MaxFaults /\ faults' = faults + 1

-----------------------------------------------------------------------------
(* Checkpoints *)

Stretch(n, x) == [i \in 1..n |-> x]
Heard(from, to) == [i \in 1..(to - from) |-> from + i]

\* The number of the last file, and one.
End(files) ==
  CHOOSE n \in {0} \cup {i + 1 : i \in DOMAIN files} :
    \A i \in DOMAIN files : i < n

Joined(files) ==
  LET part[n \in 0..End(files)] ==
        IF n = 0 THEN <<>>
        ELSE part[n - 1] \o
             (IF n - 1 \in DOMAIN files /\ files[n - 1].whole
                THEN files[n - 1].data ELSE <<>>)
  IN part[End(files)]

\* What can be had from the disk for an origin.
OnDisk(o) == IF track[o] = Missing THEN Joined(ckpt[o]) ELSE track[o]

\* The k-th checkpoint of a sequence that is cut into whole intervals.
Cut(s, k) == SubSeq(s, (k - 1) * Interval + 1, k * Interval)

\* n checkpoints are written after those of o.
WithCheckpoints(o, s, n) ==
  [i \in DOMAIN ckpt[o] \cup {count[o] + k : k \in 0..n - 1} |->
     IF i \in DOMAIN ckpt[o] THEN ckpt[o][i]
     ELSE [data |-> Cut(s, i - count[o] + 1), whole |-> TRUE]]

\* A file that is there already, a torn one, is not overwritten.
InTheWay(o) == count[o] \in DOMAIN ckpt[o]

\* A run of the encoder that fails may leave a file behind.
LeavesTorn(o, files, i) ==
  \/ ckpt' = [ckpt EXCEPT ![o] = files]
  \/ /\ i \notin DOMAIN files
     /\ ckpt' = [ckpt EXCEPT ![o] =
          [j \in DOMAIN files \cup {i} |->
             IF j = i THEN [data |-> <<>>, whole |-> FALSE] ELSE files[j]]]

-----------------------------------------------------------------------------
(* add_chunk *)

\* Silence that stands for what was not captured since the last chunk.
Missed(o, start) == IF start > next[o] THEN start - next[o] ELSE 0

\* What a chunk appends: the silence before it, and of the chunk what lies
\* after the end of the last one.
Appended(o, start, end) ==
  Stretch(Missed(o, start), Silence)
    \o Heard(IF start > next[o] THEN start ELSE next[o], end)

\* The first chunk is saved at once, so that a recording that is announced
\* is on disk; after it, every whole interval is.
StoresChunk(o, start, end) ==
  LET all == buffer[o] \o Appended(o, start, end)
      cuts == Len(all) \div Interval
      rest == SubSeq(all, cuts * Interval + 1, Len(all))
      files == WithCheckpoints(o, all, cuts)
      first == count[o] + cuts = 0 /\ rest # <<>>
  IN /\ cuts > 0 \/ first => ~ InTheWay(o)
     /\ count' = [count EXCEPT ![o] = @ + cuts + (IF first THEN 1 ELSE 0)]
     /\ buffer' = [buffer EXCEPT ![o] = IF first THEN <<>> ELSE rest]
     /\ ckpt' = [ckpt EXCEPT ![o] =
                   IF first THEN [i \in {0} |-> [data |-> rest, whole |-> TRUE]]
                   ELSE files]
     /\ safe' = [safe EXCEPT ![o] = @ + cuts * Interval
                                      + (IF first THEN Len(rest) ELSE 0)]
     /\ next' = [next EXCEPT ![o] = end]
     /\ UNCHANGED <<failed, faults>>

Noted(o) == TRUE

\* The k-th checkpoint is not written: what follows it is lost, and the clock
\* has moved on unless it was silence that was being written.
LosesChunk(o, start, end) ==
  LET all == buffer[o] \o Appended(o, start, end)
      silent == Len(buffer[o]) + Missed(o, start)
      cuts == Len(all) \div Interval
      fails(k, files) ==
        /\ IF k = 1 /\ InTheWay(o) THEN UNCHANGED faults ELSE Fault
        /\ LeavesTorn(o, files, count[o] + k - 1)
  IN /\ \/ \E k \in 1..cuts :
             /\ fails(k, WithCheckpoints(o, all, k - 1))
             /\ k > 1 => ~ InTheWay(o)
             /\ count' = [count EXCEPT ![o] = @ + k - 1]
             /\ safe' = [safe EXCEPT ![o] = @ + (k - 1) * Interval]
             /\ buffer' = [buffer EXCEPT ![o] = Cut(all, k)]
             /\ next' = [next EXCEPT ![o] =
                  IF Missed(o, start) > 0 /\ k * Interval <= silent THEN @ ELSE end]
        \/ /\ cuts = 0 /\ count[o] = 0
           /\ fails(1, ckpt[o])
           /\ buffer' = [buffer EXCEPT ![o] = all]
           /\ next' = [next EXCEPT ![o] = end]
           /\ UNCHANGED <<count, safe>>
     /\ failed' = [failed EXCEPT ![o] = Noted(o)]

\* A chunk may come late, leaving a gap, or overlap the one before; one that
\* lies in the past altogether is dropped.
AddChunk(o) ==
  /\ phase = "recording"
  /\ \E start \in next[o]..next[o] + 1 \cup {n \in {next[o] - 1} : next[o] > 0},
        length \in 1..MaxChunk :
       LET end == start + length IN
       /\ end \in next[o] + 1..MaxTime
       /\ heard' = [heard EXCEPT ![o] =
            @ \o Stretch((IF start > Len(@) THEN start - Len(@) ELSE 0), Silence)
              \o Heard(IF start > Len(@) THEN start ELSE Len(@), end)]
       /\ StoresChunk(o, start, end) \/ LosesChunk(o, start, end)
  /\ UNCHANGED <<phase, turn, ready, dir, track, results, halved, crashes>>

-----------------------------------------------------------------------------
(* stop_and_save: one origin after the other is finalized *)

StopRecording ==
  /\ phase = "recording"
  /\ \E o \in Tracks : heard[o] # <<>>
  /\ phase' = "saving"
  /\ turn' = Order
  /\ UNCHANGED <<memory, ready, checkpoints, track, results, history, faults,
                 crashes>>

NextOrigin ==
  /\ turn' = Tail(turn)
  /\ phase' = IF Tail(turn) = <<>> THEN "mixing" ELSE "saving"

SaveLast(o) ==
  /\ phase = "saving" /\ turn # <<>> /\ o = Head(turn)
  /\ \/ /\ buffer[o] = <<>>
        /\ phase' = "merging"
        /\ UNCHANGED <<turn, buffer, count, ckpt, safe, faults>>
     \/ /\ buffer[o] # <<>> /\ ~ InTheWay(o)
        /\ ckpt' = [ckpt EXCEPT ![o] =
             [i \in DOMAIN @ \cup {count[o]} |->
                IF i = count[o] THEN [data |-> buffer[o], whole |-> TRUE] ELSE @[i]]]
        /\ count' = [count EXCEPT ![o] = @ + 1]
        /\ safe' = [safe EXCEPT ![o] = @ + Len(buffer[o])]
        /\ buffer' = [buffer EXCEPT ![o] = <<>>]
        /\ phase' = "merging"
        /\ UNCHANGED <<turn, faults>>
     \/ /\ buffer[o] # <<>>
        /\ IF InTheWay(o) THEN UNCHANGED faults ELSE Fault
        /\ LeavesTorn(o, ckpt[o], count[o])
        /\ NextOrigin
        /\ UNCHANGED <<buffer, count, safe>>
  /\ UNCHANGED <<next, failed, ready, dir, track, results, heard, halved, crashes>>

\* Mutation of MergeCheckpoints: what comes after does not ask for success.
MergeAndRemove(o) ==
  /\ phase = "merging" /\ o = Head(turn)
  /\ \/ /\ count[o] > 0
        /\ track' = [track EXCEPT ![o] = Joined(ckpt[o])]
        /\ ready' = [ready EXCEPT ![o] = TRUE]
        /\ UNCHANGED faults
     \/ /\ IF count[o] = 0 THEN UNCHANGED faults ELSE Fault
        /\ UNCHANGED <<track, ready>>
  /\ phase' = "removing"
  /\ UNCHANGED <<turn, memory, checkpoints, results, history, crashes>>

\* The checkpoints are joined in a temporary file that is renamed.
MergeCheckpoints(o) ==
  /\ phase = "merging" /\ o = Head(turn)
  /\ \/ /\ count[o] > 0
        /\ track' = [track EXCEPT ![o] = Joined(ckpt[o])]
        /\ ready' = [ready EXCEPT ![o] = TRUE]
        /\ phase' = "removing"
        /\ UNCHANGED <<turn, faults>>
     \/ /\ IF count[o] = 0 THEN UNCHANGED faults ELSE Fault
        /\ NextOrigin
        /\ UNCHANGED <<track, ready>>
  /\ UNCHANGED <<memory, checkpoints, results, history, crashes>>

\* The files of the directory are removed one by one, in any order; an error
\* is not fatal.
RemoveCheckpoint(o) ==
  /\ phase = "removing" /\ o = Head(turn)
  /\ \/ /\ DOMAIN ckpt[o] # {}
        /\ \E i \in DOMAIN ckpt[o] :
             ckpt' = [ckpt EXCEPT ![o] = [j \in DOMAIN @ \ {i} |-> @[j]]]
        /\ halved' = [halved EXCEPT ![o] = TRUE]
        /\ UNCHANGED <<phase, turn, dir, faults>>
     \/ /\ DOMAIN ckpt[o] = {}
        /\ dir' = [dir EXCEPT ![o] = FALSE]
        /\ halved' = [halved EXCEPT ![o] = FALSE]
        /\ NextOrigin
        /\ UNCHANGED <<ckpt, faults>>
     \/ Fault /\ NextOrigin /\ UNCHANGED <<checkpoints, halved>>
  /\ UNCHANGED <<memory, ready, track, results, heard, safe, crashes>>

\* An error here is the error of the whole stop: the metadata keeps saying
\* that the recording goes on.
CreateMixedTrack ==
  /\ phase = "mixing"
  /\ \/ /\ \E o \in Tracks : ready[o]
        /\ playback' = {o \in Tracks : ready[o]}
        /\ phase' = "describing"
        /\ UNCHANGED faults
     \/ /\ IF \E o \in Tracks : ready[o] THEN Fault ELSE UNCHANGED faults
        /\ phase' = "dead"
        /\ UNCHANGED playback
  /\ UNCHANGED <<turn, memory, ready, checkpoints, track, metadata, origin, report,
                 history, crashes>>

WriteMetadata ==
  /\ phase = "describing"
  /\ metadata' = IF \E o \in Tracks : failed[o] \/ ~ ready[o]
                   THEN "partial" ELSE "completed"
  /\ origin' = [o \in Tracks |-> IF failed[o] THEN "partial"
                                  ELSE IF ready[o] THEN "stored" ELSE "unavailable"]
  /\ phase' = "closed"
  /\ UNCHANGED <<turn, memory, ready, checkpoints, track, playback, report, history,
                 faults, crashes>>

-----------------------------------------------------------------------------
(* The process ends; later the page recovers what it finds *)

Crash ==
  /\ phase \notin {"closed", "dead", "cleaned"}
  /\ crashes < MaxCrashes
  /\ crashes' = crashes + 1
  /\ phase' = "dead"
  /\ turn' = <<>>
  /\ buffer' = [o \in Tracks |-> <<>>]
  /\ ready' = [o \in Tracks |-> FALSE]
  /\ \/ UNCHANGED ckpt
     \/ /\ phase = "recording"
        /\ \E o \in Tracks : LeavesTorn(o, ckpt[o], count[o])
  /\ UNCHANGED <<next, count, failed, dir, track, results, history, faults>>

\* The page offers a recovery of meetings that were never saved.
Recover ==
  /\ phase = "dead"
  /\ phase' = "recovering"
  /\ turn' = Order
  /\ ready' = [o \in Tracks |-> FALSE]
  /\ report' = "none"
  /\ UNCHANGED <<memory, checkpoints, track, playback, metadata, origin, history,
                 faults, crashes>>

\* What the encoder makes of a list with a torn file is its own affair: an
\* error, or what comes before the torn file.
Readable(files) ==
  [i \in {i \in DOMAIN files : \A j \in DOMAIN files : j <= i => files[j].whole}
     |-> files[i]]

RecoverTrack(o) ==
  /\ phase = "recovering" /\ o = Head(turn)
  /\ \/ /\ \/ ~ dir[o]
           \/ DOMAIN ckpt[o] = {}
           \/ \E i \in DOMAIN ckpt[o] : ~ ckpt[o][i].whole
        /\ UNCHANGED <<track, ready, faults>>
     \/ /\ dir[o] /\ DOMAIN ckpt[o] # {} /\ Fault
        /\ UNCHANGED <<track, ready>>
     \/ /\ dir[o] /\ DOMAIN Readable(ckpt[o]) # {}
        /\ track' = [track EXCEPT ![o] = Joined(Readable(ckpt[o]))]
        /\ ready' = [ready EXCEPT ![o] = TRUE]
        /\ UNCHANGED faults
  /\ turn' = Tail(turn)
  /\ phase' = IF Tail(turn) = <<>> THEN "replaying" ELSE "recovering"
  /\ UNCHANGED <<memory, checkpoints, results, history, crashes>>

\* Mutation of IsPartial: an origin that left nothing was not selected.
IsNeverPartial(o) == FALSE

\* origin_recovery_is_partial: the directory is there and gave nothing.
IsPartial(o) == dir[o] /\ ~ ready[o]

RecoverPlayback ==
  /\ phase = "replaying"
  /\ LET recovered == {o \in Tracks : ready[o]} IN
     \/ /\ recovered # {}
        /\ playback' = recovered
        /\ report' = IF \E o \in Tracks : IsPartial(o) THEN "partial" ELSE "success"
        /\ UNCHANGED faults
     \/ /\ IF recovered = {} THEN UNCHANGED faults ELSE Fault
        /\ report' \in (IF recovered = {} THEN {"none"} ELSE {"failed"})
        /\ UNCHANGED playback
  /\ phase' = "cleaning"
  /\ UNCHANGED <<turn, memory, ready, checkpoints, track, metadata, origin, history,
                 crashes>>

\* The page removes all checkpoints, whatever the recovery reported.
CleanupCheckpoints ==
  /\ phase = "cleaning"
  /\ ckpt' = [o \in Tracks |-> NoFiles]
  /\ dir' = [o \in Tracks |-> FALSE]
  /\ phase' = "cleaned"
  /\ UNCHANGED <<turn, memory, ready, track, results, history, faults, crashes>>

-----------------------------------------------------------------------------

Next ==
  \/ \E o \in Tracks : AddChunk(o) \/ SaveLast(o) \/ MergeCheckpoints(o)
                        \/ RemoveCheckpoint(o) \/ RecoverTrack(o)
  \/ StopRecording \/ CreateMixedTrack \/ WriteMetadata
  \/ Crash \/ Recover \/ RecoverPlayback \/ CleanupCheckpoints

Spec == Init /\ [][Next]_vars

-----------------------------------------------------------------------------
(* Properties *)

\* metadata.json calls an origin stored only if its track is the timeline as
\* it was captured, every sound at its place, and the playback has it
\* (add_chunk, finalize, completed_origin_status).
StoredIsComplete ==
  \A o \in Tracks :
    origin[o] = "stored" => track[o] = heard[o] /\ o \in playback

\* Until the page cleans up, what was in a checkpoint is in a checkpoint or in
\* the track, and of an origin without failures no more than one interval is
\* missing, wherever the process ends; the removal of checkpoints, file by
\* file, is the exception (finalize, recover_track).
NothingSavedIsLost ==
  \A o \in Tracks : phase # "cleaned" /\ ~ halved[o] =>
    /\ Len(OnDisk(o)) >= safe[o]
    /\ ~ failed[o] => /\ OnDisk(o) = SubSeq(heard[o], 1, Len(OnDisk(o)))
                      /\ Len(OnDisk(o)) + Interval > Len(heard[o])

\* A recovery that reports success has in the playback every origin that left
\* a checkpoint directory, as far as it could be read (recover_audio_from_
\* checkpoints).
SuccessHasEveryOrigin ==
  phase = "cleaning" /\ report = "success" =>
    \A o \in Tracks : dir[o] => o \in playback
=============================================================================
