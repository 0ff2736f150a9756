# A verified model of gcrdings

gcrdings is a macOS desktop application (Tauri: a Rust core in
`frontend/src-tauri`, a React page in `frontend/src`) that records or imports
the audio of a *Session*, turns it into a *principal transcript* that the user
corrects, has a local helper extract *findings* from it, summarises it, and, on
explicit request, sends findings to an external provider. This directory holds
TLA+ models of the parts where several actors meet, the TLC configurations that
check them, and TLAPS proofs for every value of their constants. Source paths
below are relative to the repository's source; `tauri/` stands for
`frontend/src-tauri/src/`, `page/` for `frontend/src/`.

Contents: [1 Inventory](#1-inventory), [2 Modules](#2-the-modules-and-the-code),
[3 Runs](#3-what-the-runs-check), [4 Proofs](#4-what-is-proved),
[5 Disagreements](#5-where-the-code-disagrees),
[6 Limits](#6-what-is-abstracted-and-what-is-not-modelled),
[7 Plan](#7-plan), [8 Running it](#8-running-it).

## 1 Inventory

| Component | State it keeps | Hard behaviours | Correct when | Modules |
|---|---|---|---|---|
| **Durable processing jobs** (`tauri/audio/retranscription.rs`, `database/repositories/processing_job.rs`) | process-wide atomic gate; rows of `processing_jobs`; the transcript and its revision | two commands between check and reservation; cancellation against the claim of the save; files changing during the work; refused updates; crash | one worker; every running row has somebody to close it; a cancelled or outdated job writes nothing | `ProcessingJobs`, `DurableJobs` |
| **Local findings** (`tauri/verifiable_record/`) | lease per Session in memory; row of `record_generations` | three transactions with the helper between them; late answers; a cancel command that kept an old lease | findings shown are of the transcript and type there is now; a withdrawn generation stays withdrawn | `RecordGeneration` |
| **External transfers** (`tauri/providers/commands.rs`, `repository.rs`, `summary/llm_client.rs`, `page/hooks/.../useExternalProvider.ts`) | rows of `provider_transfers`; snapshot version; the page's digest | lost answers, left pages, edits between preview and confirmation, crash during a POST | nothing unconfirmed is sent; nothing is sent while another outcome is unknown | `ProviderTransfers` |
| **External credentials** (`tauri/providers/repository.rs`, `keychain.rs`) | row of `provider_authorizations`, Keychain items | no transaction spans SQLite and the Keychain | a secret goes where it was entered for; it is neither lost nor left behind | `ProviderCredentials` |
| **Principal record and its editor** (`tauri/database/repositories/principal_record.rs`, `page/lib/review-record.ts`, `useReviewRecord.ts`) | participants, passages, revision; baseline, history and undo of the page | a record read in several queries; editing while a save is on its way; a transcript replaced meanwhile | a save replaces only what its user was shown | `SessionReview` |
| **Settings and meeting API** (`tauri/api/api.rs`, `page/hooks/usePaginatedTranscripts.ts`) | rows of meetings and transcripts; loaded pages, offset | answers that arrive after a reset | an undisturbed page shows every passage | `MeetingPages` |
| **Recording lifecycle** (`tauri/audio/recording_commands.rs`, `recording_manager.rs`, `recording_state.rs`) | `IS_RECORDING`, the manager's slot, gate and lock, pause, clock | overlapping starts and stops, a dying source, reconnection | no recording vanishes; a stop returns; the duration is true | `RecordingSession`, `RecordingClock` |
| **Live transcription** (`tauri/audio/transcription/`) | queue, task, listener | stop while chunks are queued | a segment is filed with its session | `RecordingSession` |
| **Audio persistence** (`tauri/audio/incremental_saver.rs`, `recording_saver.rs`, `page/hooks/useTranscriptRecovery.ts`) | checkpoints per origin, tracks, metadata | crash at any point of a recording, a merge, a recovery | what was checkpointed is in the track or can be recovered | `CheckpointedTrack` |
| **Capture pipeline** (`tauri/audio/pipeline.rs`, `stream.rs`, `vad.rs`, `device_monitor.rs`) | resampler's remainder, channel, rings, detector; missing devices | origins out of step, full rings, flush during speech, listings that fail | what was captured is mixed and transcribed; the last report is true | `CapturePipeline`, `DeviceMonitor` |
| **Media import** (`tauri/audio/import.rs`, `page/components/ImportAudio`) | flags, staging folder | cancel between import and job; folder against row | a Session has its folder, a failed import none | `MediaImport` |
| **Timeline merge and diarization** (`tauri/audio/retranscription.rs`, `decoder.rs`, `common.rs`, `diarization.rs`) | none | packets that do not decode, long speech, equal times | speech is heard once; the merge ignores the order | `OriginAudio`, `OriginTimelines` |
| **Model stores** (`tauri/whisper_engine/`, `parakeet_engine/`, `audio/diarization_models.rs`) | files, status maps, cancel flags; the one loaded model and its name | two downloads of one model, resumed files, switching models | a model reported complete is whole; loads return | `WhisperDownloads`, `ParakeetDownloads`, `SpeechEngine`, `RepetitionFilter`, `DiarizationModels` |
| **Database opening, legacy import** (`tauri/database/manager.rs`, `commands.rs`, `setup.rs`) | database files, reservation, retained original, plaintext keys | end of the process between any two steps | no key is lost, none stays after the purge | `DatabaseOpening` |
| **First setup** (`tauri/onboarding.rs`, `page/contexts/OnboardingContext.tsx`) | store and its file, page state, timer, auto-saves | an auto-save beside the completion | a completed setup stays complete | `Onboarding` |
| **Agent handoff** (`tauri/agent_handoff.rs`) | temporary file, destination | failures and crashes of a write, edits while the dialog is open | an exported file is whole and current | `AgentHandoff` |
| **Summaries** (`tauri/summary/`, `page/lib/summary-language-preferences.ts`) | row, registry of tokens, cached English form; languages in `metadata.json` | two generations at once, edits, cancellation, two writers of one file | a summary is of its text; the last one is kept | `Summaries`, `TextChunks`, `SummaryLanguages` |

Apple's helper, notifications, tray, analytics, the rest of the page, the
Python backend and the build files have no module; section 6 and `components`
in `PROJECT.json` say why.

*How they interact.* SQLite and the folder of a Session are the durable state
they share: a job replaces a transcript and raises
`principal_transcript_revision`, which the generation and the editor compare;
triggers raise `canonical_snapshot_version`, which a transfer compares; a
recording, an import and a job write the same `metadata.json`. The page calls
commands and listens to events; two commands interleave at every `await`. The
gate of the jobs, the lease of a generation, the mutex of the providers, the
lifecycle lock of the engine and the gate of the recording serialise. On
startup `lib.rs` opens the database and recovers, in this order, credentials,
transfers, jobs and generations.

`hazards` in `PROJECT.json` lists what is hard to test, at its line, with the
properties that would catch it.

## 2 The modules and the code

Each module names its sources at its head. An action is one handler step
between two points at which another actor can act: an SQL statement or
transaction, a compare-and-swap, a Keychain call, a rename, an `await`. `map`
in `PROJECT.json` gives the lines of every definition. Definitions introduced
by *Mutation of* are wrong variants used to test that a property can fail.

**ProcessingJobs.** One identity stands for a command, its row and its worker.
`gate` is the atomic; `pc` where a worker stands; `session`, `hash`, `status`,
`code`, `warning` the row; `author`, `content`, `revision` the transcript, as
who wrote it and in which contents of the files it was heard. A command checks
the gate, hashes the origins, inserts its row, enters the gate by
compare-and-swap; the worker opens each origin, combines, hashes again, claims
the save and commits. Cancellation, correction, deletion, changed files, the
end of the process and the recovery at startup surround each of these steps.

**DurableJobs** is the abstract specification of the same table: a job runs
once, ends with one verdict, and replaces the transcript of its Session in the
one step that completes it. `ProcessingJobs!KeepsItsPromise` states the
refinement; the mapping hides the Session of a job without a row and the
variables of the workers.

**RecordGeneration.** `lease` is the entry of `ACTIVE_GENERATIONS`; `type`,
`status`, `result`, `input`, `active`, `basis` the row; `seen`, `kind` the
snapshot a call sends to the helper; `told` the tokens. A cancel command first
finds the lease, then sets its token, then cancels the row: three steps, and
the lease may have changed between them.

**ProviderTransfers.** `queue` is the line at the mutex (tokio's mutex is first
come first served), `held` the digest the page holds, `busy` that it waits.
`outcome` is chosen by `Answer`: the provider may process a request and the
answer be lost. A credential command is one change of the configuration, since
the gate keeps previews and confirmations away from its steps.

**ProviderCredentials.** One row and the Keychain, one action per statement or
Keychain call. A stored secret is the destination it was entered for, so that
a secret sent elsewhere is visible. Every command runs the same preamble
(migration, recovery of a staged generation, cleanup), then its body.

**DatabaseOpening.** A first launch with or without a database of the older
backend: snapshot of the source, reservation, copy, activation, the move of
its plaintext keys to the Keychain, the purge of the active database, of its
log and of the retained original, and the release of the reservation. One call
at a time, as the gates of the code have it; `Crash` between any two steps.

**SessionReview.** A record is a function of cells (name of a participant, text
of a passage, its participant). The page reads it in three queries, keeps a
baseline beside the present, past and future of the user's edits, and sends
their difference under an expected revision; the answer rebases the history.

**MeetingPages.** Loads of the hook outlive a change of Session; their answers
are applied whenever they come. `undisturbed` remembers whether anything else
moved the page.

**AgentHandoff.** A record is the number of the change that made it; exports
select a place, read the record, write a temporary file, rename it.

**Onboarding.** `store` is the plugin's memory and `disk` its file; `timer`
what the next auto-save would send; `saves` those on their way; `pc` where each
completion stands. `Shows` is the effect that runs after every change of the
page's state.

**SummaryLanguages.** `metadata.json` as the fields its writers touch. A writer
holds the lock of `metadata.rs` from its read to its rename. A retranscription
reads and renames without it, and twice: at its start, for the names of the
people at the microphone if the file has none (`BeginJob`,
`ReplaceForSnapshot`), and at its end, for its own marks (`ReadForJob`,
`ReplaceForJob`). `clash` remembers that one did so beside a writer, `late`
that a detection was saved over a newer transcript.

**RecordingSession.** A start holds the lifecycle lock from its check of the
flag to the raising of it; stop and reconnection hold the mutation gate and
take the manager out of `slot` (`held` is the one they have). Chunks are in the
pipeline, at the saver, on disk or lost; segments are filed by the listener
with whichever session is in the slot. A batch job shares the model.

**RecordingClock.** The instants and sums of `RecordingState`, beside the time
that was really captured; `Flushed` ends with `cleanup()` as in
`stop_streams_and_force_flush`.

**CheckpointedTrack.** A sample is the place of the timeline at which it was
heard, or silence. Checkpoints of either origin are encoded at intervals,
joined at the stop, removed; the encoder refuses to overwrite a file.
Recovery and its cleanup are the page's.

**CapturePipeline** counts samples: callbacks, the resampler's remainder, the
channel, the two rings, windows padded with silence, the detector, the flush.
**DeviceMonitor** is the loop that lists the devices and the manager that is
taken out of its slot to poll it.

**MediaImport.** Staging, copy, extraction, metadata, rename, row, the
transcription that follows; the dialog follows by events that do not say which
import they are about.

**OriginAudio** follows `process_audio_origin`: FFmpeg converts the file to the
rate of the models, packets are decoded or passed over, the detector finds any
stretches of the samples, long ones are cut, pieces that are long enough are
transcribed; it fails or is cancelled where the code can. No resampler is in
it, since the decoded audio already has the rate.

**OriginTimelines**, **RepetitionFilter**, **TextChunks** are
the pure parts: the merge of two origins with their speakers, the filter of repeated words, the chunks of a long
transcript. They are functions checked against a definition of what they are
for, over all bounded inputs.

**WhisperDownloads**, **ParakeetDownloads**, **DiarizationModels.** Files are
halves that are empty, right or wrong (Whisper), sets of three parts (Parakeet,
where the first two are the 99 percent that a download takes for the file),
verified contents (diarization); a writer whose directory entry is gone writes
to a file nobody sees. **SpeechEngine** has the model and its name behind two
locks; the place of a task says which guards it holds.

**Summaries.** The row with its backup, the registry with one token per
meeting, up to two background tasks, the calls of the model with failures and
cancellation, edits by the user, the end of the process.

**Library**, **Audio**, **ModelDownloads** and `MCServices` put several
components side by side: a behaviour picks one of them (`component`) and is a
behaviour of that one, the variables of the others being `Unused`. They add no
interleaving between components, only save runs and proofs; each of their
properties is the conjunction of the components' own. **MC\*** modules declare
model values, sets and symmetry. **\*Proofs** modules hold the theorems, of
one module each; `AudioProofs` and `SpeechProofs` share `Audio`, and
`LibraryProofs` begins with what holds of `ProviderCredentials` alone.

## 3 What the runs check

| Run | Instance | Checks |
|---|---|---|
| `jobs` | 2 commands, 2 Sessions, 1 origin, 1 correction, 1 refused update | `RunningRowHasItsWorker`, `CancellationIsExact`, `RevisionFollowsTranscript`, refinement of `DurableJobs` |
| `generation` | 2 generations, 1 cancel command, 2 types, 1 edit, 1 refused update, fair calls | `ShownFindingsAreCurrent`, `WithdrawnCallIsNeverAccepted`, `ProcessingRowHasItsCall`, `AttemptsAreContained`, `GenerationsEnd` |
| `transfers` | 2 previews, 2 contents, 2 edits, 2 credentials, fair commands | `UnsettledIsAlone`, `AcceptedIsRemembered`, `SendsWhatWasConfirmed`, `PageIsAnswered` |
| `recording_live` | 1 recording of both origins or 2 of the microphone, a batch job, fair stop and pipeline | `NoRecordingVanishes`, `CompletedHasEverything`, `SegmentsStayWithTheirSession`, `BatchSparesRecordings`, `EveryStopReturns` |
| `downloads` | either engine: 2 calls, 1 failure, 1 whim, 1 restart, a fair user | `ReceivedIsWhole`, `ModelIsObtainable` |
| `services` | jobs, engine (2 models, 3 tasks) and monitor (2 devices), each fair | `JobsEnd`, `LoadsReturnUnlessOneSwitches`, `LastReportIsTrue` |
| `library` | credentials, database, editor, pages, export, setup, languages | `CredentialsAreKept`, `ImportKeepsSecretsAndData`, `EditsAreSafe`, `PagesAreWhole`, `HandoffIsWhole`, `OnboardingIsKept`, `LanguagesAreKept` |
| `audio` | jobs with 2 origins and with changing audio, capture, tracks, import, origin, timelines, filter, summaries, chunks, diarization model, clock | `TranscriptsAreTrue`, `CapturedSpeechIsSent`, `RecordingsAreRecoverable`, `ImportIsWholeOrNothing`, `SpeechIsHeardOnce`, `TimelinesMerge`, `TextIsKept`, `SummariesAreTrueAndKept`, `ModelsAreWhole`, `DurationIsTrue` |
| `engine_switch`, `chunks_overlap`, `recording_json`, `credentials_removal` | | violated (section 5) |

*Bounds.* Two workers, calls, writers or exports suffice for every race over a
gate, a lease, a lock or a file that compares two of them; one edit or
replacement can come before or after any read, two let one follow another; two
contents of a file tell a file that changed from one that did not; three
generations of credentials are enough for a replacement of a replacement and
for a rollback to a migrated one. One failure and one end of the process per
behaviour (two of each in `DatabaseOpening`) can each fall between any two
steps, and beside each other. Four samples per source overflow the ring of
three; three samples at an interval of two make a whole checkpoint and a last
partial one; texts of eight characters have two windows of four; seven words
hold a phrase of three twice. The bounds only cut off counters that never
decrease. What is proved (section 4) holds without any of them.

*Symmetry* permutes commands, contents, destinations or exports,
which no action tells apart. Runs with liveness use none.

*Fairness.* Weak fairness of the steps of a worker (`ProcessingJobs`), of a
call (`RecordGeneration`), of the command that is served
(`ProviderTransfers`), of a stop and of the pipelines (`RecordingSession`), of
the monitor (`DeviceMonitor`), of the steps of a download: the runtime polls a
task that is ready, and what a step waits for ends. The helper is killed after
its time limit, the POST after 30 seconds, waits of the stop have time limits;
that the decoder, the engine and SQLite return is an assumption. Strong
fairness of the tasks of `SpeechEngine`: tokio grants a lock in the order of
the requests, so that a writer is not overtaken for ever. `ModelIsObtainable`
speaks of a user who goes on asking, and so it takes as fair what the page
offers: a download or a retry of a model that is not shown as available, of
Parakeet the retry of the onboarding, and the cancellation of what a listing
shows as downloading though nothing is. A Whisper model in the error state can
only be retried, and is refused for as long as it is in `active_downloads`:
the property excuses a model that a failed request left there (`stranded`).
Failures are bounded. Nothing else is fair: not crashes, restarts or other choices of
the user. A liveness property excuses the end of the process and a row whose
closing update storage refused. Deadlock is checked where a component never
stops; a bounded component that has used up its inputs may, and its cfg says
so.

Every property is paired in `PROJECT.json` with a mutation of a mapped
definition that TLC finds to violate it, such as a compare-and-swap without
its comparison, a lock everybody may pass, a rename before the write, or a
lost answer recorded as a failure.

## 4 What is proved

For every value of the constants that the named `ASSUME`s of the modules
allow, in eight modules:

| Module | Of a run's properties | Besides |
|---|---|---|
| `ProcessingJobsProofs` | `NoAbandonedRow`, `CancellationHits`, `RevisionsFollow`, `PromiseIsKept` (the refinement of `DurableJobs`) | `TypeCorrect`, `Invariance`, `OneWorker`, `CancellationWins`, `CancellationIsNotInherited`, `VerdictsAreFinal`, `TranscriptsMatch` |
| `RecordGenerationProofs` | `ShownIsCurrent`, `WithdrawnStaysOut`, `NoAbandonedGeneration`, `AttemptsDoNoHarm` | `TypeCorrect`, `Invariance`, `CancelIsAimed`, `FindingsAreKept` |
| `ProviderTransfersProofs` | `OneUnsettled`, `AcceptedStays`, `SentAsConfirmed` | `TypeCorrect`, `Invariance` |
| `RecordingSessionProofs` | `NothingVanishes`, `CompletedIsComplete`, `SegmentsAreFiled`, `BatchSpares` | `TypeCorrect`, `Invariance` |
| `LibraryProofs` | `CredentialsStayKept`, `ImportKeeps`, `EditsStaySafe`, `PagesStayWhole`, `ExportsAreWhole`, `SetupStays`, `LanguagesStay` | of `ProviderCredentials`: `TypeCorrect`, `Invariance`, `SecretIsForDestination`, `EnabledByUser`, `SecretsAreOwned`, `ErasedOnlyWhenReplaced` |
| `AudioProofs` | `TranscriptsStayTrue`, `ModelsStayWhole`, `ImportsAreWhole`, `SummariesStayTrue`, `DurationStaysTrue`, `SpeechStaysHeardOnce`, `TextStays` | |
| `SpeechProofs` | `TimelinesStayMerged`, `SpeechStaysSent`, `RecordingsStayRecoverable` | |
| `ModelDownloadsProofs` | `ReceivedFilesAreWhole` | |

All safety and action properties of the runs that pass are theorems.

*What is assumed of the constants.* That the special values (`None`, `Absent`,
`Unused`, `Nowhere`) are not members of the sets they stand beside, that
bounds are naturals, and that names of different things differ (no download
call is called as the page, the scan or no model). Beyond that:
the default type is a type; a source with a secret is a database there is; a
review has finitely many participants and passages; a diarization directory
that is gone is no directory; a piece that is heard has a sample, and the shortest one is no longer than a
second or than the longest (100 milliseconds against 1 and 25 seconds); a
window of characters and the interval between two checkpoints are not empty
(`chunk_text` returns at once when its size is zero); a recording has at most
two sources, and what one call of a callback sends fits into a ring of the
mixer that lacks a sample of a window (the ring takes eight windows of 600
milliseconds, so that only a call of more than four seconds would not fit). TLC evaluates each
assumption in the run of its module.

*Arguments.* None of the safety properties is inductive as it stands; what is,
is named in the module of the component (`IInv`) or in the proofs.

- Jobs: `CancelledJobWritesNothing` needs that the gate says
  `cancel_requested` exactly while the worker inside was cancelled
  (`CancelInv`), which needs that one worker is inside (`GateInv`) and that
  each step knows the status of its row (`RowInv`). The refinement is proved
  step by step on top of it: inserting a row maps to `Reserve`, the commit to
  `Complete`, a refusal or failure to `Reject`, a restart to `Interrupt`, all
  else to a stutter. That a transcript is of its row needs what a worker has
  heard so far (`HeardInv`) and that a claim of the save has seen the hash a
  second time (`SaveInv`). The Sessions whose audio changes are the same
  module with other constants: their steps are shown to be its steps, and its
  theorem is used as it stands.
- Generation: the answer that is accepted belongs to the revision the row was
  begun with, which is the one the call has seen (`ResultInv`, `RowInv`);
  a withdrawn call has bound its request and can never begin again
  (`WithdrawnInv`).
- Transfers: `UnsettledIsAlone` holds although only a *preview* looks for an
  unsettled transfer. It holds because a page that has a digest has seen the
  line empty, so its confirmation is first in line and no preview can be
  answered before it (`LineInv`, `BlockedInv`). It needs the mutex to be fair;
  with an unfair one it fails (the mutant of that property).
- Credentials: an account names the destination of its secret and the row
  names its account (`RowIsNamed`, `SecretsAreNamed`); what is superseded was
  ready (`SupersededIsNamed`); the account of the old form is dealt with apart
  (`LegacyIsKept`); `StepsAgree` says what each call finds.
- Recording: who has the lifecycle lock, the mutation gate and the manager
  (`LockInv`, `GateInv`, `ManagerInv`), what of a recording is under way
  (`LiveInv`), that no chunk leaves it unless it is counted as lost
  (`LossInv`), which status a stop may report (`StatusInv`) and whom a drain
  hears (`DrainInv`).
- Import of a database: which file is active in which phase
  (`ActiveFollowsPhase`, `FilesAgree`), that a reservation and a call are of
  one source, and that an erased key is in the Keychain: `ErasedByPhase` says
  which files are without it at each step.
- Editor: a page that knows the latest version knows every cell of the record,
  and a save of it asks for what makes the record that of its snapshot
  (`UpToDateInv`); after the commit the record is that of the snapshot
  (`CommittedInv`), so that the answer may rebase the page. For the undo, the
  edits have led through a sequence of sheets from the baseline to the present
  one and on to what can be redone (`TraceInv`); every step, a rebase among
  them, gives such a sequence again.
- Pages: answers belong to a reset of the page (`EpochsAreReached`,
  `LoadsAreOfTheirMeeting`), one load at a time runs in an undisturbed page,
  and its count and rows are of one edition (`ReadsAreWhole`).
- Export: a snapshot is in hand before its rename, none is older than the
  choice of its place (`AskedBefore`, `SnapshotInHand`). Setup: one completion
  runs, what it has configured stays, and no save beside it says otherwise
  (`OneCompletion`, `NoneBeside`, `SuccessIsKept`). Languages: the lock is
  held from the read to the rename, so that the copy a writer has is the file
  (`LockIsHeld`, `CopiesAreFresh`).
- Diarization model: the line of the lock is first come first served, those
  inside are readers or one install (`LineWaits`, `WorkersAreInside`,
  `InstallsAreAlone`), and an install has verified what it has staged so far
  (`VerifiedSoFar`, `StagingIsSound`).
- Import of media, summaries, clock: each stage has its folder and each row
  too (`StageHasItsFolder`, `RowHasItsFolder`); the backup is the last summary
  and the cached English form is of its text (`BackupIsSound`,
  `EnglishIsOfItsText`); an idle clock has no sums, and the end of the last
  passage was captured (`IdleIsFresh`, `TranscribedWasCaptured`).
- Origin: the pieces of a stretch follow each other and lie in it
  (`PiecesFit`, `PiecesAreApart`), of a stretch that is cut they leave nothing
  out (`StretchesAreCut`), and of those that were passed each one of the least
  length was heard (`LongAreHeard`); so what a finished transcription has left
  out is a last piece that was too short.
- Filter and chunks: of the words read so far none is lost or repeated, and
  the last that was kept is the last of them (`KeptOf`), also when a phrase is
  taken out and brings two words together; what lies before a window is
  covered if the cuts so far lay in their overlaps (`ChunksInv`).
- Timelines: the order of the sort is total, so that counting what is before a
  passage gives each a place of its own (`PlacesAreTaken`, `SortIsOneToOne`).
  Passages of two origins never tie and those of one keep their order, hence
  putting the origins together the other way round permutes the passages
  without changing their places (`SortIgnoresTheOrder`).
- Capture: a chunk is only added to a ring while no window can be mixed, hence
  it fits (`MixerStep`). The requests to flush are the last of the queue
  (`QueueInv`): when the first is read, no stream runs, no window is left to mix
  and no chunk to hear (`Over`), and so it stays (`OverStays`); that is why the
  speech that the flush cuts is not heard on, although the library is not told.
  Until then the speech that goes on is the last stretch, from where the session
  began to what was heard, and what was sent is what is long enough of the
  stretches before it (`SpeechInv`).
- Track: the checkpoints of an origin are whole up to a number, and perhaps
  one after them is torn (`InOrder`). Until they are removed, what is on disk
  is what they hold, put together (`Placed`, `Kept`), and without failures
  that is the beginning of what was captured, less than an interval short
  (`Faithful`). While the recording goes on they and the buffer are all that
  was captured (`Collected`); before they are joined they are all of it
  (`Complete`), and before they are removed, file by file, the track is
  (`Tracked`). `OriginOnDisk` says which of these holds when, and that an
  origin that is called stored is in the playback. Joining is a recursive
  function: the lemmas on `Glued` say what one more file does to it and that a
  torn one adds nothing.
- Downloads: a call of Whisper that nobody disturbed is attached to its file,
  and of what it has received each half is right in it as long as no wrong
  byte came (`HoldsWhatItGot`); hence the digest of what was received speaks
  of the file. A call of Parakeet that had the directory to itself has passed
  files that are whole or lack no more than what is skipped, and finds
  beginnings of the others (`Passed`), and what it
  counts as received is what the file holds (`Beginning`), whether it resumes,
  begins again or is told that there is nothing to resume.

*Only model-checked.* Liveness (`GenerationsEnd`, `PageIsAnswered`,
`EveryStopReturns`, `ModelIsObtainable`, `JobsEnd`,
`LoadsReturnUnlessOneSwitches`, `LastReportIsTrue`), since the prover handles
neither fairness nor `ENABLED`.

## 5 Where the code disagrees

Four runs end in a violation:

- **Switching models waits for itself** (`engine_switch`). `load_model` matches
  on `self.current_model.read().await.as_ref()` in an `if let`, whose guard
  lives to the end of the block, and the block calls `unload_model`, which
  asks for the write lock. Both engines have the form. Unless some load finds
  another model in place, loads do return (`LoadsReturnUnlessOneSwitches`).
- **Chunks do not always overlap** (`chunks_overlap`). A chunk that is cut back
  to a full stop or a space may end before the next window begins; what lies
  between is in no chunk, although the comment says "overlapping segments".
  Where the cut lies within the overlap nothing is missed
  (`NothingIsLeftOut`).
- **The transcript file misses the drain** (`recording_json`). A stop
  unregisters the listener before it waits for the transcription.
- **A migration that is cut short leaves a credential behind**
  (`credentials_removal`). After the copy the row has generation 1; ended
  before `credentials.remove(&legacy_account)`, nothing looks at the account of
  the old form again, not even the removal of all credentials.

Seen while modelling, and visible in the models, without a run of their own:

- *A retry gets a new row.* `specs/002-complete-v1/data-model.md` says
  `failed|interrupted -> running with incremented attempt`; the code inserts a
  row. `ProcessingJobs!RetryReusesItsRow`, added to `ProcessingJobs_race.cfg`
  as a property, fails.
- *A save can erase what it has saved.* `stage_replacement` reads the row with
  `.ok()` (`tauri/providers/repository.rs:246`), so a failed read counts as no
  row and the generation is 1 again; the new account may be the superseded
  one, which the cleanup erases. `ProviderCredentials!SavedMeansStored`, added
  to `ProviderCredentials_removal.cfg`, fails.
- *A reload need not show the latest record.* `page/lib/review-record.ts:79`
  says "Reload the latest record before saving"; a record read in several
  queries across a replacement keeps the older part.
  `SessionReview!ReloadShowsTheLatestRecord` is the statement.
- *A retry after a locked Keychain may be refused.*
  `tauri/database/commands.rs:157` says "Unlock Keychain and retry the import.";
  once another call has finished the purge, `manager.rs:563` answers the retry
  that the import is no longer available. `DatabaseOpening!RetryIsAccepted` is
  the statement.
- *A Parakeet model that is listed as available need not be whole*
  (`parakeet_engine.rs:299`): only sizes are compared, and half a vocabulary
  will do. Nor need one whose download is reported complete: a file that has
  99 percent of its expected size is taken for complete and skipped
  (`:780-790`), also one that a failed call left so. `ReceivedIsWhole` asks of
  a skipped file no more than the code does. The same test for an answer 416
  (`:832-840`) is never reached with such a file.
- *A model can be locked out until a restart.* A request or a stream that fails
  is returned with `?`, which leaves the Whisper model in `active_downloads`
  (`whisper_engine.rs:1138`); each retry is refused as already running, and a
  model in the error state has no button to cancel
  (`page/components/WhisperModelManager.tsx:645`). Only where a listing finds a
  part of the file while the model still counts as downloading does the page
  offer the cancellation that frees it. The retry of Parakeet in the settings
  is refused likewise; that of the onboarding forgets the active download.
- *The duration in the metadata is not the recording's.*
  `stop_streams_and_force_flush` ends with `state.cleanup()`
  (`tauri/audio/recording_manager.rs:333`), which clears the start, so
  `save_recording_only` ("Get actual recording duration from state", `:350`)
  gets none and the end of the last passage is written instead. `DurationIsTrue`
  therefore says only that no more is claimed than was captured.
- *An auto-save can undo the completion of the setup.* The comment at
  `page/contexts/OnboardingContext.tsx:268` says that the check prevents it.
  It does not stop a save that was sent before, a timer of the mount that
  fires before the status is read, or a second click on the finish button.
  `CompletionLasts` holds but for these (`overlapped`, `outdone`).
- *A retranscription can undo a language.* "preserves existing fields"
  (`retranscription.rs:1404`) is not so for a field written between its read
  and its rename, as it does not take the lock of `metadata.rs`; the same holds
  of the names it adds at its start (`retranscription.rs:491-522`), of a
  Session with a microphone's audio whose file has none yet; and a language
  detected in the old text can be saved over the new one. `WritesAreKept` and
  `DetectionIsOfItsText` hold but for these (`clash`, `late`).
- `docs/adr/0010` has the user test a credential before enabling it; the code
  does not ask for one. A `set_record_type` accepted between the snapshot and
  `begin` is overwritten by `begin`. Recovery cleans up its checkpoints even
  when it has failed (`page/hooks/useTranscriptRecovery.ts:203`). The stop of a
  recording unloads the model without the lifecycle lock
  (`recording_commands.rs:584`).

## 6 What is abstracted, and what is not modelled

*Jobs.* A file's content never returns to an earlier one. Origins are processed
in any order. Discovering and hashing is one read. An import's job has one
origin. Decoding, speech and diarization are their success or failure.

*Generation, transfers, credentials.* One Session, one provider, one page.
The helper answers with a valid, an invalid or no record. A refused connection
and a 4xx answer mean that the provider has not processed the request; every
other error leaves that open. The Keychain stores, finds, erases or refuses;
that `keychain.rs:91` ignores the result of a deletion is not a behaviour of
the model, for after it no property about erasing could hold.

*Recording and capture.* What the devices, the detector, the encoder and the
engine answer is any answer. Gains, filters, loudness and the values of
samples are left out. The device events are polled by no page;
`handle_device_disconnect` and `handle_device_reconnect` are not called.

*Import, export, installs.* A crash leaves a staging folder, a temporary file
or an install directory behind that nothing removes; the properties allow it.
Two exports to one file may rename the older snapshot last. `cancel_import`
also cancels whatever holds the processing gate (`import.rs:151`): the model
has the step, and no document says whom a cancelled import may take along.

*Origins.* The resampler of `audio_processing.rs` and the crossfade of
`decoder.rs:140-242` are left out: `decode_audio_file_for_transcription` lets
FFmpeg convert the audio, so that nothing is left to resample. Levels are not
modelled: any window may be the quietest, and silent or not.

*Pages and editor.* A page of an earlier fetch that arrives after a reset is
applied (`usePaginatedTranscripts.ts:117`), so `PagesAreWhole` speaks of
undisturbed pages. The participant that `principal_record.rs` makes up for a
passage without one, and splitting and merging of participants, are left out.

*Summaries.* A provider is the outcome of its call. Prompts, templates, the
title taken from the heading and the built-in model's process are left out.
`token_threshold - 300` (`processor.rs:391`) underflows for a local model of
less than 600 tokens of context; sizes of chunks in the model are larger.

*No module.* The Apple helper is its outcome in `RecordGeneration`.
`whisper_engine/parallel_processor.rs` and its commands are registered but no
page calls them, and `lib.rs` does not declare `audio_v2`. Notifications, tray, analytics
and logging have no state that another component reads. The settings commands
are single statements. Rendering and navigation of the page, the Python
backend, the build and qualification scripts and the documents carry no
protocol.

## 7 Plan

1. Composition of a job's commit with a generation's acceptance, with a
   transfer's reservation and with an editor's save, over one transcript and
   its two counters.
2. An abstract specification of a recording (a track that only grows until it
   is closed) and its refinement by `CheckpointedTrack`.
3. Recording and import against the same `metadata.json` as
   `SummaryLanguages`.

## 8 Running it

    tlc -workers 2 -config ProcessingJobs_race.cfg MCProcessingJobs
    tlapm ProcessingJobsProofs.tla

The longest runs (`audio`, `library`, 1.5 and 2.7 million states) take two to
four minutes on two cores; the proofs take about an hour in
all, most of it `LibraryProofs`, `AudioProofs` and `SpeechProofs`.
