--------------------------- MODULE ProcessingJobs ---------------------------
(***************************************************************************)
(* Durable processing jobs: the re-transcription of a Session's audio.     *)
(*                                                                         *)
(* A start command reserves a row in processing_jobs, spawns a worker, and *)
(* the worker enters a process-wide gate, transcribes the audio origins    *)
(* one after the other, verifies that the audio is still the audio it      *)
(* hashed, claims the save and replaces the principal transcript in one    *)
(* transaction.  Cancellation, deletion of the Session, changes of the     *)
(* audio files, storage failures and a crash may happen between any two    *)
(* of these steps.                                                         *)
(*                                                                         *)
(* Sources: audio/retranscription.rs,                                      *)
(* database/repositories/processing_job.rs and the migration that creates  *)
(* processing_jobs.                                                        *)
(***************************************************************************)
EXTENDS Naturals, FiniteSets

CONSTANTS
  Jobs,         \* identities of start commands and of the rows they insert
  Meetings,     \* Sessions
  Origins,      \* kinds of audio origin: microphone, system-audio
  Declared,     \* the Sessions whose metadata.json lists every origin
  Original,     \* author of a transcript that no job wrote
  None,         \* author of an empty transcript
  MaxTake,      \* bound: contents an audio file can have over time
  MaxRevision,  \* bound: user corrections stop at this revision
  MaxStranded   \* bound: rows whose closing update storage refuses

ASSUME ConstantsAssumption ==
  /\ Declared \subseteq Meetings
  /\ Original \notin Jobs
  /\ None \notin Jobs \cup Meetings \cup {Original}
  /\ MaxTake \in Nat \ {0}
  /\ MaxRevision \in Nat
  /\ MaxStranded \in Nat

VARIABLES
  up,         \* the application is running
  gate,       \* RETRANSCRIPTION_STATE
  pc,         \* where each start command or worker stands
  session,    \* the Session it is for
  hash,       \* the manifest it hashed; the row stores both
  status,     \* status of its row
  code,       \* error_code of its row
  warning,    \* warning_code of its row
  todo,       \* origins the worker has still to finish
  heard,      \* content of the file each origin was heard in, 0 if it was not
  failed,     \* origins that are missing or failed
  labelled,   \* every origin so far got its speaker labels
  problem,    \* the error that is on its way to the row
  exists,     \* Sessions that have a row in meetings
  author,     \* who wrote the transcript rows of each Session
  content,    \* what they were heard in, per origin
  revision,   \* meetings.principal_transcript_revision
  present,    \* audio files that are in the recording folder
  take,       \* content of each audio file
  cancelled,  \* history: workers whose cancellation was accepted
  stranded    \* history: rows left running because storage refused an update

verdict == <<status, code, warning>>
row == <<session, hash, verdict>>
memory == <<todo, heard, failed, labelled, problem>>
record == <<exists, author, content, revision>>
audio == <<present, take>>
ghosts == <<cancelled, stranded>>

vars == <<up, gate, pc, row, memory, record, audio, ghosts>>

-----------------------------------------------------------------------------
(* Types *)

Gates == {"idle", "processing", "cancel_requested", "saving"}

Statuses == {"absent", "running", "completed", "failed", "interrupted"}

Errors == {"none", "duplicate", "not_found", "source_changed",
           "processing_failed", "cancelled", "storage", "interrupted"}

Warnings == {"none", "partial_origin_unavailable", "speaker_labels_unavailable"}

\* The manifest hash identifies the content of every origin; 0 is a file that
\* is not there.
Manifests == [Origins -> 0..MaxTake]

\* Between acquiring the gate and claiming the save.
Cancellable == {"entered", "processing", "listening", "combined", "verified"}
\* From the claim to the return of run_retranscription.
Saving == {"claimed", "warned", "committed"}
\* Unwinding with an error, the gate still held.
Unwinding == {"failing", "releasing"}
\* The steps that hold RetranscriptionGuard.
Inside == Cancellable \cup Saving \cup Unwinding
\* The steps of a command whose row exists and that has still to close it.
Responsible == (Inside \ {"committed", "releasing"}) \cup {"reserved", "refusing"}

PCs == Inside \cup {"new", "checked", "discovered", "reserved", "refusing", "ended"}

TypeOK ==
  /\ up \in BOOLEAN
  /\ gate \in Gates
  /\ pc \in [Jobs -> PCs]
  /\ session \in [Jobs -> Meetings \cup {None}]
  /\ \A j \in Jobs : pc[j] # "new" => session[j] \in Meetings
  /\ hash \in [Jobs -> Manifests]
  /\ status \in [Jobs -> Statuses]
  /\ code \in [Jobs -> Errors]
  /\ warning \in [Jobs -> Warnings]
  /\ todo \in [Jobs -> SUBSET Origins]
  /\ heard \in [Jobs -> Manifests]
  /\ failed \in [Jobs -> SUBSET Origins]
  /\ labelled \in [Jobs -> BOOLEAN]
  /\ problem \in [Jobs -> Errors]
  /\ exists \subseteq Meetings
  /\ author \in [Meetings -> Jobs \cup {Original, None}]
  /\ content \in [Meetings -> Manifests]
  /\ revision \in [Meetings -> Nat]
  /\ present \in [Meetings -> SUBSET Origins]
  /\ take \in [Meetings -> [Origins -> 1..MaxTake]]
  /\ cancelled \subseteq Jobs
  /\ stranded \subseteq Jobs

-----------------------------------------------------------------------------
(* Helpers *)

Silence == [o \in Origins |-> 0]

\* Mutation of Manifest: only the presence of a file enters the hash.
ManifestOfNames(m) == [o \in Origins |-> IF o \in present[m] THEN 1 ELSE 0]

\* audio_origin_manifest_hash: what the hash of the folder tells apart.
Manifest(m) == [o \in Origins |-> IF o \in present[m] THEN take[m][o] ELSE 0]

\* discover_audio_origins: origins the metadata declares and the folder lacks.
Missing(m) == IF m \in Declared THEN Origins \ present[m] ELSE {}

Running(j) == status[j] = "running"

Goto(j, label) == pc' = [pc EXCEPT ![j] = label]

\* The locals of run_retranscription go; an error may be on its way to the row.
Forget(j, error) ==
  /\ todo' = [todo EXCEPT ![j] = {}]
  /\ heard' = [heard EXCEPT ![j] = Silence]
  /\ failed' = [failed EXCEPT ![j] = {}]
  /\ labelled' = [labelled EXCEPT ![j] = TRUE]
  /\ problem' = [problem EXCEPT ![j] = error]

\* run_retranscription returns an error to the holder of the guard.
Fail(j, error) == Goto(j, "failing") /\ Forget(j, error)

\* The command or worker returns.
End(j) == Goto(j, "ended") /\ Forget(j, "none")

\* Mutation of CloseRow: the update does not ask that the row is running.
CloseRowBlind(j, error) ==
  /\ status' = [status EXCEPT ![j] = "failed"]
  /\ code' = [code EXCEPT ![j] = error]

\* ProcessingJobsRepository::fail: closes the row only while it is running.
CloseRow(j, error) ==
  /\ status' = [status EXCEPT ![j] = IF Running(j) THEN "failed" ELSE @]
  /\ code' = [code EXCEPT ![j] = IF Running(j) THEN error ELSE @]

\* Mutation of MustPreserve: the stored transcript is kept only when nothing
\* was heard.
MustPreserveSilence(j) == heard[j] = Silence /\ author[session[j]] # None

\* must_preserve_existing_transcript
MustPreserve(j) == failed[j] # {} /\ author[session[j]] # None

\* Mutation of ReplaceTranscript: the revision is not incremented.
ReplaceTranscriptQuietly(m, j) ==
  /\ author' = [author EXCEPT ![m] = j]
  /\ content' = [content EXCEPT ![m] = heard[j]]
  /\ UNCHANGED revision

\* The delete, the inserts and the revision of complete_with_transcript.
ReplaceTranscript(m, j) ==
  /\ author' = [author EXCEPT ![m] = j]
  /\ content' = [content EXCEPT ![m] = heard[j]]
  /\ revision' = [revision EXCEPT ![m] = @ + 1]

\* The rows recover_interrupted updates.
Interruptible(j) == Running(j)

Init ==
  /\ up = TRUE
  /\ gate = "idle"
  /\ pc = [j \in Jobs |-> "new"]
  /\ session = [j \in Jobs |-> None]
  /\ hash = [j \in Jobs |-> Silence]
  /\ status = [j \in Jobs |-> "absent"]
  /\ code = [j \in Jobs |-> "none"]
  /\ warning = [j \in Jobs |-> "none"]
  /\ todo = [j \in Jobs |-> {}]
  /\ heard = [j \in Jobs |-> Silence]
  /\ failed = [j \in Jobs |-> {}]
  /\ labelled = [j \in Jobs |-> TRUE]
  /\ problem = [j \in Jobs |-> "none"]
  /\ exists = Meetings
  /\ author \in [Meetings -> {Original, None}]
  /\ content = [m \in Meetings |-> Silence]
  /\ revision = [m \in Meetings |-> 0]
  /\ present \in [Meetings -> SUBSET Origins]
  /\ take = [m \in Meetings |-> [o \in Origins |-> 1]]
  /\ cancelled = {}
  /\ stranded = {}

-----------------------------------------------------------------------------
(* The start command: check, discover, reserve *)

\* start_retranscription_command refuses while a worker holds the gate.
StartCommand(j, m) ==
  /\ up /\ pc[j] = "new"
  /\ gate = "idle"
  /\ session' = [session EXCEPT ![j] = m]
  /\ Goto(j, "checked")
  /\ UNCHANGED <<up, gate, hash, verdict, memory, record, audio, ghosts>>

\* The import calls start_retranscription, which has no such check.
StartFromImport(j, m) ==
  /\ up /\ pc[j] = "new"
  /\ session' = [session EXCEPT ![j] = m]
  /\ Goto(j, "checked")
  /\ UNCHANGED <<up, gate, hash, verdict, memory, record, audio, ghosts>>

\* The folder is resolved and hashed, and its origins listed.
DiscoverOrigins(j) ==
  LET m == session[j] IN
  /\ up /\ pc[j] = "checked"
  /\ m \in exists
  /\ present[m] # {}
  /\ hash' = [hash EXCEPT ![j] = Manifest(m)]
  /\ todo' = [todo EXCEPT ![j] = present[m]]
  /\ failed' = [failed EXCEPT ![j] = Missing(m)]
  /\ Goto(j, "discovered")
  /\ UNCHANGED <<up, gate, session, verdict, heard, labelled, problem, record,
                 audio, ghosts>>

\* No folder, no origin, a duplicate row or a storage error: the command
\* returns and leaves nothing behind.
RefuseStart(j) ==
  /\ up /\ pc[j] \in {"checked", "discovered"}
  /\ End(j)
  /\ UNCHANGED <<up, gate, row, record, audio, ghosts>>

\* The insert the unique index and the foreign key accept.
Insert(j) ==
  /\ up /\ pc[j] = "discovered"
  /\ session[j] \in exists
  /\ \A k \in Jobs : ~(Running(k) /\ session[k] = session[j])
  /\ status' = [status EXCEPT ![j] = "running"]
  /\ UNCHANGED <<code, warning>>

InsertRow(j) ==
  /\ Insert(j)
  /\ Goto(j, "reserved")
  /\ UNCHANGED <<up, gate, session, hash, memory, record, audio, ghosts>>

\* The row is inserted but reading it back fails: nobody will close it.
InsertRowUnread(j) ==
  /\ Insert(j)
  /\ Cardinality(stranded) < MaxStranded
  /\ stranded' = stranded \cup {j}
  /\ End(j)
  /\ UNCHANGED <<up, gate, session, hash, record, audio, cancelled>>

-----------------------------------------------------------------------------
(* The worker: the gate and the origins *)

\* RetranscriptionGuard::acquire.
AcquireGate(j) ==
  /\ up /\ pc[j] = "reserved"
  /\ gate = "idle"
  /\ gate' = "processing"
  /\ Goto(j, "entered")
  /\ UNCHANGED <<up, row, memory, record, audio, ghosts>>

GateRefused(j) ==
  /\ up /\ pc[j] = "reserved"
  /\ gate # "idle"
  /\ Goto(j, "refusing")
  /\ UNCHANGED <<up, gate, row, memory, record, audio, ghosts>>

\* Mutation of RecordRefusal: the loser returns and leaves its row running.
RecordNoRefusal(j) ==
  /\ up /\ pc[j] = "refusing"
  /\ End(j)
  /\ UNCHANGED <<up, gate, row, record, audio, ghosts>>

\* The loser closes its own row; it never owned the gate.
RecordRefusal(j) ==
  /\ up /\ pc[j] = "refusing"
  /\ CloseRow(j, "duplicate")
  /\ End(j)
  /\ UNCHANGED <<up, gate, session, hash, warning, record, audio, ghosts>>

\* The microphone participants are read, or their snapshot cannot be.
SnapshotParticipants(j) ==
  /\ up /\ pc[j] = "entered"
  /\ \/ Goto(j, "processing") /\ UNCHANGED memory
     \/ Fail(j, "processing_failed")
  /\ UNCHANGED <<up, gate, row, record, audio, ghosts>>

\* process_audio_origin decodes a file it can read.
OpenOrigin(j, o) ==
  LET m == session[j] IN
  /\ up /\ pc[j] = "processing"
  /\ o \in todo[j]
  /\ gate # "cancel_requested"
  /\ o \in present[m]
  /\ heard' = [heard EXCEPT ![j][o] = take[m][o]]
  /\ Goto(j, "listening")
  /\ UNCHANGED <<up, gate, row, todo, failed, labelled, problem, record, audio,
                 ghosts>>

\* The origin that was opened and is not finished.
Open(j) == {o \in todo[j] : heard[j][o] # 0}

\* The origin gave segments, and the last cancellation check passed.
FinishOrigin(j) ==
  /\ up /\ pc[j] = "listening"
  /\ gate # "cancel_requested"
  /\ todo' = [todo EXCEPT ![j] = @ \ Open(j)]
  /\ \E labels \in BOOLEAN :
       labelled' = [labelled EXCEPT ![j] = labelled[j] /\ labels]
  /\ Goto(j, "processing")
  /\ UNCHANGED <<up, gate, row, heard, failed, problem, record, audio, ghosts>>

\* ensure_not_cancelled ends the run with the typed error.
OriginCancelled(j) ==
  /\ up
  /\ \/ pc[j] = "processing" /\ todo[j] # {}
     \/ pc[j] = "listening"
  /\ gate = "cancel_requested"
  /\ Fail(j, "cancelled")
  /\ UNCHANGED <<up, gate, row, record, audio, ghosts>>

\* Any other error of the origin, the refusal of the VAD callback included.
\* If a cancellation is pending it ends the run with an untyped error;
\* otherwise the origin is skipped and the others go on.
OriginFails(j, o) ==
  /\ up
  /\ \/ pc[j] = "processing" /\ o \in todo[j]
     \/ pc[j] = "listening" /\ o \in Open(j)
  /\ \/ gate = "cancel_requested" /\ Fail(j, "processing_failed")
     \/ /\ gate # "cancel_requested"
        /\ todo' = [todo EXCEPT ![j] = @ \ {o}]
        /\ failed' = [failed EXCEPT ![j] = @ \cup {o}]
        /\ heard' = [heard EXCEPT ![j][o] = 0]
        /\ Goto(j, "processing")
        /\ UNCHANGED <<labelled, problem>>
  /\ UNCHANGED <<up, gate, row, record, audio, ghosts>>

-----------------------------------------------------------------------------
(* The worker: verify, claim, save *)

\* No origin gave segments, or some failed and a transcript already exists:
\* the run ends and the stored transcript stays.
CombineOrigins(j) ==
  /\ up /\ pc[j] = "processing"
  /\ todo[j] = {}
  /\ \/ /\ heard[j] # Silence
        /\ ~MustPreserve(j)
        /\ Goto(j, "combined")
        /\ UNCHANGED memory
     \/ /\ heard[j] = Silence \/ MustPreserve(j)
        /\ Fail(j, "processing_failed")
  /\ UNCHANGED <<up, gate, row, record, audio, ghosts>>

\* The folder is hashed again and compared with the hash in the row.
VerifySource(j) ==
  /\ up /\ pc[j] = "combined"
  /\ \/ /\ Manifest(session[j]) = hash[j]
        /\ Goto(j, "verified")
        /\ UNCHANGED memory
     \/ /\ Manifest(session[j]) # hash[j]
        /\ Fail(j, "source_changed")
     \/ Fail(j, "processing_failed")
  /\ UNCHANGED <<up, gate, row, record, audio, ghosts>>

\* Mutation of ClaimSave: the state is stored, not compared and swapped.
ClaimSaveBlind(j) ==
  /\ up /\ pc[j] = "verified"
  /\ gate' = "saving"
  /\ Goto(j, "claimed")
  /\ UNCHANGED <<up, row, memory, record, audio, ghosts>>

\* begin_non_cancellable_save: the last moment a cancellation can win.
ClaimSave(j) ==
  /\ up /\ pc[j] = "verified"
  /\ \/ /\ gate = "processing"
        /\ gate' = "saving"
        /\ Goto(j, "claimed")
        /\ UNCHANGED memory
     \/ /\ gate # "processing"
        /\ Fail(j, "cancelled")
        /\ UNCHANGED gate
  /\ UNCHANGED <<up, row, record, audio, ghosts>>

WarningOf(j) ==
  IF failed[j] # {} THEN "partial_origin_unavailable"
  ELSE IF ~labelled[j] THEN "speaker_labels_unavailable" ELSE "none"

\* The warning is stored before the transcript, in an update of its own.
RecordWarning(j) ==
  /\ up /\ pc[j] = "claimed"
  /\ \/ /\ Running(j) \/ WarningOf(j) = "none"
        /\ warning' = [warning EXCEPT ![j] = WarningOf(j)]
        /\ Goto(j, "warned")
        /\ UNCHANGED memory
     \/ /\ WarningOf(j) # "none"
        /\ \/ ~Running(j) /\ Fail(j, "not_found")
           \/ Fail(j, "storage")
        /\ UNCHANGED warning
  /\ UNCHANGED <<up, gate, session, hash, status, code, record, audio, ghosts>>

\* complete_with_transcript: one transaction replaces the transcript, bumps
\* the revision and closes the row.
CommitTranscript(j) ==
  /\ up /\ pc[j] = "warned"
  /\ Running(j)
  /\ ReplaceTranscript(session[j], j)
  /\ status' = [status EXCEPT ![j] = "completed"]
  /\ Goto(j, "committed")
  /\ UNCHANGED <<up, gate, session, hash, code, warning, memory, exists, audio,
                 ghosts>>

\* The row is gone with its Session, or storage rolls the transaction back.
CommitFails(j) ==
  /\ up /\ pc[j] = "warned"
  /\ \/ ~Running(j) /\ Fail(j, "not_found")
     \/ Fail(j, "storage")
  /\ UNCHANGED <<up, gate, row, record, audio, ghosts>>

-----------------------------------------------------------------------------
(* The worker: close the row, release the gate *)

RecordFailure(j) ==
  /\ up /\ pc[j] = "failing"
  /\ CloseRow(j, problem[j])
  /\ Goto(j, "releasing")
  /\ Forget(j, "none")
  /\ UNCHANGED <<up, gate, session, hash, warning, record, audio, ghosts>>

\* The result of the closing update is discarded, so its failure strands the
\* row: it stays running with nobody to close it.
CloseRowRefused(j) ==
  /\ up
  /\ \/ pc[j] = "failing" /\ Goto(j, "releasing")
     \/ pc[j] = "refusing" /\ Goto(j, "ended")
  /\ Running(j)
  /\ Cardinality(stranded) < MaxStranded
  /\ stranded' = stranded \cup {j}
  /\ Forget(j, "none")
  /\ UNCHANGED <<up, gate, row, record, audio, cancelled>>

\* Drop of the guard.
ReleaseGate(j) ==
  /\ up /\ pc[j] \in {"committed", "releasing"}
  /\ gate' = "idle"
  /\ End(j)
  /\ UNCHANGED <<up, row, record, audio, ghosts>>

-----------------------------------------------------------------------------
(* The user, the file system and the process *)

\* cancel_retranscription, from its own command or from cancel_import: it
\* names no job and reaches the worker that holds the gate.
CancelRetranscription ==
  /\ up
  /\ gate = "processing"
  /\ gate' = "cancel_requested"
  /\ cancelled' = cancelled \cup {j \in Jobs : pc[j] \in Inside}
  /\ UNCHANGED <<up, pc, row, memory, record, audio, stranded>>

\* An accepted save of PrincipalRecordRepository.
SaveCorrection(m) ==
  /\ up
  /\ m \in exists
  /\ author[m] # None
  /\ revision[m] < MaxRevision
  /\ revision' = [revision EXCEPT ![m] = @ + 1]
  /\ UNCHANGED <<up, gate, pc, row, memory, exists, author, content, audio,
                 ghosts>>

\* The Session's rows go, its job rows with them; a worker on it lives on.
DeleteMeeting(m) ==
  /\ up
  /\ m \in exists
  /\ exists' = exists \ {m}
  /\ author' = [author EXCEPT ![m] = None]
  /\ content' = [content EXCEPT ![m] = Silence]
  /\ status' = [j \in Jobs |-> IF session[j] = m THEN "absent" ELSE status[j]]
  /\ UNCHANGED <<up, gate, pc, session, hash, code, warning, memory, revision,
                 audio, ghosts>>

\* A file leaves the folder, comes back as it was, or gets a new content.
ChangeAudio(m, o) ==
  /\ \/ /\ o \in present[m]
        /\ present' = [present EXCEPT ![m] = @ \ {o}]
        /\ UNCHANGED take
     \/ /\ o \notin present[m]
        /\ present' = [present EXCEPT ![m] = @ \cup {o}]
        /\ UNCHANGED take
     \/ /\ take[m][o] < MaxTake
        /\ take' = [take EXCEPT ![m][o] = @ + 1]
        /\ UNCHANGED present
  /\ UNCHANGED <<up, gate, pc, row, memory, record, ghosts>>

\* The process ends: memory is lost, the database and the files stay.
Crash ==
  /\ up
  /\ up' = FALSE
  /\ gate' = "idle"
  /\ pc' = [j \in Jobs |-> IF pc[j] = "new" THEN "new" ELSE "ended"]
  /\ todo' = [j \in Jobs |-> {}]
  /\ heard' = [j \in Jobs |-> Silence]
  /\ failed' = [j \in Jobs |-> {}]
  /\ labelled' = [j \in Jobs |-> TRUE]
  /\ problem' = [j \in Jobs |-> "none"]
  /\ UNCHANGED <<row, record, audio, ghosts>>

\* recover_interrupted runs before any command is served.
Restart ==
  /\ ~up
  /\ up' = TRUE
  /\ status' = [j \in Jobs |-> IF Interruptible(j) THEN "interrupted"
                                                    ELSE status[j]]
  /\ code' = [j \in Jobs |-> IF Interruptible(j) THEN "interrupted" ELSE code[j]]
  /\ UNCHANGED <<gate, pc, session, hash, warning, memory, record, audio, ghosts>>

-----------------------------------------------------------------------------
(* The specification *)

\* What the async runtime schedules for one command once it was issued.
Step(j) ==
  \/ DiscoverOrigins(j) \/ RefuseStart(j) \/ InsertRow(j) \/ InsertRowUnread(j)
  \/ AcquireGate(j) \/ GateRefused(j) \/ RecordRefusal(j)
  \/ SnapshotParticipants(j)
  \/ \E o \in Origins : OpenOrigin(j, o) \/ OriginFails(j, o)
  \/ FinishOrigin(j) \/ OriginCancelled(j)
  \/ CombineOrigins(j) \/ VerifySource(j) \/ ClaimSave(j)
  \/ RecordWarning(j) \/ CommitTranscript(j) \/ CommitFails(j)
  \/ RecordFailure(j) \/ CloseRowRefused(j) \/ ReleaseGate(j)

Next ==
  \/ \E j \in Jobs, m \in Meetings : StartCommand(j, m) \/ StartFromImport(j, m)
  \/ \E j \in Jobs : Step(j)
  \/ CancelRetranscription
  \/ \E m \in Meetings : SaveCorrection(m) \/ DeleteMeeting(m)
  \/ \E m \in Meetings, o \in Origins : ChangeAudio(m, o)
  \/ Crash
  \/ Restart

Spec == Init /\ [][Next]_vars

\* Decoding, transcription and storage calls return; users, files and crashes
\* owe nothing.
FairSpec == Spec /\ \A j \in Jobs : WF_vars(Step(j))

-----------------------------------------------------------------------------
(* Properties *)

\* The gate is held by exactly one worker, and only while it is inside; the
\* saving state belongs to the worker that claimed it.  Violated, a second
\* worker could run, or the gate could stay shut with nobody to open it.
GateHeldByOneWorker ==
  /\ \A j, k \in Jobs : pc[j] \in Inside /\ pc[k] \in Inside => j = k
  /\ (gate = "idle") <=> (\A j \in Jobs : pc[j] \notin Inside)
  /\ \A j \in Jobs : pc[j] \in Saving => gate = "saving"

\* Every running row has a live command that will close it, unless the process
\* is down or storage refused the update that would have closed it.  Violated,
\* a Session would refuse every retry with "already active".
RunningRowHasItsWorker ==
  \A j \in Jobs : Running(j) => \/ pc[j] \in Responsible
                                \/ j \in stranded
                                \/ ~up

\* Once a cancellation was accepted, the worker it hit never completes and
\* never owns the principal transcript: the save is claimed by the same
\* compare-and-swap that a cancellation races for.
CancelledJobWritesNothing ==
  \A j \in cancelled : /\ status[j] # "completed"
                       /\ \A m \in Meetings : author[m] # j

\* A row says "cancelled" only if a cancellation was accepted while its own
\* worker held the gate: a request never leaks into the next job.
CancellationHitsItsTarget ==
  \A j \in Jobs : code[j] = "cancelled" => j \in cancelled

\* A cancellation is exact: it ends the worker it hit, and no other.
CancellationIsExact == CancelledJobWritesNothing /\ CancellationHitsItsTarget

\* The transcript of a Session was written by a job whose row is completed and
\* names that Session; every block was heard in a file with the content the
\* row's hash stands for, and every origin that was there or that the metadata
\* declares was heard unless the row warns of a partial result.
TranscriptMatchesItsRow ==
  \A m \in Meetings, j \in Jobs :
    author[m] = j =>
      /\ status[j] = "completed"
      /\ session[j] = m
      /\ content[m] # Silence
      /\ \A o \in Origins : content[m][o] \in {0, hash[j][o]}
      /\ warning[j] # "partial_origin_unavailable" =>
           /\ content[m] = hash[j]
           /\ m \in Declared => \A o \in Origins : content[m][o] # 0

\* What readers cached for a revision stays true of it: the transcript of a
\* Session that still exists is replaced only together with its revision, and
\* the revision never goes back.
RevisionMoves ==
  \A m \in Meetings :
    /\ revision'[m] >= revision[m]
    /\ m \in exists' /\ author'[m] # author[m] => revision'[m] > revision[m]

RevisionFollowsTranscript == [][RevisionMoves]_vars

\* A closed row keeps its verdict: completed, failed and interrupted rows are
\* never rewritten, by a late worker or by a recovery; they only go with their
\* Session.
VerdictsStay ==
  \A j \in Jobs :
    status[j] \in {"completed", "failed", "interrupted"} =>
      UNCHANGED <<status[j], code[j], warning[j]>> \/ session[j] \notin exists'

ClosedRowsKeepTheirVerdict == [][VerdictsStay]_vars

\* data-model.md: "failed|interrupted -> running with incremented attempt".  A
\* Session whose job ended badly runs again in the same row.
RetryReusesItsRow ==
  [][\A j, k \in Jobs :
       /\ status[j] \in {"failed", "interrupted"}
       /\ status[k] # "running" /\ status'[k] = "running"
       /\ session[k] = session[j]
         => k = j]_vars

\* The promise the rest of the application relies on.
Promise == INSTANCE DurableJobs
             WITH session <- [j \in Jobs |-> IF status[j] = "absent"
                                             THEN None ELSE session[j]]

\* The steps of the workers, their races, cancellations and crashes implement
\* the table's promise: one verdict for each job, and a principal transcript
\* that a job replaces in one step, the step that completes it.
KeepsItsPromise == Promise!Spec

\* Every row that is running gets a verdict, unless it is stranded or the
\* process ends.
RunningRowIsClosed ==
  \A j \in Jobs : Running(j) ~> (~Running(j) \/ j \in stranded \/ ~up)

\* An accepted cancellation ends the run and gives the gate back.
CancellationEnds == gate = "cancel_requested" ~> gate = "idle"

-----------------------------------------------------------------------------
(* The inductive invariant behind the safety properties *)

\* What the gate says of the steps inside it.
GateInv ==
  /\ GateHeldByOneWorker
  /\ \A j \in Jobs : pc[j] \in Cancellable => gate \in {"processing", "cancel_requested"}
  /\ ~up => \A j \in Jobs : pc[j] \in {"new", "ended"}

\* What each step says of its row.
RowInv ==
  /\ RunningRowHasItsWorker
  /\ \A j \in Jobs :
       /\ pc[j] \in {"new", "checked", "discovered"} => status[j] = "absent"
       /\ pc[j] \in Responsible => status[j] \in {"running", "absent"}
       /\ pc[j] = "committed" => status[j] \in {"completed", "absent"}
       /\ pc[j] = "releasing" => status[j] # "completed"

\* Where a cancellation is remembered, and what it rules out.
CancelInv ==
  /\ CancelledJobWritesNothing
  /\ CancellationHitsItsTarget
  /\ \A j \in Jobs :
       /\ problem[j] = "cancelled" => j \in cancelled
       /\ pc[j] \in Inside => (gate = "cancel_requested" <=> j \in cancelled)
       /\ pc[j] \in {"new", "checked", "discovered", "reserved", "refusing"} =>
            j \notin cancelled
       /\ \A m \in Meetings : author[m] = j => /\ status[j] = "completed"
                                               /\ session[j] = m

\* The inductive invariant: gate, rows and cancellations agree at every step.
IInv == TypeOK /\ GateInv /\ RowInv /\ CancelInv

-----------------------------------------------------------------------------
(* What makes the transcript match its row *)

\* The steps of a command that remembers what it has found and heard.
Working == {"discovered", "reserved"} \cup Cancellable \cup {"claimed", "warned"}

\* The steps of a worker that has heard every origin it will hear.
Combined == {"combined", "verified", "claimed", "warned"}

\* An origin was there when it was listed and when it was heard, in a content
\* that is at least as new as the one that was hashed; an origin that is no
\* longer to do was heard or has failed; and one that the metadata declares
\* was there or has failed.
Heard(j) ==
  \A o \in Origins :
    /\ hash[j][o] <= take[session[j]][o]
    /\ o \in todo[j] => hash[j][o] # 0
    /\ heard[j][o] # 0 => /\ hash[j][o] # 0
                          /\ hash[j][o] <= heard[j][o]
                          /\ heard[j][o] <= take[session[j]][o]
    /\ o \notin todo[j] /\ o \notin failed[j] /\ hash[j][o] # 0
         => heard[j][o] # 0
    /\ session[j] \in Declared /\ o \notin failed[j] => hash[j][o] # 0

\* What a worker has found out when it comes to save: a result that lacks an
\* origin replaces nothing, what was heard is what was hashed, and the row
\* warns of a partial result before the transcript is there.
Saves(j) ==
  /\ pc[j] \in Combined => /\ todo[j] = {}
                           /\ heard[j] # Silence
                           /\ failed[j] # {} => author[session[j]] = None
  /\ pc[j] \in Combined \ {"combined"} =>
       \A o \in Origins : heard[j][o] \in {0, hash[j][o]}
  /\ pc[j] = "warned" /\ failed[j] # {} =>
       warning[j] = "partial_origin_unavailable"

HeardInv ==
  \A j \in Jobs : /\ pc[j] \in Working => Heard(j)
                  /\ pc[j] \in {"new", "checked"} => heard[j] = Silence

SaveInv == \A j \in Jobs : Saves(j)

\* The inductive invariant behind TranscriptMatchesItsRow.
TranscriptInv == IInv /\ HeardInv /\ SaveInv /\ TranscriptMatchesItsRow
=============================================================================
