---------------------------- MODULE MediaImport ----------------------------
(***************************************************************************)
(* The import of an audio or video file as a new Session: one task copies  *)
(* the file into a staging folder, extracts its audio, describes it,       *)
(* renames the folder into place and inserts the row of the meeting, then  *)
(* asks for a transcription.  The page that started it follows it by       *)
(* events that do not say which import they are about, and cancels through *)
(* one flag of the process and through the gate that all transcriptions    *)
(* share.                                                                  *)
(*                                                                         *)
(* Sources: src/frontend/src-tauri/src/audio/import.rs                     *)
(*          src/frontend/src-tauri/src/audio/retranscription.rs            *)
(*          src/frontend/src/hooks/useImportAudio.ts                       *)
(*          src/frontend/src/components/ImportAudio/ImportAudioDialog.tsx  *)
(***************************************************************************)
EXTENDS Naturals, Sequences, FiniteSets

CONSTANTS
    Imports,      \* the imports the user may ask for, one file each
    Nothing,      \* no import is being asked for
    MaxFaults,    \* failures of the disk, of ffmpeg and of the database
    MaxCrashes    \* ends of the process

VARIABLES
    inProgress,   \* IMPORT_IN_PROGRESS
    cancelled,    \* IMPORT_CANCELLED
    gate,         \* who holds the gate of the transcriptions
    gateCancel,   \* the holder of the gate was asked to stop
    pc,           \* where the task of an import stands
    folder,       \* the folder of an import
    holds,        \* the whole files the folder has
    row,          \* the meetings that have a row
    events,       \* the events the page has not seen yet, in order
    status,       \* what the page shows
    ignores,      \* isCancelledRef: the page drops the events
    open,         \* the dialog is open
    starting,     \* the import the page is about to ask for
    cancelling,   \* where the request to cancel stands
    faults,
    crashes

task == <<pc, folder, holds, row>>
flags == <<inProgress, cancelled, gate, gateCancel>>
page == <<status, ignores, open, starting, cancelling>>
bounds == <<faults, crashes>>
vars == <<task, flags, events, page, bounds>>

-----------------------------------------------------------------------------
(* Types *)

Stages == {"new", "acquired", "validating", "copying", "extracting",
           "describing", "committing", "inserting", "deciding", "asking",
           "transcribing", "ending", "ended", "failing", "failed",
           "leftover", "crashed"}
Files == {"original", "audio", "metadata"}
Event == [about : Imports, kind : {"progress", "complete", "error"}]

TypeOK ==
    /\ inProgress \in BOOLEAN
    /\ cancelled \in BOOLEAN
    /\ gate \in {"idle", "import", "other"}
    /\ gateCancel \in BOOLEAN
    /\ pc \in [Imports -> Stages]
    /\ folder \in [Imports -> {"none", "staging", "final"}]
    /\ holds \in [Imports -> SUBSET Files]
    /\ row \in SUBSET Imports
    /\ events \in Seq(Event)
    /\ status \in {"idle", "processing", "complete", "error"}
    /\ ignores \in BOOLEAN
    /\ open \in BOOLEAN
    /\ starting \in Imports \cup {Nothing}
    /\ cancelling \in {"no", "asked", "checked"}
    /\ faults \in 0..MaxFaults
    /\ crashes \in 0..MaxCrashes

Init ==
    /\ inProgress = FALSE
    /\ cancelled = FALSE
    /\ gate = "idle"
    /\ gateCancel = FALSE
    /\ pc = [i \in Imports |-> "new"]
    /\ folder = [i \in Imports |-> "none"]
    /\ holds = [i \in Imports |-> {}]
    /\ row = {}
    /\ events = <<>>
    /\ status = "idle"
    /\ ignores = FALSE
    /\ open = FALSE
    /\ starting = Nothing
    /\ cancelling = "no"
    /\ faults = 0
    /\ crashes = 0

-----------------------------------------------------------------------------
(* Helpers *)

Goes(i, from, to) == pc[i] = from /\ pc' = [pc EXCEPT ![i] = to]

Tell(i, kind) == Append(events, [about |-> i, kind |-> kind])

Trouble == /\ faults < MaxFaults
           /\ faults' = faults + 1
           /\ UNCHANGED crashes

\* Where a task may be when it stops with an error: the staging folder, or
\* the folder renamed into place, is still owned by a guard of the task.
Interruptible == {"validating", "copying", "extracting", "describing",
                  "committing", "inserting"}

\* The guard of the folder is dropped: the folder goes with what it has.
Drop(i) == /\ folder' = [folder EXCEPT ![i] = "none"]
           /\ holds' = [holds EXCEPT ![i] = {}]

-----------------------------------------------------------------------------
(* The dialog and its hook *)

\* Opening the dialog resets the hook, the flag that drops events included.
Open ==
    /\ ~open
    /\ open' = TRUE
    /\ ignores' = FALSE
    /\ status' = "idle"
    /\ UNCHANGED <<starting, cancelling, task, flags, events, bounds>>

Close ==
    /\ open
    /\ status /= "processing"
    /\ open' = FALSE
    /\ UNCHANGED <<status, ignores, starting, cancelling, task, flags,
                   events, bounds>>

\* The page shows the import before the command is sent: it first waits for
\* the settings of the transcription.
StartImport(i) ==
    /\ open
    /\ status \in {"idle", "complete"}
    /\ starting = Nothing
    /\ pc[i] = "new"
    /\ ignores' = FALSE
    /\ status' = "processing"
    /\ starting' = i
    /\ UNCHANGED <<open, cancelling, task, flags, events, bounds>>

\* handleCancel, up to its command.
AskCancel ==
    /\ open
    /\ status = "processing"
    /\ cancelling = "no"
    /\ ignores' = TRUE
    /\ cancelling' = "asked"
    /\ UNCHANGED <<status, open, starting, task, flags, events, bounds>>

\* cancel_import_command refuses when no import runs: the hook keeps what it
\* shows, and the dialog closes all the same.
CancelRefused ==
    /\ cancelling = "asked"
    /\ ~inProgress
    /\ cancelling' = "no"
    /\ open' = FALSE
    /\ UNCHANGED <<status, ignores, starting, task, flags, events, bounds>>

CancelAllowed ==
    /\ cancelling = "asked"
    /\ inProgress
    /\ cancelling' = "checked"
    /\ UNCHANGED <<status, ignores, open, starting, task, flags, events,
                   bounds>>

\* cancel_import: the flag, and whatever holds the gate of transcriptions.
Cancel ==
    /\ cancelling = "checked"
    /\ cancelled' = TRUE
    /\ gateCancel' = (gateCancel \/ gate /= "idle")
    /\ cancelling' = "no"
    /\ status' = "idle"
    /\ open' = FALSE
    /\ UNCHANGED <<inProgress, gate, ignores, starting, task, events, bounds>>

\* The listeners.  An event says nothing of the import it comes from.
Shown(kind) == IF kind = "progress" THEN "processing" ELSE kind

Hear ==
    /\ events /= <<>>
    /\ events' = Tail(events)
    /\ \/ /\ ignores
          /\ UNCHANGED <<status, open>>
       \/ /\ ~ignores
          /\ status' = Shown(Head(events).kind)
          /\ open' = (open /\ Head(events).kind /= "complete")
    /\ UNCHANGED <<ignores, starting, cancelling, task, flags, bounds>>

-----------------------------------------------------------------------------
(* The task of an import *)

\* start_import_audio_command takes the flag of the imports, or refuses.
Acquire(i) ==
    /\ starting = i
    /\ ~inProgress
    /\ inProgress' = TRUE
    /\ starting' = Nothing
    /\ Goes(i, "new", "acquired")
    /\ UNCHANGED <<cancelled, gate, gateCancel, folder, holds, row, events,
                   status, ignores, open, cancelling, bounds>>

Refuse(i) ==
    /\ starting = i
    /\ inProgress
    /\ starting' = Nothing
    /\ status' = "error"
    /\ Goes(i, "new", "failed")
    /\ UNCHANGED <<flags, folder, holds, row, events, ignores, open,
                   cancelling, bounds>>

\* Only then it clears the request to cancel: one made since is lost.
ClearCancel(i) ==
    /\ Goes(i, "acquired", "validating")
    /\ cancelled' = FALSE
    /\ UNCHANGED <<inProgress, gate, gateCancel, folder, holds, row, events,
                   page, bounds>>

\* The file is valid: the staging folder is made.
CreateStaging(i) ==
    /\ Goes(i, "validating", "copying")
    /\ folder' = [folder EXCEPT ![i] = "staging"]
    /\ events' = Tell(i, "progress")
    /\ UNCHANGED <<holds, row, flags, page, bounds>>

\* copy_original looks at the flag between two blocks, once more at the end.
CopyOriginal(i) ==
    /\ Goes(i, "copying", "extracting")
    /\ ~cancelled
    /\ holds' = [holds EXCEPT ![i] = @ \cup {"original"}]
    /\ events' = Tell(i, "progress")
    /\ UNCHANGED <<folder, row, flags, page, bounds>>

\* extract_playable_audio: ffmpeg ended well, whatever the flag says by now.
ExtractAudio(i) ==
    /\ Goes(i, "extracting", "describing")
    /\ holds' = [holds EXCEPT ![i] = @ \cup {"audio"}]
    /\ UNCHANGED <<folder, row, events, flags, page, bounds>>

\* The last look at the flag before the Session exists.
WriteMetadata(i) ==
    /\ Goes(i, "describing", "committing")
    /\ ~cancelled
    /\ holds' = [holds EXCEPT ![i] = @ \cup {"metadata"}]
    /\ events' = Tell(i, "progress")
    /\ UNCHANGED <<folder, row, flags, page, bounds>>

\* StagingImport::commit
Commit(i) ==
    /\ Goes(i, "committing", "inserting")
    /\ folder' = [folder EXCEPT ![i] = "final"]
    /\ UNCHANGED <<holds, row, events, flags, page, bounds>>

\* create_imported_meeting, then FinalizedImport::keep
CreateMeeting(i) ==
    /\ Goes(i, "inserting", "deciding")
    /\ row' = row \cup {i}
    /\ UNCHANGED <<folder, holds, events, flags, page, bounds>>

\* A cancel seen after the row: the import is complete, without a transcript.
SkipTranscription(i) ==
    /\ Goes(i, "deciding", "ending")
    /\ cancelled
    /\ events' = Tell(i, "complete")
    /\ UNCHANGED <<folder, holds, row, flags, page, bounds>>

AskTranscription(i) ==
    /\ Goes(i, "deciding", "asking")
    /\ ~cancelled
    /\ events' = Tell(i, "progress")
    /\ UNCHANGED <<folder, holds, row, flags, page, bounds>>

\* The gate is free, and the transcription of the new Session holds it.
Transcribe(i) ==
    /\ Goes(i, "asking", "transcribing")
    /\ gate = "idle"
    /\ gate' = "import"
    /\ gateCancel' = FALSE
    /\ UNCHANGED <<inProgress, cancelled, folder, holds, row, events, page,
                   bounds>>

\* The gate is taken or the job cannot be reserved: only a warning.
NotTranscribed(i) ==
    /\ Goes(i, "asking", "ending")
    /\ gate /= "idle" \/ faults < MaxFaults
    /\ faults' = IF gate = "idle" THEN faults + 1 ELSE faults
    /\ events' = Tell(i, "progress") \o <<[about |-> i, kind |-> "complete"]>>
    /\ UNCHANGED <<crashes, folder, holds, row, flags, page>>

\* The transcription ended, well or not: the import is complete.
EndTranscription(i) ==
    /\ Goes(i, "transcribing", "ending")
    /\ gate' = "idle"
    /\ gateCancel' = FALSE
    /\ events' = Tell(i, "progress") \o <<[about |-> i, kind |-> "complete"]>>
    /\ UNCHANGED <<inProgress, cancelled, folder, holds, row, page, bounds>>

\* The guard of the import is dropped after the last event.
Release(i) ==
    /\ \/ Goes(i, "ending", "ended")
       \/ Goes(i, "failing", "failed")
    /\ inProgress' = FALSE
    /\ UNCHANGED <<cancelled, gate, gateCancel, folder, holds, row, events,
                   page, bounds>>

-----------------------------------------------------------------------------
(* Errors of the task *)

\* fail_if_cancelled, and the poll of extract_playable_audio.
StopCancelled(i) ==
    /\ pc[i] \in {"copying", "extracting", "describing"}
    /\ cancelled
    /\ pc' = [pc EXCEPT ![i] = "failing"]
    /\ Drop(i)
    /\ events' = Tell(i, "error")
    /\ UNCHANGED <<row, flags, page, bounds>>

\* Mutation of StopFailed: only the staging folder has a guard.
StopStaged(i) ==
    /\ pc[i] \in Interruptible
    /\ Trouble
    /\ pc' = [pc EXCEPT ![i] = "failing"]
    /\ \/ folder[i] /= "final" /\ Drop(i)
       \/ folder[i] = "final" /\ UNCHANGED <<folder, holds>>
    /\ events' = Tell(i, "error")
    /\ UNCHANGED <<row, flags, page>>

\* A file is refused, a copy, an extraction, a rename or the insertion fails.
StopFailed(i) ==
    /\ pc[i] \in Interruptible
    /\ Trouble
    /\ pc' = [pc EXCEPT ![i] = "failing"]
    /\ Drop(i)
    /\ events' = Tell(i, "error")
    /\ UNCHANGED <<row, flags, page>>

\* The guard ignores that the folder could not be removed.
StopUnremoved(i) ==
    /\ pc[i] \in Interruptible
    /\ folder[i] /= "none"
    /\ Trouble
    /\ pc' = [pc EXCEPT ![i] = "leftover"]
    /\ inProgress' = FALSE
    /\ events' = Tell(i, "error")
    /\ UNCHANGED <<folder, holds, row, cancelled, gate, gateCancel, page>>

-----------------------------------------------------------------------------
(* The rest of the process *)

\* Another Session is transcribed: it takes and leaves the same gate.
OtherBegins ==
    /\ gate = "idle"
    /\ gate' = "other"
    /\ gateCancel' = FALSE
    /\ UNCHANGED <<inProgress, cancelled, task, events, page, bounds>>

OtherEnds ==
    /\ gate = "other"
    /\ gate' = "idle"
    /\ gateCancel' = FALSE
    /\ UNCHANGED <<inProgress, cancelled, task, events, page, bounds>>

\* The process ends and starts again: folders and rows are what they were.
Crash ==
    /\ crashes < MaxCrashes
    /\ crashes' = crashes + 1
    /\ pc' = [i \in Imports |->
                IF pc[i] \in {"new", "ended", "failed", "leftover"}
                THEN pc[i] ELSE "crashed"]
    /\ inProgress' = FALSE
    /\ cancelled' = FALSE
    /\ gate' = "idle"
    /\ gateCancel' = FALSE
    /\ events' = <<>>
    /\ status' = "idle"
    /\ ignores' = FALSE
    /\ open' = FALSE
    /\ starting' = Nothing
    /\ cancelling' = "no"
    /\ UNCHANGED <<folder, holds, row, faults>>

Task(i) ==
    \/ Acquire(i) \/ Refuse(i) \/ ClearCancel(i) \/ CreateStaging(i)
    \/ CopyOriginal(i) \/ ExtractAudio(i) \/ WriteMetadata(i) \/ Commit(i)
    \/ CreateMeeting(i) \/ SkipTranscription(i) \/ AskTranscription(i)
    \/ Transcribe(i) \/ NotTranscribed(i) \/ EndTranscription(i)
    \/ Release(i) \/ StopCancelled(i) \/ StopFailed(i) \/ StopUnremoved(i)

Next ==
    \/ Open \/ Close \/ AskCancel \/ CancelRefused \/ CancelAllowed \/ Cancel
    \/ Hear \/ OtherBegins \/ OtherEnds \/ Crash
    \/ \E i \in Imports : StartImport(i) \/ Task(i)

Spec == Init /\ [][Next]_vars

-----------------------------------------------------------------------------
(* Properties *)

\* A meeting made by an import always has its folder in place with the
\* original, the extracted audio and the description, whatever failed, was
\* cancelled or crashed before and after (import.rs, run_import).
RowHasItsFolder ==
    \A i \in row : folder[i] = "final" /\ holds[i] = Files

\* An import that failed or was cancelled leaves no folder behind: nothing
\* of it stays in the library without a row (the guards of import.rs).
FailureLeavesNoFolder ==
    \A i \in Imports :
        pc[i] \in {"failing", "failed"} => folder[i] = "none" /\ i \notin row

-----------------------------------------------------------------------------
(* What makes the properties inductive *)

\* The parts of the type invariant that the others rest on.
Shape ==
    /\ pc \in [Imports -> Stages]
    /\ folder \in [Imports -> {"none", "staging", "final"}]
    /\ holds \in [Imports -> SUBSET Files]
    /\ row \in SUBSET Imports

\* What the folder of an import has where its task stands.
HeldAt(stage) ==
    CASE stage = "extracting" -> {"original"}
      [] stage = "describing" -> {"original", "audio"}
      [] stage \in {"committing", "inserting"} -> Files
      [] OTHER -> {}

\* A task without a row has the folder, and what it holds, of its stage.
StageHasItsFolder ==
    \A i \in Imports :
        /\ pc[i] \in {"new", "acquired", "validating", "failing", "failed"}
               => folder[i] = "none"
        /\ pc[i] \in {"copying", "extracting", "describing", "committing"}
               => folder[i] = "staging"
        /\ pc[i] = "inserting" => folder[i] = "final"
        /\ pc[i] \in {"new", "acquired", "validating", "failing", "failed"}
                       \cup Interruptible
               => holds[i] = HeldAt(pc[i]) /\ i \notin row

IInv == Shape /\ StageHasItsFolder /\ RowHasItsFolder
=============================================================================
