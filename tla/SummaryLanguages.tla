-------------------------- MODULE SummaryLanguages --------------------------
(***************************************************************************)
(* metadata.json in the folder of a Session: the summary language the user *)
(* chose, the one that was detected from the transcript, the names of the  *)
(* people at the microphone, and the marks of a retranscription.  Each     *)
(* writer reads the whole file, changes its own field and puts the result  *)
(* in the file's place.  Those of the summary take a lock.  A              *)
(* retranscription writes twice and takes none: at its start the names,    *)
(* where the Session has a microphone's audio and the file no names yet,   *)
(* and at its end the marks, when a failure to write is only logged.       *)
(*                                                                         *)
(* A detected language is the edition of the transcript it was detected    *)
(* from.  A Session without a folder keeps its language in the page's own  *)
(* storage, where nobody else writes.  The other fields never change here; *)
(* a recording and an import write the file before there is a Session.     *)
(*                                                                         *)
(* Sources: summary/metadata.rs, summary/commands.rs and                   *)
(* audio/retranscription.rs of src/frontend/src-tauri/src;                 *)
(* lib/summary-language-preferences.ts and                                 *)
(* hooks/meeting-details/useSummaryGeneration.ts of src/frontend/src.      *)
(***************************************************************************)
EXTENDS Naturals

CONSTANTS
    Choices,      \* calls of saveMeetingSummaryLanguage
    Generations,  \* summaries that are asked for
    Languages,    \* what a user may choose
    None,         \* no language, nobody
    MaxEdition,   \* bound: retranscriptions
    MaxFaults,    \* bound: failed calls
    MaxCrashes    \* bound: ends of the process

VARIABLES
    file,      \* metadata.json
    edition,   \* of the transcript in the database
    holder,    \* of METADATA_WRITE_LOCK
    pc,        \* where each call stands
    wanted,    \* what it writes
    copy,      \* the file as it has read it
    job, jobCopy,  \* the retranscription
    kept,      \* history: the file if every write had only its own effect
    clash,     \* history: the job and another writer have overlapped
    late,      \* history: a detection from an earlier edition was written
    faults, crashes

calls == <<pc, wanted, copy>>
jobVars == <<job, jobCopy>>
history == <<kept, clash, late>>
vars == <<file, edition, holder, calls, jobVars, history, faults, crashes>>

-----------------------------------------------------------------------------
(* Types *)

Writers == Choices \cup Generations
Editions == 0..MaxEdition
Metadata == [chosen : Languages \cup {None},
             detected : Editions \cup {None},
             participants : BOOLEAN,
             retranscribed : Editions]
PCs == {"idle", "asking", "looking", "waiting", "writing"}
JobPCs == {"idle", "snapshotting", "running", "committed", "writing"}

TypeOK ==
    /\ file \in Metadata
    /\ edition \in Editions
    /\ holder \in Writers \cup {None}
    /\ pc \in [Writers -> PCs]
    /\ wanted \in [Writers -> Languages \cup Editions \cup {None}]
    /\ copy \in [Writers -> Metadata \cup {None}]
    /\ job \in JobPCs
    /\ jobCopy \in Metadata \cup {None}
    /\ kept \in Metadata
    /\ clash \in BOOLEAN
    /\ late \in BOOLEAN
    /\ faults \in 0..MaxFaults
    /\ crashes \in 0..MaxCrashes

Init ==
    /\ file = [chosen |-> None, detected |-> None, participants |-> FALSE,
                retranscribed |-> 0]
    /\ edition = 0
    /\ holder = None
    /\ pc = [w \in Writers |-> "idle"]
    /\ wanted = [w \in Writers |-> None]
    /\ copy = [w \in Writers |-> None]
    /\ job = "idle"
    /\ jobCopy = None
    /\ kept = file
    /\ clash = FALSE
    /\ late = FALSE
    /\ faults = 0
    /\ crashes = 0

Fault == faults < MaxFaults /\ faults' = faults + 1

Goes(w, place) == pc' = [pc EXCEPT ![w] = place]

-----------------------------------------------------------------------------
(* saveMeetingSummaryLanguage, api_save_meeting_summary_language *)

\* The user picks a language, or none; the folder of the Session is found.
Choose(w) ==
    /\ pc[w] = "idle"
    /\ \E l \in Languages \cup {None} : wanted' = [wanted EXCEPT ![w] = l]
    /\ Goes(w, "waiting")
    /\ UNCHANGED <<file, edition, holder, copy, jobVars, history, faults,
                   crashes>>

-----------------------------------------------------------------------------
(* resolveSummaryLanguage *)

\* A summary is asked for, of the transcript as it is now.
Generate(g) ==
    /\ pc[g] = "idle"
    /\ wanted' = [wanted EXCEPT ![g] = edition]
    /\ Goes(g, "asking")
    /\ UNCHANGED <<file, edition, holder, copy, jobVars, history, faults,
                   crashes>>

\* The language the user chose is used; without one, or when it cannot be
\* read, the detected one is looked for.
ReadChosen(g) ==
    /\ pc[g] = "asking"
    /\ \/ /\ Goes(g, IF file.chosen /= None THEN "idle" ELSE "looking")
          /\ UNCHANGED faults
       \/ Goes(g, "looking") /\ Fault
    /\ UNCHANGED <<file, edition, holder, wanted, copy, jobVars, history,
                   crashes>>

\* Without a detected language, or when it cannot be read, one is detected
\* from the transcript the summary was asked for and saved; the text may not
\* show any.
ReadDetected(g) ==
    /\ pc[g] = "looking"
    /\ \/ /\ file.detected /= None
          /\ Goes(g, "idle")
          /\ UNCHANGED faults
       \/ /\ IF file.detected /= None THEN Fault ELSE UNCHANGED faults
          /\ \E place \in {"idle", "waiting"} : Goes(g, place)
    /\ UNCHANGED <<file, edition, holder, wanted, copy, jobVars, history,
                   crashes>>

-----------------------------------------------------------------------------
(* write_language_field_to_metadata *)

\* Mutation of MayWrite: the lock is not taken.
AnyoneMayWrite == TRUE

MayWrite == holder = None

ReadMetadata(w) ==
    /\ pc[w] = "waiting"
    /\ MayWrite
    /\ holder' = w
    /\ copy' = [copy EXCEPT ![w] = file]
    /\ Goes(w, "writing")
    /\ UNCHANGED <<file, edition, wanted, jobVars, history, faults, crashes>>

With(metadata, w) ==
    IF w \in Choices THEN [metadata EXCEPT !.chosen = wanted[w]]
                     ELSE [metadata EXCEPT !.detected = wanted[w]]

Release(w) ==
    /\ holder' = None
    /\ wanted' = [wanted EXCEPT ![w] = None]
    /\ copy' = [copy EXCEPT ![w] = None]
    /\ Goes(w, "idle")

\* The new file takes the place of the old one.
ReplaceMetadata(w) ==
    /\ pc[w] = "writing"
    /\ file' = With(copy[w], w)
    /\ kept' = With(kept, w)
    /\ clash' = (clash \/ job \in {"snapshotting", "writing"})
    /\ late' = (late \/ (w \in Generations /\ wanted[w] /= edition))
    /\ Release(w)
    /\ UNCHANGED <<edition, jobVars, faults, crashes>>

\* The file cannot be read or written; it stays as it was.
WriteFails(w) ==
    /\ pc[w] = "writing"
    /\ Fault
    /\ Release(w)
    /\ UNCHANGED <<file, edition, jobVars, history, crashes>>

-----------------------------------------------------------------------------
(* A retranscription *)

\* load_or_snapshot_microphone_participants, which takes no lock.
BeginJob ==
    /\ job = "idle"
    /\ \/ /\ job' = "running"
          /\ UNCHANGED jobCopy
       \/ /\ ~file.participants
          /\ job' = "snapshotting"
          /\ jobCopy' = file
    /\ UNCHANGED <<file, edition, holder, calls, history, faults, crashes>>

Snapshotted(metadata) == [metadata EXCEPT !.participants = TRUE]

\* A call of the summary that has read the file and a job that has too.
Overlapping == clash \/ \E w \in Writers : pc[w] = "writing"

ReplaceForSnapshot ==
    /\ job = "snapshotting"
    /\ file' = Snapshotted(jobCopy)
    /\ kept' = Snapshotted(kept)
    /\ clash' = Overlapping
    /\ job' = "running"
    /\ jobCopy' = None
    /\ UNCHANGED <<edition, holder, calls, late, faults, crashes>>

\* The names cannot be written, or the work fails or is cancelled.
JobFails ==
    /\ \/ job = "snapshotting" /\ Fault
       \/ job = "running" /\ UNCHANGED faults
    /\ job' = "idle"
    /\ jobCopy' = None
    /\ UNCHANGED <<file, edition, holder, calls, history, crashes>>

\* The new transcript is committed.
CommitTranscript ==
    /\ job = "running"
    /\ edition < MaxEdition
    /\ edition' = edition + 1
    /\ job' = "committed"
    /\ UNCHANGED <<file, holder, calls, jobCopy, history, faults, crashes>>

\* Mutation of Retranscribed: the detected language stays.
RetranscribedOnly(metadata) == [metadata EXCEPT !.retranscribed = edition]

\* The job marks the file and drops the language that was detected before.
Retranscribed(metadata) ==
    [metadata EXCEPT !.retranscribed = edition, !.detected = None]

\* write_retranscription_metadata, which takes no lock.
ReadForJob ==
    /\ job = "committed"
    /\ job' = "writing"
    /\ jobCopy' = file
    /\ UNCHANGED <<file, edition, holder, calls, history, faults, crashes>>

ReplaceForJob ==
    /\ job = "writing"
    /\ file' = Retranscribed(jobCopy)
    /\ kept' = Retranscribed(kept)
    /\ clash' = Overlapping
    /\ late' = FALSE
    /\ job' = "idle"
    /\ jobCopy' = None
    /\ UNCHANGED <<edition, holder, calls, faults, crashes>>

\* The job ends all the same.
JobWriteFails ==
    /\ job \in {"committed", "writing"}
    /\ Fault
    /\ job' = "idle"
    /\ jobCopy' = None
    /\ UNCHANGED <<file, edition, holder, calls, history, crashes>>

-----------------------------------------------------------------------------

Crash ==
    /\ crashes < MaxCrashes
    /\ crashes' = crashes + 1
    /\ holder' = None
    /\ pc' = [w \in Writers |-> "idle"]
    /\ wanted' = [w \in Writers |-> None]
    /\ copy' = [w \in Writers |-> None]
    /\ job' = "idle"
    /\ jobCopy' = None
    /\ UNCHANGED <<file, edition, history, faults>>

Next ==
    \/ \E w \in Choices : Choose(w)
    \/ \E g \in Generations : Generate(g) \/ ReadChosen(g) \/ ReadDetected(g)
    \/ \E w \in Writers : ReadMetadata(w) \/ ReplaceMetadata(w) \/ WriteFails(w)
    \/ BeginJob \/ ReplaceForSnapshot \/ JobFails
    \/ CommitTranscript \/ ReadForJob \/ ReplaceForJob \/ JobWriteFails
    \/ Crash

Spec == Init /\ [][Next]_vars

-----------------------------------------------------------------------------
(* Properties *)

\* No writer undoes what another has written, unless a retranscription,
\* which takes no lock at its start nor at its end, ran into it
\* (METADATA_WRITE_LOCK, load_or_snapshot_microphone_participants).
WritesAreKept == clash \/ file = kept

\* Once the metadata says that the transcript was replaced, the detected
\* language is that of the new one, unless the retranscription ran into
\* another writer or a summary of the old transcript detected later
\* (write_retranscription_metadata, detectAndCacheSummaryLanguage).
DetectionIsOfItsText ==
    file.retranscribed = edition /\ ~clash /\ ~late
        => file.detected \in {None, edition}

-----------------------------------------------------------------------------
(* What makes the properties inductive *)

\* The parts of the type invariant that the others rest on.
Shape ==
    /\ file \in Metadata /\ kept \in Metadata
    /\ edition \in Editions
    /\ pc \in [Writers -> PCs]
    /\ wanted \in [Writers -> Languages \cup Editions \cup {None}]
    /\ copy \in [Writers -> Metadata \cup {None}]
    /\ jobCopy \in Metadata \cup {None}

\* What a call that may write is about to write.
WantedIsKnown ==
    /\ \A w \in Choices : wanted[w] \in Languages \cup {None}
    /\ \A g \in Generations : pc[g] /= "idle" => wanted[g] \in Editions

\* Whoever writes holds the lock.
LockIsHeld == \A w \in Writers : pc[w] = "writing" => holder = w

\* Who writes has the file as it is, unless the job ran into it.
CopiesAreFresh ==
    /\ \A w \in Writers : pc[w] = "writing" =>
           copy[w] \in Metadata /\ (clash \/ copy[w] = file)
    /\ job \in {"snapshotting", "writing"} =>
           jobCopy \in Metadata /\ (clash \/ jobCopy = file)

\* The file is not ahead of the transcript.
MarkIsReached == ~clash => file.retranscribed <= edition

IInv ==
    /\ Shape
    /\ WantedIsKnown /\ LockIsHeld /\ CopiesAreFresh /\ MarkIsReached
    /\ WritesAreKept /\ DetectionIsOfItsText
=============================================================================
