--------------------------- MODULE SessionReview ---------------------------
(***************************************************************************)
(* The review of a Session.  Its page reads the principal record by three  *)
(* queries that no transaction joins, keeps what it read (the baseline)    *)
(* beside what the user has made of it, with undo and redo, and sends the  *)
(* difference with the version it is based on.  Meanwhile a transcription  *)
(* that ends replaces every passage, the Session may be deleted, the user  *)
(* goes on editing while a save is on its way, and passages that the       *)
(* paginated transcript of the page holds are merged into the record.      *)
(*                                                                         *)
(* A record is a function of cells: the name of a participant, the text of *)
(* a passage and the participant of a passage.                             *)
(*                                                                         *)
(* Sources: src/frontend/src/lib/review-record.ts                          *)
(*          src/frontend/src/hooks/meeting-details/useReviewRecord.ts      *)
(*          src/frontend/src/app/meeting-details/page-content.tsx          *)
(*          src/frontend/src-tauri/src/database/repositories/              *)
(*              principal_record.rs, processing_job.rs, meeting.rs         *)
(***************************************************************************)
EXTENDS Naturals, Sequences, SequencesExt

CONSTANTS
    People,       \* the participants of the Session
    Transcripts,  \* the sets of passages of its successive transcripts
    Names,
    Texts,
    Heard,        \* the text a transcription gives a passage
    Called,       \* the name a transcription gives a participant
    Absent,       \* what a record says of a cell it does not have
    MaxLoads,
    MaxEdits,
    MaxRevision,
    MaxFaults

VARIABLES
    (* The database *)
    exists,       \* the Session has its row
    revision,     \* principal_transcript_revision
    record,       \* the cells of its participants and passages
    current,      \* which transcript it has
    (* The page *)
    generation,   \* generationRef
    reading,      \* the read on its way
    shown,        \* the page has a state
    version,      \* recordVersion
    baseline,
    present,
    past,
    future,
    dirty,
    status,       \* saveStatus
    pages,        \* the passages of the paginated transcript
    requests,     \* the saves on their way, one of a generation at most
    faults

database == <<exists, revision, record, current>>
editor == <<shown, version, baseline, present, past, future, dirty, status>>
page == <<generation, reading, editor, pages>>
vars == <<database, page, requests, faults>>

-----------------------------------------------------------------------------
(* Types *)

Passages == UNION {Transcripts[i] : i \in DOMAIN Transcripts}
NameCells == {"name"} \X People
PassageCells(blocks) == {"text", "who"} \X blocks
Cells == NameCells \cup PassageCells(Passages)
Values(c) ==
    CASE c[1] = "name" -> Names
      [] c[1] = "text" -> Texts
      [] c[1] = "who" -> People

Snapshots ==
    {s \in [Cells -> Names \cup Texts \cup People \cup {Absent}] :
        \A c \in Cells : s[c] \in Values(c) \cup {Absent}}
Nothing == [c \in Cells |-> Absent]
Edits == [cell : Cells, before : Names \cup Texts \cup People,
          after : Names \cup Texts \cup People]
Requests == [expected : Nat, changes : Snapshots, snapshot : Snapshots,
             answer : {"none", "saved", "conflict", "invalid", "storage"}]
Readings == [step : {"version", "participants", "transcripts"},
             version : Nat, names : Snapshots]

TypeOK ==
    /\ exists \in BOOLEAN
    /\ revision \in Nat
    /\ record \in Snapshots
    /\ current \in DOMAIN Transcripts
    /\ generation \in 0..MaxLoads
    /\ reading \in Readings \cup {Absent}
    /\ shown \in BOOLEAN
    /\ version \in Nat
    /\ {baseline, present, pages} \subseteq Snapshots
    /\ \A i \in DOMAIN past : past[i] \in Edits
    /\ \A i \in DOMAIN future : future[i] \in Edits
    /\ dirty \in BOOLEAN
    /\ status \in {"idle", "saving", "failed"}
    /\ \A g \in DOMAIN requests : requests[g] \in Requests \cup {Absent}
    /\ faults \in 0..MaxFaults

-----------------------------------------------------------------------------
(* Records and their differences *)

Live(s) == {c \in Cells : s[c] # Absent}

(* A record with the cells of another that it does not have. *)
Merged(s, t) == [c \in Cells |-> IF s[c] = Absent THEN t[c] ELSE s[c]]

Differ(s, t) == \E c \in Live(t) : s[c] # t[c]

(* What the patch of a save says: the cells whose value has changed, of    *)
(* those the baseline has, and Absent of the others.                       *)
Patch(s, t) ==
    [c \in Cells |-> IF s[c] # Absent /\ s[c] # t[c] THEN t[c] ELSE Absent]

(* The edits that lead from a snapshot to another, one of a cell.          *)
CommandsBetween(s, t) ==
    LET changed == SetToSeq(Live(Patch(s, t)))
    IN  [k \in DOMAIN changed |->
            [cell |-> changed[k], before |-> s[changed[k]],
             after |-> t[changed[k]]]]

-----------------------------------------------------------------------------
(* Loading *)

Forgotten ==
    /\ shown' = FALSE
    /\ version' = 0
    /\ baseline' = Nothing
    /\ present' = Nothing
    /\ past' = <<>>
    /\ future' = <<>>
    /\ dirty' = FALSE
    /\ status' = "idle"

(* load: the state is dropped, a save on its way no longer counts. *)
BeginLoad ==
    /\ generation < MaxLoads
    /\ generation' = generation + 1
    /\ reading' = [step |-> "version", version |-> 0, names |-> Nothing]
    /\ Forgotten

(* The page reads what the paginated transcript starts with, and then      *)
(* mounts the editor: at first, and whenever it refetches the passages.    *)
OpenPage ==
    /\ BeginLoad
    /\ \E blocks \in SUBSET Passages :
        pages' = [c \in Cells |->
            IF c \in PassageCells(blocks) THEN record[c] ELSE Absent]
    /\ UNCHANGED <<database, requests, faults>>

(* Reload, Retry, or a draft discarded before something destructive. *)
Reload ==
    /\ generation > 0
    /\ BeginLoad
    /\ UNCHANGED <<database, pages, requests, faults>>

ReadVersion ==
    /\ reading # Absent
    /\ reading.step = "version"
    /\ exists
    /\ reading' = [reading EXCEPT !.step = "participants",
                                  !.version = revision]
    /\ UNCHANGED <<database, generation, editor, pages, requests, faults>>

ReadParticipants ==
    /\ reading # Absent
    /\ reading.step = "participants"
    /\ reading' = [reading EXCEPT
        !.step = "transcripts",
        !.names = [c \in Cells |->
                      IF c \in NameCells THEN record[c] ELSE Absent]]
    /\ UNCHANGED <<database, generation, editor, pages, requests, faults>>

(* Mutation of VersionRead: the version is read last. *)
VersionReadLast == revision

VersionRead == reading.version

(* The last query, after which the editor has its state; passages of the   *)
(* page that the record does not have are merged into it at once.          *)
ReadTranscripts ==
    /\ reading # Absent
    /\ reading.step = "transcripts"
    /\ LET read == [c \in Cells |->
                       IF c \in NameCells THEN reading.names[c]
                       ELSE record[c]]
       IN  /\ baseline' = Merged(read, pages)
           /\ present' = Merged(read, pages)
    /\ version' = VersionRead
    /\ shown' = TRUE
    /\ reading' = Absent
    /\ UNCHANGED <<database, generation, past, future, dirty, status,
                   pages, requests, faults>>

(* The Session is gone when its version is asked for, or a query fails. *)
ReadFails ==
    /\ reading # Absent
    /\ \/ /\ reading.step = "version"
          /\ ~exists
          /\ UNCHANGED faults
       \/ /\ faults < MaxFaults
          /\ faults' = faults + 1
    /\ reading' = Absent
    /\ UNCHANGED <<database, generation, editor, pages, requests>>

(* More passages of the paginated transcript arrive: those the page has    *)
(* stay as they are, and the editor takes those it does not have.          *)
MorePassages ==
    /\ generation > 0
    /\ \E b \in Passages :
        /\ record[<<"text", b>>] # Absent
        /\ pages[<<"text", b>>] = Absent
        /\ LET more == [c \in Cells |->
                           IF c \in PassageCells({b}) THEN record[c]
                           ELSE pages[c]]
           IN  /\ pages' = more
               /\ IF shown
                  THEN /\ baseline' = [c \in Cells |->
                              IF present[c] = Absent THEN more[c]
                              ELSE baseline[c]]
                       /\ present' = Merged(present, more)
                  ELSE UNCHANGED <<baseline, present>>
    /\ UNCHANGED <<database, generation, reading, shown, version, past,
                   future, dirty, status, requests, faults>>

-----------------------------------------------------------------------------
(* Editing *)

ApplyEdit(value, command, side) ==
    [value EXCEPT ![command.cell] = command[side]]

(* A participant renamed, a passage corrected or assigned to another. *)
Edit(c, v) ==
    /\ shown
    /\ present[c] # Absent
    /\ present[c] # v
    /\ c[1] = "who" => present[<<"name", v>>] # Absent
    /\ Len(past) < MaxEdits
    /\ LET command == [cell |-> c, before |-> present[c], after |-> v]
       IN  /\ present' = ApplyEdit(present, command, "after")
           /\ past' = Append(past, command)
    /\ future' = <<>>
    /\ dirty' = Differ(baseline, present')
    /\ UNCHANGED <<database, generation, reading, shown, version, baseline,
                   status, pages, requests, faults>>

Undo ==
    /\ past # <<>>
    /\ present' = ApplyEdit(present, Last(past), "before")
    /\ past' = Front(past)
    /\ future' = <<Last(past)>> \o future
    /\ dirty' = Differ(baseline, present')
    /\ UNCHANGED <<database, generation, reading, shown, version, baseline,
                   status, pages, requests, faults>>

Redo ==
    /\ future # <<>>
    /\ present' = ApplyEdit(present, Head(future), "after")
    /\ past' = Append(past, Head(future))
    /\ future' = Tail(future)
    /\ dirty' = Differ(baseline, present')
    /\ UNCHANGED <<database, generation, reading, shown, version, baseline,
                   status, pages, requests, faults>>

-----------------------------------------------------------------------------
(* Saving *)

Saves == {g \in DOMAIN requests : requests[g] # Absent}

Save ==
    /\ shown
    /\ dirty
    /\ requests[generation] = Absent
    /\ revision < MaxRevision
    /\ requests' = [requests EXCEPT ![generation] =
            [expected |-> version, changes |-> Patch(baseline, present),
             snapshot |-> present, answer |-> "none"]]
    /\ status' = "saving"
    /\ UNCHANGED <<database, generation, reading, shown, version, baseline,
                   present, past, future, dirty, pages, faults>>

IsCurrent(r) == exists /\ revision = r.expected

(* Every cell that changes exists, and so does whom it names. *)
Applies(changes) ==
    \A c \in Live(changes) :
        /\ record[c] # Absent
        /\ c[1] = "who" => record[<<"name", changes[c]>>] # Absent

Answer(g, says) == requests' = [requests EXCEPT ![g].answer = says]

(* The transaction of a save commits ... *)
CommitSave(g) ==
    LET r == requests[g]
    IN  /\ r # Absent
        /\ r.answer = "none"
        /\ Live(r.changes) # {}
        /\ IsCurrent(r)
        /\ Applies(r.changes)
        /\ revision' = revision + 1
        /\ record' = Merged(r.changes, record)
        /\ Answer(g, "saved")
        /\ UNCHANGED <<exists, current, page, faults>>

(* ... or is rolled back. *)
RefuseSave(g) ==
    LET r == requests[g]
    IN  /\ r # Absent
        /\ r.answer = "none"
        /\ \/ /\ Live(r.changes) = {}
              /\ Answer(g, "invalid")
              /\ UNCHANGED faults
           \/ /\ Live(r.changes) # {}
              /\ ~IsCurrent(r)
              /\ Answer(g, "conflict")
              /\ UNCHANGED faults
           \/ /\ Live(r.changes) # {}
              /\ IsCurrent(r)
              /\ ~Applies(r.changes)
              /\ Answer(g, "invalid")
              /\ UNCHANGED faults
           \/ /\ Live(r.changes) # {}
              /\ faults < MaxFaults
              /\ faults' = faults + 1
              /\ Answer(g, "storage")
        /\ UNCHANGED <<database, page>>

(* Mutation of SavedSnapshot: what the user changed while the save was on  *)
(* its way counts as saved.                                                *)
WhatIsPresent(r) == present

SavedSnapshot(r) == r.snapshot

(* The answer reaches the page that asked. *)
Saved(g) ==
    /\ requests[g] # Absent
    /\ requests[g].answer = "saved"
    /\ requests' = [requests EXCEPT ![g] = Absent]
    /\ IF g = generation
       THEN LET saved == SavedSnapshot(requests[g])
            IN  /\ version' = requests[g].expected + 1
                /\ baseline' = saved
                /\ past' = CommandsBetween(saved, present)
                /\ future' = <<>>
                /\ dirty' = (CommandsBetween(saved, present) # <<>>)
                /\ status' = "idle"
       ELSE UNCHANGED <<version, baseline, past, future, dirty, status>>
    /\ UNCHANGED <<database, generation, reading, shown, present, pages,
                   faults>>

NotSaved(g) ==
    /\ requests[g] # Absent
    /\ requests[g].answer \in {"conflict", "invalid", "storage"}
    /\ requests' = [requests EXCEPT ![g] = Absent]
    /\ status' = IF g = generation THEN "failed" ELSE status
    /\ UNCHANGED <<database, generation, reading, shown, version, baseline,
                   present, past, future, dirty, pages, faults>>

-----------------------------------------------------------------------------
(* What happens elsewhere *)

(* A transcription of the Session ends: its passages are replaced, and a   *)
(* participant that a passage names and that is not there is added.        *)
Retranscribe ==
    /\ exists
    /\ current + 1 \in DOMAIN Transcripts
    /\ current' = current + 1
    /\ revision' = revision + 1
    /\ \E who \in [Transcripts[current + 1] -> People] :
        record' = [c \in Cells |->
            CASE c[1] = "name" ->
                    IF \E b \in DOMAIN who : who[b] = c[2]
                    THEN Merged(record, [d \in Cells |-> Called])[c]
                    ELSE record[c]
              [] c[1] = "text" ->
                    IF c[2] \in DOMAIN who THEN Heard ELSE Absent
              [] c[1] = "who" ->
                    IF c[2] \in DOMAIN who THEN who[c[2]] ELSE Absent]
    /\ UNCHANGED <<exists, page, requests, faults>>

(* The rows that refer to the Session go with its own. *)
DeleteMeeting ==
    /\ exists
    /\ exists' = FALSE
    /\ record' = Nothing
    /\ UNCHANGED <<revision, current, page, requests, faults>>

-----------------------------------------------------------------------------
(* The specification *)

Init ==
    /\ exists = TRUE
    /\ revision = 0
    /\ current = 1
    /\ \E who \in [Transcripts[1] -> People] :
        record = [c \in Cells |->
            CASE c[1] = "name" ->
                    IF \E b \in DOMAIN who : who[b] = c[2]
                    THEN Called ELSE Absent
              [] c[1] = "text" ->
                    IF c[2] \in DOMAIN who THEN Heard ELSE Absent
              [] c[1] = "who" ->
                    IF c[2] \in DOMAIN who THEN who[c[2]] ELSE Absent]
    /\ generation = 0
    /\ reading = Absent
    /\ shown = FALSE
    /\ version = 0
    /\ baseline = Nothing
    /\ present = Nothing
    /\ past = <<>>
    /\ future = <<>>
    /\ dirty = FALSE
    /\ status = "idle"
    /\ pages = Nothing
    /\ requests = [g \in 0..MaxLoads |-> Absent]
    /\ faults = 0

Next ==
    \/ OpenPage \/ Reload
    \/ ReadVersion \/ ReadParticipants \/ ReadTranscripts \/ ReadFails
    \/ MorePassages
    \/ \E c \in Cells : \E v \in Values(c) : Edit(c, v)
    \/ Undo \/ Redo
    \/ Save
    \/ \E g \in Saves :
        CommitSave(g) \/ RefuseSave(g) \/ Saved(g) \/ NotSaved(g)
    \/ Retranscribe \/ DeleteMeeting

Spec == Init /\ [][Next]_vars

-----------------------------------------------------------------------------
(* Properties *)

(* Whatever the page takes for the record, it is the record of the version *)
(* a save would name: no save that is accepted overwrites a value that its *)
(* user was not shown.  Three queries that are not one transaction, a      *)
(* transcription between them, edits during a save and passages merged     *)
(* from pages read at another time could each break it.                    *)
SavesReplaceWhatWasShown ==
    shown /\ exists /\ version = revision =>
        \A c \in Live(baseline) : record[c] \in {baseline[c], Absent}

(* A page that says nothing is left to save shows nothing but what the     *)
(* record says, as long as the record is the one it knows: an edit made    *)
(* while a save was on its way is still marked when the answer arrives.    *)
NothingUnsavedLooksSaved ==
    shown /\ exists /\ version = revision /\ ~dirty =>
        \A c \in Live(present) : record[c] \in {present[c], Absent}

(* Undoing everything that can be undone leads back to what is saved,      *)
(* also when a save was answered in between.                               *)
Undone(s, edits) ==
    LET back[n \in 0..Len(edits)] ==
            IF n = 0 THEN s
            ELSE ApplyEdit(back[n - 1], edits[Len(edits) - n + 1], "before")
    IN  back[Len(edits)]

UndoLeadsBack ==
    shown => LET undone == Undone(present, past)
             IN  \A c \in Live(baseline) : undone[c] = baseline[c]

(* The message of a refused save, review-record.ts line 80: "This Session  *)
(* changed elsewhere. Reload the latest record before saving."  A page     *)
(* whose record is the latest shows no passage that the record lacks.      *)
ReloadShowsTheLatestRecord ==
    shown /\ exists /\ version = revision => Live(present) \subseteq Live(record)

=============================================================================
