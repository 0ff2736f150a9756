---------------------------- MODULE AgentHandoff ----------------------------
(***************************************************************************)
(* The export of a Session's record to a file the user selects, or to a    *)
(* sharing sheet, in either format.  The record changes while the dialog   *)
(* is open, while the export reads it and while it writes; several exports *)
(* may write to one file; a write may fail and the process may end at any  *)
(* step.                                                                   *)
(*                                                                         *)
(* A record is the number of the change that made it; reading it is one    *)
(* transaction.  The formats carry the same facts and are not told apart.  *)
(*                                                                         *)
(* Sources: agent_handoff.rs and verifiable_record/repository.rs of        *)
(* src/frontend/src-tauri/src, AgentHandoffMenu.tsx of src/frontend/src.   *)
(***************************************************************************)
EXTENDS Naturals, FiniteSets

CONSTANTS
    Exports,     \* calls of api_export_agent_handoff
    Places,      \* where a file may be saved
    Nowhere,     \* no place, no file, no record
    Other,       \* what somebody else wrote
    Half,        \* what a write that was cut short leaves
    MaxChanges,  \* bound: changes of the record
    MaxFaults,   \* bound: failed calls
    MaxCrashes   \* bound: ends of the process

VARIABLES
    record,     \* the Session's record, Nowhere once it is deleted
    changes,    \* changes made so far
    file,       \* what each place holds
    temporary,  \* the temporary file of an export
    pc,         \* where each export stands
    place,      \* the place it writes to
    snapshot,   \* the record it has read
    asked,      \* history: the last change when the place was selected
    outcome,    \* what the last call of each told the page
    leftover,   \* temporary files of no export
    faults, crashes

disk == <<file, temporary, leftover>>
export == <<pc, place, snapshot, asked, outcome>>
vars == <<record, changes, disk, export, faults, crashes>>

-----------------------------------------------------------------------------
(* Types *)

Records == 0..MaxChanges
Contents == Records \cup {Other, Half, Nowhere}
PCs == {"idle", "selecting", "reading", "sharing", "creating", "writing",
        "renaming", "removing"}
Outcomes == {"none", "Cancelled", "Saved", "SharePresented",
             "SnapshotUnavailable", "UnsafeDestination", "WriteFailed",
             "ShareFailed"}

TypeOK ==
    /\ record \in Records \cup {Nowhere}
    /\ changes \in Records
    /\ file \in [Places -> Contents]
    /\ temporary \in [Exports -> Contents]
    /\ pc \in [Exports -> PCs]
    /\ place \in [Exports -> Places \cup {Nowhere}]
    /\ snapshot \in [Exports -> Records \cup {Nowhere}]
    /\ asked \in [Exports -> Records]
    /\ outcome \in [Exports -> Outcomes]
    /\ leftover \in SUBSET (Contents \ {Nowhere})
    /\ faults \in 0..MaxFaults
    /\ crashes \in 0..MaxCrashes

Init ==
    /\ record = 0
    /\ changes = 0
    /\ file \in [Places -> {Other, Nowhere}]
    /\ temporary = [e \in Exports |-> Nowhere]
    /\ pc = [e \in Exports |-> "idle"]
    /\ place = [e \in Exports |-> Nowhere]
    /\ snapshot = [e \in Exports |-> Nowhere]
    /\ asked = [e \in Exports |-> 0]
    /\ outcome = [e \in Exports |-> "none"]
    /\ leftover = {}
    /\ faults = 0
    /\ crashes = 0

Fault == faults < MaxFaults /\ faults' = faults + 1

-----------------------------------------------------------------------------
(* Helpers *)

Goes(e, where) == pc' = [pc EXCEPT ![e] = where]

\* The call comes back; what it worked with goes with it.
Ends(e, how) ==
    /\ Goes(e, "idle")
    /\ place' = [place EXCEPT ![e] = Nowhere]
    /\ snapshot' = [snapshot EXCEPT ![e] = Nowhere]
    /\ asked' = [asked EXCEPT ![e] = 0]
    /\ outcome' = [outcome EXCEPT ![e] = how]

-----------------------------------------------------------------------------
(* api_export_agent_handoff *)

Save(e) ==
    /\ pc[e] = "idle"
    /\ Goes(e, "selecting")
    /\ outcome' = [outcome EXCEPT ![e] = "none"]
    /\ UNCHANGED <<record, changes, disk, place, snapshot, asked, faults,
                   crashes>>

\* The dialog is closed without a place: nothing is read or written.
CancelSelection(e) ==
    /\ pc[e] = "selecting"
    /\ Ends(e, "Cancelled")
    /\ UNCHANGED <<record, changes, disk, faults, crashes>>

\* Mutation of ReadsAfter: the record is read before the dialog opens.
ReadsBefore(e) ==
    /\ snapshot' = [snapshot EXCEPT ![e] = 0]
    /\ record /= Nowhere

\* The record is read once the place is known.
ReadsAfter(e) ==
    /\ record /= Nowhere
    /\ snapshot' = [snapshot EXCEPT ![e] = record]

Select(e, p) ==
    /\ pc[e] = "selecting"
    /\ Goes(e, "reading")
    /\ place' = [place EXCEPT ![e] = p]
    /\ asked' = [asked EXCEPT ![e] = changes]
    /\ UNCHANGED <<record, changes, disk, snapshot, outcome, faults, crashes>>

ReadRecord(e) ==
    /\ pc[e] = "reading"
    /\ ReadsAfter(e)
    /\ Goes(e, "creating")
    /\ UNCHANGED <<record, changes, disk, place, asked, outcome, faults,
                   crashes>>

\* The Session is gone, or storage refuses.
RecordUnavailable(e) ==
    /\ pc[e] \in {"reading", "sharing"}
    /\ IF record = Nowhere THEN UNCHANGED faults ELSE Fault
    /\ Ends(e, "SnapshotUnavailable")
    /\ UNCHANGED <<record, changes, disk, crashes>>

Share(e) ==
    /\ pc[e] = "idle"
    /\ Goes(e, "sharing")
    /\ outcome' = [outcome EXCEPT ![e] = "none"]
    /\ UNCHANGED <<record, changes, disk, place, snapshot, asked, faults,
                   crashes>>

\* share_content: the sheet holds what it was given.
ShareContent(e) ==
    /\ pc[e] = "sharing"
    /\ record /= Nowhere
    /\ \/ Ends(e, "SharePresented") /\ UNCHANGED faults
       \/ Ends(e, "ShareFailed") /\ Fault
    /\ UNCHANGED <<record, changes, disk, crashes>>

-----------------------------------------------------------------------------
(* write_atomic *)

\* The place has become a directory, or its directory is gone.
RefusePlace(e) ==
    /\ pc[e] = "creating"
    /\ Fault
    /\ \E how \in {"UnsafeDestination", "WriteFailed"} : Ends(e, how)
    /\ UNCHANGED <<record, changes, disk, crashes>>

CreateTemporary(e) ==
    /\ pc[e] = "creating"
    /\ temporary' = [temporary EXCEPT ![e] = Half]
    /\ Goes(e, "writing")
    /\ UNCHANGED <<record, changes, file, leftover, place, snapshot, asked,
                   outcome, faults, crashes>>

\* Mutation of WriteAll: the file at the place is written itself.
WriteInPlace(e) ==
    /\ file' = [file EXCEPT ![place[e]] = Half]
    /\ temporary' = [temporary EXCEPT ![e] = snapshot[e]]

WriteAll(e) ==
    /\ temporary' = [temporary EXCEPT ![e] = snapshot[e]]
    /\ UNCHANGED file

WriteTemporary(e) ==
    /\ pc[e] = "writing"
    /\ WriteAll(e)
    /\ Goes(e, "renaming")
    /\ UNCHANGED <<record, changes, leftover, place, snapshot, asked, outcome,
                   faults, crashes>>

\* The temporary file takes the place of what was there.
Rename(e) ==
    /\ pc[e] = "renaming"
    /\ file' = [file EXCEPT ![place[e]] = temporary[e]]
    /\ temporary' = [temporary EXCEPT ![e] = Nowhere]
    /\ Ends(e, "Saved")
    /\ UNCHANGED <<record, changes, leftover, faults, crashes>>

\* Creating, writing or renaming fails; the temporary file is still there.
WriteFails(e) ==
    /\ pc[e] \in {"writing", "renaming"}
    /\ Fault
    /\ Goes(e, "removing")
    /\ UNCHANGED <<record, changes, disk, place, snapshot, asked, outcome,
                   crashes>>

\* Mutation of Removed: the temporary file stays.
NotRemoved(e) ==
    /\ UNCHANGED faults
    /\ leftover' = leftover \cup {temporary[e]}

\* A removal that fails is ignored.
Removed(e) ==
    \/ UNCHANGED <<leftover, faults>>
    \/ Fault /\ leftover' = leftover \cup {temporary[e]}

RemoveTemporary(e) ==
    /\ pc[e] = "removing"
    /\ Removed(e)
    /\ temporary' = [temporary EXCEPT ![e] = Nowhere]
    /\ Ends(e, "WriteFailed")
    /\ UNCHANGED <<record, changes, file, crashes>>

-----------------------------------------------------------------------------
(* The record, the process *)

ChangeRecord ==
    /\ record /= Nowhere
    /\ changes < MaxChanges
    /\ changes' = changes + 1
    /\ record' = changes'
    /\ UNCHANGED <<disk, export, faults, crashes>>

DeleteMeeting ==
    /\ record /= Nowhere
    /\ record' = Nowhere
    /\ UNCHANGED <<changes, disk, export, faults, crashes>>

Crash ==
    /\ crashes < MaxCrashes
    /\ crashes' = crashes + 1
    /\ leftover' = leftover
                     \cup ({temporary[e] : e \in Exports} \ {Nowhere})
    /\ temporary' = [e \in Exports |-> Nowhere]
    /\ pc' = [e \in Exports |-> "idle"]
    /\ place' = [e \in Exports |-> Nowhere]
    /\ snapshot' = [e \in Exports |-> Nowhere]
    /\ asked' = [e \in Exports |-> 0]
    /\ outcome' = [e \in Exports |-> "none"]
    /\ UNCHANGED <<record, changes, file, faults>>

-----------------------------------------------------------------------------

Next ==
    \/ \E e \in Exports :
          \/ Save(e) \/ CancelSelection(e)
          \/ \E p \in Places : Select(e, p)
          \/ ReadRecord(e) \/ RecordUnavailable(e)
          \/ Share(e) \/ ShareContent(e)
          \/ RefusePlace(e) \/ CreateTemporary(e) \/ WriteTemporary(e)
          \/ Rename(e) \/ WriteFails(e) \/ RemoveTemporary(e)
    \/ ChangeRecord \/ DeleteMeeting
    \/ Crash

Spec == Init /\ [][Next]_vars

-----------------------------------------------------------------------------
(* Properties *)

\* A file at a selected place is what was there before or a whole record,
\* however exports to it interleave, fail or are cut short (write_atomic).
FilesAreWhole == \A p \in Places : file[p] /= Half

\* What an export writes is no older than the record was when the user
\* selected the place (save_after_destination_selection).
ExportIsCurrent ==
    \A e \in Exports :
        pc[e] \in {"creating", "writing", "renaming"}
            => snapshot[e] >= asked[e]

\* A temporary file that no export owns was left by a crash or by a removal
\* that failed after another failure (write_atomic).
NothingIsLeft == leftover /= {} => crashes > 0 \/ faults > 1

-----------------------------------------------------------------------------
(* What makes the properties inductive *)

\* The parts of the type invariant that the others rest on.
Shape ==
    /\ record \in Records \cup {Nowhere}
    /\ changes \in Records
    /\ temporary \in [Exports -> Contents]
    /\ pc \in [Exports -> PCs]
    /\ snapshot \in [Exports -> Records \cup {Nowhere}]
    /\ asked \in [Exports -> Records]
    /\ faults \in Nat
    /\ crashes \in Nat

\* The record is of the last change.
RecordIsLatest == record /= Nowhere => record = changes

\* The place is selected before the record is read, ...
AskedBefore == \A e \in Exports : asked[e] <= changes

\* ... which is in hand until the call ends, ...
SnapshotInHand ==
    \A e \in Exports :
        pc[e] \in {"creating", "writing", "renaming"}
            => snapshot[e] \in Records

\* ... and whole in the temporary file before it is renamed.
RenamedIsWhole ==
    \A e \in Exports : pc[e] = "renaming" => temporary[e] = snapshot[e]

\* A temporary file is only removed after a failure.
RemovedAfterFailure ==
    \A e \in Exports : pc[e] = "removing" => faults > 0

IInv ==
    /\ Shape
    /\ RecordIsLatest /\ AskedBefore /\ SnapshotInHand
    /\ RenamedIsWhole /\ RemovedAfterFailure
    /\ FilesAreWhole /\ ExportIsCurrent /\ NothingIsLeft
=============================================================================
