-------------------------- MODULE RecordGeneration --------------------------
(***************************************************************************)
(* Local findings of one Session: the generate, cancel and record-type     *)
(* commands, the in-memory lease, and the row of record_generations.       *)
(*                                                                         *)
(* A generate command takes the lease of the Session, reads a snapshot of  *)
(* its record, begins the row, hands the snapshot to the helper process    *)
(* and accepts or rejects what the helper answers.  The user edits the     *)
(* transcript, changes the record type, cancels or deletes the Session     *)
(* between any two of these steps, storage calls fail, the process ends.   *)
(*                                                                         *)
(* Sources: verifiable_record/commands.rs, verifiable_record/repository.rs *)
(* and the migration that creates record_generations.                      *)
(***************************************************************************)
EXTENDS Naturals, FiniteSets

CONSTANTS
  Calls,        \* generate commands; each one is also its request id
  Cancels,      \* cancel commands
  RecordTypes,  \* meeting, interview, content
  DefaultType,  \* the type of a Session without a row
  None,
  MaxRevision,  \* bound: the transcript changes until this revision
  MaxStranded   \* bound: rows whose closing update storage refuses

ASSUME ConstantsAssumption ==
  /\ DefaultType \in RecordTypes
  /\ None \notin Calls \cup RecordTypes \cup Nat
  /\ MaxRevision \in Nat
  /\ MaxStranded \in Nat

VARIABLES
  up,         \* the application is running
  exists,     \* the Session is stored
  revision,   \* meetings.principal_transcript_revision
  type,       \* record_type of the row
  status,     \* its status, "absent" when there is no row
  result,     \* the call whose answer is in result_json
  input,      \* input_revision
  active,     \* active_request_id
  basis,      \* active_revision
  lease,      \* the call in ACTIVE_GENERATIONS
  pc,         \* where each generate command stands
  expected,   \* the revision its caller saw
  seen,       \* the revision of the snapshot it sends to the helper
  kind,       \* the record type of that snapshot
  answer,     \* what the helper answered
  told,       \* calls whose cancellation token is set
  bound,      \* calls whose request id is bound to their lease
  aim,        \* the lease each cancel command found
  withdrawn,  \* history: calls whose cancellation was confirmed
  stranded    \* history: calls that left the row processing

row == <<type, status, result, input, active, basis>>
locals == <<expected, seen, kind, answer>>
cancels == <<told, bound, aim, withdrawn>>

vars == <<up, exists, revision, row, lease, pc, locals, cancels, stranded>>

-----------------------------------------------------------------------------
(* Types *)

Statuses == {"absent", "pending", "processing", "completed", "unavailable",
             "failed", "stale"}

Answers == {"none", "completed", "invalid", "unavailable", "failed", "cancelled"}

\* Between reserve_generation and the drop of the lease.
Leased == {"leased", "snapshot", "begun", "running", "answered", "unaccepted",
           "finished"}
\* The steps of a call that has begun the row and has still to close it.
Responsible == {"begun", "running", "answered", "unaccepted"}

PCs == Leased \cup {"new", "ended"}

TypeOK ==
  /\ up \in BOOLEAN /\ exists \in BOOLEAN
  /\ revision \in Nat
  /\ type \in RecordTypes
  /\ status \in Statuses
  /\ result \in Calls \cup {None}
  /\ input \in Nat \cup {None}
  /\ active \in Calls \cup {None}
  /\ basis \in Nat \cup {None}
  \* The CHECK constraint of record_generations.
  /\ (status = "processing") <=> (active # None /\ basis # None)
  /\ lease \in Calls \cup {None}
  /\ pc \in [Calls -> PCs]
  /\ expected \in [Calls -> Nat]
  /\ seen \in [Calls -> Nat]
  /\ kind \in [Calls -> RecordTypes]
  /\ answer \in [Calls -> Answers]
  /\ told \subseteq Calls
  /\ bound \subseteq Calls
  /\ aim \in [Cancels -> Calls \cup {None}]
  /\ withdrawn \subseteq Calls
  /\ stranded \subseteq Calls

-----------------------------------------------------------------------------
(* Helpers *)

Processing(c) == status = "processing" /\ active = c

Goto(c, label) == pc' = [pc EXCEPT ![c] = label]

\* The row stops processing.
Close(new) == status' = new /\ active' = None /\ basis' = None

\* What a withdrawn or interrupted generation falls back to.
Fallback == IF result = None THEN "pending" ELSE "completed"

\* The drop of the lease, when the command returns.
Return(c) == Goto(c, "ended") /\ lease' = None

Init ==
  /\ up = TRUE /\ exists = TRUE
  /\ revision = 0
  /\ type = DefaultType
  /\ status = "absent"
  /\ result = None /\ input = None /\ active = None /\ basis = None
  /\ lease = None
  /\ pc = [c \in Calls |-> "new"]
  /\ expected = [c \in Calls |-> 0]
  /\ seen = [c \in Calls |-> 0]
  /\ kind = [c \in Calls |-> DefaultType]
  /\ answer = [c \in Calls |-> "none"]
  /\ told = {} /\ bound = {}
  /\ aim = [x \in Cancels |-> None]
  /\ withdrawn = {}
  /\ stranded = {}

-----------------------------------------------------------------------------
(* The generate command *)

\* reserve_generation takes the free lease, for a record its caller has seen.
Reserve(c, r) ==
  /\ up /\ pc[c] = "new"
  /\ lease = None
  /\ lease' = c
  /\ expected' = [expected EXCEPT ![c] = r]
  /\ Goto(c, "leased")
  /\ UNCHANGED <<up, exists, revision, row, seen, kind, answer, cancels, stranded>>

\* Mutation of Refuse: the lease object is built first, and its drop removes
\* the entry of the call that holds it.
RefuseDropsLease(c) ==
  /\ up /\ pc[c] = "new"
  /\ lease # None
  /\ Return(c)
  /\ UNCHANGED <<up, exists, revision, row, locals, cancels, stranded>>

\* The lease is taken: the command returns AlreadyProcessing.
Refuse(c) ==
  /\ up /\ pc[c] = "new"
  /\ lease # None
  /\ Goto(c, "ended")
  /\ UNCHANGED <<up, exists, revision, row, lease, locals, cancels, stranded>>

\* get, in one transaction: transcript, participants and type of one revision.
ReadSnapshot(c) ==
  /\ up /\ pc[c] = "leased"
  /\ exists
  /\ seen' = [seen EXCEPT ![c] = revision]
  /\ kind' = [kind EXCEPT ![c] = type]
  /\ Goto(c, "snapshot")
  /\ UNCHANGED <<up, exists, revision, row, lease, expected, answer, cancels, stranded>>

\* Mutation of Current: begin takes the Session as it is now.
CurrentIsAny(c) == exists

\* begin: the revision the caller saw is still the stored one.
Current(c) == exists /\ revision = expected[c]

\* The row starts processing under a fresh request id, with the type of the
\* snapshot; a result that is already there stays.
Begin(c) ==
  /\ up /\ pc[c] = "snapshot"
  /\ Current(c)
  /\ status # "processing"
  /\ type' = kind[c]
  /\ status' = "processing"
  /\ active' = c
  /\ basis' = revision
  /\ Goto(c, "begun")
  /\ UNCHANGED <<up, exists, revision, result, input, lease, locals, cancels, stranded>>

\* The snapshot cannot be read, the revision is stale, another row is active,
\* or storage fails: nothing was begun.
RefuseBegin(c) ==
  /\ up /\ pc[c] \in {"leased", "snapshot"}
  /\ Return(c)
  /\ UNCHANGED <<up, exists, revision, row, locals, cancels, stranded>>

\* active_request finds the row and its id is bound to the lease.
BindRequest(c) ==
  /\ up /\ pc[c] = "begun"
  /\ status = "processing"
  /\ bound' = bound \cup {c}
  /\ Goto(c, "running")
  /\ UNCHANGED <<up, exists, revision, row, lease, locals, told, aim, withdrawn, stranded>>

\* active_request finds no row: the Session was deleted.
BindFails(c) ==
  /\ up /\ pc[c] = "begun"
  /\ status # "processing"
  /\ Return(c)
  /\ UNCHANGED <<up, exists, revision, row, locals, cancels, stranded>>

\* The helper answers, fails, exceeds its time or is cancelled.  A token that
\* is set turns any answer into a cancellation.
HelperAnswers(c) ==
  /\ up /\ pc[c] = "running"
  /\ \E a \in Answers \ {"none"} :
       /\ (a = "cancelled") <=> (c \in told)
       /\ answer' = [answer EXCEPT ![c] = a]
  /\ Goto(c, "answered")
  /\ UNCHANGED <<up, exists, revision, row, lease, expected, seen, kind, cancels, stranded>>

\* Mutation of Acceptable: the row is asked for its revision alone.
AcceptableAnyRequest(c) == exists /\ revision = seen[c]

\* The condition of the update in accept.
Acceptable(c) == Processing(c) /\ basis = revision /\ exists

\* accept: the valid answer becomes the result of the row.
Accept(c) ==
  /\ up /\ pc[c] = "answered" /\ answer[c] = "completed"
  /\ \/ /\ Acceptable(c)
        /\ result' = c /\ input' = basis
        /\ Close("completed")
        /\ Goto(c, "finished")
     \/ /\ ~Acceptable(c)
        /\ Goto(c, "unaccepted")
        /\ UNCHANGED <<status, result, input, active, basis>>
  /\ UNCHANGED <<up, exists, revision, type, lease, locals, cancels, stranded>>

\* mark_stale, in an update of its own after the refused one.
MarkStale(c) ==
  /\ up /\ pc[c] = "unaccepted"
  /\ \/ Processing(c) /\ Close("stale")
     \/ ~Processing(c) /\ UNCHANGED <<status, active, basis>>
  /\ Goto(c, "finished")
  /\ UNCHANGED <<up, exists, revision, type, result, input, lease, locals, cancels, stranded>>

\* Mutation of KeepResult: a failed attempt clears the row.
KeepResultNot == result' = None /\ input' = None

\* finish_error leaves result_json and input_revision alone.
KeepResult == UNCHANGED <<result, input>>

\* finish_failed and finish_unavailable.
FinishError(c) ==
  /\ up /\ pc[c] = "answered" /\ answer[c] \in {"invalid", "failed", "unavailable"}
  /\ \/ /\ Processing(c)
        /\ Close(IF answer[c] = "unavailable" THEN "unavailable" ELSE "failed")
        /\ KeepResult
     \/ ~Processing(c) /\ UNCHANGED <<status, active, basis, result, input>>
  /\ Goto(c, "finished")
  /\ UNCHANGED <<up, exists, revision, type, lease, locals, cancels, stranded>>

\* Mutation of FinishCancelled: the command returns at once and leaves the row
\* to the cancel command.
FinishCancelledLeavesRow(c) ==
  /\ up /\ pc[c] = "answered" /\ answer[c] = "cancelled"
  /\ Goto(c, "finished")
  /\ UNCHANGED <<up, exists, revision, row, lease, locals, cancels, stranded>>

\* cancel: the command closes its own row, unless the cancel command did.
FinishCancelled(c) ==
  /\ up /\ pc[c] = "answered" /\ answer[c] = "cancelled"
  /\ \/ Processing(c) /\ Close(Fallback)
     \/ ~Processing(c) /\ UNCHANGED <<status, active, basis>>
  /\ Goto(c, "finished")
  /\ UNCHANGED <<up, exists, revision, type, result, input, lease, locals, cancels, stranded>>

\* Storage refuses the read or the update: the command returns and the row
\* stays processing.
StorageFails(c) ==
  /\ up /\ pc[c] \in {"begun", "answered", "unaccepted"}
  /\ Cardinality(stranded) < MaxStranded
  /\ stranded' = stranded \cup {c}
  /\ Return(c)
  /\ UNCHANGED <<up, exists, revision, row, locals, cancels>>

\* The command reads the record once more, returns, and its lease is dropped.
Finish(c) ==
  /\ up /\ pc[c] = "finished"
  /\ Return(c)
  /\ UNCHANGED <<up, exists, revision, row, locals, cancels, stranded>>

-----------------------------------------------------------------------------
(* The cancel command *)

\* cancel_generation clones the lease it finds; without one it reports that
\* nothing is active.
FindLease(x) ==
  /\ up /\ aim[x] = None
  /\ lease # None
  /\ aim' = [aim EXCEPT ![x] = lease]
  /\ UNCHANGED <<up, exists, revision, row, lease, pc, locals, told, bound, withdrawn, stranded>>

\* The token is set.  No request id yet: the call will withdraw itself.
SetToken(x) ==
  /\ up /\ aim[x] # None
  /\ aim[x] \notin told
  /\ told' = told \cup {aim[x]}
  /\ UNCHANGED <<up, exists, revision, row, lease, pc, locals, bound, aim, withdrawn, stranded>>

\* The row still processes the request the cancel command found.
Named(x) == Processing(aim[x])

\* cancel_active.
CancelRow(x) ==
  /\ up /\ aim[x] # None
  /\ aim[x] \in told \cap bound
  /\ Named(x)
  /\ Close(Fallback)
  /\ withdrawn' = withdrawn \cup {aim[x]}
  /\ aim' = [aim EXCEPT ![x] = None]
  /\ UNCHANGED <<up, exists, revision, type, result, input, lease, pc, locals, told, bound, stranded>>

\* Nothing to cancel any more, no id bound yet, or storage fails.
CancelRefused(x) ==
  /\ up /\ aim[x] # None
  /\ aim[x] \in told
  /\ aim' = [aim EXCEPT ![x] = None]
  /\ UNCHANGED <<up, exists, revision, row, lease, pc, locals, told, bound, withdrawn, stranded>>

-----------------------------------------------------------------------------
(* The user and the process *)

\* set_record_type, refused while the row is processing.  Findings of another
\* type are given up.
SetRecordType(t) ==
  /\ up /\ exists
  /\ status # "processing"
  /\ type' = t
  /\ status' = "pending"
  /\ result' = IF t = type THEN result ELSE None
  /\ input' = IF t = type THEN input ELSE None
  /\ UNCHANGED <<up, exists, revision, active, basis, lease, pc, locals, cancels, stranded>>

\* A correction or a re-transcription is stored.
ChangeTranscript ==
  /\ up /\ exists
  /\ revision < MaxRevision
  /\ revision' = revision + 1
  /\ UNCHANGED <<up, exists, row, lease, pc, locals, cancels, stranded>>

\* The Session is deleted, and its row with it.
DeleteSession ==
  /\ up /\ exists
  /\ exists' = FALSE
  /\ type' = DefaultType
  /\ Close("absent")
  /\ result' = None /\ input' = None
  /\ UNCHANGED <<up, revision, lease, pc, locals, cancels, stranded>>

Crash ==
  /\ up
  /\ up' = FALSE
  /\ lease' = None
  /\ pc' = [c \in Calls |-> IF pc[c] = "new" THEN "new" ELSE "ended"]
  /\ aim' = [x \in Cancels |-> None]
  /\ UNCHANGED <<exists, revision, row, locals, told, bound, withdrawn, stranded>>

\* recover_interrupted
Restart ==
  /\ ~up
  /\ up' = TRUE
  /\ \/ status = "processing" /\ Close(Fallback)
     \/ status # "processing" /\ UNCHANGED <<status, active, basis>>
  /\ UNCHANGED <<exists, revision, type, result, input, lease, pc, locals, cancels, stranded>>

-----------------------------------------------------------------------------
(* The specification *)

Step(c) ==
  \/ ReadSnapshot(c) \/ Begin(c) \/ RefuseBegin(c) \/ BindRequest(c) \/ BindFails(c)
  \/ HelperAnswers(c) \/ Accept(c) \/ MarkStale(c) \/ FinishError(c)
  \/ FinishCancelled(c) \/ StorageFails(c) \/ Finish(c)

CancelStep(x) == SetToken(x) \/ CancelRow(x) \/ CancelRefused(x)

Next ==
  \/ \E c \in Calls : Refuse(c) \/ Step(c) \/ \E r \in 0..revision : Reserve(c, r)
  \/ \E x \in Cancels : FindLease(x) \/ CancelStep(x)
  \/ \E t \in RecordTypes : SetRecordType(t)
  \/ ChangeTranscript \/ DeleteSession \/ Crash \/ Restart

Spec == Init /\ [][Next]_vars

\* The helper has a time limit of its own, and storage calls return.
FairSpec == Spec /\ \A c \in Calls : WF_vars(Step(c))

-----------------------------------------------------------------------------
(* Properties *)

\* What get reports: a result of an older revision is stale, and only a
\* completed row shows its result.
ShownStatus == IF result # None /\ input # revision THEN "stale" ELSE status

\* Findings that are shown exist, were generated from the transcript and the
\* participants the Session has now, and for the record type it has now, although
\* the snapshot, the begin and the acceptance are three transactions.
ShownFindingsAreCurrent ==
  ShownStatus = "completed" =>
    /\ result # None
    /\ seen[result] = revision
    /\ kind[result] = type

\* A generation whose cancellation was confirmed to the user never becomes the
\* result, however late its answer arrives.
WithdrawnCallIsNeverAccepted == result \notin withdrawn

\* The row processes only for the call that holds the lease, unless storage
\* refused its update or the process is down.  Violated, every later generation
\* of the Session would be refused, and no cancel command could reach the row.
ProcessingRowHasItsCall ==
  status = "processing" => \/ lease = active /\ pc[active] \in Responsible
                           \/ active \in stranded
                           \/ ~up

\* A running generation is withdrawn only if its own token was set or the
\* process restarts: a late cancel command never hits the next generation.
WithdrawalWasAsked ==
  \A c \in Calls :
    Processing(c) /\ status' \in {"pending", "completed"} /\ result' # c
      => c \in told \/ ~up

CancelHitsItsTarget == [][WithdrawalWasAsked]_vars

\* native-generation.md: cancellation or helper death leaves the prior accepted
\* result unchanged.  The stored findings go only when newer ones are accepted,
\* when their type is given up, or with the Session.
FindingsGiveWay ==
  result # None /\ <<result, input>>' # <<result, input>> =>
    \/ /\ result' # None
       /\ answer[result'] = "completed"
       /\ input' = revision /\ input' = seen[result']
    \/ type' # type
    \/ ~exists'

FindingsSurviveFailures == [][FindingsGiveWay]_vars

\* An attempt harms neither another attempt nor what is stored.
AttemptsAreContained == CancelHitsItsTarget /\ FindingsSurviveFailures

\* Every generation leaves the processing state.
GenerationEnds ==
  status = "processing" ~> (status # "processing" \/ stranded # {} \/ ~up)

\* A call whose token is set gives the lease back.
CancelledCallReturns ==
  \A c \in Calls : (c \in told /\ lease = c) ~> lease # c

\* Neither the row nor the lease is kept for ever (GenerationLease::drop,
\* VerifiableRecordRepository::finish_error).
GenerationsEnd == GenerationEnds /\ CancelledCallReturns

-----------------------------------------------------------------------------
(* The inductive invariant behind the safety properties *)

\* The lease belongs to the one call that is between its reservation and its
\* return.
LeaseInv ==
  /\ \A c \in Calls : pc[c] \in Leased <=> lease = c
  /\ ~up => lease = None

\* What the row says of the calls.
RowInv ==
  /\ ProcessingRowHasItsCall
  /\ \A c \in Calls : Processing(c) => basis = seen[c] /\ type = kind[c]
  /\ \A c \in Calls : pc[c] \in {"new", "leased", "snapshot"} => ~Processing(c)
  /\ ~exists => status = "absent" /\ result = None

\* What the result is, and the revisions a call has seen on its way to it.
ResultInv ==
  /\ result = None <=> input = None
  /\ status = "completed" => result # None
  /\ result # None => /\ input = seen[result]
                      /\ kind[result] = type
                      /\ answer[result] = "completed"
                      /\ pc[result] \in {"finished", "ended"}
                      /\ ~Processing(result)
  /\ \A c \in Calls :
       /\ pc[c] = "leased" => expected[c] <= revision
       /\ pc[c] = "snapshot" => /\ expected[c] <= seen[c] /\ seen[c] <= revision
                                /\ type = kind[c] \/ result = None

\* A withdrawn call does not process, and cannot begin again.
WithdrawnInv ==
  /\ WithdrawnCallIsNeverAccepted
  /\ \A c \in bound : pc[c] \notin {"new", "leased", "snapshot", "begun"}
  /\ withdrawn \subseteq bound
  /\ \A c \in withdrawn : ~Processing(c)

\* A call withdraws itself only if its token is set.
AnswerInv ==
  \A c \in Calls : answer[c] = "cancelled" => c \in told

IInv == TypeOK /\ LeaseInv /\ RowInv /\ ResultInv /\ WithdrawnInv /\ AnswerInv
=============================================================================
