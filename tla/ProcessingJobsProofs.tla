------------------------ MODULE ProcessingJobsProofs ------------------------
(***************************************************************************)
(* Proofs about ProcessingJobs: type correctness, the inductive invariant  *)
(* that ties the gate, the rows and the cancellations together, and the    *)
(* safety properties that follow from it, for any number of commands,      *)
(* Sessions and audio origins.                                             *)
(***************************************************************************)
EXTENDS ProcessingJobs, TLAPS

LEMMA SilenceType == Silence \in Manifests
  BY ConstantsAssumption DEF Silence, Manifests

LEMMA ManifestType == TypeOK => \A m \in Meetings : Manifest(m) \in Manifests
  BY ConstantsAssumption DEF TypeOK, Manifest, Manifests

LEMMA InitType == Init => TypeOK
  BY SilenceType, ConstantsAssumption
  DEF Init, TypeOK, Gates, PCs, Statuses, Errors, Warnings

\* Where the command stands and what it remembers have their types.
LocalsOK ==
  /\ pc \in [Jobs -> PCs]
  /\ \A j \in Jobs : pc[j] # "new" => session[j] \in Meetings
  /\ todo \in [Jobs -> SUBSET Origins]
  /\ heard \in [Jobs -> Manifests]
  /\ failed \in [Jobs -> SUBSET Origins]
  /\ labelled \in [Jobs -> BOOLEAN]
  /\ problem \in [Jobs -> Errors]

LEMMA StayType ==
  ASSUME TypeOK, NEW j \in Jobs, pc[j] # "new", NEW label \in PCs,
         Goto(j, label), UNCHANGED <<session, memory>>
  PROVE  LocalsOK'
  BY DEF TypeOK, LocalsOK, Goto, memory

LEMMA ForgetType ==
  ASSUME TypeOK, NEW j \in Jobs, pc[j] # "new", NEW label \in PCs, NEW error \in Errors,
         Goto(j, label), Forget(j, error), UNCHANGED session
  PROVE  LocalsOK'
  BY SilenceType DEF TypeOK, LocalsOK, Goto, Forget

LEMMA FailType ==
  ASSUME TypeOK, NEW j \in Jobs, pc[j] # "new", NEW error \in Errors,
         Fail(j, error), UNCHANGED session
  PROVE  LocalsOK'
  BY ForgetType DEF Fail, PCs, Inside, Unwinding

LEMMA EndType ==
  ASSUME TypeOK, NEW j \in Jobs, pc[j] # "new", End(j), UNCHANGED session
  PROVE  LocalsOK'
  BY ForgetType DEF End, PCs, Errors

\* Every action keeps every variable in its type.
LEMMA StepType == TypeOK /\ [Next]_vars => TypeOK'
  <1> SUFFICES ASSUME TypeOK, [Next]_vars PROVE TypeOK'
    OBVIOUS
  <1> USE DEF row, verdict, record, audio, ghosts
  <1>1. ASSUME NEW j \in Jobs, NEW m \in Meetings, StartCommand(j, m) PROVE TypeOK'
    BY <1>1
    DEF StartCommand, TypeOK, Goto, memory, PCs
  <1>2. ASSUME NEW j \in Jobs, NEW m \in Meetings, StartFromImport(j, m) PROVE TypeOK'
    BY <1>2
    DEF StartFromImport, TypeOK, Goto, memory, PCs
  <1>3. ASSUME NEW j \in Jobs, DiscoverOrigins(j) PROVE TypeOK'
    BY <1>3, ManifestType
    DEF DiscoverOrigins, TypeOK, Goto, PCs, Missing
  <1>4. ASSUME NEW j \in Jobs, RefuseStart(j) PROVE TypeOK'
    <2>1. LocalsOK'
      BY <1>4, EndType
      DEF RefuseStart
    <2> QED
      BY <2>1, <1>4
      DEF RefuseStart, LocalsOK, TypeOK
  <1>5. ASSUME NEW j \in Jobs, InsertRow(j) PROVE TypeOK'
    <2>1. LocalsOK'
      BY <1>5, StayType
      DEF InsertRow, Insert, PCs
    <2> QED
      BY <2>1, <1>5
      DEF InsertRow, LocalsOK, TypeOK, Insert, Statuses
  <1>6. ASSUME NEW j \in Jobs, InsertRowUnread(j) PROVE TypeOK'
    <2>1. LocalsOK'
      BY <1>6, EndType
      DEF InsertRowUnread, Insert
    <2> QED
      BY <2>1, <1>6
      DEF InsertRowUnread, LocalsOK, TypeOK, Insert, Statuses
  <1>7. ASSUME NEW j \in Jobs, AcquireGate(j) PROVE TypeOK'
    <2>1. LocalsOK'
      BY <1>7, StayType
      DEF AcquireGate, PCs, Inside, Cancellable
    <2> QED
      BY <2>1, <1>7
      DEF AcquireGate, LocalsOK, TypeOK, Gates
  <1>8. ASSUME NEW j \in Jobs, GateRefused(j) PROVE TypeOK'
    <2>1. LocalsOK'
      BY <1>8, StayType
      DEF GateRefused, PCs
    <2> QED
      BY <2>1, <1>8
      DEF GateRefused, LocalsOK, TypeOK
  <1>9. ASSUME NEW j \in Jobs, RecordRefusal(j) PROVE TypeOK'
    <2>1. LocalsOK'
      BY <1>9, EndType
      DEF RecordRefusal
    <2> QED
      BY <2>1, <1>9
      DEF RecordRefusal, LocalsOK, TypeOK, CloseRow, Statuses, Errors
  <1>10. ASSUME NEW j \in Jobs, SnapshotParticipants(j) PROVE TypeOK'
    <2>1. LocalsOK'
      BY <1>10, StayType, FailType
      DEF SnapshotParticipants, PCs, Inside, Cancellable, Errors
    <2> QED
      BY <2>1, <1>10
      DEF SnapshotParticipants, LocalsOK, TypeOK
  <1>11. ASSUME NEW j \in Jobs, NEW o \in Origins, OpenOrigin(j, o) PROVE TypeOK'
    BY <1>11, ConstantsAssumption
    DEF OpenOrigin, TypeOK, Goto, memory, PCs, Inside, Cancellable, Manifests
  <1>12. ASSUME NEW j \in Jobs, NEW o \in Origins, OriginFails(j, o) PROVE TypeOK'
    <2>1. CASE gate = "cancel_requested"
      <3>1. LocalsOK'
        BY <1>12, <2>1, FailType DEF OriginFails, Errors
      <3> QED
        BY <3>1, <1>12 DEF OriginFails, LocalsOK, TypeOK
    <2>2. CASE gate # "cancel_requested"
      <3>1. /\ todo' = [todo EXCEPT ![j] = @ \ {o}]
            /\ failed' = [failed EXCEPT ![j] = @ \cup {o}]
            /\ heard' = [heard EXCEPT ![j][o] = 0]
            /\ Goto(j, "processing")
            /\ UNCHANGED <<labelled, problem>>
            /\ pc[j] # "new"
            /\ UNCHANGED <<up, gate, row, record, audio, ghosts>>
        BY <1>12, <2>2 DEF OriginFails
      <3>2. heard' \in [Jobs -> Manifests]
        BY <3>1, ConstantsAssumption DEF TypeOK, Manifests
      <3> QED
        BY <3>1, <3>2 DEF TypeOK, Goto, PCs, Inside, Cancellable
    <2> QED
      BY <2>1, <2>2
  <1>13. ASSUME NEW j \in Jobs, FinishOrigin(j) PROVE TypeOK'
    BY <1>13
    DEF FinishOrigin, TypeOK, Goto, PCs, Inside, Cancellable
  <1>14. ASSUME NEW j \in Jobs, OriginCancelled(j) PROVE TypeOK'
    <2>1. LocalsOK'
      BY <1>14, FailType
      DEF OriginCancelled, Errors
    <2> QED
      BY <2>1, <1>14
      DEF OriginCancelled, LocalsOK, TypeOK
  <1>15. ASSUME NEW j \in Jobs, CombineOrigins(j) PROVE TypeOK'
    <2>1. LocalsOK'
      BY <1>15, StayType, FailType
      DEF CombineOrigins, PCs, Inside, Cancellable, Errors
    <2> QED
      BY <2>1, <1>15
      DEF CombineOrigins, LocalsOK, TypeOK
  <1>16. ASSUME NEW j \in Jobs, VerifySource(j) PROVE TypeOK'
    <2>1. LocalsOK'
      BY <1>16, StayType, FailType
      DEF VerifySource, PCs, Inside, Cancellable, Errors
    <2> QED
      BY <2>1, <1>16
      DEF VerifySource, LocalsOK, TypeOK
  <1>17. ASSUME NEW j \in Jobs, ClaimSave(j) PROVE TypeOK'
    <2>1. LocalsOK'
      BY <1>17, StayType, FailType
      DEF ClaimSave, PCs, Inside, Saving, Errors
    <2> QED
      BY <2>1, <1>17
      DEF ClaimSave, LocalsOK, TypeOK, Gates
  <1>18. ASSUME NEW j \in Jobs, RecordWarning(j) PROVE TypeOK'
    <2>1. LocalsOK'
      BY <1>18, StayType, FailType
      DEF RecordWarning, PCs, Inside, Saving, Errors
    <2> QED
      BY <2>1, <1>18
      DEF RecordWarning, LocalsOK, TypeOK, WarningOf, Warnings
  <1>19. ASSUME NEW j \in Jobs, CommitTranscript(j) PROVE TypeOK'
    <2>1. LocalsOK'
      BY <1>19, StayType
      DEF CommitTranscript, PCs, Inside, Saving
    <2> QED
      BY <2>1, <1>19, ConstantsAssumption
      DEF CommitTranscript, LocalsOK, TypeOK, ReplaceTranscript, Statuses
  <1>20. ASSUME NEW j \in Jobs, CommitFails(j) PROVE TypeOK'
    <2>1. LocalsOK'
      BY <1>20, FailType
      DEF CommitFails, Errors
    <2> QED
      BY <2>1, <1>20
      DEF CommitFails, LocalsOK, TypeOK
  <1>21. ASSUME NEW j \in Jobs, RecordFailure(j) PROVE TypeOK'
    <2>1. LocalsOK'
      BY <1>21, ForgetType
      DEF RecordFailure, PCs, Inside, Unwinding, Errors
    <2> QED
      BY <2>1, <1>21
      DEF RecordFailure, LocalsOK, TypeOK, CloseRow, Errors, Statuses
  <1>22. ASSUME NEW j \in Jobs, CloseRowRefused(j) PROVE TypeOK'
    <2>1. LocalsOK'
      BY <1>22, ForgetType
      DEF CloseRowRefused, PCs, Inside, Unwinding, Errors
    <2> QED
      BY <2>1, <1>22
      DEF CloseRowRefused, LocalsOK, TypeOK
  <1>23. ASSUME NEW j \in Jobs, ReleaseGate(j) PROVE TypeOK'
    <2>1. LocalsOK'
      BY <1>23, EndType
      DEF ReleaseGate
    <2> QED
      BY <2>1, <1>23
      DEF ReleaseGate, LocalsOK, TypeOK, Gates
  <1>24. ASSUME CancelRetranscription PROVE TypeOK'
    BY <1>24
    DEF CancelRetranscription, TypeOK, memory, Gates
  <1>25. ASSUME NEW m \in Meetings, SaveCorrection(m) PROVE TypeOK'
    BY <1>25
    DEF SaveCorrection, TypeOK, memory
  <1>26. ASSUME NEW m \in Meetings, DeleteMeeting(m) PROVE TypeOK'
    BY <1>26, SilenceType, ConstantsAssumption
    DEF DeleteMeeting, TypeOK, memory, Statuses
  <1>27. ASSUME NEW m \in Meetings, NEW o \in Origins, ChangeAudio(m, o) PROVE TypeOK'
    <2>1. present' \in [Meetings -> SUBSET Origins]
      BY <1>27 DEF ChangeAudio, TypeOK
    <2>2. take' \in [Meetings -> [Origins -> 1..MaxTake]]
      <3>1. CASE take' = [take EXCEPT ![m][o] = @ + 1] /\ take[m][o] < MaxTake
        BY <3>1, ConstantsAssumption DEF TypeOK
      <3>2. CASE UNCHANGED take
        BY <3>2 DEF TypeOK
      <3> QED
        BY <1>27, <3>1, <3>2 DEF ChangeAudio
    <2> QED
      BY <2>1, <2>2, <1>27 DEF ChangeAudio, TypeOK, memory
  <1>28. ASSUME Crash PROVE TypeOK'
    BY <1>28, SilenceType
    DEF Crash, TypeOK, Gates, PCs, Errors
  <1>29. ASSUME Restart PROVE TypeOK'
    BY <1>29
    DEF Restart, TypeOK, memory, Statuses, Errors
  <1>30. CASE UNCHANGED vars
    BY <1>30 DEF vars, memory, TypeOK
  <1> QED
    BY <1>1, <1>2, <1>3, <1>4, <1>5, <1>6, <1>7, <1>8, <1>9, <1>10, <1>11, <1>12,
       <1>13, <1>14, <1>15, <1>16, <1>17, <1>18, <1>19, <1>20, <1>21, <1>22,
       <1>23, <1>24, <1>25, <1>26, <1>27, <1>28, <1>29, <1>30
    DEF Next, Step

\* Every variable keeps its type: no update ever stores an error code where a
\* status belongs, and no commit leaves a Session without an author.
THEOREM TypeCorrect == Spec => []TypeOK
  BY InitType, StepType, PTL DEF Spec

\* No step lets a second worker in, or leaves the gate shut behind the last one.
LEMMA GateStep == TypeOK /\ GateInv /\ [Next]_vars => GateInv'
  <1> SUFFICES ASSUME TypeOK, GateInv, [Next]_vars PROVE GateInv'
    OBVIOUS
  <1> USE DEF TypeOK, GateInv, GateHeldByOneWorker, Goto, Running, memory, row,
              verdict, record, audio, ghosts,
             PCs, Inside, Cancellable, Saving, Unwinding, Responsible
  <1>1. ASSUME NEW j \in Jobs, NEW m \in Meetings, StartCommand(j, m) PROVE GateInv'
    BY <1>1 DEF StartCommand
  <1>2. ASSUME NEW j \in Jobs, NEW m \in Meetings, StartFromImport(j, m) PROVE GateInv'
    BY <1>2 DEF StartFromImport
  <1>3. ASSUME NEW j \in Jobs, DiscoverOrigins(j) PROVE GateInv'
    BY <1>3 DEF DiscoverOrigins
  <1>4. ASSUME NEW j \in Jobs, RefuseStart(j) PROVE GateInv'
    BY <1>4 DEF RefuseStart, End, Forget
  <1>5. ASSUME NEW j \in Jobs, InsertRow(j) PROVE GateInv'
    BY <1>5 DEF InsertRow, Insert
  <1>6. ASSUME NEW j \in Jobs, InsertRowUnread(j) PROVE GateInv'
    BY <1>6 DEF InsertRowUnread, Insert, End, Forget
  <1>7. ASSUME NEW j \in Jobs, AcquireGate(j) PROVE GateInv'
    BY <1>7 DEF AcquireGate
  <1>8. ASSUME NEW j \in Jobs, GateRefused(j) PROVE GateInv'
    BY <1>8 DEF GateRefused
  <1>9. ASSUME NEW j \in Jobs, RecordRefusal(j) PROVE GateInv'
    BY <1>9 DEF RecordRefusal, CloseRow, End, Forget
  <1>10. ASSUME NEW j \in Jobs, SnapshotParticipants(j) PROVE GateInv'
    BY <1>10 DEF SnapshotParticipants, Fail, Forget
  <1>11. ASSUME NEW j \in Jobs, NEW o \in Origins, OpenOrigin(j, o) PROVE GateInv'
    BY <1>11 DEF OpenOrigin
  <1>12. ASSUME NEW j \in Jobs, NEW o \in Origins, OriginFails(j, o) PROVE GateInv'
    BY <1>12 DEF OriginFails, Fail, Forget
  <1>13. ASSUME NEW j \in Jobs, FinishOrigin(j) PROVE GateInv'
    BY <1>13 DEF FinishOrigin
  <1>14. ASSUME NEW j \in Jobs, OriginCancelled(j) PROVE GateInv'
    BY <1>14 DEF OriginCancelled, Fail, Forget
  <1>15. ASSUME NEW j \in Jobs, CombineOrigins(j) PROVE GateInv'
    BY <1>15 DEF CombineOrigins, Fail, Forget
  <1>16. ASSUME NEW j \in Jobs, VerifySource(j) PROVE GateInv'
    BY <1>16 DEF VerifySource, Fail, Forget
  <1>17. ASSUME NEW j \in Jobs, ClaimSave(j) PROVE GateInv'
    <2>1. CASE gate = "processing"
      BY <1>17, <2>1 DEF ClaimSave, Fail
    <2>2. CASE gate # "processing"
      BY <1>17, <2>2 DEF ClaimSave, Fail
    <2> QED
      BY <2>1, <2>2
  <1>18. ASSUME NEW j \in Jobs, RecordWarning(j) PROVE GateInv'
    BY <1>18 DEF RecordWarning, Fail, Forget
  <1>19. ASSUME NEW j \in Jobs, CommitTranscript(j) PROVE GateInv'
    BY <1>19 DEF CommitTranscript, ReplaceTranscript
  <1>20. ASSUME NEW j \in Jobs, CommitFails(j) PROVE GateInv'
    <2>1. pc[j] = "warned" /\ Goto(j, "failing") /\ UNCHANGED <<up, gate>>
      BY <1>20 DEF CommitFails, Fail
    <2> QED
      BY <2>1
  <1>21. ASSUME NEW j \in Jobs, RecordFailure(j) PROVE GateInv'
    BY <1>21 DEF RecordFailure, CloseRow, Forget
  <1>22. ASSUME NEW j \in Jobs, CloseRowRefused(j) PROVE GateInv'
    BY <1>22 DEF CloseRowRefused, Forget
  <1>23. ASSUME NEW j \in Jobs, ReleaseGate(j) PROVE GateInv'
    BY <1>23 DEF ReleaseGate, End, Forget
  <1>24. ASSUME CancelRetranscription PROVE GateInv'
    BY <1>24 DEF CancelRetranscription
  <1>25. ASSUME Crash PROVE GateInv'
    BY <1>25 DEF Crash
  <1>26. ASSUME Restart PROVE GateInv'
    BY <1>26 DEF Restart, Interruptible
  <1>27. CASE UNCHANGED <<up, gate, pc>>
    BY <1>27
  <1> QED
    BY <1>1, <1>2, <1>3, <1>4, <1>5, <1>6, <1>7, <1>8, <1>9, <1>10, <1>11, <1>12,
       <1>13, <1>14, <1>15, <1>16, <1>17, <1>18, <1>19, <1>20, <1>21, <1>22,
       <1>23, <1>24, <1>25, <1>26, <1>27
    DEF Next, Step, vars, SaveCorrection, DeleteMeeting, ChangeAudio

\* No step abandons a running row.
LEMMA RowStep == TypeOK /\ GateInv /\ RowInv /\ [Next]_vars => RowInv'
  <1> SUFFICES ASSUME TypeOK, GateInv, RowInv, [Next]_vars PROVE RowInv'
    OBVIOUS
  <1> USE DEF TypeOK, GateInv, RowInv, RunningRowHasItsWorker, Goto, Running,
              memory, row, verdict, record, audio, ghosts,
             PCs, Inside, Cancellable, Saving, Unwinding, Responsible
  <1>1. ASSUME NEW j \in Jobs, NEW m \in Meetings, StartCommand(j, m) PROVE RowInv'
    BY <1>1 DEF StartCommand
  <1>2. ASSUME NEW j \in Jobs, NEW m \in Meetings, StartFromImport(j, m) PROVE RowInv'
    BY <1>2 DEF StartFromImport
  <1>3. ASSUME NEW j \in Jobs, DiscoverOrigins(j) PROVE RowInv'
    BY <1>3 DEF DiscoverOrigins
  <1>4. ASSUME NEW j \in Jobs, RefuseStart(j) PROVE RowInv'
    BY <1>4 DEF RefuseStart, End, Forget
  <1>5. ASSUME NEW j \in Jobs, InsertRow(j) PROVE RowInv'
    BY <1>5 DEF InsertRow, Insert
  <1>6. ASSUME NEW j \in Jobs, InsertRowUnread(j) PROVE RowInv'
    BY <1>6 DEF InsertRowUnread, Insert, End, Forget
  <1>7. ASSUME NEW j \in Jobs, AcquireGate(j) PROVE RowInv'
    BY <1>7 DEF AcquireGate
  <1>8. ASSUME NEW j \in Jobs, GateRefused(j) PROVE RowInv'
    BY <1>8 DEF GateRefused
  <1>9. ASSUME NEW j \in Jobs, RecordRefusal(j) PROVE RowInv'
    BY <1>9 DEF RecordRefusal, CloseRow, End, Forget
  <1>10. ASSUME NEW j \in Jobs, SnapshotParticipants(j) PROVE RowInv'
    BY <1>10 DEF SnapshotParticipants, Fail, Forget
  <1>11. ASSUME NEW j \in Jobs, NEW o \in Origins, OpenOrigin(j, o) PROVE RowInv'
    BY <1>11 DEF OpenOrigin
  <1>12. ASSUME NEW j \in Jobs, NEW o \in Origins, OriginFails(j, o) PROVE RowInv'
    BY <1>12 DEF OriginFails, Fail, Forget
  <1>13. ASSUME NEW j \in Jobs, FinishOrigin(j) PROVE RowInv'
    BY <1>13 DEF FinishOrigin
  <1>14. ASSUME NEW j \in Jobs, OriginCancelled(j) PROVE RowInv'
    BY <1>14 DEF OriginCancelled, Fail, Forget
  <1>15. ASSUME NEW j \in Jobs, CombineOrigins(j) PROVE RowInv'
    BY <1>15 DEF CombineOrigins, Fail, Forget
  <1>16. ASSUME NEW j \in Jobs, VerifySource(j) PROVE RowInv'
    BY <1>16 DEF VerifySource, Fail, Forget
  <1>17. ASSUME NEW j \in Jobs, ClaimSave(j) PROVE RowInv'
    BY <1>17 DEF ClaimSave, Fail, Forget
  <1>18. ASSUME NEW j \in Jobs, RecordWarning(j) PROVE RowInv'
    BY <1>18 DEF RecordWarning, Fail, Forget
  <1>19. ASSUME NEW j \in Jobs, CommitTranscript(j) PROVE RowInv'
    BY <1>19 DEF CommitTranscript, ReplaceTranscript
  <1>20. ASSUME NEW j \in Jobs, CommitFails(j) PROVE RowInv'
    BY <1>20 DEF CommitFails, Fail, Forget
  <1>21. ASSUME NEW j \in Jobs, RecordFailure(j) PROVE RowInv'
    BY <1>21 DEF RecordFailure, CloseRow, Forget
  <1>22. ASSUME NEW j \in Jobs, CloseRowRefused(j) PROVE RowInv'
    BY <1>22 DEF CloseRowRefused, Forget
  <1>23. ASSUME NEW j \in Jobs, ReleaseGate(j) PROVE RowInv'
    BY <1>23 DEF ReleaseGate, End, Forget
  <1>24. ASSUME NEW m \in Meetings, DeleteMeeting(m) PROVE RowInv'
    BY <1>24 DEF DeleteMeeting
  <1>25. ASSUME Crash PROVE RowInv'
    BY <1>25 DEF Crash
  <1>26. ASSUME Restart PROVE RowInv'
    BY <1>26 DEF Restart, Interruptible
  <1>27. CASE UNCHANGED <<up, pc, status, stranded>>
    BY <1>27
  <1> QED
    BY <1>1, <1>2, <1>3, <1>4, <1>5, <1>6, <1>7, <1>8, <1>9, <1>10, <1>11, <1>12,
       <1>13, <1>14, <1>15, <1>16, <1>17, <1>18, <1>19, <1>20, <1>21, <1>22,
       <1>23, <1>24, <1>25, <1>26, <1>27
    DEF Next, Step, vars, SaveCorrection, ChangeAudio, CancelRetranscription

\* No step completes a cancelled job, or records a cancellation nobody asked for.
LEMMA CancelStep == TypeOK /\ GateInv /\ RowInv /\ CancelInv /\ [Next]_vars => CancelInv'
  <1> SUFFICES ASSUME TypeOK, GateInv, RowInv, CancelInv, [Next]_vars PROVE CancelInv'
    OBVIOUS
  <1> USE DEF TypeOK, GateInv, GateHeldByOneWorker, RowInv, CancelInv,
              CancelledJobWritesNothing, CancellationHitsItsTarget, Goto, Running,
              memory, row, verdict, record, audio, ghosts,
             PCs, Inside, Cancellable, Saving, Unwinding, Responsible
  <1>1. ASSUME NEW j \in Jobs, NEW m \in Meetings, StartCommand(j, m) PROVE CancelInv'
    BY <1>1 DEF StartCommand
  <1>2. ASSUME NEW j \in Jobs, NEW m \in Meetings, StartFromImport(j, m) PROVE CancelInv'
    BY <1>2 DEF StartFromImport
  <1>3. ASSUME NEW j \in Jobs, DiscoverOrigins(j) PROVE CancelInv'
    BY <1>3 DEF DiscoverOrigins
  <1>4. ASSUME NEW j \in Jobs, RefuseStart(j) PROVE CancelInv'
    BY <1>4 DEF RefuseStart, End, Forget
  <1>5. ASSUME NEW j \in Jobs, InsertRow(j) PROVE CancelInv'
    BY <1>5 DEF InsertRow, Insert
  <1>6. ASSUME NEW j \in Jobs, InsertRowUnread(j) PROVE CancelInv'
    BY <1>6 DEF InsertRowUnread, Insert, End, Forget
  <1>7. ASSUME NEW j \in Jobs, AcquireGate(j) PROVE CancelInv'
    BY <1>7 DEF AcquireGate
  <1>8. ASSUME NEW j \in Jobs, GateRefused(j) PROVE CancelInv'
    BY <1>8 DEF GateRefused
  <1>9. ASSUME NEW j \in Jobs, RecordRefusal(j) PROVE CancelInv'
    BY <1>9 DEF RecordRefusal, CloseRow, End, Forget
  <1>10. ASSUME NEW j \in Jobs, SnapshotParticipants(j) PROVE CancelInv'
    BY <1>10 DEF SnapshotParticipants, Fail, Forget
  <1>11. ASSUME NEW j \in Jobs, NEW o \in Origins, OpenOrigin(j, o) PROVE CancelInv'
    BY <1>11 DEF OpenOrigin
  <1>12. ASSUME NEW j \in Jobs, NEW o \in Origins, OriginFails(j, o) PROVE CancelInv'
    BY <1>12 DEF OriginFails, Fail, Forget
  <1>13. ASSUME NEW j \in Jobs, FinishOrigin(j) PROVE CancelInv'
    BY <1>13 DEF FinishOrigin
  <1>14. ASSUME NEW j \in Jobs, OriginCancelled(j) PROVE CancelInv'
    BY <1>14 DEF OriginCancelled, Fail, Forget
  <1>15. ASSUME NEW j \in Jobs, CombineOrigins(j) PROVE CancelInv'
    BY <1>15 DEF CombineOrigins, Fail, Forget
  <1>16. ASSUME NEW j \in Jobs, VerifySource(j) PROVE CancelInv'
    BY <1>16 DEF VerifySource, Fail, Forget
  <1>17. ASSUME NEW j \in Jobs, ClaimSave(j) PROVE CancelInv'
    BY <1>17 DEF ClaimSave, Fail, Forget
  <1>18. ASSUME NEW j \in Jobs, RecordWarning(j) PROVE CancelInv'
    BY <1>18 DEF RecordWarning, Fail, Forget
  <1>19. ASSUME NEW j \in Jobs, CommitTranscript(j) PROVE CancelInv'
    BY <1>19 DEF CommitTranscript, ReplaceTranscript
  <1>20. ASSUME NEW j \in Jobs, CommitFails(j) PROVE CancelInv'
    BY <1>20 DEF CommitFails, Fail, Forget
  <1>21. ASSUME NEW j \in Jobs, RecordFailure(j) PROVE CancelInv'
    BY <1>21 DEF RecordFailure, CloseRow, Forget
  <1>22. ASSUME NEW j \in Jobs, CloseRowRefused(j) PROVE CancelInv'
    BY <1>22 DEF CloseRowRefused, Forget
  <1>23. ASSUME NEW j \in Jobs, ReleaseGate(j) PROVE CancelInv'
    BY <1>23 DEF ReleaseGate, End, Forget
  <1>24. ASSUME CancelRetranscription PROVE CancelInv'
    <2>1. CancelledJobWritesNothing'
      <3> SUFFICES ASSUME NEW j \in Jobs, pc[j] \in Inside, gate = "processing"
                   PROVE  status[j] # "completed" /\ \A m \in Meetings : author[m] # j
        BY <1>24 DEF CancelRetranscription
      <3> QED
        OBVIOUS
    <2>2. CancellationHitsItsTarget'
      BY <1>24 DEF CancelRetranscription
    <2> QED
      BY <2>1, <2>2, <1>24 DEF CancelRetranscription
  <1>25. ASSUME NEW m \in Meetings, DeleteMeeting(m) PROVE CancelInv'
    <2>1. ASSUME NEW n \in Meetings, NEW j \in Jobs, author'[n] = j
          PROVE  status'[j] = "completed" /\ session'[j] = n
      BY <1>25, <2>1, ConstantsAssumption DEF DeleteMeeting
    <2>2. CancelledJobWritesNothing'
      BY <1>25, ConstantsAssumption DEF DeleteMeeting
    <2>3. CancellationHitsItsTarget'
      BY <1>25 DEF DeleteMeeting
    <2> QED
      BY <2>1, <2>2, <2>3, <1>25 DEF DeleteMeeting
  <1>26. ASSUME Crash PROVE CancelInv'
    BY <1>26 DEF Crash
  <1>27. ASSUME Restart PROVE CancelInv'
    BY <1>27 DEF Restart, Interruptible
  <1>28. CASE UNCHANGED <<gate, pc, session, status, code, problem, author, cancelled>>
    BY <1>28
  <1> QED
    BY <1>1, <1>2, <1>3, <1>4, <1>5, <1>6, <1>7, <1>8, <1>9, <1>10, <1>11, <1>12,
       <1>13, <1>14, <1>15, <1>16, <1>17, <1>18, <1>19, <1>20, <1>21, <1>22,
       <1>23, <1>24, <1>25, <1>26, <1>27, <1>28
    DEF Next, Step, vars, SaveCorrection, ChangeAudio

LEMMA InitInv == Init => IInv
  <1> SUFFICES ASSUME Init PROVE IInv
    OBVIOUS
  <1>1. TypeOK
    BY InitType
  <1>2. GateInv
    BY DEF Init, GateInv, GateHeldByOneWorker, Inside, Cancellable, Saving, Unwinding
  <1>3. RowInv
    BY DEF Init, RowInv, RunningRowHasItsWorker, Running, Responsible, Inside,
           Cancellable, Saving, Unwinding
  <1>4. CancelInv
    BY ConstantsAssumption
    DEF Init, CancelInv, CancelledJobWritesNothing, CancellationHitsItsTarget, Inside,
        Cancellable, Saving, Unwinding
  <1> QED
    BY <1>1, <1>2, <1>3, <1>4 DEF IInv

LEMMA StepInv == IInv /\ [Next]_vars => IInv'
  BY StepType, GateStep, RowStep, CancelStep DEF IInv

\* The gate, the rows and the cancellations agree at every step of every
\* interleaving: the invariant the theorems below are read off.
THEOREM Invariance == Spec => []IInv
  BY InitInv, StepInv, PTL DEF Spec

\* At most one worker is past RetranscriptionGuard::acquire, and the gate is
\* shut exactly while one is.
THEOREM OneWorker == Spec => []GateHeldByOneWorker
  <1>1. IInv => GateHeldByOneWorker
    BY DEF IInv, GateInv
  <1> QED
    BY <1>1, Invariance, PTL

\* No interleaving leaves a running row behind without a command that closes
\* it, a refused storage call, or a restart still to come.
THEOREM NoAbandonedRow == Spec => []RunningRowHasItsWorker
  <1>1. IInv => RunningRowHasItsWorker
    BY DEF IInv, RowInv
  <1> QED
    BY <1>1, Invariance, PTL

\* A worker whose cancellation was accepted never completes its row and never
\* replaces a transcript.
THEOREM CancellationWins == Spec => []CancelledJobWritesNothing
  <1>1. IInv => CancelledJobWritesNothing
    BY DEF IInv, CancelInv
  <1> QED
    BY <1>1, Invariance, PTL

\* A row that says "cancelled" belongs to a worker that was cancelled.
THEOREM CancellationIsNotInherited == Spec => []CancellationHitsItsTarget
  <1>1. IInv => CancellationHitsItsTarget
    BY DEF IInv, CancelInv
  <1> QED
    BY <1>1, Invariance, PTL

\* A cancellation ends the worker it hit, and no other.
THEOREM CancellationHits == Spec => []CancellationIsExact
  BY CancellationWins, CancellationIsNotInherited, PTL DEF CancellationIsExact

\* A closed row is rewritten by no step.
LEMMA VerdictStep == TypeOK /\ GateInv /\ RowInv /\ [Next]_vars => VerdictsStay
  <1> SUFFICES ASSUME TypeOK, GateInv, RowInv, [Next]_vars PROVE VerdictsStay
    OBVIOUS
  <1> USE DEF TypeOK, GateInv, RowInv, VerdictsStay, Goto, Running, memory, row,
              verdict, record, audio, ghosts,
             PCs, Inside, Cancellable, Saving, Unwinding, Responsible
  <1>1. ASSUME NEW j \in Jobs, NEW m \in Meetings, StartCommand(j, m) PROVE VerdictsStay
    BY <1>1 DEF StartCommand
  <1>2. ASSUME NEW j \in Jobs, NEW m \in Meetings, StartFromImport(j, m) PROVE VerdictsStay
    BY <1>2 DEF StartFromImport
  <1>3. ASSUME NEW j \in Jobs, InsertRow(j) PROVE VerdictsStay
    BY <1>3 DEF InsertRow, Insert
  <1>4. ASSUME NEW j \in Jobs, InsertRowUnread(j) PROVE VerdictsStay
    BY <1>4 DEF InsertRowUnread, Insert, End, Forget
  <1>5. ASSUME NEW j \in Jobs, RecordRefusal(j) PROVE VerdictsStay
    BY <1>5 DEF RecordRefusal, CloseRow, End, Forget
  <1>6. ASSUME NEW j \in Jobs, RecordWarning(j) PROVE VerdictsStay
    BY <1>6 DEF RecordWarning, Fail, Forget
  <1>7. ASSUME NEW j \in Jobs, CommitTranscript(j) PROVE VerdictsStay
    BY <1>7 DEF CommitTranscript, ReplaceTranscript
  <1>8. ASSUME NEW j \in Jobs, RecordFailure(j) PROVE VerdictsStay
    BY <1>8 DEF RecordFailure, CloseRow, Forget
  <1>9. ASSUME NEW m \in Meetings, DeleteMeeting(m) PROVE VerdictsStay
    BY <1>9 DEF DeleteMeeting
  <1>10. ASSUME Restart PROVE VerdictsStay
    BY <1>10 DEF Restart, Interruptible
  <1>11. CASE UNCHANGED <<session, status, code, warning, exists>>
    BY <1>11
  <1> QED
    BY <1>1, <1>2, <1>3, <1>4, <1>5, <1>6, <1>7, <1>8, <1>9, <1>10, <1>11
    DEF Next, Step, vars, DiscoverOrigins, RefuseStart, AcquireGate, GateRefused,
        SnapshotParticipants, OpenOrigin, OriginFails, FinishOrigin,
        OriginCancelled, CombineOrigins, VerifySource, ClaimSave, CommitFails,
        CloseRowRefused, ReleaseGate, CancelRetranscription, SaveCorrection,
        ChangeAudio, Crash

\* Only a commit, a correction and a deletion touch a transcript or its revision.
LEMMA RevisionStep == TypeOK /\ [Next]_vars => RevisionMoves
  <1> SUFFICES ASSUME TypeOK, [Next]_vars PROVE RevisionMoves
    OBVIOUS
  <1> USE DEF TypeOK, RevisionMoves, Goto, Running, memory, row, verdict, record,
              audio, ghosts,
             PCs, Inside, Cancellable, Saving, Unwinding, Responsible
  <1>1. ASSUME NEW j \in Jobs, CommitTranscript(j) PROVE RevisionMoves
    BY <1>1 DEF CommitTranscript, ReplaceTranscript
  <1>2. ASSUME NEW m \in Meetings, SaveCorrection(m) PROVE RevisionMoves
    BY <1>2 DEF SaveCorrection
  <1>3. ASSUME NEW m \in Meetings, DeleteMeeting(m) PROVE RevisionMoves
    BY <1>3 DEF DeleteMeeting
  <1>4. CASE UNCHANGED <<exists, author, revision>>
    BY <1>4
  <1> QED
    BY <1>1, <1>2, <1>3, <1>4
    DEF Next, Step, vars, StartCommand, StartFromImport, DiscoverOrigins,
        RefuseStart, InsertRow, InsertRowUnread, AcquireGate, GateRefused,
        RecordRefusal, SnapshotParticipants, OpenOrigin, OriginFails,
        FinishOrigin, OriginCancelled, CombineOrigins, VerifySource, ClaimSave,
        RecordWarning, CommitFails, RecordFailure, CloseRowRefused, ReleaseGate,
        CancelRetranscription, ChangeAudio, Crash, Restart

\* No late worker and no recovery rewrites the verdict of a closed row.
THEOREM VerdictsAreFinal == Spec => ClosedRowsKeepTheirVerdict
  <1>1. IInv /\ [Next]_vars => [VerdictsStay]_vars
    BY VerdictStep DEF IInv
  <1> QED
    BY <1>1, Invariance, PTL DEF Spec, ClosedRowsKeepTheirVerdict

\* A transcript never changes hands under an old revision.
THEOREM RevisionsFollow == Spec => RevisionFollowsTranscript
  <1>1. TypeOK /\ [Next]_vars => [RevisionMoves]_vars
    BY RevisionStep
  <1> QED
    BY <1>1, TypeCorrect, PTL DEF Spec, RevisionFollowsTranscript

\* The Session a job of DurableJobs has: the one its row names.
RowSession == [j \in Jobs |-> IF status[j] = "absent" THEN None ELSE session[j]]

LEMMA PromiseInit == Init => Promise!Init
  BY DEF Init, Promise!Init

\* A closing update rejects a running job, or finds nothing to update.
LEMMA CloseIsReject ==
  ASSUME TypeOK, NEW j \in Jobs, NEW error \in Errors, CloseRow(j, error),
         UNCHANGED <<session, exists, author, revision>>
  PROVE  Promise!Reject(j) \/ UNCHANGED Promise!vars
  <1>1. CASE Running(j)
    <2>1. status[j] = "running" /\ status' = [status EXCEPT ![j] = "failed"]
      BY <1>1 DEF CloseRow, Running, TypeOK
    <2>2. RowSession' = RowSession
      BY <2>1 DEF RowSession, TypeOK
    <2> QED
      BY <2>1, <2>2 DEF Promise!Reject, RowSession
  <1>2. CASE ~Running(j)
    BY <1>2 DEF CloseRow, Promise!vars, TypeOK
  <1> QED
    BY <1>1, <1>2

\* An accepted insert reserves the job for a Session that is stored and idle.
LEMMA InsertIsReserve ==
  ASSUME TypeOK, RowInv, NEW j \in Jobs, Insert(j),
         UNCHANGED <<session, exists, author, revision>>
  PROVE  \E m \in Meetings : Promise!Reserve(j, m)
  <1> DEFINE m == session[j]
  <1>1. m \in Meetings /\ m \in exists /\ status[j] = "absent"
    BY DEF Insert, TypeOK, RowInv
  <1>2. \A k \in Jobs : ~(status[k] = "running" /\ RowSession[k] = m)
    BY DEF Insert, Running, RowSession
  <1>3. status' = [status EXCEPT ![j] = "running"]
    BY DEF Insert
  <1>4. RowSession' = [RowSession EXCEPT ![j] = m]
    BY <1>3 DEF RowSession, TypeOK
  <1> QED
    BY <1>1, <1>2, <1>3, <1>4 DEF Promise!Reserve, RowSession

LEMMA CommitIsComplete ==
  ASSUME TypeOK, NEW j \in Jobs, CommitTranscript(j)
  PROVE  Promise!Complete(j)
  <1>1. /\ status[j] = "running"
        /\ status' = [status EXCEPT ![j] = "completed"]
        /\ UNCHANGED <<session, exists>>
    BY DEF CommitTranscript, Running
  <1>2. RowSession' = RowSession /\ RowSession[j] = session[j]
    BY <1>1 DEF RowSession, TypeOK
  <1> QED
    BY <1>1, <1>2 DEF CommitTranscript, ReplaceTranscript, Promise!Complete,
       RowSession

LEMMA DeleteIsForget ==
  ASSUME TypeOK, NEW m \in Meetings, DeleteMeeting(m)
  PROVE  Promise!Forget(m)
  <1>1. status' = [j \in Jobs |-> IF RowSession[j] = m THEN "absent" ELSE status[j]]
    BY ConstantsAssumption DEF DeleteMeeting, RowSession, TypeOK
  <1>2. RowSession' = [j \in Jobs |-> IF RowSession[j] = m THEN None ELSE RowSession[j]]
    BY ConstantsAssumption DEF DeleteMeeting, RowSession, TypeOK
  <1> QED
    BY <1>1, <1>2 DEF DeleteMeeting, Promise!Forget, RowSession

LEMMA RestartIsInterrupt ==
  ASSUME TypeOK, Restart
  PROVE  Promise!Interrupt
  <1>1. RowSession' = RowSession
    BY DEF Restart, Interruptible, Running, RowSession, row, TypeOK
  <1> QED
    BY <1>1 DEF Restart, Interruptible, Running, Promise!Interrupt, RowSession, record

\* A start command names its Session before it has a row.
LEMMA StartIsStutter ==
  ASSUME TypeOK, RowInv, NEW j \in Jobs, NEW m \in Meetings,
         StartCommand(j, m) \/ StartFromImport(j, m)
  PROVE  UNCHANGED Promise!vars
  <1>1. /\ status[j] = "absent"
        /\ session' = [session EXCEPT ![j] = m]
        /\ UNCHANGED <<status, exists, author, revision>>
    BY DEF StartCommand, StartFromImport, RowInv, verdict, record
  <1>2. RowSession' = RowSession
    BY <1>1 DEF RowSession, TypeOK
  <1> QED
    BY <1>1, <1>2 DEF Promise!vars, RowSession

\* Every step of the workers, the users and the process is a step of
\* DurableJobs or changes nothing it sees.
LEMMA PromiseStep == IInv /\ [Next]_vars => [Promise!Next]_(Promise!vars)
  <1> SUFFICES ASSUME TypeOK, RowInv, [Next]_vars
               PROVE  Promise!Next \/ UNCHANGED Promise!vars
    BY DEF IInv
  <1> USE DEF row, verdict, record
  <1>1. ASSUME NEW j \in Jobs, NEW m \in Meetings,
               StartCommand(j, m) \/ StartFromImport(j, m)
        PROVE  UNCHANGED Promise!vars
    BY <1>1, StartIsStutter
  <1>2. ASSUME NEW j \in Jobs, InsertRow(j) \/ InsertRowUnread(j)
        PROVE  \E m \in Meetings : Promise!Reserve(j, m)
    BY <1>2, InsertIsReserve DEF InsertRow, InsertRowUnread
  <1>3. ASSUME NEW j \in Jobs, RecordRefusal(j) \/ RecordFailure(j)
        PROVE  Promise!Reject(j) \/ UNCHANGED Promise!vars
    <2>1. problem[j] \in Errors /\ "duplicate" \in Errors
      BY DEF TypeOK, Errors
    <2>2. PICK error \in Errors : CloseRow(j, error)
      BY <1>3, <2>1 DEF RecordRefusal, RecordFailure
    <2> QED
      BY <1>3, <2>2, CloseIsReject DEF RecordRefusal, RecordFailure
  <1>4. ASSUME NEW j \in Jobs, CommitTranscript(j) PROVE Promise!Complete(j)
    BY <1>4, CommitIsComplete
  <1>5. ASSUME NEW m \in Meetings, SaveCorrection(m) PROVE Promise!Correct(m)
    BY <1>5 DEF SaveCorrection, Promise!Correct
  <1>6. ASSUME NEW m \in Meetings, DeleteMeeting(m) PROVE Promise!Forget(m)
    BY <1>6, DeleteIsForget
  <1>7. ASSUME Restart PROVE Promise!Interrupt
    BY <1>7, RestartIsInterrupt
  <1>8. CASE UNCHANGED <<status, session, exists, author, revision>>
    BY <1>8 DEF Promise!vars
  <1>9. CASE \E j \in Jobs : Step(j)
    <2> SUFFICES ASSUME NEW j \in Jobs, Step(j)
                 PROVE  Promise!Next \/ UNCHANGED Promise!vars
      BY <1>9
    <2> QED
      BY <1>2, <1>3, <1>4, <1>8
      DEF Step, Promise!Next, DiscoverOrigins, RefuseStart, AcquireGate,
          GateRefused, SnapshotParticipants, OpenOrigin, OriginFails, FinishOrigin,
          OriginCancelled, CombineOrigins, VerifySource, ClaimSave, RecordWarning,
          CommitFails, CloseRowRefused, ReleaseGate
  <1> QED
    BY <1>1, <1>5, <1>6, <1>7, <1>8, <1>9
    DEF Next, Promise!Next, CancelRetranscription, ChangeAudio, Crash, vars

\* The workers implement the job table's promise: one verdict for each job and
\* a transcript that is replaced only by the step that completes a job.
THEOREM PromiseIsKept == Spec => KeepsItsPromise
  BY PromiseInit, PromiseStep, Invariance, PTL
  DEF Spec, KeepsItsPromise, Promise!Spec

-----------------------------------------------------------------------------
(* The transcript and its row *)

\* A command keeps its place, its row and its memory.
Remembers(j) ==
  /\ pc'[j] = pc[j] /\ session'[j] = session[j] /\ hash'[j] = hash[j]
  /\ warning'[j] = warning[j] /\ todo'[j] = todo[j] /\ heard'[j] = heard[j]
  /\ failed'[j] = failed[j]

\* The step of one command leaves the others and the audio as they were.
LEMMA OthersRemember ==
  ASSUME TypeOK, NEW j \in Jobs, Step(j)
  PROVE  /\ \A k \in Jobs \ {j} : Remembers(k)
         /\ take' = take
         /\ session' = session
  <1> USE DEF TypeOK, Remembers, Goto, row, verdict, memory, record, audio,
              ghosts
  <1>1. ASSUME DiscoverOrigins(j)
        PROVE  /\ \A k \in Jobs \ {j} : Remembers(k)
             /\ take' = take /\ session' = session
    BY <1>1 DEF DiscoverOrigins
  <1>2. ASSUME RefuseStart(j)
        PROVE  /\ \A k \in Jobs \ {j} : Remembers(k)
             /\ take' = take /\ session' = session
    BY <1>2 DEF RefuseStart, End, Forget
  <1>3. ASSUME InsertRow(j)
        PROVE  /\ \A k \in Jobs \ {j} : Remembers(k)
             /\ take' = take /\ session' = session
    BY <1>3 DEF InsertRow, Insert
  <1>4. ASSUME InsertRowUnread(j)
        PROVE  /\ \A k \in Jobs \ {j} : Remembers(k)
             /\ take' = take /\ session' = session
    BY <1>4 DEF InsertRowUnread, Insert, End, Forget
  <1>5. ASSUME AcquireGate(j)
        PROVE  /\ \A k \in Jobs \ {j} : Remembers(k)
             /\ take' = take /\ session' = session
    BY <1>5 DEF AcquireGate
  <1>6. ASSUME GateRefused(j)
        PROVE  /\ \A k \in Jobs \ {j} : Remembers(k)
             /\ take' = take /\ session' = session
    BY <1>6 DEF GateRefused
  <1>7. ASSUME RecordRefusal(j)
        PROVE  /\ \A k \in Jobs \ {j} : Remembers(k)
             /\ take' = take /\ session' = session
    BY <1>7 DEF RecordRefusal, End, Forget, CloseRow
  <1>8. ASSUME SnapshotParticipants(j)
        PROVE  /\ \A k \in Jobs \ {j} : Remembers(k)
             /\ take' = take /\ session' = session
    BY <1>8 DEF SnapshotParticipants, Fail, Forget
  <1>9. ASSUME NEW o \in Origins, OpenOrigin(j, o)
        PROVE  /\ \A k \in Jobs \ {j} : Remembers(k)
             /\ take' = take /\ session' = session
    BY <1>9 DEF OpenOrigin
  <1>10. ASSUME NEW o \in Origins, OriginFails(j, o)
        PROVE  /\ \A k \in Jobs \ {j} : Remembers(k)
             /\ take' = take /\ session' = session
    BY <1>10 DEF OriginFails, Fail, Forget
  <1>11. ASSUME FinishOrigin(j)
        PROVE  /\ \A k \in Jobs \ {j} : Remembers(k)
             /\ take' = take /\ session' = session
    BY <1>11 DEF FinishOrigin
  <1>12. ASSUME OriginCancelled(j)
        PROVE  /\ \A k \in Jobs \ {j} : Remembers(k)
             /\ take' = take /\ session' = session
    BY <1>12 DEF OriginCancelled, Fail, Forget
  <1>13. ASSUME CombineOrigins(j)
        PROVE  /\ \A k \in Jobs \ {j} : Remembers(k)
             /\ take' = take /\ session' = session
    BY <1>13 DEF CombineOrigins, Fail, Forget
  <1>14. ASSUME VerifySource(j)
        PROVE  /\ \A k \in Jobs \ {j} : Remembers(k)
             /\ take' = take /\ session' = session
    BY <1>14 DEF VerifySource, Fail, Forget
  <1>15. ASSUME ClaimSave(j)
        PROVE  /\ \A k \in Jobs \ {j} : Remembers(k)
             /\ take' = take /\ session' = session
    BY <1>15 DEF ClaimSave, Fail, Forget
  <1>16. ASSUME RecordWarning(j)
        PROVE  /\ \A k \in Jobs \ {j} : Remembers(k)
             /\ take' = take /\ session' = session
    BY <1>16 DEF RecordWarning, Fail, Forget
  <1>17. ASSUME CommitTranscript(j)
        PROVE  /\ \A k \in Jobs \ {j} : Remembers(k)
             /\ take' = take /\ session' = session
    BY <1>17 DEF CommitTranscript, ReplaceTranscript
  <1>18. ASSUME CommitFails(j)
        PROVE  /\ \A k \in Jobs \ {j} : Remembers(k)
             /\ take' = take /\ session' = session
    BY <1>18 DEF CommitFails, Fail, Forget
  <1>19. ASSUME RecordFailure(j)
        PROVE  /\ \A k \in Jobs \ {j} : Remembers(k)
             /\ take' = take /\ session' = session
    BY <1>19 DEF RecordFailure, Forget, CloseRow
  <1>20. ASSUME CloseRowRefused(j)
        PROVE  /\ \A k \in Jobs \ {j} : Remembers(k)
             /\ take' = take /\ session' = session
    BY <1>20 DEF CloseRowRefused, Forget
  <1>21. ASSUME ReleaseGate(j)
        PROVE  /\ \A k \in Jobs \ {j} : Remembers(k)
             /\ take' = take /\ session' = session
    BY <1>21 DEF ReleaseGate, End, Forget
  <1> QED
    BY <1>1, <1>2, <1>3, <1>4, <1>5, <1>6, <1>7, <1>8, <1>9, <1>10, <1>11,
      <1>12, <1>13, <1>14, <1>15, <1>16, <1>17, <1>18, <1>19, <1>20, <1>21
      DEF Step

\* What no command does leaves their memory as it was, starts one or ends
\* all; the audio of a Session only gets newer.
LEMMA BystandersRemember ==
  ASSUME TypeOK, [Next]_vars, \A j \in Jobs : ~ Step(j)
  PROVE  /\ \A k \in Jobs :
               \/ Remembers(k)
               \/ pc[k] = "new" /\ pc'[k] = "checked" /\ heard'[k] = heard[k]
               \/ pc'[k] \in {"new", "ended"} /\ heard'[k] = Silence
         /\ \A m \in Meetings, o \in Origins : take[m][o] <= take'[m][o]
         /\ \A m \in Meetings : author'[m] \in {author[m], None}
  <1> USE DEF TypeOK, Remembers, Goto, row, verdict, memory, record, audio,
              ghosts
  <1> DEFINE Kept ==
        /\ \A k \in Jobs :
               \/ Remembers(k)
               \/ pc[k] = "new" /\ pc'[k] = "checked" /\ heard'[k] = heard[k]
               \/ pc'[k] \in {"new", "ended"} /\ heard'[k] = Silence
        /\ \A m \in Meetings, o \in Origins : take[m][o] <= take'[m][o]
        /\ \A m \in Meetings : author'[m] \in {author[m], None}
  <1>0. ASSUME take' = take
        PROVE  \A m \in Meetings, o \in Origins : take[m][o] <= take'[m][o]
    BY <1>0, ConstantsAssumption
  <1>1. ASSUME NEW j \in Jobs, NEW m \in Meetings,
               StartCommand(j, m) \/ StartFromImport(j, m)
        PROVE  Kept
    BY <1>1, <1>0 DEF StartCommand, StartFromImport
  <1>2. ASSUME CancelRetranscription PROVE Kept
    BY <1>2, <1>0 DEF CancelRetranscription
  <1>3. ASSUME NEW m \in Meetings, SaveCorrection(m) PROVE Kept
    BY <1>3, <1>0 DEF SaveCorrection
  <1>4. ASSUME NEW m \in Meetings, DeleteMeeting(m) PROVE Kept
    BY <1>4, <1>0 DEF DeleteMeeting
  <1>5. ASSUME NEW m \in Meetings, NEW o \in Origins, ChangeAudio(m, o)
        PROVE  Kept
    <2>1. \/ take' = take
          \/ take' = [take EXCEPT ![m][o] = @ + 1]
      BY <1>5 DEF ChangeAudio
    <2>2. \A n \in Meetings, p \in Origins : take[n][p] <= take'[n][p]
      <3>1. \A n \in Meetings, p \in Origins : take[n][p] \in Nat
        BY ConstantsAssumption
      <3>2. CASE take' = [take EXCEPT ![m][o] = @ + 1]
        <4>1. \A n \in Meetings, p \in Origins :
                 take'[n][p] = IF n = m /\ p = o THEN take[n][p] + 1
                                                 ELSE take[n][p]
          BY <3>2
        <4> SUFFICES ASSUME NEW n \in Meetings, NEW p \in Origins
                     PROVE  take[n][p] <= take'[n][p]
          OBVIOUS
        <4>2. CASE n = m /\ p = o
          BY <3>1, <4>1, <4>2
        <4>3. CASE ~(n = m /\ p = o)
          <5>1. take'[n][p] = take[n][p] /\ take[n][p] \in Nat
            BY <3>1, <4>1, <4>3
          <5> QED
            BY <5>1
        <4> QED
          BY <4>2, <4>3
      <3> QED
        BY <2>1, <1>0, <3>2
    <2> QED
      BY <1>5, <2>2 DEF ChangeAudio
  <1>6. ASSUME Crash PROVE Kept
    BY <1>6, <1>0 DEF Crash
  <1>7. ASSUME Restart PROVE Kept
    BY <1>7, <1>0 DEF Restart
  <1>8. ASSUME UNCHANGED vars PROVE Kept
    BY <1>8, <1>0 DEF vars
  <1> QED
    BY <1>1, <1>2, <1>3, <1>4, <1>5, <1>6, <1>7, <1>8 DEF Next

\* What a command has heard stays heard while it remembers it and the audio
\* gets newer.
LEMMA HeardStays ==
  ASSUME TypeOK, NEW j \in Jobs, session[j] \in Meetings, Heard(j),
         session'[j] = session[j], hash'[j] = hash[j], todo'[j] = todo[j],
         heard'[j] = heard[j], failed'[j] = failed[j],
         \A m \in Meetings, o \in Origins : take[m][o] <= take'[m][o],
         take' \in [Meetings -> [Origins -> 1..MaxTake]]
  PROVE  Heard(j)'
  <1>1. \A o \in Origins : /\ hash[j][o] \in Nat /\ heard[j][o] \in Nat
                           /\ take[session[j]][o] \in Nat
                           /\ take'[session[j]][o] \in Nat
    BY ConstantsAssumption DEF TypeOK, Manifests
  <1> QED
    BY <1>1 DEF Heard

\* A step of a command keeps true what it has heard.
LEMMA OwnHeard ==
  ASSUME TypeOK, TypeOK', HeardInv, NEW j \in Jobs, Step(j),
         pc'[j] \in Working
  PROVE  Heard(j)'
  <1>0. /\ take' = take /\ session' = session
        /\ pc[j] # "new" => session[j] \in Meetings
        /\ \A m \in Meetings, o \in Origins : take[m][o] <= take'[m][o]
    <2>1. take' = take /\ session' = session
      BY OthersRemember
    <2> QED
      BY <2>1, ConstantsAssumption DEF TypeOK
  <1>1. ASSUME DiscoverOrigins(j) PROVE Heard(j)'
    <2>1. /\ session[j] \in Meetings /\ hash'[j] = Manifest(session[j])
          /\ todo'[j] = present[session[j]] /\ heard'[j] = Silence
          /\ failed'[j] = Missing(session[j])
      BY <1>1, <1>0 DEF DiscoverOrigins, HeardInv, TypeOK
    <2>2. \A o \in Origins : take[session[j]][o] \in Nat \ {0}
      BY <2>1, ConstantsAssumption DEF TypeOK
    <2>3. \A o \in Origins :
             /\ heard'[j][o] = 0
             /\ hash'[j][o] = IF o \in present[session[j]]
                                THEN take[session[j]][o] ELSE 0
      BY <2>1 DEF Silence, Manifest
    <2> QED
      BY <2>1, <2>2, <2>3, <1>0 DEF Heard, Missing
  <1>2. ASSUME InsertRow(j) PROVE Heard(j)'
    <2>1. /\ pc[j] \in Working
          /\ hash'[j] = hash[j] /\ todo'[j] = todo[j]
          /\ heard'[j] = heard[j] /\ failed'[j] = failed[j]
      BY <1>2 DEF InsertRow, Insert, Goto, TypeOK, memory, row, verdict,
        Working, Cancellable
    <2>2. Heard(j)
      BY <2>1 DEF HeardInv
    <2> QED
      BY <2>1, <2>2, <1>0, HeardStays DEF TypeOK, Working, Cancellable
  <1>3. ASSUME AcquireGate(j) PROVE Heard(j)'
    <2>1. /\ pc[j] \in Working
          /\ hash'[j] = hash[j] /\ todo'[j] = todo[j]
          /\ heard'[j] = heard[j] /\ failed'[j] = failed[j]
      BY <1>3 DEF AcquireGate, Goto, TypeOK, memory, row, verdict, Working,
        Cancellable
    <2>2. Heard(j)
      BY <2>1 DEF HeardInv
    <2> QED
      BY <2>1, <2>2, <1>0, HeardStays DEF TypeOK, Working, Cancellable
  <1>4. ASSUME SnapshotParticipants(j) PROVE Heard(j)'
    <2>1. /\ pc[j] \in Working
          /\ hash'[j] = hash[j] /\ todo'[j] = todo[j]
          /\ heard'[j] = heard[j] /\ failed'[j] = failed[j]
      BY <1>4 DEF SnapshotParticipants, Fail, Forget, Goto, TypeOK, memory,
        row, verdict, Working, Cancellable
    <2>2. Heard(j)
      BY <2>1 DEF HeardInv
    <2> QED
      BY <2>1, <2>2, <1>0, HeardStays DEF TypeOK, Working, Cancellable
  <1>5. ASSUME NEW o \in Origins, OpenOrigin(j, o) PROVE Heard(j)'
    <2>1. /\ pc[j] = "processing" /\ o \in todo[j]
          /\ heard'[j] = [heard[j] EXCEPT ![o] = take[session[j]][o]]
          /\ hash'[j] = hash[j] /\ todo'[j] = todo[j]
          /\ failed'[j] = failed[j]
      BY <1>5 DEF OpenOrigin, TypeOK, row, verdict
    <2>2. Heard(j)
      BY <2>1 DEF HeardInv, Working, Cancellable
    <2>3. \A p \in Origins : /\ hash[j][p] \in Nat /\ heard[j][p] \in Nat
                              /\ take[session[j]][p] \in Nat \ {0}
                              /\ heard'[j][p] = IF p = o
                                   THEN take[session[j]][p] ELSE heard[j][p]
      BY <2>1, <1>0, ConstantsAssumption DEF TypeOK, Manifests
    <2> QED
      BY <2>1, <2>2, <2>3, <1>0 DEF Heard
  <1>6. ASSUME NEW o \in Origins, OriginFails(j, o) PROVE Heard(j)'
    <2>1. /\ pc[j] \in {"processing", "listening"}
          /\ todo'[j] = todo[j] \ {o} /\ failed'[j] = failed[j] \cup {o}
          /\ heard'[j] = [heard[j] EXCEPT ![o] = 0]
          /\ hash'[j] = hash[j]
      BY <1>6 DEF OriginFails, Fail, Goto, TypeOK, row, verdict, Working,
        Cancellable
    <2>2. Heard(j)
      BY <2>1 DEF HeardInv, Working, Cancellable
    <2>3. \A p \in Origins : heard'[j][p] = IF p = o THEN 0 ELSE heard[j][p]
      BY <2>1 DEF TypeOK, Manifests
    <2> QED
      BY <2>1, <2>2, <2>3, <1>0 DEF Heard
  <1>7. ASSUME FinishOrigin(j) PROVE Heard(j)'
    <2>1. /\ pc[j] = "listening" /\ todo'[j] = todo[j] \ Open(j)
          /\ heard'[j] = heard[j] /\ failed'[j] = failed[j]
          /\ hash'[j] = hash[j]
      BY <1>7 DEF FinishOrigin, TypeOK, row, verdict
    <2>2. Heard(j)
      BY <2>1 DEF HeardInv, Working, Cancellable
    <2> QED
      BY <2>1, <2>2, <1>0 DEF Heard, Open
  <1>8. ASSUME CombineOrigins(j) PROVE Heard(j)'
    <2>1. /\ pc[j] \in Working
          /\ hash'[j] = hash[j] /\ todo'[j] = todo[j]
          /\ heard'[j] = heard[j] /\ failed'[j] = failed[j]
      BY <1>8 DEF CombineOrigins, Fail, Forget, Goto, TypeOK, memory, row,
        verdict, Working, Cancellable
    <2>2. Heard(j)
      BY <2>1 DEF HeardInv
    <2> QED
      BY <2>1, <2>2, <1>0, HeardStays DEF TypeOK, Working, Cancellable
  <1>9. ASSUME VerifySource(j) PROVE Heard(j)'
    <2>1. /\ pc[j] \in Working
          /\ hash'[j] = hash[j] /\ todo'[j] = todo[j]
          /\ heard'[j] = heard[j] /\ failed'[j] = failed[j]
      BY <1>9 DEF VerifySource, Fail, Forget, Goto, TypeOK, memory, row,
        verdict, Working, Cancellable
    <2>2. Heard(j)
      BY <2>1 DEF HeardInv
    <2> QED
      BY <2>1, <2>2, <1>0, HeardStays DEF TypeOK, Working, Cancellable
  <1>10. ASSUME ClaimSave(j) PROVE Heard(j)'
    <2>1. /\ pc[j] \in Working
          /\ hash'[j] = hash[j] /\ todo'[j] = todo[j]
          /\ heard'[j] = heard[j] /\ failed'[j] = failed[j]
      BY <1>10 DEF ClaimSave, Fail, Forget, Goto, TypeOK, memory, row,
        verdict, Working, Cancellable
    <2>2. Heard(j)
      BY <2>1 DEF HeardInv
    <2> QED
      BY <2>1, <2>2, <1>0, HeardStays DEF TypeOK, Working, Cancellable
  <1>11. ASSUME RecordWarning(j) PROVE Heard(j)'
    <2>1. /\ pc[j] \in Working
          /\ hash'[j] = hash[j] /\ todo'[j] = todo[j]
          /\ heard'[j] = heard[j] /\ failed'[j] = failed[j]
      BY <1>11 DEF RecordWarning, Fail, Forget, Goto, TypeOK, memory, row,
        verdict, Working, Cancellable
    <2>2. Heard(j)
      BY <2>1 DEF HeardInv
    <2> QED
      BY <2>1, <2>2, <1>0, HeardStays DEF TypeOK, Working, Cancellable
  <1>12. ASSUME \/ RefuseStart(j)
               \/ InsertRowUnread(j)
               \/ GateRefused(j)
               \/ RecordRefusal(j)
               \/ OriginCancelled(j)
               \/ CommitTranscript(j)
               \/ CommitFails(j)
               \/ RecordFailure(j)
               \/ CloseRowRefused(j)
               \/ ReleaseGate(j)
         PROVE  FALSE
    BY <1>12 DEF RefuseStart, InsertRowUnread, GateRefused, RecordRefusal,
      OriginCancelled, CommitTranscript, CommitFails, RecordFailure,
      CloseRowRefused, ReleaseGate, End, Fail, Goto, TypeOK, Working,
      Cancellable
  <1> QED
    BY <1>1, <1>2, <1>3, <1>4, <1>5, <1>6, <1>7, <1>8, <1>9, <1>10, <1>11,
      <1>12 DEF Step

\* No step makes a command forget what it heard while it works.
LEMMA HeardStep ==
  ASSUME TypeOK, TypeOK', HeardInv, [Next]_vars
  PROVE  HeardInv'
  <1>1. CASE \E j \in Jobs : Step(j)
    <2>1. PICK j \in Jobs : Step(j)
      BY <1>1
    <2>2. /\ \A k \in Jobs \ {j} : Remembers(k)
          /\ take' = take /\ session' = session
      BY <2>1, OthersRemember
    <2>3. \A m \in Meetings, o \in Origins : take[m][o] <= take'[m][o]
      BY <2>2, ConstantsAssumption DEF TypeOK
    <2>4. pc'[j] \notin {"new", "checked"}
      BY <2>1 DEF Step, DiscoverOrigins, RefuseStart, InsertRow,
        InsertRowUnread, AcquireGate, GateRefused, RecordRefusal,
        SnapshotParticipants, OpenOrigin, OriginFails, FinishOrigin,
        OriginCancelled, CombineOrigins, VerifySource, ClaimSave,
        RecordWarning, CommitTranscript, CommitFails, RecordFailure,
        CloseRowRefused, ReleaseGate, Insert, End, Fail, Goto, TypeOK
    <2>5. ASSUME NEW k \in Jobs, k # j, pc'[k] \in Working PROVE Heard(k)'
      <3>1. Remembers(k) /\ pc[k] \in Working /\ pc[k] # "new"
        BY <2>2, <2>5 DEF Remembers, Working, Cancellable
      <3>2. Heard(k) /\ session[k] \in Meetings
        BY <3>1 DEF HeardInv, TypeOK
      <3> QED
        BY <3>1, <3>2, <2>2, <2>3, HeardStays DEF Remembers, TypeOK
    <2>6. ASSUME NEW k \in Jobs, k # j, pc'[k] \in {"new", "checked"}
          PROVE  heard'[k] = Silence
      BY <2>2, <2>6 DEF Remembers, HeardInv
    <2> QED
      BY <2>1, <2>4, <2>5, <2>6, OwnHeard DEF HeardInv
  <1>2. CASE \A j \in Jobs : ~ Step(j)
    <2>1. /\ \A k \in Jobs :
               \/ Remembers(k)
               \/ pc[k] = "new" /\ pc'[k] = "checked" /\ heard'[k] = heard[k]
               \/ pc'[k] \in {"new", "ended"} /\ heard'[k] = Silence
          /\ \A m \in Meetings, o \in Origins : take[m][o] <= take'[m][o]
      BY <1>2, BystandersRemember
    <2>2. ASSUME NEW k \in Jobs, pc'[k] \in Working PROVE Heard(k)'
      <3>1. Remembers(k) /\ pc[k] \in Working /\ pc[k] # "new"
        BY <2>1, <2>2 DEF Remembers, Working, Cancellable
      <3>2. Heard(k) /\ session[k] \in Meetings
        BY <3>1 DEF HeardInv, TypeOK
      <3> QED
        BY <3>1, <3>2, <2>1, HeardStays DEF Remembers, TypeOK
    <2>3. ASSUME NEW k \in Jobs, pc'[k] \in {"new", "checked"}
          PROVE  heard'[k] = Silence
      BY <2>1, <2>3 DEF Remembers, HeardInv
    <2> QED
      BY <2>2, <2>3 DEF HeardInv
  <1> QED
    BY <1>1, <1>2

\* A source that hashes as it did holds what was heard in it.
LEMMA SourceIsTheSame ==
  ASSUME TypeOK, NEW j \in Jobs, session[j] \in Meetings, Heard(j),
         Manifest(session[j]) = hash[j]
  PROVE  \A o \in Origins : heard[j][o] \in {0, hash[j][o]}
  <1>1. \A o \in Origins : /\ hash[j][o] \in Nat /\ heard[j][o] \in Nat
                           /\ take[session[j]][o] \in Nat
                           /\ hash[j][o] \in {0, take[session[j]][o]}
    BY ConstantsAssumption DEF TypeOK, Manifests, Manifest
  <1> QED
    BY <1>1 DEF Heard

\* A step of a command keeps true what it found out for its save.
LEMMA OwnSaves ==
  ASSUME TypeOK, HeardInv, SaveInv, NEW j \in Jobs, Step(j)
  PROVE  Saves(j)'
  <1>1. ASSUME CombineOrigins(j) PROVE Saves(j)'
    <2>1. CASE pc'[j] = "failing"
      BY <2>1 DEF Saves, Combined
    <2>2. CASE pc'[j] # "failing"
      <3>1. /\ pc'[j] = "combined" /\ todo[j] = {} /\ heard[j] # Silence
            /\ ~MustPreserve(j)
            /\ hash'[j] = hash[j] /\ todo'[j] = todo[j]
            /\ heard'[j] = heard[j] /\ failed'[j] = failed[j]
            /\ session' = session /\ author' = author
        BY <1>1, <2>2 DEF CombineOrigins, Fail, Forget, Goto, TypeOK, memory,
          row, verdict, record
      <3> QED
        BY <3>1 DEF Saves, Combined, MustPreserve, Silence
    <2> QED
      BY <2>1, <2>2
  <1>2. ASSUME VerifySource(j) PROVE Saves(j)'
    <2>1. CASE pc'[j] = "failing"
      BY <2>1 DEF Saves, Combined
    <2>2. CASE pc'[j] # "failing"
      <3>1. /\ pc[j] = "combined" /\ pc'[j] = "verified"
            /\ Manifest(session[j]) = hash[j]
            /\ hash'[j] = hash[j] /\ todo'[j] = todo[j]
            /\ heard'[j] = heard[j] /\ failed'[j] = failed[j]
            /\ session' = session /\ author' = author
        BY <1>2, <2>2 DEF VerifySource, Fail, Forget, Goto, TypeOK, memory,
          row, verdict, record
      <3>2. Heard(j) /\ session[j] \in Meetings
        BY <3>1 DEF HeardInv, Working, Cancellable, TypeOK
      <3>3. \A o \in Origins : heard[j][o] \in {0, hash[j][o]}
        BY <3>1, <3>2, SourceIsTheSame
      <3> QED
        BY <3>1, <3>3 DEF Saves, SaveInv, Combined, Silence
    <2> QED
      BY <2>1, <2>2
  <1>3. ASSUME ClaimSave(j) PROVE Saves(j)'
    <2>1. CASE pc'[j] = "failing"
      BY <2>1 DEF Saves, Combined
    <2>2. CASE pc'[j] # "failing"
      <3>1. /\ pc[j] = "verified" /\ pc'[j] = "claimed"
            /\ hash'[j] = hash[j] /\ todo'[j] = todo[j]
            /\ heard'[j] = heard[j] /\ failed'[j] = failed[j]
            /\ session' = session /\ author' = author
        BY <1>3, <2>2 DEF ClaimSave, Fail, Forget, Goto, TypeOK, memory,
          row, verdict, record
      <3> QED
        BY <3>1 DEF Saves, SaveInv, Combined, Silence
    <2> QED
      BY <2>1, <2>2
  <1>4. ASSUME RecordWarning(j) PROVE Saves(j)'
    <2>1. CASE pc'[j] = "failing"
      BY <2>1 DEF Saves, Combined
    <2>2. CASE pc'[j] # "failing"
      <3>1. /\ pc[j] = "claimed" /\ pc'[j] = "warned"
            /\ warning'[j] = WarningOf(j)
            /\ hash'[j] = hash[j] /\ todo'[j] = todo[j]
            /\ heard'[j] = heard[j] /\ failed'[j] = failed[j]
            /\ session' = session /\ author' = author
        BY <1>4, <2>2 DEF RecordWarning, Fail, Forget, Goto, TypeOK, memory,
          row, verdict, record
      <3> QED
        BY <3>1 DEF Saves, SaveInv, Combined, Silence, WarningOf
    <2> QED
      BY <2>1, <2>2
  <1>5. ASSUME \/ DiscoverOrigins(j)
               \/ RefuseStart(j)
               \/ InsertRow(j)
               \/ InsertRowUnread(j)
               \/ AcquireGate(j)
               \/ GateRefused(j)
               \/ RecordRefusal(j)
               \/ SnapshotParticipants(j)
               \/ (\E o \in Origins : OpenOrigin(j, o))
               \/ (\E o \in Origins : OriginFails(j, o))
               \/ FinishOrigin(j)
               \/ OriginCancelled(j)
               \/ CommitTranscript(j)
               \/ CommitFails(j)
               \/ RecordFailure(j)
               \/ CloseRowRefused(j)
               \/ ReleaseGate(j)
         PROVE  pc'[j] \notin Combined
    BY <1>5 DEF DiscoverOrigins, RefuseStart, InsertRow, InsertRowUnread,
      AcquireGate, GateRefused, RecordRefusal, SnapshotParticipants,
      OpenOrigin, OriginFails, FinishOrigin, OriginCancelled,
      CommitTranscript, CommitFails, RecordFailure, CloseRowRefused,
      ReleaseGate, Insert, End, Fail, Goto, TypeOK, Combined
  <1> QED
    BY <1>1, <1>2, <1>3, <1>4, <1>5 DEF Step, Saves, Combined

\* A worker that saves replaces no transcript by one that lacks an origin.
LEMMA SaveStep ==
  ASSUME TypeOK, TypeOK', GateInv, HeardInv, SaveInv, [Next]_vars
  PROVE  SaveInv'
  <1>1. CASE \E j \in Jobs : Step(j)
    <2>1. PICK j \in Jobs : Step(j)
      BY <1>1
    <2>2. \A k \in Jobs \ {j} : Remembers(k)
      BY <2>1, OthersRemember
    <2>3. \/ author' = author
          \/ pc[j] = "warned"
      BY <2>1 DEF Step, record, DiscoverOrigins, RefuseStart, InsertRow,
        InsertRowUnread, AcquireGate, GateRefused, RecordRefusal,
        SnapshotParticipants, OpenOrigin, OriginFails, FinishOrigin,
        OriginCancelled, CombineOrigins, VerifySource, ClaimSave,
        RecordWarning, CommitTranscript, CommitFails, RecordFailure,
        CloseRowRefused, ReleaseGate, Insert
    <2>4. ASSUME NEW k \in Jobs, k # j PROVE Saves(k)'
      <3>1. Remembers(k) /\ Saves(k)
        BY <2>2, <2>4 DEF SaveInv
      <3>2. pc[k] \in Combined => author' = author
        BY <2>3, <2>4 DEF GateInv, GateHeldByOneWorker, Combined, Inside,
          Cancellable, Saving
      <3> QED
        BY <3>1, <3>2 DEF Remembers, Saves, Combined
    <2>5. Saves(j)'
      BY <2>1, OwnSaves
    <2> QED
      BY <2>4, <2>5 DEF SaveInv
  <1>2. CASE \A j \in Jobs : ~ Step(j)
    <2>1. /\ \A k \in Jobs :
               \/ Remembers(k)
               \/ pc'[k] \in {"new", "checked", "ended"}
          /\ \A m \in Meetings : author'[m] \in {author[m], None}
      BY <1>2, BystandersRemember
    <2>2. ASSUME NEW k \in Jobs, Remembers(k) PROVE Saves(k)'
      <3>1. /\ Saves(k)
            /\ pc[k] \in Combined => author'[session[k]]
                                       \in {author[session[k]], None}
        BY <2>1 DEF SaveInv, TypeOK, Combined
      <3> QED
        BY <2>2, <3>1 DEF Remembers, Saves, Combined
    <2>3. ASSUME NEW k \in Jobs, pc'[k] \in {"new", "checked", "ended"}
          PROVE  Saves(k)'
      BY <2>3 DEF Saves, Combined
    <2> QED
      BY <2>1, <2>2, <2>3 DEF SaveInv
  <1> QED
    BY <1>1, <1>2

\* A worker that commits has heard what its row was hashed over, and its row
\* warns of what it did not hear.
LEMMA CommitMatches ==
  ASSUME TypeOK, HeardInv, SaveInv, NEW j \in Jobs, CommitTranscript(j)
  PROVE  LET m == session[j] IN
         /\ m \in Meetings
         /\ status' = [status EXCEPT ![j] = "completed"]
         /\ author' = [author EXCEPT ![m] = j]
         /\ content' = [content EXCEPT ![m] = heard[j]]
         /\ UNCHANGED <<session, hash, warning>>
         /\ heard[j] # Silence
         /\ \A o \in Origins : heard[j][o] \in {0, hash[j][o]}
         /\ warning[j] # "partial_origin_unavailable" =>
              /\ heard[j] = hash[j]
              /\ m \in Declared => \A o \in Origins : heard[j][o] # 0
         /\ failed[j] # {} => author[m] = None
  <1>1. pc[j] = "warned" /\ session[j] \in Meetings
    BY DEF CommitTranscript, TypeOK
  <1>2. /\ Heard(j) /\ Saves(j)
        /\ todo[j] = {} /\ heard[j] # Silence
        /\ \A o \in Origins : heard[j][o] \in {0, hash[j][o]}
        /\ failed[j] # {} => warning[j] = "partial_origin_unavailable"
        /\ failed[j] # {} => author[session[j]] = None
    BY <1>1 DEF HeardInv, SaveInv, Saves, Working, Combined
  <1>3. ASSUME failed[j] = {}
        PROVE  /\ heard[j] = hash[j]
               /\ session[j] \in Declared =>
                    \A o \in Origins : heard[j][o] # 0
    <2>1. \A o \in Origins : heard[j][o] = hash[j][o]
      BY <1>2, <1>3 DEF Heard
    <2>2. heard[j] = hash[j]
      BY <2>1 DEF TypeOK, Manifests
    <2> QED
      BY <1>2, <1>3, <2>1, <2>2 DEF Heard
  <1> QED
    BY <1>1, <1>2, <1>3 DEF CommitTranscript, ReplaceTranscript, row, verdict

\* A transcript matches its row after the step that writes it.
LEMMA CommitKeepsMatch ==
  ASSUME TypeOK, RowInv, HeardInv, SaveInv, TranscriptMatchesItsRow,
         NEW j \in Jobs, CommitTranscript(j)
  PROVE  TranscriptMatchesItsRow'
  <1> DEFINE s == session[j]
  <1> SUFFICES ASSUME NEW m \in Meetings, NEW k \in Jobs, author'[m] = k
               PROVE  /\ status'[k] = "completed"
                      /\ session'[k] = m
                      /\ content'[m] # Silence
                      /\ \A o \in Origins : content'[m][o] \in {0, hash'[k][o]}
                      /\ warning'[k] # "partial_origin_unavailable" =>
                           /\ content'[m] = hash'[k]
                           /\ m \in Declared =>
                                \A o \in Origins : content'[m][o] # 0
    BY DEF TranscriptMatchesItsRow, Silence
  <1>1. CASE m = s
    <2>1. k = j /\ content'[m] = heard[j] /\ status'[j] = "completed"
      BY <1>1, CommitMatches DEF TypeOK
    <2> QED
      BY <1>1, <2>1, CommitMatches
  <1>2. CASE m # s
    <2>1. author[m] = k /\ content'[m] = content[m]
      BY <1>2, CommitMatches DEF TypeOK
    <2>2. status[k] = "completed"
      BY <2>1 DEF TranscriptMatchesItsRow
    <2>3. status'[k] = "completed"
      BY <2>2, CommitMatches DEF TypeOK
    <2> QED
      BY <2>1, <2>3, CommitMatches DEF TranscriptMatchesItsRow
  <1> QED
    BY <1>1, <1>2

\* What a row says and a transcript is stays while both are untouched, or the
\* transcript is gone.
LEMMA MatchStays ==
  ASSUME TranscriptMatchesItsRow,
         \A m \in Meetings : \/ author'[m] = author[m]
                                /\ content'[m] = content[m]
                             \/ author'[m] \notin Jobs,
         \A m \in Meetings, k \in Jobs : author'[m] = k /\ author[m] = k =>
            /\ status'[k] = status[k] /\ session'[k] = session[k]
            /\ hash'[k] = hash[k] /\ warning'[k] = warning[k]
  PROVE  TranscriptMatchesItsRow'
  BY DEF TranscriptMatchesItsRow, Silence

\* No step parts a transcript from its row.
LEMMA MatchStep ==
  ASSUME IInv, HeardInv, SaveInv, TranscriptMatchesItsRow, [Next]_vars
  PROVE  TranscriptMatchesItsRow'
  <1> DEFINE Untouched ==
        \A m \in Meetings : \/ author'[m] = author[m]
                               /\ content'[m] = content[m]
                            \/ author'[m] \notin Jobs
      SameRows ==
        \A m \in Meetings, k \in Jobs : author'[m] = k /\ author[m] = k =>
            /\ status'[k] = status[k] /\ session'[k] = session[k]
            /\ hash'[k] = hash[k] /\ warning'[k] = warning[k]
  <1>0. /\ TypeOK
        /\ \A m \in Meetings, k \in Jobs : author[m] = k =>
              /\ status[k] = "completed" /\ session[k] = m
              /\ pc[k] \notin Responsible \cup {"new", "checked", "discovered"}
    BY DEF IInv, RowInv, CancelInv
  <1> USE DEF Goto, row, verdict, memory, record, audio, ghosts
  <1>1. ASSUME NEW j \in Jobs, DiscoverOrigins(j)
        PROVE  TranscriptMatchesItsRow'
    <2>1. Untouched /\ SameRows
      BY <1>1, <1>0 DEF DiscoverOrigins, TypeOK, Running, Responsible,
        Inside, Cancellable, Saving, Unwinding
    <2> QED
      BY <2>1, MatchStays
  <1>2. ASSUME NEW j \in Jobs, InsertRow(j)
        PROVE  TranscriptMatchesItsRow'
    <2>1. Untouched /\ SameRows
      BY <1>2, <1>0 DEF InsertRow, Insert, TypeOK, Running, Responsible,
        Inside, Cancellable, Saving, Unwinding
    <2> QED
      BY <2>1, MatchStays
  <1>3. ASSUME NEW j \in Jobs, InsertRowUnread(j)
        PROVE  TranscriptMatchesItsRow'
    <2>1. Untouched /\ SameRows
      BY <1>3, <1>0 DEF InsertRowUnread, Insert, End, Forget, TypeOK,
        Running, Responsible, Inside, Cancellable, Saving, Unwinding
    <2> QED
      BY <2>1, MatchStays
  <1>4. ASSUME NEW j \in Jobs, RecordRefusal(j)
        PROVE  TranscriptMatchesItsRow'
    <2>1. Untouched /\ SameRows
      BY <1>4, <1>0 DEF RecordRefusal, End, Forget, CloseRow, TypeOK,
        Running, Responsible, Inside, Cancellable, Saving, Unwinding
    <2> QED
      BY <2>1, MatchStays
  <1>5. ASSUME NEW j \in Jobs, RecordWarning(j)
        PROVE  TranscriptMatchesItsRow'
    <2>0. /\ \A k \in Jobs \ {j} : warning'[k] = warning[k]
          /\ UNCHANGED <<session, hash, status, author, content>>
          /\ pc[j] = "claimed"
      BY <1>5, <1>0 DEF RecordWarning, TypeOK
    <2>1. Untouched /\ SameRows
      BY <2>0, <1>0 DEF Responsible, Inside, Saving
    <2> QED
      BY <2>1, MatchStays
  <1>6. ASSUME NEW j \in Jobs, RecordFailure(j)
        PROVE  TranscriptMatchesItsRow'
    <2>1. Untouched /\ SameRows
      BY <1>6, <1>0 DEF RecordFailure, Forget, CloseRow, TypeOK, Running,
        Responsible, Inside, Cancellable, Saving, Unwinding
    <2> QED
      BY <2>1, MatchStays
  <1>7. ASSUME NEW j \in Jobs, CommitTranscript(j)
        PROVE  TranscriptMatchesItsRow'
    BY <1>7, CommitKeepsMatch DEF IInv
  <1>8. ASSUME NEW j \in Jobs, NEW m \in Meetings,
                StartCommand(j, m) \/ StartFromImport(j, m)
        PROVE  TranscriptMatchesItsRow'
    <2>1. Untouched /\ SameRows
      BY <1>8, <1>0 DEF StartCommand, StartFromImport, TypeOK
    <2> QED
      BY <2>1, MatchStays
  <1>9. ASSUME NEW m \in Meetings, DeleteMeeting(m)
        PROVE  TranscriptMatchesItsRow'
    <2>1. Untouched /\ SameRows
      BY <1>9, <1>0, ConstantsAssumption DEF DeleteMeeting, TypeOK
    <2> QED
      BY <2>1, MatchStays
  <1>10. ASSUME Restart PROVE TranscriptMatchesItsRow'
    <2>1. Untouched /\ SameRows
      BY <1>10, <1>0 DEF Restart, TypeOK, Interruptible, Running
    <2> QED
      BY <2>1, MatchStays
  <1>11. CASE UNCHANGED <<author, content, status, session, hash, warning>>
    BY <1>11, MatchStays
  <1> QED
    BY <1>1, <1>2, <1>3, <1>4, <1>5, <1>6, <1>7, <1>8, <1>9, <1>10, <1>11 DEF
      Next, Step, vars, CancelRetranscription, SaveCorrection, ChangeAudio,
      Crash, RefuseStart, AcquireGate, GateRefused, SnapshotParticipants,
      OpenOrigin, OriginFails, FinishOrigin, OriginCancelled, CombineOrigins,
      VerifySource, ClaimSave, CommitFails, CloseRowRefused, ReleaseGate

\* The inductive invariant behind the transcripts.
LEMMA TranscriptBegins == Init => TranscriptInv
  <1> SUFFICES ASSUME Init PROVE TranscriptInv
    OBVIOUS
  <1>1. IInv
    BY InitInv
  <1>2. HeardInv /\ SaveInv
    BY DEF Init, HeardInv, SaveInv, Saves, Working, Combined, Cancellable
  <1>3. TranscriptMatchesItsRow
    BY ConstantsAssumption DEF Init, TranscriptMatchesItsRow
  <1> QED
    BY <1>1, <1>2, <1>3 DEF TranscriptInv

LEMMA TranscriptStep ==
  ASSUME TranscriptInv, [Next]_vars
  PROVE  TranscriptInv'
  <1>1. IInv'
    BY StepInv DEF TranscriptInv
  <1>2. HeardInv'
    BY <1>1, HeardStep DEF TranscriptInv, IInv
  <1>3. SaveInv'
    BY <1>1, SaveStep DEF TranscriptInv, IInv
  <1>4. TranscriptMatchesItsRow'
    BY MatchStep DEF TranscriptInv
  <1> QED
    BY <1>1, <1>2, <1>3, <1>4 DEF TranscriptInv

\* A result that lacks an origin never takes the place of another transcript.
LEMMA PartialReplacesNothing ==
  ASSUME TranscriptInv, [Next]_vars, NEW m \in Meetings, NEW j \in Jobs,
         author'[m] = j, author[m] # j, failed[j] # {}
  PROVE  author[m] = None
  <1>0. TypeOK /\ HeardInv /\ SaveInv
    BY DEF TranscriptInv, IInv
  <1>1. PICK k \in Jobs : CommitTranscript(k)
    <2>1. author' # author /\ author'[m] # None
      BY ConstantsAssumption
    <2>2. ~ \E n \in Meetings : DeleteMeeting(n)
      BY <2>1, <1>0 DEF DeleteMeeting, TypeOK
    <2> QED
      BY <2>1, <2>2 DEF Next, Step, vars, record, StartCommand,
        StartFromImport, CancelRetranscription, SaveCorrection, ChangeAudio,
        Crash, Restart, Insert, DiscoverOrigins, RefuseStart, InsertRow,
        InsertRowUnread, AcquireGate, GateRefused, RecordRefusal,
        SnapshotParticipants, OpenOrigin, OriginFails, FinishOrigin,
        OriginCancelled, CombineOrigins, VerifySource, ClaimSave,
        RecordWarning, CommitFails, RecordFailure, CloseRowRefused,
        ReleaseGate
  <1>2. k = j /\ m = session[j]
    BY <1>0, <1>1, CommitMatches DEF TypeOK
  <1> QED
    BY <1>0, <1>1, <1>2, CommitMatches

\* The transcript of a Session was written by a job whose row is completed and
\* was heard in the audio the row was hashed over, every origin of it unless
\* the row warns of a partial result, whatever changes the files, ends the
\* process or cancels the job meanwhile (run_retranscription,
\* complete_with_transcript).
THEOREM TranscriptsMatch == Spec => []TranscriptMatchesItsRow
  <1>1. TranscriptInv => TranscriptMatchesItsRow
    BY DEF TranscriptInv
  <1> QED
    BY TranscriptBegins, TranscriptStep, <1>1, PTL DEF Spec
=============================================================================
