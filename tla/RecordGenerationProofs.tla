----------------------- MODULE RecordGenerationProofs -----------------------
(***************************************************************************)
(* Proofs about RecordGeneration: type correctness, the inductive          *)
(* invariant that ties the lease, the row and its result together, and the *)
(* safety properties of the findings a Session shows, for any number of    *)
(* generate and cancel commands and any number of edits.                   *)
(***************************************************************************)
EXTENDS RecordGeneration, TLAPS

LEMMA InitInv == Init => IInv
  BY ConstantsAssumption
  DEF Init, IInv, TypeOK, LeaseInv, RowInv, ResultInv, WithdrawnInv, Statuses,
      PCs, Answers,
      AnswerInv, Leased, Responsible, ProcessingRowHasItsCall, WithdrawnCallIsNeverAccepted, Processing

\* Every action keeps every variable in its type.
LEMMA StepType == TypeOK /\ [Next]_vars => TypeOK'
  <1> SUFFICES ASSUME TypeOK, [Next]_vars PROVE TypeOK'
    OBVIOUS
  <1> USE DEF TypeOK, row, locals, cancels, Statuses, PCs, Leased, Answers
  <1>1. ASSUME NEW c \in Calls, NEW r \in 0..revision, Reserve(c, r) PROVE TypeOK'
    BY <1>1 DEF Reserve, Goto
  <1>2. ASSUME NEW c \in Calls, Refuse(c) PROVE TypeOK'
    BY <1>2 DEF Refuse, Goto
  <1>3. ASSUME NEW c \in Calls, ReadSnapshot(c) PROVE TypeOK'
    BY <1>3 DEF ReadSnapshot, Goto
  <1>4. ASSUME NEW c \in Calls, Begin(c) PROVE TypeOK'
    BY <1>4, ConstantsAssumption DEF Begin, Current, Goto
  <1>5. ASSUME NEW c \in Calls, RefuseBegin(c) PROVE TypeOK'
    BY <1>5 DEF RefuseBegin, Return, Goto
  <1>6. ASSUME NEW c \in Calls, BindRequest(c) PROVE TypeOK'
    BY <1>6 DEF BindRequest, Goto
  <1>7. ASSUME NEW c \in Calls, BindFails(c) PROVE TypeOK'
    BY <1>7 DEF BindFails, Return, Goto
  <1>8. ASSUME NEW c \in Calls, HelperAnswers(c) PROVE TypeOK'
    BY <1>8 DEF HelperAnswers, Goto, Answers
  <1>9. ASSUME NEW c \in Calls, Accept(c) PROVE TypeOK'
    BY <1>9, ConstantsAssumption DEF Accept, Acceptable, Close, Goto
  <1>10. ASSUME NEW c \in Calls, MarkStale(c) PROVE TypeOK'
    BY <1>10, ConstantsAssumption DEF MarkStale, Close, Goto
  <1>11. ASSUME NEW c \in Calls, FinishError(c) PROVE TypeOK'
    BY <1>11, ConstantsAssumption DEF FinishError, Close, KeepResult, Goto
  <1>12. ASSUME NEW c \in Calls, FinishCancelled(c) PROVE TypeOK'
    BY <1>12, ConstantsAssumption DEF FinishCancelled, Close, Fallback, Goto
  <1>13. ASSUME NEW c \in Calls, StorageFails(c) PROVE TypeOK'
    BY <1>13 DEF StorageFails, Return, Goto
  <1>14. ASSUME NEW c \in Calls, Finish(c) PROVE TypeOK'
    BY <1>14 DEF Finish, Return, Goto
  <1>15. ASSUME NEW x \in Cancels, FindLease(x) PROVE TypeOK'
    BY <1>15 DEF FindLease
  <1>16. ASSUME NEW x \in Cancels, SetToken(x) PROVE TypeOK'
    BY <1>16 DEF SetToken
  <1>17. ASSUME NEW x \in Cancels, CancelRow(x) PROVE TypeOK'
    BY <1>17, ConstantsAssumption DEF CancelRow, Named, Close, Fallback
  <1>18. ASSUME NEW x \in Cancels, CancelRefused(x) PROVE TypeOK'
    BY <1>18 DEF CancelRefused
  <1>19. ASSUME NEW t \in RecordTypes, SetRecordType(t) PROVE TypeOK'
    BY <1>19, ConstantsAssumption DEF SetRecordType
  <1>20. ASSUME ChangeTranscript PROVE TypeOK'
    BY <1>20 DEF ChangeTranscript
  <1>21. ASSUME DeleteSession PROVE TypeOK'
    BY <1>21, ConstantsAssumption DEF DeleteSession, Close
  <1>22. ASSUME Crash PROVE TypeOK'
    BY <1>22 DEF Crash
  <1>23. ASSUME Restart PROVE TypeOK'
    BY <1>23, ConstantsAssumption DEF Restart, Close, Fallback
  <1>24. CASE UNCHANGED <<up, exists, revision, row, lease, pc, locals, cancels, stranded>>
    BY <1>24
  <1> QED
    BY <1>1, <1>2, <1>3, <1>4, <1>5, <1>6, <1>7, <1>8, <1>9, <1>10, <1>11, <1>12,
       <1>13, <1>14, <1>15, <1>16, <1>17, <1>18, <1>19, <1>20, <1>21, <1>22,
       <1>23, <1>24
    DEF Next, Step, CancelStep, vars

\* No step gives the lease to two calls, or keeps it after the holder returned.
LEMMA LeaseStep == TypeOK /\ LeaseInv /\ [Next]_vars => LeaseInv'
  <1> SUFFICES ASSUME TypeOK, LeaseInv, [Next]_vars PROVE LeaseInv'
    OBVIOUS
  <1> USE DEF TypeOK, LeaseInv, row, locals, cancels, PCs, Leased
  <1>1. ASSUME NEW c \in Calls, NEW r \in 0..revision, Reserve(c, r) PROVE LeaseInv'
    BY <1>1, ConstantsAssumption DEF Reserve, Goto
  <1>2. ASSUME NEW c \in Calls, Refuse(c) PROVE LeaseInv'
    BY <1>2 DEF Refuse, Goto
  <1>3. ASSUME NEW c \in Calls, ReadSnapshot(c) PROVE LeaseInv'
    BY <1>3 DEF ReadSnapshot, Goto
  <1>4. ASSUME NEW c \in Calls, Begin(c) PROVE LeaseInv'
    BY <1>4 DEF Begin, Current, Goto
  <1>5. ASSUME NEW c \in Calls, RefuseBegin(c) PROVE LeaseInv'
    BY <1>5, ConstantsAssumption DEF RefuseBegin, Return, Goto
  <1>6. ASSUME NEW c \in Calls, BindRequest(c) PROVE LeaseInv'
    BY <1>6 DEF BindRequest, Goto
  <1>7. ASSUME NEW c \in Calls, BindFails(c) PROVE LeaseInv'
    BY <1>7, ConstantsAssumption DEF BindFails, Return, Goto
  <1>8. ASSUME NEW c \in Calls, HelperAnswers(c) PROVE LeaseInv'
    BY <1>8 DEF HelperAnswers, Goto, Answers
  <1>9. ASSUME NEW c \in Calls, Accept(c) PROVE LeaseInv'
    BY <1>9 DEF Accept, Acceptable, Close, Goto
  <1>10. ASSUME NEW c \in Calls, MarkStale(c) PROVE LeaseInv'
    BY <1>10 DEF MarkStale, Close, Goto
  <1>11. ASSUME NEW c \in Calls, FinishError(c) PROVE LeaseInv'
    BY <1>11 DEF FinishError, Close, KeepResult, Goto
  <1>12. ASSUME NEW c \in Calls, FinishCancelled(c) PROVE LeaseInv'
    BY <1>12 DEF FinishCancelled, Close, Fallback, Goto
  <1>13. ASSUME NEW c \in Calls, StorageFails(c) PROVE LeaseInv'
    BY <1>13, ConstantsAssumption DEF StorageFails, Return, Goto
  <1>14. ASSUME NEW c \in Calls, Finish(c) PROVE LeaseInv'
    BY <1>14, ConstantsAssumption DEF Finish, Return, Goto
  <1>15. ASSUME NEW x \in Cancels, FindLease(x) PROVE LeaseInv'
    BY <1>15 DEF FindLease
  <1>16. ASSUME NEW x \in Cancels, SetToken(x) PROVE LeaseInv'
    BY <1>16 DEF SetToken
  <1>17. ASSUME NEW x \in Cancels, CancelRow(x) PROVE LeaseInv'
    BY <1>17 DEF CancelRow, Named, Close, Fallback
  <1>18. ASSUME NEW x \in Cancels, CancelRefused(x) PROVE LeaseInv'
    BY <1>18 DEF CancelRefused
  <1>19. ASSUME Crash PROVE LeaseInv'
    BY <1>19, ConstantsAssumption DEF Crash
  <1>20. ASSUME Restart PROVE LeaseInv'
    BY <1>20 DEF Restart, Close, Fallback
  <1>21. CASE UNCHANGED <<up, lease, pc>>
    BY <1>21
  <1> QED
    BY <1>1, <1>2, <1>3, <1>4, <1>5, <1>6, <1>7, <1>8, <1>9, <1>10, <1>11, <1>12,
       <1>13, <1>14, <1>15, <1>16, <1>17, <1>18, <1>19, <1>20, <1>21
    DEF Next, Step, CancelStep, vars, SetRecordType, ChangeTranscript, DeleteSession

\* No step leaves a processing row without its call.
LEMMA RowStep == TypeOK /\ LeaseInv /\ RowInv /\ ResultInv /\ [Next]_vars => RowInv'
  <1> SUFFICES ASSUME TypeOK, LeaseInv, RowInv, ResultInv, [Next]_vars PROVE RowInv'
    OBVIOUS
  <1> USE DEF TypeOK, LeaseInv, RowInv, ResultInv, ProcessingRowHasItsCall,
              Processing, row, locals, cancels, PCs, Leased, Responsible
  <1>1. ASSUME NEW c \in Calls, NEW r \in 0..revision, Reserve(c, r) PROVE RowInv'
    BY <1>1 DEF Reserve, Goto
  <1>2. ASSUME NEW c \in Calls, Refuse(c) PROVE RowInv'
    BY <1>2 DEF Refuse, Goto
  <1>3. ASSUME NEW c \in Calls, ReadSnapshot(c) PROVE RowInv'
    BY <1>3 DEF ReadSnapshot, Goto
  <1>4. ASSUME NEW c \in Calls, Begin(c) PROVE RowInv'
    BY <1>4, ConstantsAssumption DEF Begin, Current, Goto
  <1>5. ASSUME NEW c \in Calls, RefuseBegin(c) PROVE RowInv'
    BY <1>5 DEF RefuseBegin, Return, Goto
  <1>6. ASSUME NEW c \in Calls, BindRequest(c) PROVE RowInv'
    BY <1>6 DEF BindRequest, Goto
  <1>7. ASSUME NEW c \in Calls, BindFails(c) PROVE RowInv'
    BY <1>7 DEF BindFails, Return, Goto
  <1>8. ASSUME NEW c \in Calls, HelperAnswers(c) PROVE RowInv'
    BY <1>8 DEF HelperAnswers, Goto, Answers
  <1>9. ASSUME NEW c \in Calls, Accept(c) PROVE RowInv'
    BY <1>9 DEF Accept, Acceptable, Close, Goto
  <1>10. ASSUME NEW c \in Calls, MarkStale(c) PROVE RowInv'
    BY <1>10 DEF MarkStale, Close, Goto
  <1>11. ASSUME NEW c \in Calls, FinishError(c) PROVE RowInv'
    BY <1>11 DEF FinishError, Close, KeepResult, Goto
  <1>12. ASSUME NEW c \in Calls, FinishCancelled(c) PROVE RowInv'
    BY <1>12 DEF FinishCancelled, Close, Fallback, Goto
  <1>13. ASSUME NEW c \in Calls, StorageFails(c) PROVE RowInv'
    BY <1>13 DEF StorageFails, Return, Goto
  <1>14. ASSUME NEW c \in Calls, Finish(c) PROVE RowInv'
    BY <1>14 DEF Finish, Return, Goto
  <1>15. ASSUME NEW x \in Cancels, FindLease(x) PROVE RowInv'
    BY <1>15 DEF FindLease
  <1>16. ASSUME NEW x \in Cancels, SetToken(x) PROVE RowInv'
    BY <1>16 DEF SetToken
  <1>17. ASSUME NEW x \in Cancels, CancelRow(x) PROVE RowInv'
    BY <1>17 DEF CancelRow, Named, Close, Fallback
  <1>18. ASSUME NEW x \in Cancels, CancelRefused(x) PROVE RowInv'
    BY <1>18 DEF CancelRefused
  <1>19. ASSUME NEW t \in RecordTypes, SetRecordType(t) PROVE RowInv'
    BY <1>19 DEF SetRecordType
  <1>20. ASSUME DeleteSession PROVE RowInv'
    BY <1>20 DEF DeleteSession, Close
  <1>21. ASSUME Crash PROVE RowInv'
    BY <1>21, ConstantsAssumption DEF Crash
  <1>22. ASSUME Restart PROVE RowInv'
    BY <1>22 DEF Restart, Close, Fallback
  <1>23. CASE UNCHANGED <<up, exists, row, lease, pc, locals, stranded>>
    BY <1>23
  <1> QED
    BY <1>1, <1>2, <1>3, <1>4, <1>5, <1>6, <1>7, <1>8, <1>9, <1>10, <1>11, <1>12,
       <1>13, <1>14, <1>15, <1>16, <1>17, <1>18, <1>19, <1>20, <1>21, <1>22, <1>23
    DEF Next, Step, CancelStep, vars, ChangeTranscript

\* No step makes anything but a current answer of the right type the result.
LEMMA ResultStep == TypeOK /\ LeaseInv /\ RowInv /\ ResultInv /\ [Next]_vars => ResultInv'
  <1> SUFFICES ASSUME TypeOK, LeaseInv, RowInv, ResultInv, [Next]_vars PROVE ResultInv'
    OBVIOUS
  <1> USE DEF TypeOK, LeaseInv, RowInv, ResultInv, ProcessingRowHasItsCall,
              Processing, row, locals, cancels, PCs, Leased, Responsible
  <1>1. ASSUME NEW c \in Calls, NEW r \in 0..revision, Reserve(c, r) PROVE ResultInv'
    BY <1>1 DEF Reserve, Goto
  <1>2. ASSUME NEW c \in Calls, Refuse(c) PROVE ResultInv'
    BY <1>2 DEF Refuse, Goto
  <1>3. ASSUME NEW c \in Calls, ReadSnapshot(c) PROVE ResultInv'
    BY <1>3 DEF ReadSnapshot, Goto
  <1>4. ASSUME NEW c \in Calls, Begin(c) PROVE ResultInv'
    BY <1>4 DEF Begin, Current, Goto
  <1>5. ASSUME NEW c \in Calls, RefuseBegin(c) PROVE ResultInv'
    BY <1>5 DEF RefuseBegin, Return, Goto
  <1>6. ASSUME NEW c \in Calls, BindRequest(c) PROVE ResultInv'
    BY <1>6 DEF BindRequest, Goto
  <1>7. ASSUME NEW c \in Calls, BindFails(c) PROVE ResultInv'
    BY <1>7 DEF BindFails, Return, Goto
  <1>8. ASSUME NEW c \in Calls, HelperAnswers(c) PROVE ResultInv'
    BY <1>8 DEF HelperAnswers, Goto, Answers
  <1>9. ASSUME NEW c \in Calls, Accept(c) PROVE ResultInv'
    BY <1>9, ConstantsAssumption DEF Accept, Acceptable, Close, Goto
  <1>10. ASSUME NEW c \in Calls, MarkStale(c) PROVE ResultInv'
    BY <1>10 DEF MarkStale, Close, Goto
  <1>11. ASSUME NEW c \in Calls, FinishError(c) PROVE ResultInv'
    BY <1>11 DEF FinishError, Close, KeepResult, Goto
  <1>12. ASSUME NEW c \in Calls, FinishCancelled(c) PROVE ResultInv'
    BY <1>12 DEF FinishCancelled, Close, Fallback, Goto
  <1>13. ASSUME NEW c \in Calls, StorageFails(c) PROVE ResultInv'
    BY <1>13 DEF StorageFails, Return, Goto
  <1>14. ASSUME NEW c \in Calls, Finish(c) PROVE ResultInv'
    BY <1>14 DEF Finish, Return, Goto
  <1>15. ASSUME NEW x \in Cancels, FindLease(x) PROVE ResultInv'
    BY <1>15 DEF FindLease
  <1>16. ASSUME NEW x \in Cancels, SetToken(x) PROVE ResultInv'
    BY <1>16 DEF SetToken
  <1>17. ASSUME NEW x \in Cancels, CancelRow(x) PROVE ResultInv'
    BY <1>17 DEF CancelRow, Named, Close, Fallback
  <1>18. ASSUME NEW x \in Cancels, CancelRefused(x) PROVE ResultInv'
    BY <1>18 DEF CancelRefused
  <1>19. ASSUME NEW t \in RecordTypes, SetRecordType(t) PROVE ResultInv'
    BY <1>19, ConstantsAssumption DEF SetRecordType
  <1>20. ASSUME ChangeTranscript PROVE ResultInv'
    BY <1>20 DEF ChangeTranscript
  <1>21. ASSUME DeleteSession PROVE ResultInv'
    BY <1>21, ConstantsAssumption DEF DeleteSession, Close
  <1>22. ASSUME Crash PROVE ResultInv'
    BY <1>22 DEF Crash
  <1>23. ASSUME Restart PROVE ResultInv'
    BY <1>23 DEF Restart, Close, Fallback
  <1>24. CASE UNCHANGED <<revision, type, status, result, input, active, pc, locals>>
    BY <1>24
  <1> QED
    BY <1>1, <1>2, <1>3, <1>4, <1>5, <1>6, <1>7, <1>8, <1>9, <1>10, <1>11, <1>12,
       <1>13, <1>14, <1>15, <1>16, <1>17, <1>18, <1>19, <1>20, <1>21, <1>22,
       <1>23, <1>24
    DEF Next, Step, CancelStep, vars

\* No step accepts a withdrawn call.
LEMMA WithdrawnStep == TypeOK /\ LeaseInv /\ RowInv /\ ResultInv /\ WithdrawnInv /\ [Next]_vars => WithdrawnInv'
  <1> SUFFICES ASSUME TypeOK, LeaseInv, RowInv, ResultInv, WithdrawnInv, [Next]_vars PROVE WithdrawnInv'
    OBVIOUS
  <1> USE DEF TypeOK, LeaseInv, RowInv, ResultInv, WithdrawnInv,
              WithdrawnCallIsNeverAccepted, Processing, row, locals, cancels, PCs,
              Leased
  <1>1. ASSUME NEW c \in Calls, NEW r \in 0..revision, Reserve(c, r) PROVE WithdrawnInv'
    BY <1>1 DEF Reserve, Goto
  <1>2. ASSUME NEW c \in Calls, Refuse(c) PROVE WithdrawnInv'
    BY <1>2 DEF Refuse, Goto
  <1>3. ASSUME NEW c \in Calls, ReadSnapshot(c) PROVE WithdrawnInv'
    BY <1>3 DEF ReadSnapshot, Goto
  <1>4. ASSUME NEW c \in Calls, Begin(c) PROVE WithdrawnInv'
    BY <1>4 DEF Begin, Current, Goto
  <1>5. ASSUME NEW c \in Calls, RefuseBegin(c) PROVE WithdrawnInv'
    BY <1>5 DEF RefuseBegin, Return, Goto
  <1>6. ASSUME NEW c \in Calls, BindRequest(c) PROVE WithdrawnInv'
    BY <1>6 DEF BindRequest, Goto
  <1>7. ASSUME NEW c \in Calls, BindFails(c) PROVE WithdrawnInv'
    BY <1>7 DEF BindFails, Return, Goto
  <1>8. ASSUME NEW c \in Calls, HelperAnswers(c) PROVE WithdrawnInv'
    BY <1>8 DEF HelperAnswers, Goto, Answers
  <1>9. ASSUME NEW c \in Calls, Accept(c) PROVE WithdrawnInv'
    BY <1>9 DEF Accept, Acceptable, Close, Goto
  <1>10. ASSUME NEW c \in Calls, MarkStale(c) PROVE WithdrawnInv'
    BY <1>10 DEF MarkStale, Close, Goto
  <1>11. ASSUME NEW c \in Calls, FinishError(c) PROVE WithdrawnInv'
    BY <1>11 DEF FinishError, Close, KeepResult, Goto
  <1>12. ASSUME NEW c \in Calls, FinishCancelled(c) PROVE WithdrawnInv'
    BY <1>12 DEF FinishCancelled, Close, Fallback, Goto
  <1>13. ASSUME NEW c \in Calls, StorageFails(c) PROVE WithdrawnInv'
    BY <1>13 DEF StorageFails, Return, Goto
  <1>14. ASSUME NEW c \in Calls, Finish(c) PROVE WithdrawnInv'
    BY <1>14 DEF Finish, Return, Goto
  <1>15. ASSUME NEW x \in Cancels, FindLease(x) PROVE WithdrawnInv'
    BY <1>15 DEF FindLease
  <1>16. ASSUME NEW x \in Cancels, SetToken(x) PROVE WithdrawnInv'
    BY <1>16 DEF SetToken
  <1>17. ASSUME NEW x \in Cancels, CancelRow(x) PROVE WithdrawnInv'
    BY <1>17 DEF CancelRow, Named, Close, Fallback
  <1>18. ASSUME NEW x \in Cancels, CancelRefused(x) PROVE WithdrawnInv'
    BY <1>18 DEF CancelRefused
  <1>19. ASSUME NEW t \in RecordTypes, SetRecordType(t) PROVE WithdrawnInv'
    BY <1>19, ConstantsAssumption DEF SetRecordType
  <1>20. ASSUME ChangeTranscript PROVE WithdrawnInv'
    BY <1>20 DEF ChangeTranscript
  <1>21. ASSUME DeleteSession PROVE WithdrawnInv'
    BY <1>21, ConstantsAssumption DEF DeleteSession, Close
  <1>22. ASSUME Crash PROVE WithdrawnInv'
    BY <1>22 DEF Crash
  <1>23. ASSUME Restart PROVE WithdrawnInv'
    BY <1>23 DEF Restart, Close, Fallback
  <1>24. CASE UNCHANGED <<status, active, result, bound, withdrawn, pc>>
    BY <1>24
  <1> QED
    BY <1>1, <1>2, <1>3, <1>4, <1>5, <1>6, <1>7, <1>8, <1>9, <1>10, <1>11, <1>12,
       <1>13, <1>14, <1>15, <1>16, <1>17, <1>18, <1>19, <1>20, <1>21, <1>22,
       <1>23, <1>24
    DEF Next, Step, CancelStep, vars

\* A call is withdrawn by its own token only.
LEMMA WithdrawalStep == TypeOK /\ LeaseInv /\ RowInv /\ ResultInv /\ AnswerInv /\ [Next]_vars => WithdrawalWasAsked
  <1> SUFFICES ASSUME TypeOK, LeaseInv, RowInv, ResultInv, AnswerInv, [Next]_vars PROVE WithdrawalWasAsked
    OBVIOUS
  <1> USE DEF TypeOK, LeaseInv, RowInv, ResultInv, AnswerInv, WithdrawalWasAsked,
              Processing, row, locals, cancels
  <1>1. ASSUME NEW c \in Calls, Begin(c) PROVE WithdrawalWasAsked
    BY <1>1, ConstantsAssumption DEF Begin, Current, Goto
  <1>2. ASSUME NEW c \in Calls, Accept(c) PROVE WithdrawalWasAsked
    BY <1>2, ConstantsAssumption DEF Accept, Acceptable, Close, Goto
  <1>3. ASSUME NEW c \in Calls, MarkStale(c) PROVE WithdrawalWasAsked
    BY <1>3 DEF MarkStale, Close, Goto
  <1>4. ASSUME NEW c \in Calls, FinishError(c) PROVE WithdrawalWasAsked
    BY <1>4 DEF FinishError, Close, KeepResult, Goto
  <1>5. ASSUME NEW c \in Calls, FinishCancelled(c) PROVE WithdrawalWasAsked
    BY <1>5 DEF FinishCancelled, Close, Fallback, Goto
  <1>6. ASSUME NEW x \in Cancels, CancelRow(x) PROVE WithdrawalWasAsked
    BY <1>6 DEF CancelRow, Named, Close, Fallback
  <1>7. ASSUME NEW t \in RecordTypes, SetRecordType(t) PROVE WithdrawalWasAsked
    BY <1>7 DEF SetRecordType
  <1>8. ASSUME DeleteSession PROVE WithdrawalWasAsked
    BY <1>8, ConstantsAssumption DEF DeleteSession, Close
  <1>9. ASSUME Restart PROVE WithdrawalWasAsked
    BY <1>9 DEF Restart, Close, Fallback
  <1>10. CASE UNCHANGED <<status, active, result, told, up>>
    BY <1>10
  <1> QED
    BY <1>1, <1>2, <1>3, <1>4, <1>5, <1>6, <1>7, <1>8, <1>9, <1>10
    DEF Next, Step, CancelStep, vars, Refuse, RefuseBegin, BindRequest, BindFails,
        StorageFails, Finish, FindLease, SetToken, CancelRefused,
        ChangeTranscript, Crash, Reserve, ReadSnapshot, HelperAnswers

\* Findings give way to newer ones, to another type and with the Session only.
LEMMA FindingsStep == TypeOK /\ RowInv /\ [Next]_vars => FindingsGiveWay
  <1> SUFFICES ASSUME TypeOK, RowInv, [Next]_vars PROVE FindingsGiveWay
    OBVIOUS
  <1> USE DEF TypeOK, RowInv, FindingsGiveWay, Processing, row, locals, cancels
  <1>1. ASSUME NEW c \in Calls, Accept(c) PROVE FindingsGiveWay
    BY <1>1 DEF Accept, Acceptable, Close, Goto
  <1>2. ASSUME NEW c \in Calls, FinishError(c) PROVE FindingsGiveWay
    BY <1>2 DEF FinishError, Close, KeepResult, Goto
  <1>3. ASSUME NEW c \in Calls, FinishCancelled(c) PROVE FindingsGiveWay
    BY <1>3 DEF FinishCancelled, Close, Fallback, Goto
  <1>4. ASSUME NEW x \in Cancels, CancelRow(x) PROVE FindingsGiveWay
    BY <1>4 DEF CancelRow, Named, Close, Fallback
  <1>5. ASSUME NEW t \in RecordTypes, SetRecordType(t) PROVE FindingsGiveWay
    BY <1>5 DEF SetRecordType
  <1>6. ASSUME DeleteSession PROVE FindingsGiveWay
    BY <1>6 DEF DeleteSession, Close
  <1>7. ASSUME Restart PROVE FindingsGiveWay
    BY <1>7 DEF Restart, Close, Fallback
  <1>8. CASE UNCHANGED <<result, input>>
    BY <1>8
  <1> QED
    BY <1>1, <1>2, <1>3, <1>4, <1>5, <1>6, <1>7, <1>8
    DEF Next, Step, CancelStep, vars, Refuse, RefuseBegin, BindRequest, BindFails,
        StorageFails, Finish, FindLease, SetToken, CancelRefused,
        ChangeTranscript, Crash, Reserve, ReadSnapshot, HelperAnswers, Begin,
        MarkStale

LEMMA AnswerStep == TypeOK /\ AnswerInv /\ [Next]_vars => AnswerInv'
  BY DEF TypeOK, AnswerInv, row, locals, cancels, Next, Step, CancelStep, vars,
     Reserve,
         Refuse, ReadSnapshot, Begin, RefuseBegin, BindRequest, BindFails, HelperAnswers,
         Accept, MarkStale, FinishError, FinishCancelled, StorageFails, Finish, FindLease,
         SetToken, CancelRow, CancelRefused, SetRecordType, ChangeTranscript,
         DeleteSession, Crash, Restart

LEMMA StepInv == IInv /\ [Next]_vars => IInv'
  BY StepType, LeaseStep, RowStep, ResultStep, WithdrawnStep, AnswerStep DEF IInv

\* Every variable keeps its type, and the row never violates the CHECK that
\* ties the processing state to its request.
THEOREM TypeCorrect == Spec => []TypeOK
  <1>1. IInv => TypeOK
    BY DEF IInv
  <1> QED
    BY <1>1, InitInv, StepInv, PTL DEF Spec

\* Lease, row, result and cancellations agree at every step.
THEOREM Invariance == Spec => []IInv
  BY InitInv, StepInv, PTL DEF Spec

\* Findings that are shown were generated from the transcript the Session has
\* now, for the type it has now.
THEOREM ShownIsCurrent == Spec => []ShownFindingsAreCurrent
  <1>1. IInv => ShownFindingsAreCurrent
    BY DEF IInv, ResultInv, ShownFindingsAreCurrent, ShownStatus
  <1> QED
    BY <1>1, Invariance, PTL

\* A confirmed cancellation wins over every late answer.
THEOREM WithdrawnStaysOut == Spec => []WithdrawnCallIsNeverAccepted
  <1>1. IInv => WithdrawnCallIsNeverAccepted
    BY DEF IInv, WithdrawnInv
  <1> QED
    BY <1>1, Invariance, PTL

\* The row processes only for a call that will close it.
THEOREM NoAbandonedGeneration == Spec => []ProcessingRowHasItsCall
  <1>1. IInv => ProcessingRowHasItsCall
    BY DEF IInv, RowInv
  <1> QED
    BY <1>1, Invariance, PTL

\* A late cancel command never withdraws the next generation.
THEOREM CancelIsAimed == Spec => CancelHitsItsTarget
  <1>1. IInv /\ [Next]_vars => [WithdrawalWasAsked]_vars
    BY WithdrawalStep DEF IInv
  <1> QED
    BY <1>1, Invariance, PTL DEF Spec, CancelHitsItsTarget

\* No failed, cancelled, stale or interrupted attempt touches the findings.
THEOREM FindingsAreKept == Spec => FindingsSurviveFailures
  <1>1. IInv /\ [Next]_vars => [FindingsGiveWay]_vars
    BY FindingsStep DEF IInv
  <1> QED
    BY <1>1, Invariance, PTL DEF Spec, FindingsSurviveFailures

\* An attempt harms neither another attempt nor the stored findings.
THEOREM AttemptsDoNoHarm == Spec => AttemptsAreContained
  BY CancelIsAimed, FindingsAreKept, PTL DEF AttemptsAreContained
=============================================================================
