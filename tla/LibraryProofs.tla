---------------------------- MODULE LibraryProofs ----------------------------
(***************************************************************************)
(* Proofs about Library, for any values of its constants that its          *)
(* assumptions allow.  A component keeps its inductive invariant by each   *)
(* of its steps, one lemma for each conjunct; a behaviour of the library   *)
(* is one of one component, so that the invariant of the component holds   *)
(* in all of it, and the property follows.  The credentials come first,    *)
(* and are proved of ProviderCredentials alone before they are of Library. *)
(***************************************************************************)
EXTENDS Library, FiniteSetTheorems, FunctionTheorems, SequenceTheorems,
        WellFoundedInduction, TLAPS

-----------------------------------------------------------------------------
(* The credentials of the providers.  For any set of destinations and any  *)
(* number of replacements, whatever call fails and wherever the process    *)
(* ends, a secret stays bound to the destination it was entered for, an    *)
(* enabled provider is the one the user enabled, no secret is left without *)
(* an owner, and none is erased before its replacement is ready.           *)

LEMMA InitInv == Init => IInv
  <1> SUFFICES ASSUME Init PROVE IInv
    OBVIOUS
  <1> USE ConstantsAssumption DEF Init, Stored, Staged, Accounts, Generations
  <1>1. \A a \in Accounts : Stored(a) => configured /\ a = Legacy /\ keychain[a] = destination
    OBVIOUS
  <1>2. TypeOK
    <2>1. generation \in Generations /\ ready \in Generations /\ account \in Accounts
      OBVIOUS
    <2>2. keychain \in [Accounts -> Destinations \cup {None}]
      OBVIOUS
    <2>3. enabled \in BOOLEAN /\ approved \in Destinations \cup {None}
      OBVIOUS
    <2> QED
      BY <2>1, <2>2, <2>3 DEF TypeOK, Steps, Preamble, Commands
  <1>3. RowIsNamed /\ SupersededIsNamed /\ StepsAgree /\ EnabledAsApproved
    BY DEF RowIsNamed, SupersededIsNamed, StepsAgree, EnabledAsApproved
  <1>4. SecretsAreNamed /\ LegacyIsKept /\ NoOrphanSecret
    BY <1>1 DEF SecretsAreNamed, LegacyIsKept, NoOrphanSecret
  <1> QED
    BY <1>2, <1>3, <1>4 DEF IInv

\* What stage_replacement leaves of the row.
LEMMA StageFacts ==
  ASSUME TypeOK, NEW d \in Destinations, Stage(d),
         configured => ready \in Generations
  PROVE /\ configured' = TRUE /\ destination' = d /\ enabled' = FALSE
        /\ generation' \in Generations /\ generation' # 0
        /\ ready' \in Generations \cup {None} /\ Staged'
        /\ account' = <<generation', d>> /\ account' \in Accounts
        /\ account' # Legacy
        /\ superseded' \in Superseded \cup {None}
        /\ configured =>
             /\ superseded' # None
             /\ superseded'.destination = destination
             /\ superseded'.account = account
        /\ ~configured => superseded' = None
  <1> USE ConstantsAssumption DEF Stage, TypeOK, Staged, Generations, Accounts
  <1>1. PICK next \in NextGenerations :
          next <= MaxGeneration /\ generation' = next /\ account' = <<next, d>>
    OBVIOUS
  <1>2. next \in Generations /\ next # 0
    BY <1>1 DEF NextGenerations
  <1>3. <<next, d>> \in Nat \X Destinations
    BY <1>2
  <1>4. account' # Legacy /\ account' \in Accounts
    BY <1>1, <1>2, <1>3
  <1>5. ready' = None /\ generation' # None
    BY <1>1, <1>2
  <1>6. CASE configured
    <2>1. superseded' = [destination |-> destination, generation |-> generation,
                         ready |-> ready, account |-> account]
      BY <1>6
    <2>2. superseded' \in Superseded
      BY <1>6, <2>1 DEF Superseded
    <2>3. superseded' # None
      BY <2>2, SupersededAssumption
    <2> QED
      BY <1>1, <1>2, <1>4, <1>5, <1>6, <2>1, <2>2, <2>3
  <1>7. CASE ~configured
    BY <1>1, <1>2, <1>4, <1>5, <1>7
  <1> QED
    BY <1>6, <1>7

\* rollback_staged_replacement writes columns of their types.
LEMMA RollBackType ==
  ASSUME TypeOK, RollBack
  PROVE /\ configured' \in BOOLEAN /\ destination' \in Destinations
        /\ enabled' \in BOOLEAN /\ generation' \in Generations
        /\ ready' \in Generations \cup {None} /\ account' \in Accounts
        /\ superseded' \in Superseded \cup {None}
  <1> USE DEF TypeOK, RollBack
  <1>1. CASE superseded # None
    <2>1. superseded \in Superseded
      BY <1>1
    <2>2. /\ superseded.destination \in Destinations
          /\ superseded.generation \in Generations
          /\ superseded.ready \in Generations
          /\ superseded.account \in Accounts
      BY <2>1 DEF Superseded
    <2> QED
      BY <1>1, <2>2
  <1>2. CASE superseded = None
    <2>1. 0 \in Generations /\ Legacy \in Accounts
      BY ConstantsAssumption DEF Generations, Accounts
    <2> QED
      BY <1>2, <2>1
  <1> QED
    BY <1>1, <1>2

\* Every action keeps every variable in its type.
LEMMA StepType == IInv /\ [Next]_vars => TypeOK'
  <1> SUFFICES ASSUME IInv, [Next]_vars PROVE TypeOK'
    OBVIOUS
  <1> USE ConstantsAssumption DEF IInv, TypeOK, RowIsNamed, StepsAgree, row,
        locals, Stored, Staged, Steps, Preamble, Commands, Generations,
        Accounts, Superseded
  <1>1. ASSUME NEW c \in Commands \ {"none", "startup"}, NEW d \in Destinations, Begin(c, d) PROVE TypeOK'
    BY <1>1 DEF Begin
  <1>2. ASSUME FindLegacy PROVE TypeOK'
    BY <1>2 DEF FindLegacy, Goto
  <1>3. ASSUME Adopt PROVE TypeOK'
    <2>1. Adopt
      BY <1>3
    <2>2. /\ Stage(destination) /\ destination \in Destinations
          /\ configured => ready \in Generations
      BY <2>1 DEF Adopt
    <2>3. /\ configured' \in BOOLEAN /\ destination' \in Destinations
          /\ enabled' \in BOOLEAN /\ generation' \in Generations
          /\ ready' \in Generations \cup {None} /\ account' \in Accounts
          /\ superseded' \in Superseded \cup {None}
      BY <2>2, StageFacts
    <2> QED
      BY <2>1, <2>3 DEF Adopt, Goto
  <1>4. ASSUME CopySecret PROVE TypeOK'
    BY <1>4 DEF CopySecret, Goto
  <1>5. ASSUME MarkAdopted PROVE TypeOK'
    BY <1>5 DEF MarkAdopted, MarkReady, Goto
  <1>6. ASSUME Reenable PROVE TypeOK'
    BY <1>6 DEF Reenable, Goto
  <1>7. ASSUME DropLegacy PROVE TypeOK'
    BY <1>7 DEF DropLegacy, Erase, Goto
  <1>8. ASSUME CompleteStaged PROVE TypeOK'
    BY <1>8 DEF CompleteStaged, MarkReady, Goto
  <1>9. ASSUME AbandonStaged PROVE TypeOK'
    <2>1. AbandonStaged
      BY <1>9
    <2>2. RollBack
      BY <2>1 DEF AbandonStaged
    <2>3. /\ configured' \in BOOLEAN /\ destination' \in Destinations
          /\ enabled' \in BOOLEAN /\ generation' \in Generations
          /\ ready' \in Generations \cup {None} /\ account' \in Accounts
          /\ superseded' \in Superseded \cup {None}
      BY <2>2, RollBackType
    <2> QED
      BY <2>1, <2>3 DEF AbandonStaged, Goto
  <1>10. ASSUME NothingStaged PROVE TypeOK'
    BY <1>10 DEF NothingStaged, Goto
  <1>11. ASSUME EraseSuperseded PROVE TypeOK'
    BY <1>11 DEF EraseSuperseded, Erase, Goto
  <1>12. ASSUME ForgetSuperseded PROVE TypeOK'
    BY <1>12 DEF ForgetSuperseded, Return, Goto
  <1>13. ASSUME EndStatus PROVE TypeOK'
    BY <1>13 DEF EndStatus, Return
  <1>14. ASSUME StageSave PROVE TypeOK'
    <2>1. StageSave
      BY <1>14
    <2>2. /\ Stage(wanted) /\ wanted \in Destinations
          /\ configured => ready \in Generations
      BY <2>1 DEF StageSave
    <2>3. /\ configured' \in BOOLEAN /\ destination' \in Destinations
          /\ enabled' \in BOOLEAN /\ generation' \in Generations
          /\ ready' \in Generations \cup {None} /\ account' \in Accounts
          /\ superseded' \in Superseded \cup {None}
      BY <2>2, StageFacts
    <2> QED
      BY <2>1, <2>3 DEF StageSave, Goto
  <1>15. ASSUME StoreSecret PROVE TypeOK'
    BY <1>15 DEF StoreSecret, Goto
  <1>16. ASSUME StoreFails PROVE TypeOK'
    BY <1>16 DEF StoreFails, Goto
  <1>17. ASSUME UndoSave PROVE TypeOK'
    <2>1. UndoSave
      BY <1>17
    <2>2. RollBack
      BY <2>1 DEF UndoSave
    <2>3. /\ configured' \in BOOLEAN /\ destination' \in Destinations
          /\ enabled' \in BOOLEAN /\ generation' \in Generations
          /\ ready' \in Generations \cup {None} /\ account' \in Accounts
          /\ superseded' \in Superseded \cup {None}
      BY <2>2, RollBackType
    <2> QED
      BY <2>1, <2>3 DEF UndoSave, Return
  <1>18. ASSUME MarkSaved PROVE TypeOK'
    BY <1>18 DEF MarkSaved, MarkReady, Goto
  <1>19. ASSUME SwitchTask PROVE TypeOK'
    BY <1>19 DEF SwitchTask, Return
  <1>20. ASSUME EraseAll PROVE TypeOK'
    BY <1>20 DEF EraseAll, Goto
  <1>21. ASSUME Withdraw PROVE TypeOK'
    BY <1>21 DEF Withdraw, Return
  <1>22. ASSUME Fail PROVE TypeOK'
    BY <1>22 DEF Fail, Return
  <1>23. ASSUME Crash PROVE TypeOK'
    BY <1>23 DEF Crash, Return
  <1>24. ASSUME Restart PROVE TypeOK'
    BY <1>24 DEF Restart
  <1>25. CASE UNCHANGED <<up, row, keychain, locals, approved>>
    BY <1>25
  <1> QED
    BY <1>1, <1>2, <1>3, <1>4, <1>5, <1>6, <1>7, <1>8, <1>9, <1>10, <1>11,
       <1>12, <1>13, <1>14, <1>15, <1>16, <1>17, <1>18, <1>19, <1>20, <1>21,
       <1>22, <1>23, <1>24, <1>25
    DEF Next, Complete, Body, vars

\* No step gives the row an account that does not name its generation.
LEMMA StepRow == IInv /\ [Next]_vars => RowIsNamed'
  <1> SUFFICES ASSUME IInv, [Next]_vars PROVE RowIsNamed'
    OBVIOUS
  <1> USE ConstantsAssumption DEF IInv, TypeOK, RowIsNamed, SupersededIsNamed,
        LegacyIsKept, row, locals, Stored, Staged, Accounts, Superseded,
        Generations
  <1>1. ASSUME Adopt PROVE RowIsNamed'
    BY <1>1 DEF Adopt, Stage, NextGenerations, Goto
  <1>2. ASSUME MarkAdopted PROVE RowIsNamed'
    BY <1>2 DEF MarkAdopted, MarkReady, Goto
  <1>3. ASSUME Reenable PROVE RowIsNamed'
    BY <1>3 DEF Reenable, Goto
  <1>4. ASSUME CompleteStaged PROVE RowIsNamed'
    BY <1>4 DEF CompleteStaged, MarkReady, Goto
  <1>5. ASSUME AbandonStaged PROVE RowIsNamed'
    BY <1>5 DEF AbandonStaged, RollBack, Goto
  <1>6. ASSUME ForgetSuperseded PROVE RowIsNamed'
    BY <1>6 DEF ForgetSuperseded, Return, Goto
  <1>7. ASSUME StageSave PROVE RowIsNamed'
    BY <1>7 DEF StageSave, Stage, NextGenerations, Goto
  <1>8. ASSUME UndoSave PROVE RowIsNamed'
    BY <1>8 DEF UndoSave, RollBack, Return
  <1>9. ASSUME MarkSaved PROVE RowIsNamed'
    BY <1>9 DEF MarkSaved, MarkReady, Goto
  <1>10. ASSUME SwitchTask PROVE RowIsNamed'
    BY <1>10 DEF SwitchTask, Return
  <1>11. ASSUME Withdraw PROVE RowIsNamed'
    BY <1>11 DEF Withdraw, Return
  <1>12. CASE UNCHANGED row
    BY <1>12
  <1> QED
    BY <1>1, <1>2, <1>3, <1>4, <1>5, <1>6, <1>7, <1>8, <1>9, <1>10, <1>11,
       <1>12
    DEF Next, Complete, Body, vars, Begin, FindLegacy, CopySecret, DropLegacy,
        NothingStaged, EraseSuperseded, EndStatus, StoreSecret, StoreFails,
        EraseAll, Fail, Crash, Restart

\* What a row supersedes was ready.
LEMMA StepSuperseded == IInv /\ [Next]_vars => SupersededIsNamed'
  <1> SUFFICES ASSUME IInv, [Next]_vars PROVE SupersededIsNamed'
    OBVIOUS
  <1> USE ConstantsAssumption DEF IInv, TypeOK, RowIsNamed, SupersededIsNamed,
        StepsAgree, row, locals, Stored, Staged, Accounts, Superseded,
        Generations
  <1>1. ASSUME Adopt PROVE SupersededIsNamed'
    BY <1>1 DEF Adopt, Stage, NextGenerations, Goto
  <1>2. ASSUME MarkAdopted PROVE SupersededIsNamed'
    BY <1>2 DEF MarkAdopted, MarkReady, Goto
  <1>3. ASSUME Reenable PROVE SupersededIsNamed'
    BY <1>3 DEF Reenable, Goto
  <1>4. ASSUME CompleteStaged PROVE SupersededIsNamed'
    BY <1>4 DEF CompleteStaged, MarkReady, Goto
  <1>5. ASSUME AbandonStaged PROVE SupersededIsNamed'
    BY <1>5 DEF AbandonStaged, RollBack, Goto
  <1>6. ASSUME ForgetSuperseded PROVE SupersededIsNamed'
    BY <1>6 DEF ForgetSuperseded, Return, Goto
  <1>7. ASSUME StageSave PROVE SupersededIsNamed'
    BY <1>7 DEF StageSave, Stage, NextGenerations, Goto
  <1>8. ASSUME UndoSave PROVE SupersededIsNamed'
    BY <1>8 DEF UndoSave, RollBack, Return
  <1>9. ASSUME MarkSaved PROVE SupersededIsNamed'
    BY <1>9 DEF MarkSaved, MarkReady, Goto
  <1>10. ASSUME SwitchTask PROVE SupersededIsNamed'
    BY <1>10 DEF SwitchTask, Return
  <1>11. ASSUME Withdraw PROVE SupersededIsNamed'
    BY <1>11 DEF Withdraw, Return
  <1>12. CASE UNCHANGED row
    BY <1>12
  <1> QED
    BY <1>1, <1>2, <1>3, <1>4, <1>5, <1>6, <1>7, <1>8, <1>9, <1>10, <1>11,
       <1>12
    DEF Next, Complete, Body, vars, Begin, FindLegacy, CopySecret, DropLegacy,
        NothingStaged, EraseSuperseded, EndStatus, StoreSecret, StoreFails,
        EraseAll, Fail, Crash, Restart

\* No step stores a secret under another destination.
LEMMA StepSecrets == IInv /\ [Next]_vars => SecretsAreNamed'
  <1> SUFFICES ASSUME IInv, [Next]_vars PROVE SecretsAreNamed'
    OBVIOUS
  <1> USE ConstantsAssumption DEF IInv, TypeOK, RowIsNamed, SecretsAreNamed,
        LegacyIsKept, StepsAgree, row, locals, Stored, Staged, Accounts,
        Superseded, Generations
  <1>1. ASSUME CopySecret PROVE SecretsAreNamed'
    BY <1>1 DEF CopySecret, Goto
  <1>2. ASSUME DropLegacy PROVE SecretsAreNamed'
    BY <1>2 DEF DropLegacy, Erase, Goto
  <1>3. ASSUME EraseSuperseded PROVE SecretsAreNamed'
    BY <1>3 DEF EraseSuperseded, Erase, Goto
  <1>4. ASSUME StoreSecret PROVE SecretsAreNamed'
    BY <1>4 DEF StoreSecret, Goto
  <1>5. ASSUME EraseAll PROVE SecretsAreNamed'
    BY <1>5 DEF EraseAll, Goto
  <1>6. CASE UNCHANGED keychain
    BY <1>6
  <1> QED
    BY <1>1, <1>2, <1>3, <1>4, <1>5, <1>6
    DEF Next, Complete, Body, vars, Begin, FindLegacy, Adopt, MarkAdopted,
        Reenable, CompleteStaged, AbandonStaged, NothingStaged,
        ForgetSuperseded, EndStatus, StageSave, StoreFails, UndoSave,
        MarkSaved, SwitchTask, Withdraw, Fail, Crash, Restart

\* The secret of the old form keeps its destination.
LEMMA StepLegacy == IInv /\ [Next]_vars => LegacyIsKept'
  <1> SUFFICES ASSUME IInv, [Next]_vars PROVE LegacyIsKept'
    OBVIOUS
  <1> USE ConstantsAssumption DEF IInv, TypeOK, RowIsNamed, SupersededIsNamed,
        LegacyIsKept, StepsAgree, row, locals, Stored, Staged, Accounts,
        Superseded, Generations
  <1>1. ASSUME Adopt PROVE LegacyIsKept'
    <2>1. Adopt
      BY <1>1
    <2>2. /\ Stage(destination) /\ destination \in Destinations
          /\ configured => ready \in Generations
      BY <2>1 DEF Adopt
    <2>3. /\ destination' = destination /\ configured' /\ Staged' /\ enabled' = FALSE
          /\ account' = <<generation', destination>> /\ account' # Legacy
          /\ account' \in Accounts
          /\ configured =>
               /\ superseded' # None
               /\ superseded'.destination = destination
               /\ superseded'.account = account
          /\ ~configured => superseded' = None
      BY <2>2, StageFacts
    <2> QED
      BY <2>1, <2>3 DEF Adopt, Goto
  <1>2. ASSUME CopySecret PROVE LegacyIsKept'
    BY <1>2 DEF CopySecret, Goto
  <1>3. ASSUME MarkAdopted PROVE LegacyIsKept'
    BY <1>3 DEF MarkAdopted, MarkReady, Goto
  <1>4. ASSUME Reenable PROVE LegacyIsKept'
    BY <1>4 DEF Reenable, Goto
  <1>5. ASSUME DropLegacy PROVE LegacyIsKept'
    BY <1>5 DEF DropLegacy, Erase, Goto
  <1>6. ASSUME CompleteStaged PROVE LegacyIsKept'
    BY <1>6 DEF CompleteStaged, MarkReady, Goto
  <1>7. ASSUME AbandonStaged PROVE LegacyIsKept'
    BY <1>7 DEF AbandonStaged, RollBack, Goto
  <1>8. ASSUME EraseSuperseded PROVE LegacyIsKept'
    BY <1>8 DEF EraseSuperseded, Erase, Goto
  <1>9. ASSUME ForgetSuperseded PROVE LegacyIsKept'
    BY <1>9 DEF ForgetSuperseded, Return, Goto
  <1>10. ASSUME StageSave PROVE LegacyIsKept'
    <2>1. StageSave
      BY <1>10
    <2>2. /\ Stage(wanted) /\ wanted \in Destinations
          /\ configured => ready \in Generations
      BY <2>1 DEF StageSave
    <2>3. /\ destination' = wanted /\ configured' /\ Staged' /\ enabled' = FALSE
          /\ account' = <<generation', wanted>> /\ account' # Legacy
          /\ account' \in Accounts
          /\ configured =>
               /\ superseded' # None
               /\ superseded'.destination = destination
               /\ superseded'.account = account
          /\ ~configured => superseded' = None
      BY <2>2, StageFacts
    <2> QED
      BY <2>1, <2>3 DEF StageSave, Goto
  <1>11. ASSUME StoreSecret PROVE LegacyIsKept'
    BY <1>11 DEF StoreSecret, Goto
  <1>12. ASSUME UndoSave PROVE LegacyIsKept'
    BY <1>12 DEF UndoSave, RollBack, Return
  <1>13. ASSUME MarkSaved PROVE LegacyIsKept'
    BY <1>13 DEF MarkSaved, MarkReady, Goto
  <1>14. ASSUME SwitchTask PROVE LegacyIsKept'
    BY <1>14 DEF SwitchTask, Return
  <1>15. ASSUME EraseAll PROVE LegacyIsKept'
    BY <1>15 DEF EraseAll, Goto
  <1>16. ASSUME Withdraw PROVE LegacyIsKept'
    BY <1>16 DEF Withdraw, Return
  <1>17. CASE UNCHANGED <<row, keychain>>
    BY <1>17
  <1> QED
    BY <1>1, <1>2, <1>3, <1>4, <1>5, <1>6, <1>7, <1>8, <1>9, <1>10, <1>11,
       <1>12, <1>13, <1>14, <1>15, <1>16, <1>17
    DEF Next, Complete, Body, vars, Begin, FindLegacy, NothingStaged,
        EndStatus, StoreFails, Fail, Crash, Restart

\* Every step of a command finds what the former one has left.
LEMMA StepSteps == IInv /\ [Next]_vars => StepsAgree'
  <1> SUFFICES ASSUME IInv, [Next]_vars PROVE StepsAgree'
    OBVIOUS
  <1> USE ConstantsAssumption DEF IInv, RowIsNamed, SupersededIsNamed,
        SecretsAreNamed, LegacyIsKept, StepsAgree, NoOrphanSecret,
        EnabledAsApproved, TypeOK, row, locals, Stored, Staged, Accounts,
        Superseded, Generations
  <1>1. ASSUME NEW c \in Commands \ {"none", "startup"}, NEW d \in Destinations, Begin(c, d) PROVE StepsAgree'
    BY <1>1 DEF Begin
  <1>2. ASSUME FindLegacy PROVE StepsAgree'
    BY <1>2 DEF FindLegacy, Goto
  <1>3. ASSUME Adopt PROVE StepsAgree'
    <2>1. Adopt
      BY <1>3
    <2>2. /\ Stage(destination) /\ destination \in Destinations
          /\ configured => ready \in Generations
      BY <2>1 DEF Adopt
    <2>3. /\ destination' = destination /\ configured' /\ Staged' /\ enabled' = FALSE
          /\ account' = <<generation', destination>> /\ account' # Legacy
          /\ account' \in Accounts
          /\ configured =>
               /\ superseded' # None
               /\ superseded'.destination = destination
               /\ superseded'.account = account
          /\ ~configured => superseded' = None
      BY <2>2, StageFacts
    <2> QED
      BY <2>1, <2>3 DEF Adopt, Goto
  <1>4. ASSUME CopySecret PROVE StepsAgree'
    BY <1>4 DEF CopySecret, Goto
  <1>5. ASSUME MarkAdopted PROVE StepsAgree'
    BY <1>5 DEF MarkAdopted, MarkReady, Goto
  <1>6. ASSUME Reenable PROVE StepsAgree'
    BY <1>6 DEF Reenable, Goto
  <1>7. ASSUME DropLegacy PROVE StepsAgree'
    BY <1>7 DEF DropLegacy, Erase, Goto
  <1>8. ASSUME CompleteStaged PROVE StepsAgree'
    BY <1>8 DEF CompleteStaged, MarkReady, Goto
  <1>9. ASSUME AbandonStaged PROVE StepsAgree'
    BY <1>9 DEF AbandonStaged, RollBack, Goto
  <1>10. ASSUME NothingStaged PROVE StepsAgree'
    BY <1>10 DEF NothingStaged, Goto
  <1>11. ASSUME EraseSuperseded PROVE StepsAgree'
    BY <1>11 DEF EraseSuperseded, Erase, Goto
  <1>12. ASSUME ForgetSuperseded PROVE StepsAgree'
    BY <1>12 DEF ForgetSuperseded, Return, Goto
  <1>13. ASSUME EndStatus PROVE StepsAgree'
    BY <1>13 DEF EndStatus, Return
  <1>14. ASSUME StageSave PROVE StepsAgree'
    <2>1. StageSave
      BY <1>14
    <2>2. /\ Stage(wanted) /\ wanted \in Destinations
          /\ configured => ready \in Generations
      BY <2>1 DEF StageSave
    <2>3. /\ destination' = wanted /\ configured' /\ Staged' /\ enabled' = FALSE
          /\ account' = <<generation', wanted>> /\ account' # Legacy
          /\ account' \in Accounts
          /\ configured =>
               /\ superseded' # None
               /\ superseded'.destination = destination
               /\ superseded'.account = account
          /\ ~configured => superseded' = None
      BY <2>2, StageFacts
    <2>4. Stored(account') => configured /\ account' = account
      BY <2>1, <2>3 DEF StageSave
    <2> QED
      BY <2>1, <2>3, <2>4 DEF StageSave, Goto
  <1>15. ASSUME StoreSecret PROVE StepsAgree'
    BY <1>15 DEF StoreSecret, Goto
  <1>16. ASSUME StoreFails PROVE StepsAgree'
    BY <1>16 DEF StoreFails, Goto
  <1>17. ASSUME UndoSave PROVE StepsAgree'
    BY <1>17 DEF UndoSave, RollBack, Return
  <1>18. ASSUME MarkSaved PROVE StepsAgree'
    BY <1>18 DEF MarkSaved, MarkReady, Goto
  <1>19. ASSUME SwitchTask PROVE StepsAgree'
    BY <1>19 DEF SwitchTask, Return
  <1>20. ASSUME EraseAll PROVE StepsAgree'
    BY <1>20 DEF EraseAll, Goto
  <1>21. ASSUME Withdraw PROVE StepsAgree'
    BY <1>21 DEF Withdraw, Return
  <1>22. ASSUME Fail PROVE StepsAgree'
    BY <1>22 DEF Fail, Return
  <1>23. ASSUME Crash PROVE StepsAgree'
    BY <1>23 DEF Crash, Return
  <1>24. ASSUME Restart PROVE StepsAgree'
    BY <1>24 DEF Restart
  <1>25. CASE UNCHANGED <<row, keychain, locals, approved>>
    BY <1>25
  <1> QED
    BY <1>1, <1>2, <1>3, <1>4, <1>5, <1>6, <1>7, <1>8, <1>9, <1>10, <1>11,
       <1>12, <1>13, <1>14, <1>15, <1>16, <1>17, <1>18, <1>19, <1>20, <1>21,
       <1>22, <1>23, <1>24, <1>25
    DEF Next, Complete, Body, vars

\* Every secret of a generation keeps an owner.
LEMMA StepOrphan == IInv /\ [Next]_vars => NoOrphanSecret'
  <1> SUFFICES ASSUME IInv, [Next]_vars PROVE NoOrphanSecret'
    OBVIOUS
  <1> USE ConstantsAssumption DEF IInv, RowIsNamed, SupersededIsNamed,
        SecretsAreNamed, LegacyIsKept, StepsAgree, NoOrphanSecret,
        EnabledAsApproved, TypeOK, row, locals, Stored, Staged, Accounts,
        Superseded, Generations
  <1>1. ASSUME Adopt PROVE NoOrphanSecret'
    <2>1. Adopt
      BY <1>1
    <2>2. /\ Stage(destination) /\ destination \in Destinations
          /\ configured => ready \in Generations
      BY <2>1 DEF Adopt
    <2>3. /\ destination' = destination /\ configured' /\ Staged' /\ enabled' = FALSE
          /\ account' = <<generation', destination>> /\ account' # Legacy
          /\ account' \in Accounts
          /\ configured =>
               /\ superseded' # None
               /\ superseded'.destination = destination
               /\ superseded'.account = account
          /\ ~configured => superseded' = None
      BY <2>2, StageFacts
    <2> QED
      BY <2>1, <2>3 DEF Adopt, Goto
  <1>2. ASSUME CopySecret PROVE NoOrphanSecret'
    BY <1>2 DEF CopySecret, Goto
  <1>3. ASSUME MarkAdopted PROVE NoOrphanSecret'
    BY <1>3 DEF MarkAdopted, MarkReady, Goto
  <1>4. ASSUME Reenable PROVE NoOrphanSecret'
    BY <1>4 DEF Reenable, Goto
  <1>5. ASSUME DropLegacy PROVE NoOrphanSecret'
    BY <1>5 DEF DropLegacy, Erase, Goto
  <1>6. ASSUME CompleteStaged PROVE NoOrphanSecret'
    BY <1>6 DEF CompleteStaged, MarkReady, Goto
  <1>7. ASSUME AbandonStaged PROVE NoOrphanSecret'
    BY <1>7 DEF AbandonStaged, RollBack, Goto
  <1>8. ASSUME EraseSuperseded PROVE NoOrphanSecret'
    BY <1>8 DEF EraseSuperseded, Erase, Goto
  <1>9. ASSUME ForgetSuperseded PROVE NoOrphanSecret'
    BY <1>9 DEF ForgetSuperseded, Return, Goto
  <1>10. ASSUME StageSave PROVE NoOrphanSecret'
    <2>1. StageSave
      BY <1>10
    <2>2. /\ Stage(wanted) /\ wanted \in Destinations
          /\ configured => ready \in Generations
      BY <2>1 DEF StageSave
    <2>3. /\ destination' = wanted /\ configured' /\ Staged' /\ enabled' = FALSE
          /\ account' = <<generation', wanted>> /\ account' # Legacy
          /\ account' \in Accounts
          /\ configured =>
               /\ superseded' # None
               /\ superseded'.destination = destination
               /\ superseded'.account = account
          /\ ~configured => superseded' = None
      BY <2>2, StageFacts
    <2> QED
      BY <2>1, <2>3 DEF StageSave, Goto
  <1>11. ASSUME StoreSecret PROVE NoOrphanSecret'
    BY <1>11 DEF StoreSecret, Goto
  <1>12. ASSUME UndoSave PROVE NoOrphanSecret'
    BY <1>12 DEF UndoSave, RollBack, Return
  <1>13. ASSUME MarkSaved PROVE NoOrphanSecret'
    BY <1>13 DEF MarkSaved, MarkReady, Goto
  <1>14. ASSUME SwitchTask PROVE NoOrphanSecret'
    BY <1>14 DEF SwitchTask, Return
  <1>15. ASSUME EraseAll PROVE NoOrphanSecret'
    BY <1>15 DEF EraseAll, Goto
  <1>16. ASSUME Withdraw PROVE NoOrphanSecret'
    BY <1>16 DEF Withdraw, Return
  <1>17. CASE UNCHANGED <<row, keychain>>
    BY <1>17
  <1> QED
    BY <1>1, <1>2, <1>3, <1>4, <1>5, <1>6, <1>7, <1>8, <1>9, <1>10, <1>11,
       <1>12, <1>13, <1>14, <1>15, <1>16, <1>17
    DEF Next, Complete, Body, vars, Begin, FindLegacy, NothingStaged,
        EndStatus, StoreFails, Fail, Crash, Restart

\* Only what the user enabled is enabled.
LEMMA StepEnabled == IInv /\ [Next]_vars => EnabledAsApproved'
  <1> SUFFICES ASSUME IInv, [Next]_vars PROVE EnabledAsApproved'
    OBVIOUS
  <1> USE ConstantsAssumption DEF IInv, TypeOK, EnabledAsApproved, RowIsNamed,
        StepsAgree, row, locals, Stored, Staged, Accounts, Superseded,
        Generations
  <1>1. ASSUME Adopt PROVE EnabledAsApproved'
    BY <1>1 DEF Adopt, Stage, NextGenerations, Goto
  <1>2. ASSUME MarkAdopted PROVE EnabledAsApproved'
    BY <1>2 DEF MarkAdopted, MarkReady, Goto
  <1>3. ASSUME Reenable PROVE EnabledAsApproved'
    BY <1>3 DEF Reenable, Goto
  <1>4. ASSUME CompleteStaged PROVE EnabledAsApproved'
    BY <1>4 DEF CompleteStaged, MarkReady, Goto
  <1>5. ASSUME AbandonStaged PROVE EnabledAsApproved'
    BY <1>5 DEF AbandonStaged, RollBack, Goto
  <1>6. ASSUME ForgetSuperseded PROVE EnabledAsApproved'
    BY <1>6 DEF ForgetSuperseded, Return, Goto
  <1>7. ASSUME StageSave PROVE EnabledAsApproved'
    BY <1>7 DEF StageSave, Stage, NextGenerations, Goto
  <1>8. ASSUME UndoSave PROVE EnabledAsApproved'
    BY <1>8 DEF UndoSave, RollBack, Return
  <1>9. ASSUME MarkSaved PROVE EnabledAsApproved'
    BY <1>9 DEF MarkSaved, MarkReady, Goto
  <1>10. ASSUME SwitchTask PROVE EnabledAsApproved'
    BY <1>10 DEF SwitchTask, Return
  <1>11. ASSUME Withdraw PROVE EnabledAsApproved'
    BY <1>11 DEF Withdraw, Return
  <1>12. CASE UNCHANGED <<row, approved>>
    BY <1>12
  <1> QED
    BY <1>1, <1>2, <1>3, <1>4, <1>5, <1>6, <1>7, <1>8, <1>9, <1>10, <1>11,
       <1>12
    DEF Next, Complete, Body, vars, Begin, FindLegacy, CopySecret, DropLegacy,
        NothingStaged, EraseSuperseded, EndStatus, StoreSecret, StoreFails,
        EraseAll, Fail, Crash, Restart

\* Every step keeps the inductive invariant.
LEMMA StepInv == IInv /\ [Next]_vars => IInv'
  <1> QED
    BY StepType, StepRow, StepSuperseded, StepSecrets, StepLegacy, StepSteps,
       StepOrphan, StepEnabled
    DEF IInv

\* The invariant is inductive: it holds in every reachable state.
THEOREM Invariance == Spec => []IInv
  <1>1. IInv /\ [Next]_vars => IInv'
    BY StepInv
  <1> QED
    BY InitInv, <1>1, PTL DEF Spec

\* Every reachable state is well-typed.
THEOREM TypeCorrect == Spec => []TypeOK
  <1>1. IInv => TypeOK
    BY DEF IInv
  <1> QED
    BY Invariance, <1>1, PTL

\* A secret named by the rows is bound to the destination of its row.
LEMMA SecretMatches == IInv => SecretMatchesDestination
  BY ConstantsAssumption
  DEF IInv, TypeOK, RowIsNamed, SecretsAreNamed, LegacyIsKept,
      SecretMatchesDestination, Stored, Staged, Generations

\* The secret that is used was entered for the destination it is sent to.
THEOREM SecretIsForDestination == Spec => []SecretMatchesDestination
  <1> QED
    BY Invariance, SecretMatches, PTL

\* Transfers are enabled only for the destination the user enabled.
THEOREM EnabledByUser == Spec => []EnabledAsApproved
  <1>1. IInv => EnabledAsApproved
    BY DEF IInv
  <1> QED
    BY Invariance, <1>1, PTL

\* Every secret of a generation can still be erased by a command.
THEOREM SecretsAreOwned == Spec => []NoOrphanSecret
  <1>1. IInv => NoOrphanSecret
    BY DEF IInv
  <1> QED
    BY Invariance, <1>1, PTL

\* Only a removal erases a secret while its replacement is not ready.
Erased == \A a \in Accounts : Stored(a) /\ keychain'[a] = None =>
            command = "remove" \/ ~Staged

LEMMA StepErased == IInv /\ [Next]_vars => Erased
  <1> SUFFICES ASSUME IInv, [Next]_vars PROVE Erased
    OBVIOUS
  <1> USE ConstantsAssumption DEF Erased, IInv, TypeOK, StepsAgree, Stored
  <1>1. CASE CopySecret
    BY <1>1 DEF CopySecret
  <1>2. CASE DropLegacy
    BY <1>2 DEF DropLegacy
  <1>3. CASE EraseSuperseded
    BY <1>3 DEF EraseSuperseded
  <1>4. CASE StoreSecret
    BY <1>4 DEF StoreSecret
  <1>5. CASE EraseAll
    BY <1>5 DEF EraseAll
  <1>6. CASE UNCHANGED keychain
    BY <1>6
  <1> QED
    BY <1>1, <1>2, <1>3, <1>4, <1>5, <1>6
    DEF Next, Complete, Body, vars, Begin, FindLegacy, Adopt, MarkAdopted,
        Reenable, CompleteStaged, AbandonStaged, NothingStaged,
        ForgetSuperseded, EndStatus, StageSave, StoreFails, UndoSave,
        MarkSaved, SwitchTask, Withdraw, Fail, Crash, Restart

\* A secret disappears only by a removal, or when the one that replaces it is
\* ready (replace_credential, remove_credential, resume_saved_replacement).
THEOREM ErasedOnlyWhenReplaced == Spec => ErasedWhenReplaced
  <1> QED
    BY Invariance, StepErased, PTL DEF Spec, ErasedWhenReplaced, Erased

\* In the library as alone: a secret is bound to the destination it was entered
\* for, transfers are enabled for what the user approved, every secret can still
\* be erased, and none is before its replacement is ready (replace_credential).
THEOREM CredentialsStayKept == LibrarySpec => CredentialsAreKept
  <1> DEFINE Inv == component = "credentials" => IInv
             Kept == component = "credentials" => Erased
             Goal == component = "credentials" =>
               SecretMatchesDestination /\ EnabledAsApproved /\ NoOrphanSecret
  <1>1. LibraryInit => Inv
    BY InitInv DEF LibraryInit, CredentialsInit, DatabaseInit, ReviewInit,
      PagesInit, HandoffInit, SetupInit, LanguagesInit
  <1>2. Inv /\ [LibraryNext]_everything => Inv' /\ Kept
    <2> SUFFICES ASSUME Inv, [LibraryNext]_everything
                 PROVE  Inv' /\ Kept
      OBVIOUS
    <2>1. /\ component' = component
          /\ component = "credentials" => [Next]_vars
      BY DEF LibraryNext, everything, CredentialsNext, DatabaseNext,
        ReviewNext, PagesNext, HandoffNext, SetupNext, LanguagesNext
    <2> QED
      BY <2>1, StepInv, StepErased
  <1>3. Inv => Goal
    BY SecretMatches DEF IInv
  <1> QED
    BY <1>1, <1>2, <1>3, PTL DEF LibrarySpec, CredentialsAreKept, Erased

-----------------------------------------------------------------------------
(* The database and its import.  The files, the log and the copies are     *)
(* records: the lemmas on effects say what a step makes of them, and the   *)
(* proofs of the invariant cite those and no record.                       *)

\* No database, copy, reservation, call or answer is nothing.
LEMMA SomethingIsThere ==
  /\ None \notin Database!Databases /\ None \notin Database!Copies
  /\ None \notin Database!Reservations /\ None \notin Database!Calls
  /\ None \notin Database!Answers
  BY DatabaseAssumption DEF Database!Calls, Database!Selectable

\* What the call that opens a database has in hand.
LEMMA OpenedIsActive ==
  ASSUME Database!Shape, Database!ActiveFollowsPhase, Database!FilesAgree,
         phase \notin Database!Making \cup Database!Waiting
  PROVE  /\ active \in Database!Databases /\ onDisk \in Database!Databases
         /\ call \in Database!Calls
  BY SomethingIsThere DEF Database!Shape, Database!FileShape,
    Database!CallShape, Database!ActiveFollowsPhase, Database!FilesAgree

\* A migrated database is the same one, with its purge before it unless it
\* had been migrated.
LEMMA MigratedIsTheSame ==
  ASSUME NEW d \in Database!Databases
  PROVE  /\ Database!Migrate(d) \in Database!Databases
         /\ Database!Migrate(d).of = d.of
         /\ Database!Migrate(d).plain = d.plain
         /\ Database!Migrate(d).migrated
         /\ ~Database!Migrate(d).purge => Database!Migrate(d) = d
  BY DEF Database!Migrate, Database!Databases

\* What the steps of a call make of the database, and of what was erased.
LEMMA OpenEffect ==
  ASSUME Database!Shape, Database!ActiveFollowsPhase, Database!FilesAgree,
         Database!Open
  PROVE  /\ active \in Database!Databases /\ onDisk \in Database!Databases
         /\ active' \in Database!Databases
         /\ active'.of = active.of /\ active'.plain = active.plain
         /\ active'.migrated
         /\ ~active'.purge => active' = active
         /\ onDisk' \in {active', onDisk}
  <1>1. phase = "opening"
    BY DEF Database!Open, Database!At
  <1>2. active \in Database!Databases /\ onDisk \in Database!Databases
    BY <1>1, OpenedIsActive DEF Database!Making, Database!Waiting
  <1>3. active' = Database!Migrate(active) /\ onDisk' \in {active', onDisk}
    BY DEF Database!Open, Database!Write
  <1> QED
    BY <1>2, <1>3, MigratedIsTheSame

\* ... of clear_legacy_plaintext, ...
LEMMA ClearEffect ==
  ASSUME Database!Shape, Database!ActiveFollowsPhase, Database!FilesAgree,
         Database!ClearPlaintext
  PROVE  /\ active \in Database!Databases /\ onDisk \in Database!Databases
         /\ active' \in Database!Databases
         /\ active'.of = active.of /\ ~active'.plain
         /\ active'.migrated = active.migrated
         /\ ~active'.purge => active' = active
         /\ onDisk' \in {active', onDisk}
  <1>1. phase = "clearing"
    BY DEF Database!ClearPlaintext, Database!At
  <1>2. active \in Database!Databases /\ onDisk \in Database!Databases
    BY <1>1, OpenedIsActive DEF Database!Making, Database!Waiting
  <1>3. /\ active' = [active EXCEPT !.plain = FALSE,
                                    !.purge = active.purge \/ active.plain]
        /\ onDisk' \in {active', onDisk}
    BY DEF Database!ClearPlaintext, Database!Write
  <1> QED
    BY <1>2, <1>3 DEF Database!Databases

\* ... of the mark that the purge is over, ...
LEMMA MarkEffect ==
  ASSUME Database!Shape, Database!ActiveFollowsPhase, Database!FilesAgree,
         Database!MarkPurged
  PROVE  /\ active \in Database!Databases /\ onDisk \in Database!Databases
         /\ active' \in Database!Databases
         /\ active'.of = active.of /\ active'.plain = active.plain
         /\ onDisk' \in {active', onDisk}
  <1>1. phase = "marking"
    BY DEF Database!MarkPurged, Database!At
  <1>2. active \in Database!Databases /\ onDisk \in Database!Databases
    BY <1>1, OpenedIsActive DEF Database!Making, Database!Waiting
  <1>3. /\ active' = [active EXCEPT !.purge = FALSE]
        /\ onDisk' \in {active', onDisk}
    BY DEF Database!MarkPurged, Database!Write
  <1> QED
    BY <1>2, <1>3 DEF Database!Databases

\* ... of the purge of the retained copy, ...
LEMMA ScrubEffect ==
  ASSUME Database!Shape, Database!ScrubRetained
  PROVE  \/ retained = None /\ retained' = None
         \/ /\ retained \in Database!Copies /\ retained' \in Database!Copies
            /\ retained'.of = retained.of /\ ~retained'.plain
  <1>1. retained' = IF retained = None THEN None
                    ELSE [retained EXCEPT !.plain = FALSE]
    BY DEF Database!ScrubRetained
  <1> QED
    BY <1>1 DEF Database!Shape, Database!FileShape, Database!Copies

\* The database that is made of a copy, or of nothing.
LEMMA MadeIsWhole ==
  ASSUME NEW o \in Database!Origins \cup {Fresh}, NEW p \in BOOLEAN
  PROVE  [of |-> o, plain |-> p, migrated |-> FALSE, purge |-> FALSE]
           \in Database!Databases
  BY DEF Database!Databases

\* ... of the rename that makes the database, ...
LEMMA ActivateEffect ==
  ASSUME Database!Shape, Database!CallIsOfItsSource, Database!Activate
  PROVE  /\ staged = reservation.digest /\ reservation # None
         /\ staged \in Database!Copies
         /\ active' \in Database!Databases
         /\ active'.of = staged.of /\ active'.plain = staged.plain
         /\ ~active'.migrated
         /\ onDisk' = active' /\ staged' = None
  <1>1. /\ staged = reservation.digest /\ reservation # None
    BY DEF Database!Activate, Database!At, Database!CallIsOfItsSource
  <1>2. staged \in Database!Copies
    BY <1>1 DEF Database!Shape, Database!FileShape, Database!Reservations
  <1>3. /\ staged.of \in Database!Origins \cup {Fresh}
        /\ staged.plain \in BOOLEAN
    BY <1>2 DEF Database!Copies
  <1>4. /\ active' = [of |-> staged.of, plain |-> staged.plain,
                      migrated |-> FALSE, purge |-> FALSE]
        /\ onDisk' = active' /\ staged' = None
    BY DEF Database!Activate
  <1> QED
    BY <1>1, <1>2, <1>3, <1>4, MadeIsWhole

\* ... of a fresh one, ...
LEMMA CreateEffect ==
  ASSUME Database!CreateFile
  PROVE  /\ active' \in Database!Databases
         /\ active'.of = Fresh /\ ~active'.plain /\ ~active'.migrated
         /\ onDisk' = active'
  <1>1. /\ active' = [of |-> Fresh, plain |-> FALSE, migrated |-> FALSE,
                      purge |-> FALSE]
        /\ onDisk' = active'
    BY DEF Database!CreateFile
  <1> QED
    BY <1>1, MadeIsWhole

\* ... of the snapshot of a source, ...
LEMMA SnapshotEffect ==
  ASSUME Database!Shape, Database!ActiveFollowsPhase, Database!TakeSnapshot
  PROVE  /\ staged' \in Database!Copies
         /\ call \in External =>
              /\ staged'.of = call
              /\ staged'.plain = (call \in WithSecret)
         /\ call = Managed => staged' = retained
         /\ call \in External \cup {Managed}
  <1>1. call \in External \cup {Managed}
    BY DEF Database!TakeSnapshot, Database!At, Database!ActiveFollowsPhase,
      Database!Making, Database!Selectable
  <1>2. CASE call = Managed
    BY <1>2, DatabaseAssumption DEF Database!TakeSnapshot, Database!Snapshot,
      Database!Exists, Database!Shape, Database!FileShape
  <1>3. CASE call \in External
    <2>1. staged' = [of |-> call, plain |-> call \in WithSecret]
      BY <1>3, DatabaseAssumption DEF Database!TakeSnapshot,
        Database!Snapshot
    <2>2. (call \in WithSecret) \in BOOLEAN
      OBVIOUS
    <2> QED
      BY <1>3, <2>1, <2>2, DatabaseAssumption DEF Database!Copies,
        Database!Origins
  <1> QED
    BY <1>1, <1>2, <1>3

\* ... and of the reservation of what was retained.
LEMMA ReserveEffect ==
  ASSUME Database!Shape, Database!ActiveFollowsPhase,
         Database!CallIsOfItsSource, Database!Reserve
  PROVE  /\ reservation' \in Database!Reservations
         /\ reservation'.digest = retained /\ reservation'.from = call
         /\ retained \in Database!Copies
         /\ call \in External => retained.of = call
  <1>1. /\ retained \in Database!Copies
        /\ call \in External \cup {Managed}
        /\ call \in External => retained.of = call
    BY DEF Database!Reserve, Database!At, Database!CallIsOfItsSource,
      Database!ActiveFollowsPhase, Database!Making, Database!Selectable,
      Database!Shape, Database!FileShape
  <1>2. reservation' = [digest |-> retained, from |-> call]
    BY DEF Database!Reserve
  <1> QED
    BY <1>1, <1>2 DEF Database!Reservations

\* What the variables of the database are: its files, ...
LEMMA DatabaseFiles ==
  ASSUME Database!Shape, Database!ActiveFollowsPhase, Database!FilesAgree,
    Database!CallIsOfItsSource, [Database!Next]_databaseVars
  PROVE  Database!FileShape'
  <1> USE DEF databaseVars, Database!files, Database!process,
    Database!bounds, Database!Shape
  <1>1. CASE UNCHANGED <<active, onDisk, retained, staged, reservation>>
    BY <1>1 DEF Database!FileShape
  <1>2. ASSUME Database!Start PROVE Database!FileShape'
    BY <1>2 DEF Database!Start, Database!At, Database!FileShape
  <1>3. ASSUME Database!DropLog PROVE Database!FileShape'
    BY <1>3 DEF Database!DropLog, Database!At, Database!FileShape
  <1>4. ASSUME Database!Exit PROVE Database!FileShape'
    BY <1>4 DEF Database!Exit, Database!At, Database!FileShape
  <1>5. ASSUME Database!CreateFile PROVE Database!FileShape'
    BY <1>5, CreateEffect DEF Database!CreateFile, Database!At,
      Database!Goto, Database!FileShape
  <1>6. ASSUME Database!BeginImport PROVE Database!FileShape'
    BY <1>6 DEF Database!BeginImport, Database!At, Database!Goto,
      Database!Exists, Database!SourceMatches, Database!FileShape
  <1>7. ASSUME Database!TakeSnapshot PROVE Database!FileShape'
    BY <1>7, SnapshotEffect DEF Database!TakeSnapshot, Database!At,
      Database!Goto, Database!Snapshot, Database!Exists, Database!FileShape
  <1>8. ASSUME Database!Keep PROVE Database!FileShape'
    BY <1>8 DEF Database!Keep, Database!At, Database!Goto, Database!FileShape
  <1>9. ASSUME Database!Reserve PROVE Database!FileShape'
    BY <1>9, ReserveEffect DEF Database!Reserve, Database!At, Database!Goto,
      Database!FileShape
  <1>10. ASSUME Database!CopyRetained PROVE Database!FileShape'
    BY <1>10 DEF Database!CopyRetained, Database!At, Database!Goto,
      Database!FileShape
  <1>11. ASSUME Database!Activate PROVE Database!FileShape'
    BY <1>11, ActivateEffect DEF Database!Activate, Database!At,
      Database!Goto, Database!FileShape
  <1>12. ASSUME Database!Open PROVE Database!FileShape'
    BY <1>12, OpenEffect DEF Database!Open, Database!At, Database!Goto,
      Database!Reply, Database!Write, Database!Migrate, Database!FileShape
  <1>13. ASSUME Database!ClearPlaintext PROVE Database!FileShape'
    BY <1>13, ClearEffect DEF Database!ClearPlaintext, Database!At,
      Database!Goto, Database!Write, Database!FileShape
  <1>14. ASSUME Database!Purge PROVE Database!FileShape'
    BY <1>14 DEF Database!Purge, Database!At, Database!Goto,
      Database!FileShape
  <1>15. ASSUME Database!ScrubRetained PROVE Database!FileShape'
    BY <1>15, ScrubEffect DEF Database!ScrubRetained, Database!At,
      Database!Goto, Database!FileShape
  <1>16. ASSUME Database!MarkPurged PROVE Database!FileShape'
    BY <1>16, MarkEffect DEF Database!MarkPurged, Database!At, Database!Goto,
      Database!Write, Database!FileShape
  <1>17. ASSUME Database!Complete PROVE Database!FileShape'
    BY <1>17 DEF Database!Complete, Database!At, Database!Reply,
      Database!FileShape
  <1>18. ASSUME Database!Fail PROVE Database!FileShape'
    BY <1>18 DEF Database!Fail, Database!At, Database!Reply,
      Database!Migration, Database!FileShape
  <1> QED
    BY <1>1, <1>2, <1>3, <1>4, <1>5, <1>6, <1>7, <1>8, <1>9, <1>10, <1>11,
      <1>12, <1>13, <1>14, <1>15, <1>16, <1>17, <1>18 DEF Database!Next,
      Database!Crash, Database!Ask, Database!RefuseFresh,
      Database!RefuseImport, Database!SourceIsMissing, Database!SaveSecret,
      Database!MigrateAccounts, Database!Manage, Database!At, Database!Goto,
      Database!Reply

\* ... and the call that is under way.
LEMMA DatabaseCalls ==
  ASSUME Database!Shape, Database!ActiveFollowsPhase, Database!FilesAgree,
    Database!CallIsOfItsSource, [Database!Next]_databaseVars
  PROVE  Database!CallShape'
  <1> USE DEF databaseVars, Database!files, Database!process,
    Database!bounds, Database!Shape
  <1>0. None \notin Database!Calls
    BY SomethingIsThere
  <1>1. CASE UNCHANGED <<call, phase, answer>>
    BY <1>1 DEF Database!CallShape, Database!Selectable, Database!Calls
  <1>2. ASSUME Database!Start PROVE Database!CallShape'
    BY <1>2, <1>0 DEF Database!Start, Database!At, Database!CallShape,
      Database!Selectable, Database!Calls, Database!Answers, Database!Phases,
      Database!ActiveFollowsPhase, Database!Making, Database!Waiting
  <1>3. ASSUME Database!DropLog PROVE Database!CallShape'
    BY <1>3, <1>0 DEF Database!DropLog, Database!At, Database!CallShape,
      Database!Selectable, Database!Calls, Database!Answers, Database!Phases,
      Database!ActiveFollowsPhase, Database!Making, Database!Waiting
  <1>4. ASSUME Database!Exit PROVE Database!CallShape'
    BY <1>4, <1>0 DEF Database!Exit, Database!At, Database!CallShape,
      Database!Selectable, Database!Calls, Database!Answers, Database!Phases,
      Database!ActiveFollowsPhase, Database!Making, Database!Waiting
  <1>5. ASSUME Database!Crash PROVE Database!CallShape'
    BY <1>5, <1>0 DEF Database!Crash, Database!At, Database!CallShape,
      Database!Selectable, Database!Calls, Database!Answers, Database!Phases,
      Database!ActiveFollowsPhase, Database!Making, Database!Waiting
  <1>6. ASSUME NEW what \in Database!Selectable \cup {Fresh},
    Database!Ask(what)
         PROVE  Database!CallShape'
    BY <1>6, <1>0 DEF Database!Ask, Database!At, Database!CallShape,
      Database!Selectable, Database!Calls, Database!Answers, Database!Phases,
      Database!ActiveFollowsPhase, Database!Making, Database!Waiting
  <1>7. ASSUME Database!RefuseFresh PROVE Database!CallShape'
    BY <1>7, <1>0 DEF Database!RefuseFresh, Database!At, Database!Reply,
      Database!CallShape, Database!Selectable, Database!Calls,
      Database!Answers, Database!Phases, Database!ActiveFollowsPhase,
      Database!Making, Database!Waiting
  <1>8. ASSUME Database!RefuseImport PROVE Database!CallShape'
    BY <1>8, <1>0 DEF Database!RefuseImport, Database!At, Database!Reply,
      Database!CallShape, Database!Selectable, Database!Calls,
      Database!Answers, Database!Phases, Database!ActiveFollowsPhase,
      Database!Making, Database!Waiting
  <1>9. ASSUME Database!CreateFile PROVE Database!CallShape'
    BY <1>9, <1>0, CreateEffect DEF Database!CreateFile, Database!At,
      Database!Goto, Database!CallShape, Database!Selectable, Database!Calls,
      Database!Answers, Database!Phases, Database!ActiveFollowsPhase,
      Database!Making, Database!Waiting
  <1>10. ASSUME Database!BeginImport PROVE Database!CallShape'
    BY <1>10, <1>0 DEF Database!BeginImport, Database!At, Database!Goto,
      Database!Exists, Database!SourceMatches, Database!CallShape,
      Database!Selectable, Database!Calls, Database!Answers, Database!Phases,
      Database!ActiveFollowsPhase, Database!Making, Database!Waiting
  <1>11. ASSUME Database!TakeSnapshot PROVE Database!CallShape'
    BY <1>11, <1>0, SnapshotEffect DEF Database!TakeSnapshot, Database!At,
      Database!Goto, Database!Snapshot, Database!Exists, Database!CallShape,
      Database!Selectable, Database!Calls, Database!Answers, Database!Phases,
      Database!ActiveFollowsPhase, Database!Making, Database!Waiting
  <1>12. ASSUME Database!SourceIsMissing PROVE Database!CallShape'
    BY <1>12, <1>0 DEF Database!SourceIsMissing, Database!At, Database!Reply,
      Database!CallShape, Database!Selectable, Database!Calls,
      Database!Answers, Database!Phases, Database!ActiveFollowsPhase,
      Database!Making, Database!Waiting
  <1>13. ASSUME Database!Keep PROVE Database!CallShape'
    BY <1>13, <1>0 DEF Database!Keep, Database!At, Database!Goto,
      Database!CallShape, Database!Selectable, Database!Calls,
      Database!Answers, Database!Phases, Database!ActiveFollowsPhase,
      Database!Making, Database!Waiting
  <1>14. ASSUME Database!Reserve PROVE Database!CallShape'
    BY <1>14, <1>0, ReserveEffect DEF Database!Reserve, Database!At,
      Database!Goto, Database!CallShape, Database!Selectable, Database!Calls,
      Database!Answers, Database!Phases, Database!ActiveFollowsPhase,
      Database!Making, Database!Waiting
  <1>15. ASSUME Database!CopyRetained PROVE Database!CallShape'
    BY <1>15, <1>0 DEF Database!CopyRetained, Database!At, Database!Goto,
      Database!CallShape, Database!Selectable, Database!Calls,
      Database!Answers, Database!Phases, Database!ActiveFollowsPhase,
      Database!Making, Database!Waiting
  <1>16. ASSUME Database!Activate PROVE Database!CallShape'
    BY <1>16, <1>0, ActivateEffect DEF Database!Activate, Database!At,
      Database!Goto, Database!CallShape, Database!Selectable, Database!Calls,
      Database!Answers, Database!Phases, Database!ActiveFollowsPhase,
      Database!Making, Database!Waiting
  <1>17. ASSUME Database!Open PROVE Database!CallShape'
    BY <1>17, <1>0, OpenEffect DEF Database!Open, Database!At, Database!Goto,
      Database!Reply, Database!Write, Database!Migrate, Database!CallShape,
      Database!Selectable, Database!Calls, Database!Answers, Database!Phases,
      Database!ActiveFollowsPhase, Database!Making, Database!Waiting
  <1>18. ASSUME Database!SaveSecret PROVE Database!CallShape'
    BY <1>18, <1>0 DEF Database!SaveSecret, Database!At, Database!Goto,
      Database!CallShape, Database!Selectable, Database!Calls,
      Database!Answers, Database!Phases, Database!ActiveFollowsPhase,
      Database!Making, Database!Waiting
  <1>19. ASSUME Database!ClearPlaintext PROVE Database!CallShape'
    BY <1>19, <1>0, ClearEffect DEF Database!ClearPlaintext, Database!At,
      Database!Goto, Database!Write, Database!CallShape, Database!Selectable,
      Database!Calls, Database!Answers, Database!Phases,
      Database!ActiveFollowsPhase, Database!Making, Database!Waiting
  <1>20. ASSUME Database!Purge PROVE Database!CallShape'
    BY <1>20, <1>0 DEF Database!Purge, Database!At, Database!Goto,
      Database!CallShape, Database!Selectable, Database!Calls,
      Database!Answers, Database!Phases, Database!ActiveFollowsPhase,
      Database!Making, Database!Waiting
  <1>21. ASSUME Database!ScrubRetained PROVE Database!CallShape'
    BY <1>21, <1>0, ScrubEffect DEF Database!ScrubRetained, Database!At,
      Database!Goto, Database!CallShape, Database!Selectable, Database!Calls,
      Database!Answers, Database!Phases, Database!ActiveFollowsPhase,
      Database!Making, Database!Waiting
  <1>22. ASSUME Database!MarkPurged PROVE Database!CallShape'
    BY <1>22, <1>0, MarkEffect DEF Database!MarkPurged, Database!At,
      Database!Goto, Database!Write, Database!CallShape, Database!Selectable,
      Database!Calls, Database!Answers, Database!Phases,
      Database!ActiveFollowsPhase, Database!Making, Database!Waiting
  <1>23. ASSUME Database!MigrateAccounts PROVE Database!CallShape'
    BY <1>23, <1>0 DEF Database!MigrateAccounts, Database!At, Database!Goto,
      Database!CallShape, Database!Selectable, Database!Calls,
      Database!Answers, Database!Phases, Database!ActiveFollowsPhase,
      Database!Making, Database!Waiting
  <1>24. ASSUME Database!Manage PROVE Database!CallShape'
    BY <1>24, <1>0 DEF Database!Manage, Database!At, Database!Reply,
      Database!CallShape, Database!Selectable, Database!Calls,
      Database!Answers, Database!Phases, Database!ActiveFollowsPhase,
      Database!Making, Database!Waiting
  <1>25. ASSUME Database!Complete PROVE Database!CallShape'
    BY <1>25, <1>0 DEF Database!Complete, Database!At, Database!Reply,
      Database!CallShape, Database!Selectable, Database!Calls,
      Database!Answers, Database!Phases, Database!ActiveFollowsPhase,
      Database!Making, Database!Waiting
  <1>26. ASSUME Database!Fail PROVE Database!CallShape'
    BY <1>26, <1>0 DEF Database!Fail, Database!At, Database!Reply,
      Database!Migration, Database!CallShape, Database!Selectable,
      Database!Calls, Database!Answers, Database!Phases,
      Database!ActiveFollowsPhase, Database!Making, Database!Waiting
  <1> QED
    BY <1>1, <1>2, <1>3, <1>4, <1>5, <1>6, <1>7, <1>8, <1>9, <1>10, <1>11,
      <1>12, <1>13, <1>14, <1>15, <1>16, <1>17, <1>18, <1>19, <1>20, <1>21,
      <1>22, <1>23, <1>24, <1>25, <1>26 DEF Database!Next

\* An import has no database until it activates one; then there is one.
LEMMA DatabasePhases ==
  ASSUME Database!Shape, Database!ActiveFollowsPhase, Database!FilesAgree,
    Database!CallIsOfItsSource, [Database!Next]_databaseVars
  PROVE  Database!ActiveFollowsPhase'
  <1> USE DEF databaseVars, Database!files, Database!process, Database!bounds
  <1>0. /\ active \in Database!Databases \cup {None}
        /\ call \in Database!Calls \cup {None}
        /\ None \notin Database!Databases
        /\ None \notin Database!Calls
        /\ None \notin External \cup {Managed, Fresh, Startup}
        /\ Startup \notin External \cup {Managed, Fresh}
    BY SomethingIsThere, DatabaseAssumption DEF Database!Shape,
      Database!FileShape, Database!CallShape
  <1>1. CASE UNCHANGED <<active, call, phase>>
    BY <1>1 DEF Database!ActiveFollowsPhase, Database!Making,
      Database!Waiting, Database!Selectable
  <1>2. ASSUME Database!Start PROVE Database!ActiveFollowsPhase'
    BY <1>2, <1>0 DEF Database!Start, Database!At,
      Database!ActiveFollowsPhase, Database!Making, Database!Waiting,
      Database!Selectable, Database!FilesAgree
  <1>3. ASSUME Database!DropLog PROVE Database!ActiveFollowsPhase'
    BY <1>3, <1>0 DEF Database!DropLog, Database!At,
      Database!ActiveFollowsPhase, Database!Making, Database!Waiting,
      Database!Selectable, Database!FilesAgree
  <1>4. ASSUME Database!Exit PROVE Database!ActiveFollowsPhase'
    BY <1>4, <1>0 DEF Database!Exit, Database!At,
      Database!ActiveFollowsPhase, Database!Making, Database!Waiting,
      Database!Selectable, Database!FilesAgree
  <1>5. ASSUME Database!Crash PROVE Database!ActiveFollowsPhase'
    BY <1>5, <1>0 DEF Database!Crash, Database!At,
      Database!ActiveFollowsPhase, Database!Making, Database!Waiting,
      Database!Selectable, Database!FilesAgree
  <1>6. ASSUME NEW what \in Database!Selectable \cup {Fresh},
    Database!Ask(what)
         PROVE  Database!ActiveFollowsPhase'
    BY <1>6, <1>0 DEF Database!Ask, Database!At, Database!ActiveFollowsPhase,
      Database!Making, Database!Waiting, Database!Selectable,
      Database!FilesAgree
  <1>7. ASSUME Database!RefuseFresh PROVE Database!ActiveFollowsPhase'
    BY <1>7, <1>0 DEF Database!RefuseFresh, Database!At, Database!Reply,
      Database!ActiveFollowsPhase, Database!Making, Database!Waiting,
      Database!Selectable, Database!FilesAgree
  <1>8. ASSUME Database!RefuseImport PROVE Database!ActiveFollowsPhase'
    BY <1>8, <1>0 DEF Database!RefuseImport, Database!At, Database!Reply,
      Database!ActiveFollowsPhase, Database!Making, Database!Waiting,
      Database!Selectable, Database!FilesAgree
  <1>9. ASSUME Database!CreateFile PROVE Database!ActiveFollowsPhase'
    BY <1>9, <1>0, CreateEffect DEF Database!CreateFile, Database!At,
      Database!Goto, Database!ActiveFollowsPhase, Database!Making,
      Database!Waiting, Database!Selectable, Database!FilesAgree
  <1>10. ASSUME Database!BeginImport PROVE Database!ActiveFollowsPhase'
    BY <1>10, <1>0 DEF Database!BeginImport, Database!At, Database!Goto,
      Database!Exists, Database!SourceMatches, Database!ActiveFollowsPhase,
      Database!Making, Database!Waiting, Database!Selectable,
      Database!FilesAgree
  <1>11. ASSUME Database!TakeSnapshot PROVE Database!ActiveFollowsPhase'
    BY <1>11, <1>0, SnapshotEffect DEF Database!TakeSnapshot, Database!At,
      Database!Goto, Database!Snapshot, Database!Exists,
      Database!ActiveFollowsPhase, Database!Making, Database!Waiting,
      Database!Selectable, Database!FilesAgree
  <1>12. ASSUME Database!SourceIsMissing PROVE Database!ActiveFollowsPhase'
    BY <1>12, <1>0 DEF Database!SourceIsMissing, Database!At, Database!Reply,
      Database!ActiveFollowsPhase, Database!Making, Database!Waiting,
      Database!Selectable, Database!FilesAgree
  <1>13. ASSUME Database!Keep PROVE Database!ActiveFollowsPhase'
    BY <1>13, <1>0 DEF Database!Keep, Database!At, Database!Goto,
      Database!ActiveFollowsPhase, Database!Making, Database!Waiting,
      Database!Selectable, Database!FilesAgree
  <1>14. ASSUME Database!Reserve PROVE Database!ActiveFollowsPhase'
    BY <1>14, <1>0, ReserveEffect DEF Database!Reserve, Database!At,
      Database!Goto, Database!ActiveFollowsPhase, Database!Making,
      Database!Waiting, Database!Selectable, Database!FilesAgree
  <1>15. ASSUME Database!CopyRetained PROVE Database!ActiveFollowsPhase'
    BY <1>15, <1>0 DEF Database!CopyRetained, Database!At, Database!Goto,
      Database!ActiveFollowsPhase, Database!Making, Database!Waiting,
      Database!Selectable, Database!FilesAgree
  <1>16. ASSUME Database!Activate PROVE Database!ActiveFollowsPhase'
    BY <1>16, <1>0, ActivateEffect DEF Database!Activate, Database!At,
      Database!Goto, Database!ActiveFollowsPhase, Database!Making,
      Database!Waiting, Database!Selectable, Database!FilesAgree
  <1>17. ASSUME Database!Open PROVE Database!ActiveFollowsPhase'
    BY <1>17, <1>0, OpenEffect DEF Database!Open, Database!At, Database!Goto,
      Database!Reply, Database!Write, Database!Migrate,
      Database!ActiveFollowsPhase, Database!Making, Database!Waiting,
      Database!Selectable, Database!FilesAgree
  <1>18. ASSUME Database!SaveSecret PROVE Database!ActiveFollowsPhase'
    BY <1>18, <1>0 DEF Database!SaveSecret, Database!At, Database!Goto,
      Database!ActiveFollowsPhase, Database!Making, Database!Waiting,
      Database!Selectable, Database!FilesAgree
  <1>19. ASSUME Database!ClearPlaintext PROVE Database!ActiveFollowsPhase'
    BY <1>19, <1>0, ClearEffect DEF Database!ClearPlaintext, Database!At,
      Database!Goto, Database!Write, Database!ActiveFollowsPhase,
      Database!Making, Database!Waiting, Database!Selectable,
      Database!FilesAgree
  <1>20. ASSUME Database!Purge PROVE Database!ActiveFollowsPhase'
    BY <1>20, <1>0 DEF Database!Purge, Database!At, Database!Goto,
      Database!ActiveFollowsPhase, Database!Making, Database!Waiting,
      Database!Selectable, Database!FilesAgree
  <1>21. ASSUME Database!ScrubRetained PROVE Database!ActiveFollowsPhase'
    BY <1>21, <1>0, ScrubEffect DEF Database!ScrubRetained, Database!At,
      Database!Goto, Database!ActiveFollowsPhase, Database!Making,
      Database!Waiting, Database!Selectable, Database!FilesAgree
  <1>22. ASSUME Database!MarkPurged PROVE Database!ActiveFollowsPhase'
    BY <1>22, <1>0, MarkEffect DEF Database!MarkPurged, Database!At,
      Database!Goto, Database!Write, Database!ActiveFollowsPhase,
      Database!Making, Database!Waiting, Database!Selectable,
      Database!FilesAgree
  <1>23. ASSUME Database!MigrateAccounts PROVE Database!ActiveFollowsPhase'
    BY <1>23, <1>0 DEF Database!MigrateAccounts, Database!At, Database!Goto,
      Database!ActiveFollowsPhase, Database!Making, Database!Waiting,
      Database!Selectable, Database!FilesAgree
  <1>24. ASSUME Database!Manage PROVE Database!ActiveFollowsPhase'
    BY <1>24, <1>0 DEF Database!Manage, Database!At, Database!Reply,
      Database!ActiveFollowsPhase, Database!Making, Database!Waiting,
      Database!Selectable, Database!FilesAgree
  <1>25. ASSUME Database!Complete PROVE Database!ActiveFollowsPhase'
    BY <1>25, <1>0 DEF Database!Complete, Database!At, Database!Reply,
      Database!ActiveFollowsPhase, Database!Making, Database!Waiting,
      Database!Selectable, Database!FilesAgree
  <1>26. ASSUME Database!Fail PROVE Database!ActiveFollowsPhase'
    BY <1>26, <1>0 DEF Database!Fail, Database!At, Database!Reply,
      Database!Migration, Database!ActiveFollowsPhase, Database!Making,
      Database!Waiting, Database!Selectable, Database!FilesAgree
  <1> QED
    BY <1>1, <1>2, <1>3, <1>4, <1>5, <1>6, <1>7, <1>8, <1>9, <1>10, <1>11,
      <1>12, <1>13, <1>14, <1>15, <1>16, <1>17, <1>18, <1>19, <1>20, <1>21,
      <1>22, <1>23, <1>24, <1>25, <1>26 DEF Database!Next

\* File, log and retained copy stay of one database.
LEMMA DatabaseFilesAgree ==
  ASSUME Database!Shape, Database!ActiveFollowsPhase, Database!FilesAgree,
    Database!CallIsOfItsSource, [Database!Next]_databaseVars
  PROVE  Database!FilesAgree'
  <1> USE DEF databaseVars, Database!files, Database!process, Database!bounds
  <1>0. /\ active \in Database!Databases \cup {None}
        /\ onDisk \in Database!Databases \cup {None}
        /\ None \notin Database!Databases
        /\ None \notin Database!Copies
        /\ retained \in Database!Copies \cup {None}
        /\ reservation \in Database!Reservations \cup {None}
        /\ None \notin Database!Reservations
    BY SomethingIsThere, DatabaseAssumption DEF Database!Shape,
      Database!FileShape, Database!CallShape
  <1>1. CASE UNCHANGED <<active, onDisk, staged, retained>>
    BY <1>1 DEF Database!FilesAgree
  <1>2. ASSUME Database!Start PROVE Database!FilesAgree'
    BY <1>2, <1>0 DEF Database!Start, Database!At, Database!FilesAgree,
      Database!ActiveFollowsPhase, Database!Making, Database!Waiting
  <1>3. ASSUME Database!DropLog PROVE Database!FilesAgree'
    BY <1>3, <1>0 DEF Database!DropLog, Database!At, Database!FilesAgree,
      Database!ActiveFollowsPhase, Database!Making, Database!Waiting
  <1>4. ASSUME Database!Exit PROVE Database!FilesAgree'
    BY <1>4, <1>0 DEF Database!Exit, Database!At, Database!FilesAgree,
      Database!ActiveFollowsPhase, Database!Making, Database!Waiting
  <1>5. ASSUME Database!CreateFile PROVE Database!FilesAgree'
    BY <1>5, <1>0, CreateEffect DEF Database!CreateFile, Database!At,
      Database!Goto, Database!FilesAgree, Database!ActiveFollowsPhase,
      Database!Making, Database!Waiting
  <1>6. ASSUME Database!BeginImport PROVE Database!FilesAgree'
    BY <1>6, <1>0 DEF Database!BeginImport, Database!At, Database!Goto,
      Database!Exists, Database!SourceMatches, Database!FilesAgree,
      Database!ActiveFollowsPhase, Database!Making, Database!Waiting
  <1>7. ASSUME Database!TakeSnapshot PROVE Database!FilesAgree'
    BY <1>7, <1>0, SnapshotEffect DEF Database!TakeSnapshot, Database!At,
      Database!Goto, Database!Snapshot, Database!Exists, Database!FilesAgree,
      Database!ActiveFollowsPhase, Database!Making, Database!Waiting
  <1>8. ASSUME Database!Keep PROVE Database!FilesAgree'
    BY <1>8, <1>0 DEF Database!Keep, Database!At, Database!Goto,
      Database!FilesAgree, Database!ActiveFollowsPhase, Database!Making,
      Database!Waiting
  <1>9. ASSUME Database!CopyRetained PROVE Database!FilesAgree'
    BY <1>9, <1>0 DEF Database!CopyRetained, Database!At, Database!Goto,
      Database!FilesAgree, Database!ActiveFollowsPhase, Database!Making,
      Database!Waiting
  <1>10. ASSUME Database!Activate PROVE Database!FilesAgree'
    BY <1>10, <1>0, ActivateEffect DEF Database!Activate, Database!At,
      Database!Goto, Database!FilesAgree, Database!ActiveFollowsPhase,
      Database!Making, Database!Waiting, Database!CallIsOfItsSource
  <1>11. ASSUME Database!Open PROVE Database!FilesAgree'
    BY <1>11, <1>0, OpenEffect DEF Database!Open, Database!At, Database!Goto,
      Database!Reply, Database!Write, Database!Migrate, Database!FilesAgree,
      Database!ActiveFollowsPhase, Database!Making, Database!Waiting
  <1>12. ASSUME Database!ClearPlaintext PROVE Database!FilesAgree'
    BY <1>12, <1>0, ClearEffect DEF Database!ClearPlaintext, Database!At,
      Database!Goto, Database!Write, Database!FilesAgree,
      Database!ActiveFollowsPhase, Database!Making, Database!Waiting
  <1>13. ASSUME Database!Purge PROVE Database!FilesAgree'
    BY <1>13, <1>0 DEF Database!Purge, Database!At, Database!Goto,
      Database!FilesAgree, Database!ActiveFollowsPhase, Database!Making,
      Database!Waiting
  <1>14. ASSUME Database!ScrubRetained PROVE Database!FilesAgree'
    BY <1>14, <1>0, ScrubEffect DEF Database!ScrubRetained, Database!At,
      Database!Goto, Database!FilesAgree, Database!ActiveFollowsPhase,
      Database!Making, Database!Waiting
  <1>15. ASSUME Database!MarkPurged PROVE Database!FilesAgree'
    BY <1>15, <1>0, MarkEffect DEF Database!MarkPurged, Database!At,
      Database!Goto, Database!Write, Database!FilesAgree,
      Database!ActiveFollowsPhase, Database!Making, Database!Waiting
  <1>16. ASSUME Database!Fail PROVE Database!FilesAgree'
    BY <1>16, <1>0 DEF Database!Fail, Database!At, Database!Reply,
      Database!Migration, Database!FilesAgree, Database!ActiveFollowsPhase,
      Database!Making, Database!Waiting
  <1> QED
    BY <1>1, <1>2, <1>3, <1>4, <1>5, <1>6, <1>7, <1>8, <1>9, <1>10, <1>11,
      <1>12, <1>13, <1>14, <1>15, <1>16 DEF Database!Next, Database!Crash,
      Database!Ask, Database!RefuseFresh, Database!RefuseImport,
      Database!SourceIsMissing, Database!Reserve, Database!SaveSecret,
      Database!MigrateAccounts, Database!Manage, Database!Complete,
      Database!At, Database!Goto, Database!Reply

\* A reservation is of what was retained, and of what became active.
LEMMA DatabaseReservation ==
  ASSUME Database!Shape, Database!ActiveFollowsPhase, Database!FilesAgree,
    Database!CallIsOfItsSource, Database!ReservationIsKept,
    [Database!Next]_databaseVars
  PROVE  Database!ReservationIsKept'
  <1> USE DEF databaseVars, Database!files, Database!process, Database!bounds
  <1>0. /\ active \in Database!Databases \cup {None}
        /\ onDisk \in Database!Databases \cup {None}
        /\ None \notin Database!Databases
        /\ reservation \in Database!Reservations \cup {None}
        /\ None \notin Database!Reservations
    BY SomethingIsThere, DatabaseAssumption DEF Database!Shape,
      Database!FileShape, Database!CallShape
  <1>1. CASE UNCHANGED <<active, reservation>>
    BY <1>1 DEF Database!ReservationIsKept
  <1>2. ASSUME Database!DropLog PROVE Database!ReservationIsKept'
    BY <1>2, <1>0 DEF Database!DropLog, Database!At,
      Database!ReservationIsKept, Database!ActiveFollowsPhase,
      Database!Making, Database!Waiting, Database!FilesAgree
  <1>3. ASSUME Database!CreateFile PROVE Database!ReservationIsKept'
    BY <1>3, <1>0, CreateEffect DEF Database!CreateFile, Database!At,
      Database!Goto, Database!ReservationIsKept, Database!ActiveFollowsPhase,
      Database!Making, Database!Waiting, Database!FilesAgree
  <1>4. ASSUME Database!Reserve PROVE Database!ReservationIsKept'
    BY <1>4, <1>0, ReserveEffect DEF Database!Reserve, Database!At,
      Database!Goto, Database!ReservationIsKept, Database!ActiveFollowsPhase,
      Database!Making, Database!Waiting, Database!FilesAgree
  <1>5. ASSUME Database!Activate PROVE Database!ReservationIsKept'
    BY <1>5, <1>0, ActivateEffect DEF Database!Activate, Database!At,
      Database!Goto, Database!ReservationIsKept, Database!ActiveFollowsPhase,
      Database!Making, Database!Waiting, Database!FilesAgree
  <1>6. ASSUME Database!Open PROVE Database!ReservationIsKept'
    BY <1>6, <1>0, OpenEffect DEF Database!Open, Database!At, Database!Goto,
      Database!Reply, Database!Write, Database!Migrate,
      Database!ReservationIsKept, Database!ActiveFollowsPhase,
      Database!Making, Database!Waiting, Database!FilesAgree
  <1>7. ASSUME Database!ClearPlaintext PROVE Database!ReservationIsKept'
    BY <1>7, <1>0, ClearEffect DEF Database!ClearPlaintext, Database!At,
      Database!Goto, Database!Write, Database!ReservationIsKept,
      Database!ActiveFollowsPhase, Database!Making, Database!Waiting,
      Database!FilesAgree
  <1>8. ASSUME Database!MarkPurged PROVE Database!ReservationIsKept'
    BY <1>8, <1>0, MarkEffect DEF Database!MarkPurged, Database!At,
      Database!Goto, Database!Write, Database!ReservationIsKept,
      Database!ActiveFollowsPhase, Database!Making, Database!Waiting,
      Database!FilesAgree
  <1>9. ASSUME Database!Complete PROVE Database!ReservationIsKept'
    BY <1>9, <1>0 DEF Database!Complete, Database!At, Database!Reply,
      Database!ReservationIsKept, Database!ActiveFollowsPhase,
      Database!Making, Database!Waiting, Database!FilesAgree
  <1> QED
    BY <1>1, <1>2, <1>3, <1>4, <1>5, <1>6, <1>7, <1>8, <1>9 DEF
      Database!Next, Database!Start, Database!Exit, Database!Crash,
      Database!Ask, Database!RefuseFresh, Database!RefuseImport,
      Database!BeginImport, Database!TakeSnapshot, Database!SourceIsMissing,
      Database!Keep, Database!CopyRetained, Database!SaveSecret,
      Database!Purge, Database!ScrubRetained, Database!MigrateAccounts,
      Database!Manage, Database!Fail, Database!At, Database!Goto,
      Database!Reply, Database!Snapshot, Database!Exists,
      Database!SourceMatches, Database!Migration

\* Each step of a call works on what it was asked for.
LEMMA DatabaseSource ==
  ASSUME Database!Shape, Database!ActiveFollowsPhase, Database!FilesAgree,
    Database!CallIsOfItsSource, Database!ReservationIsKept,
    [Database!Next]_databaseVars
  PROVE  Database!CallIsOfItsSource'
  <1> USE DEF databaseVars, Database!files, Database!process, Database!bounds
  <1>0. /\ active \in Database!Databases \cup {None}
        /\ onDisk \in Database!Databases \cup {None}
        /\ None \notin Database!Databases
        /\ None \notin Database!Copies
        /\ None \notin Database!Reservations
        /\ call \in Database!Calls \cup {None}
        /\ None \notin Database!Calls
        /\ staged \in Database!Copies \cup {None}
        /\ retained \in Database!Copies \cup {None}
        /\ reservation \in Database!Reservations \cup {None}
        /\ None \notin External \cup {Managed, Fresh, Startup}
        /\ Fresh \notin External \cup {Managed}
        /\ Startup \notin External \cup {Managed, Fresh}
    BY SomethingIsThere, DatabaseAssumption DEF Database!Shape,
      Database!FileShape, Database!CallShape
  <1>1. CASE UNCHANGED <<active, reservation, retained, staged, call, phase,
    answer>>
    BY <1>1 DEF Database!CallIsOfItsSource, Database!Making,
      Database!Waiting, Database!Selectable
  <1>2. ASSUME Database!Start PROVE Database!CallIsOfItsSource'
    BY <1>2, <1>0 DEF Database!Start, Database!At,
      Database!CallIsOfItsSource, Database!Making, Database!Waiting,
      Database!Selectable, Database!ActiveFollowsPhase, Database!FilesAgree,
      Database!ReservationIsKept
  <1>3. ASSUME Database!DropLog PROVE Database!CallIsOfItsSource'
    BY <1>3, <1>0 DEF Database!DropLog, Database!At,
      Database!CallIsOfItsSource, Database!Making, Database!Waiting,
      Database!Selectable, Database!ActiveFollowsPhase, Database!FilesAgree,
      Database!ReservationIsKept
  <1>4. ASSUME Database!Exit PROVE Database!CallIsOfItsSource'
    BY <1>4, <1>0 DEF Database!Exit, Database!At, Database!CallIsOfItsSource,
      Database!Making, Database!Waiting, Database!Selectable,
      Database!ActiveFollowsPhase, Database!FilesAgree,
      Database!ReservationIsKept
  <1>5. ASSUME Database!Crash PROVE Database!CallIsOfItsSource'
    BY <1>5, <1>0 DEF Database!Crash, Database!At,
      Database!CallIsOfItsSource, Database!Making, Database!Waiting,
      Database!Selectable, Database!ActiveFollowsPhase, Database!FilesAgree,
      Database!ReservationIsKept
  <1>6. ASSUME NEW what \in Database!Selectable \cup {Fresh},
    Database!Ask(what)
         PROVE  Database!CallIsOfItsSource'
    BY <1>6, <1>0 DEF Database!Ask, Database!At, Database!CallIsOfItsSource,
      Database!Making, Database!Waiting, Database!Selectable,
      Database!ActiveFollowsPhase, Database!FilesAgree,
      Database!ReservationIsKept
  <1>7. ASSUME Database!RefuseFresh PROVE Database!CallIsOfItsSource'
    BY <1>7, <1>0 DEF Database!RefuseFresh, Database!At, Database!Reply,
      Database!CallIsOfItsSource, Database!Making, Database!Waiting,
      Database!Selectable, Database!ActiveFollowsPhase, Database!FilesAgree,
      Database!ReservationIsKept
  <1>8. ASSUME Database!RefuseImport PROVE Database!CallIsOfItsSource'
    BY <1>8, <1>0 DEF Database!RefuseImport, Database!At, Database!Reply,
      Database!CallIsOfItsSource, Database!Making, Database!Waiting,
      Database!Selectable, Database!ActiveFollowsPhase, Database!FilesAgree,
      Database!ReservationIsKept
  <1>9. ASSUME Database!CreateFile PROVE Database!CallIsOfItsSource'
    BY <1>9, <1>0, CreateEffect DEF Database!CreateFile, Database!At,
      Database!Goto, Database!CallIsOfItsSource, Database!Making,
      Database!Waiting, Database!Selectable, Database!ActiveFollowsPhase,
      Database!FilesAgree, Database!ReservationIsKept
  <1>10. ASSUME Database!BeginImport PROVE Database!CallIsOfItsSource'
    BY <1>10, <1>0 DEF Database!BeginImport, Database!At, Database!Goto,
      Database!Exists, Database!SourceMatches, Database!CallIsOfItsSource,
      Database!Making, Database!Waiting, Database!Selectable,
      Database!ActiveFollowsPhase, Database!FilesAgree,
      Database!ReservationIsKept
  <1>11. ASSUME Database!TakeSnapshot PROVE Database!CallIsOfItsSource'
    BY <1>11, <1>0, SnapshotEffect DEF Database!TakeSnapshot, Database!At,
      Database!Goto, Database!Snapshot, Database!Exists,
      Database!CallIsOfItsSource, Database!Making, Database!Waiting,
      Database!Selectable, Database!ActiveFollowsPhase, Database!FilesAgree,
      Database!ReservationIsKept
  <1>12. ASSUME Database!SourceIsMissing PROVE Database!CallIsOfItsSource'
    BY <1>12, <1>0 DEF Database!SourceIsMissing, Database!At, Database!Reply,
      Database!CallIsOfItsSource, Database!Making, Database!Waiting,
      Database!Selectable, Database!ActiveFollowsPhase, Database!FilesAgree,
      Database!ReservationIsKept
  <1>13. ASSUME Database!Keep PROVE Database!CallIsOfItsSource'
    BY <1>13, <1>0 DEF Database!Keep, Database!At, Database!Goto,
      Database!CallIsOfItsSource, Database!Making, Database!Waiting,
      Database!Selectable, Database!ActiveFollowsPhase, Database!FilesAgree,
      Database!ReservationIsKept
  <1>14. ASSUME Database!Reserve PROVE Database!CallIsOfItsSource'
    BY <1>14, <1>0, ReserveEffect DEF Database!Reserve, Database!At,
      Database!Goto, Database!CallIsOfItsSource, Database!Making,
      Database!Waiting, Database!Selectable, Database!ActiveFollowsPhase,
      Database!FilesAgree, Database!ReservationIsKept
  <1>15. ASSUME Database!CopyRetained PROVE Database!CallIsOfItsSource'
    BY <1>15, <1>0 DEF Database!CopyRetained, Database!At, Database!Goto,
      Database!CallIsOfItsSource, Database!Making, Database!Waiting,
      Database!Selectable, Database!ActiveFollowsPhase, Database!FilesAgree,
      Database!ReservationIsKept
  <1>16. ASSUME Database!Activate PROVE Database!CallIsOfItsSource'
    BY <1>16, <1>0, ActivateEffect DEF Database!Activate, Database!At,
      Database!Goto, Database!CallIsOfItsSource, Database!Making,
      Database!Waiting, Database!Selectable, Database!ActiveFollowsPhase,
      Database!FilesAgree, Database!ReservationIsKept
  <1>17. ASSUME Database!Open PROVE Database!CallIsOfItsSource'
    BY <1>17, <1>0, OpenEffect DEF Database!Open, Database!At, Database!Goto,
      Database!Reply, Database!Write, Database!Migrate,
      Database!CallIsOfItsSource, Database!Making, Database!Waiting,
      Database!Selectable, Database!ActiveFollowsPhase, Database!FilesAgree,
      Database!ReservationIsKept
  <1>18. ASSUME Database!SaveSecret PROVE Database!CallIsOfItsSource'
    BY <1>18, <1>0 DEF Database!SaveSecret, Database!At, Database!Goto,
      Database!CallIsOfItsSource, Database!Making, Database!Waiting,
      Database!Selectable, Database!ActiveFollowsPhase, Database!FilesAgree,
      Database!ReservationIsKept
  <1>19. ASSUME Database!ClearPlaintext PROVE Database!CallIsOfItsSource'
    BY <1>19, <1>0, ClearEffect DEF Database!ClearPlaintext, Database!At,
      Database!Goto, Database!Write, Database!CallIsOfItsSource,
      Database!Making, Database!Waiting, Database!Selectable,
      Database!ActiveFollowsPhase, Database!FilesAgree,
      Database!ReservationIsKept
  <1>20. ASSUME Database!Purge PROVE Database!CallIsOfItsSource'
    BY <1>20, <1>0 DEF Database!Purge, Database!At, Database!Goto,
      Database!CallIsOfItsSource, Database!Making, Database!Waiting,
      Database!Selectable, Database!ActiveFollowsPhase, Database!FilesAgree,
      Database!ReservationIsKept
  <1>21. ASSUME Database!ScrubRetained PROVE Database!CallIsOfItsSource'
    BY <1>21, <1>0, ScrubEffect DEF Database!ScrubRetained, Database!At,
      Database!Goto, Database!CallIsOfItsSource, Database!Making,
      Database!Waiting, Database!Selectable, Database!ActiveFollowsPhase,
      Database!FilesAgree, Database!ReservationIsKept
  <1>22. ASSUME Database!MarkPurged PROVE Database!CallIsOfItsSource'
    BY <1>22, <1>0, MarkEffect DEF Database!MarkPurged, Database!At,
      Database!Goto, Database!Write, Database!CallIsOfItsSource,
      Database!Making, Database!Waiting, Database!Selectable,
      Database!ActiveFollowsPhase, Database!FilesAgree,
      Database!ReservationIsKept
  <1>23. ASSUME Database!MigrateAccounts PROVE Database!CallIsOfItsSource'
    BY <1>23, <1>0 DEF Database!MigrateAccounts, Database!At, Database!Goto,
      Database!CallIsOfItsSource, Database!Making, Database!Waiting,
      Database!Selectable, Database!ActiveFollowsPhase, Database!FilesAgree,
      Database!ReservationIsKept
  <1>24. ASSUME Database!Manage PROVE Database!CallIsOfItsSource'
    BY <1>24, <1>0 DEF Database!Manage, Database!At, Database!Reply,
      Database!CallIsOfItsSource, Database!Making, Database!Waiting,
      Database!Selectable, Database!ActiveFollowsPhase, Database!FilesAgree,
      Database!ReservationIsKept
  <1>25. ASSUME Database!Complete PROVE Database!CallIsOfItsSource'
    BY <1>25, <1>0 DEF Database!Complete, Database!At, Database!Reply,
      Database!CallIsOfItsSource, Database!Making, Database!Waiting,
      Database!Selectable, Database!ActiveFollowsPhase, Database!FilesAgree,
      Database!ReservationIsKept
  <1>26. ASSUME Database!Fail PROVE Database!CallIsOfItsSource'
    BY <1>26, <1>0 DEF Database!Fail, Database!At, Database!Reply,
      Database!Migration, Database!CallIsOfItsSource, Database!Making,
      Database!Waiting, Database!Selectable, Database!ActiveFollowsPhase,
      Database!FilesAgree, Database!ReservationIsKept
  <1> QED
    BY <1>1, <1>2, <1>3, <1>4, <1>5, <1>6, <1>7, <1>8, <1>9, <1>10, <1>11,
      <1>12, <1>13, <1>14, <1>15, <1>16, <1>17, <1>18, <1>19, <1>20, <1>21,
      <1>22, <1>23, <1>24, <1>25, <1>26 DEF Database!Next

\* The purge erases the file, the copy and then says so.
LEMMA DatabaseErased ==
  ASSUME Database!Shape, Database!ActiveFollowsPhase, Database!FilesAgree,
    Database!CallIsOfItsSource, Database!ErasedByPhase,
    Database!FileSaysTheSame, Database!PurgedMeansErased,
    [Database!Next]_databaseVars
  PROVE  Database!ErasedByPhase'
  <1> USE DEF databaseVars, Database!files, Database!process, Database!bounds
  <1>0. /\ active \in Database!Databases \cup {None}
        /\ onDisk \in Database!Databases \cup {None}
        /\ None \notin Database!Databases
        /\ None \notin Database!Copies
        /\ retained \in Database!Copies \cup {None}
    BY SomethingIsThere, DatabaseAssumption DEF Database!Shape,
      Database!FileShape, Database!CallShape
  <1>1. CASE UNCHANGED <<active, onDisk, retained, phase>>
    BY <1>1 DEF Database!ErasedByPhase, Database!Erasing
  <1>2. ASSUME Database!Start PROVE Database!ErasedByPhase'
    BY <1>2, <1>0 DEF Database!Start, Database!At, Database!ErasedByPhase,
      Database!Erasing, Database!ActiveFollowsPhase, Database!FilesAgree,
      Database!Making, Database!Waiting
  <1>3. ASSUME Database!DropLog PROVE Database!ErasedByPhase'
    BY <1>3, <1>0 DEF Database!DropLog, Database!At, Database!ErasedByPhase,
      Database!Erasing, Database!ActiveFollowsPhase, Database!FilesAgree,
      Database!Making, Database!Waiting
  <1>4. ASSUME Database!Exit PROVE Database!ErasedByPhase'
    BY <1>4, <1>0 DEF Database!Exit, Database!At, Database!ErasedByPhase,
      Database!Erasing, Database!ActiveFollowsPhase, Database!FilesAgree,
      Database!Making, Database!Waiting
  <1>5. ASSUME Database!Crash PROVE Database!ErasedByPhase'
    BY <1>5, <1>0 DEF Database!Crash, Database!At, Database!ErasedByPhase,
      Database!Erasing, Database!ActiveFollowsPhase, Database!FilesAgree,
      Database!Making, Database!Waiting
  <1>6. ASSUME NEW what \in Database!Selectable \cup {Fresh},
    Database!Ask(what)
         PROVE  Database!ErasedByPhase'
    BY <1>6, <1>0 DEF Database!Ask, Database!At, Database!ErasedByPhase,
      Database!Erasing, Database!ActiveFollowsPhase, Database!FilesAgree,
      Database!Making, Database!Waiting
  <1>7. ASSUME Database!RefuseFresh PROVE Database!ErasedByPhase'
    BY <1>7, <1>0 DEF Database!RefuseFresh, Database!At, Database!Reply,
      Database!ErasedByPhase, Database!Erasing, Database!ActiveFollowsPhase,
      Database!FilesAgree, Database!Making, Database!Waiting
  <1>8. ASSUME Database!RefuseImport PROVE Database!ErasedByPhase'
    BY <1>8, <1>0 DEF Database!RefuseImport, Database!At, Database!Reply,
      Database!ErasedByPhase, Database!Erasing, Database!ActiveFollowsPhase,
      Database!FilesAgree, Database!Making, Database!Waiting
  <1>9. ASSUME Database!CreateFile PROVE Database!ErasedByPhase'
    BY <1>9, <1>0, CreateEffect DEF Database!CreateFile, Database!At,
      Database!Goto, Database!ErasedByPhase, Database!Erasing,
      Database!ActiveFollowsPhase, Database!FilesAgree, Database!Making,
      Database!Waiting
  <1>10. ASSUME Database!BeginImport PROVE Database!ErasedByPhase'
    BY <1>10, <1>0 DEF Database!BeginImport, Database!At, Database!Goto,
      Database!Exists, Database!SourceMatches, Database!ErasedByPhase,
      Database!Erasing, Database!ActiveFollowsPhase, Database!FilesAgree,
      Database!Making, Database!Waiting
  <1>11. ASSUME Database!TakeSnapshot PROVE Database!ErasedByPhase'
    BY <1>11, <1>0, SnapshotEffect DEF Database!TakeSnapshot, Database!At,
      Database!Goto, Database!Snapshot, Database!Exists,
      Database!ErasedByPhase, Database!Erasing, Database!ActiveFollowsPhase,
      Database!FilesAgree, Database!Making, Database!Waiting
  <1>12. ASSUME Database!SourceIsMissing PROVE Database!ErasedByPhase'
    BY <1>12, <1>0 DEF Database!SourceIsMissing, Database!At, Database!Reply,
      Database!ErasedByPhase, Database!Erasing, Database!ActiveFollowsPhase,
      Database!FilesAgree, Database!Making, Database!Waiting
  <1>13. ASSUME Database!Keep PROVE Database!ErasedByPhase'
    BY <1>13, <1>0 DEF Database!Keep, Database!At, Database!Goto,
      Database!ErasedByPhase, Database!Erasing, Database!ActiveFollowsPhase,
      Database!FilesAgree, Database!Making, Database!Waiting
  <1>14. ASSUME Database!Reserve PROVE Database!ErasedByPhase'
    BY <1>14, <1>0, ReserveEffect DEF Database!Reserve, Database!At,
      Database!Goto, Database!ErasedByPhase, Database!Erasing,
      Database!ActiveFollowsPhase, Database!FilesAgree, Database!Making,
      Database!Waiting
  <1>15. ASSUME Database!CopyRetained PROVE Database!ErasedByPhase'
    BY <1>15, <1>0 DEF Database!CopyRetained, Database!At, Database!Goto,
      Database!ErasedByPhase, Database!Erasing, Database!ActiveFollowsPhase,
      Database!FilesAgree, Database!Making, Database!Waiting
  <1>16. ASSUME Database!Activate PROVE Database!ErasedByPhase'
    BY <1>16, <1>0, ActivateEffect DEF Database!Activate, Database!At,
      Database!Goto, Database!ErasedByPhase, Database!Erasing,
      Database!ActiveFollowsPhase, Database!FilesAgree, Database!Making,
      Database!Waiting
  <1>17. ASSUME Database!Open PROVE Database!ErasedByPhase'
    BY <1>17, <1>0, OpenEffect DEF Database!Open, Database!At, Database!Goto,
      Database!Reply, Database!Write, Database!Migrate,
      Database!ErasedByPhase, Database!Erasing, Database!ActiveFollowsPhase,
      Database!FilesAgree, Database!Making, Database!Waiting
  <1>18. ASSUME Database!SaveSecret PROVE Database!ErasedByPhase'
    BY <1>18, <1>0 DEF Database!SaveSecret, Database!At, Database!Goto,
      Database!ErasedByPhase, Database!Erasing, Database!ActiveFollowsPhase,
      Database!FilesAgree, Database!Making, Database!Waiting
  <1>19. ASSUME Database!ClearPlaintext PROVE Database!ErasedByPhase'
    BY <1>19, <1>0, ClearEffect DEF Database!ClearPlaintext, Database!At,
      Database!Goto, Database!Write, Database!ErasedByPhase,
      Database!Erasing, Database!ActiveFollowsPhase, Database!FilesAgree,
      Database!Making, Database!Waiting
  <1>20. ASSUME Database!Purge PROVE Database!ErasedByPhase'
    BY <1>20, <1>0 DEF Database!Purge, Database!At, Database!Goto,
      Database!ErasedByPhase, Database!Erasing, Database!ActiveFollowsPhase,
      Database!FilesAgree, Database!Making, Database!Waiting
  <1>21. ASSUME Database!ScrubRetained PROVE Database!ErasedByPhase'
    BY <1>21, <1>0, ScrubEffect DEF Database!ScrubRetained, Database!At,
      Database!Goto, Database!ErasedByPhase, Database!Erasing,
      Database!ActiveFollowsPhase, Database!FilesAgree, Database!Making,
      Database!Waiting
  <1>22. ASSUME Database!MarkPurged PROVE Database!ErasedByPhase'
    BY <1>22, <1>0, MarkEffect DEF Database!MarkPurged, Database!At,
      Database!Goto, Database!Write, Database!ErasedByPhase,
      Database!Erasing, Database!ActiveFollowsPhase, Database!FilesAgree,
      Database!Making, Database!Waiting
  <1>23. ASSUME Database!MigrateAccounts PROVE Database!ErasedByPhase'
    BY <1>23, <1>0 DEF Database!MigrateAccounts, Database!At, Database!Goto,
      Database!ErasedByPhase, Database!Erasing, Database!ActiveFollowsPhase,
      Database!FilesAgree, Database!Making, Database!Waiting
  <1>24. ASSUME Database!Manage PROVE Database!ErasedByPhase'
    BY <1>24, <1>0 DEF Database!Manage, Database!At, Database!Reply,
      Database!ErasedByPhase, Database!Erasing, Database!ActiveFollowsPhase,
      Database!FilesAgree, Database!Making, Database!Waiting
  <1>25. ASSUME Database!Complete PROVE Database!ErasedByPhase'
    BY <1>25, <1>0 DEF Database!Complete, Database!At, Database!Reply,
      Database!ErasedByPhase, Database!Erasing, Database!ActiveFollowsPhase,
      Database!FilesAgree, Database!Making, Database!Waiting
  <1>26. ASSUME Database!Fail PROVE Database!ErasedByPhase'
    BY <1>26, <1>0 DEF Database!Fail, Database!At, Database!Reply,
      Database!Migration, Database!ErasedByPhase, Database!Erasing,
      Database!ActiveFollowsPhase, Database!FilesAgree, Database!Making,
      Database!Waiting
  <1> QED
    BY <1>1, <1>2, <1>3, <1>4, <1>5, <1>6, <1>7, <1>8, <1>9, <1>10, <1>11,
      <1>12, <1>13, <1>14, <1>15, <1>16, <1>17, <1>18, <1>19, <1>20, <1>21,
      <1>22, <1>23, <1>24, <1>25, <1>26 DEF Database!Next

\* What says on disk that it is purged is purged.
LEMMA DatabaseSays ==
  ASSUME Database!Shape, Database!ActiveFollowsPhase, Database!FilesAgree,
    Database!CallIsOfItsSource, Database!ErasedByPhase,
    Database!FileSaysTheSame, Database!PurgedMeansErased,
    [Database!Next]_databaseVars
  PROVE  Database!FileSaysTheSame'
  <1> USE DEF databaseVars, Database!files, Database!process, Database!bounds
  <1>0. /\ active \in Database!Databases \cup {None}
        /\ onDisk \in Database!Databases \cup {None}
        /\ None \notin Database!Databases
        /\ None \notin Database!Copies
        /\ retained \in Database!Copies \cup {None}
    BY SomethingIsThere, DatabaseAssumption DEF Database!Shape,
      Database!FileShape, Database!CallShape
  <1>1. CASE UNCHANGED <<active, onDisk, retained>>
    BY <1>1 DEF Database!FileSaysTheSame
  <1>2. ASSUME Database!DropLog PROVE Database!FileSaysTheSame'
    BY <1>2, <1>0 DEF Database!DropLog, Database!At,
      Database!FileSaysTheSame, Database!ActiveFollowsPhase,
      Database!FilesAgree, Database!Making, Database!Waiting,
      Database!ErasedByPhase, Database!Erasing, Database!PurgedMeansErased
  <1>3. ASSUME Database!Exit PROVE Database!FileSaysTheSame'
    BY <1>3, <1>0 DEF Database!Exit, Database!At, Database!FileSaysTheSame,
      Database!ActiveFollowsPhase, Database!FilesAgree, Database!Making,
      Database!Waiting, Database!ErasedByPhase, Database!Erasing,
      Database!PurgedMeansErased
  <1>4. ASSUME Database!CreateFile PROVE Database!FileSaysTheSame'
    BY <1>4, <1>0, CreateEffect DEF Database!CreateFile, Database!At,
      Database!Goto, Database!FileSaysTheSame, Database!ActiveFollowsPhase,
      Database!FilesAgree, Database!Making, Database!Waiting,
      Database!ErasedByPhase, Database!Erasing, Database!PurgedMeansErased
  <1>5. ASSUME Database!Keep PROVE Database!FileSaysTheSame'
    BY <1>5, <1>0 DEF Database!Keep, Database!At, Database!Goto,
      Database!FileSaysTheSame, Database!ActiveFollowsPhase,
      Database!FilesAgree, Database!Making, Database!Waiting,
      Database!ErasedByPhase, Database!Erasing, Database!PurgedMeansErased
  <1>6. ASSUME Database!Activate PROVE Database!FileSaysTheSame'
    BY <1>6, <1>0, ActivateEffect DEF Database!Activate, Database!At,
      Database!Goto, Database!FileSaysTheSame, Database!ActiveFollowsPhase,
      Database!FilesAgree, Database!Making, Database!Waiting,
      Database!ErasedByPhase, Database!Erasing, Database!PurgedMeansErased
  <1>7. ASSUME Database!Open PROVE Database!FileSaysTheSame'
    BY <1>7, <1>0, OpenEffect DEF Database!Open, Database!At, Database!Goto,
      Database!Reply, Database!Write, Database!Migrate,
      Database!FileSaysTheSame, Database!ActiveFollowsPhase,
      Database!FilesAgree, Database!Making, Database!Waiting,
      Database!ErasedByPhase, Database!Erasing, Database!PurgedMeansErased
  <1>8. ASSUME Database!ClearPlaintext PROVE Database!FileSaysTheSame'
    BY <1>8, <1>0, ClearEffect DEF Database!ClearPlaintext, Database!At,
      Database!Goto, Database!Write, Database!FileSaysTheSame,
      Database!ActiveFollowsPhase, Database!FilesAgree, Database!Making,
      Database!Waiting, Database!ErasedByPhase, Database!Erasing,
      Database!PurgedMeansErased
  <1>9. ASSUME Database!Purge PROVE Database!FileSaysTheSame'
    BY <1>9, <1>0 DEF Database!Purge, Database!At, Database!Goto,
      Database!FileSaysTheSame, Database!ActiveFollowsPhase,
      Database!FilesAgree, Database!Making, Database!Waiting,
      Database!ErasedByPhase, Database!Erasing, Database!PurgedMeansErased
  <1>10. ASSUME Database!ScrubRetained PROVE Database!FileSaysTheSame'
    BY <1>10, <1>0, ScrubEffect DEF Database!ScrubRetained, Database!At,
      Database!Goto, Database!FileSaysTheSame, Database!ActiveFollowsPhase,
      Database!FilesAgree, Database!Making, Database!Waiting,
      Database!ErasedByPhase, Database!Erasing, Database!PurgedMeansErased
  <1>11. ASSUME Database!MarkPurged PROVE Database!FileSaysTheSame'
    BY <1>11, <1>0, MarkEffect DEF Database!MarkPurged, Database!At,
      Database!Goto, Database!Write, Database!FileSaysTheSame,
      Database!ActiveFollowsPhase, Database!FilesAgree, Database!Making,
      Database!Waiting, Database!ErasedByPhase, Database!Erasing,
      Database!PurgedMeansErased
  <1> QED
    BY <1>1, <1>2, <1>3, <1>4, <1>5, <1>6, <1>7, <1>8, <1>9, <1>10, <1>11 DEF
      Database!Next, Database!Start, Database!Crash, Database!Ask,
      Database!RefuseFresh, Database!RefuseImport, Database!BeginImport,
      Database!TakeSnapshot, Database!SourceIsMissing, Database!Reserve,
      Database!CopyRetained, Database!SaveSecret, Database!MigrateAccounts,
      Database!Manage, Database!Complete, Database!Fail, Database!At,
      Database!Goto, Database!Reply, Database!Snapshot, Database!Exists,
      Database!SourceMatches, Database!Migration

\* After the purge no file has a credential in plaintext.
LEMMA DatabasePurged ==
  ASSUME Database!Shape, Database!ActiveFollowsPhase, Database!FilesAgree,
    Database!CallIsOfItsSource, Database!ErasedByPhase,
    Database!FileSaysTheSame, Database!PurgedMeansErased,
    [Database!Next]_databaseVars
  PROVE  Database!PurgedMeansErased'
  <1> USE DEF databaseVars, Database!files, Database!process, Database!bounds
  <1>0. /\ active \in Database!Databases \cup {None}
        /\ onDisk \in Database!Databases \cup {None}
        /\ None \notin Database!Databases
        /\ None \notin Database!Copies
        /\ retained \in Database!Copies \cup {None}
        /\ staged \in Database!Copies \cup {None}
    BY SomethingIsThere, DatabaseAssumption DEF Database!Shape,
      Database!FileShape, Database!CallShape
  <1>1. CASE UNCHANGED <<active, onDisk, retained, staged>>
    BY <1>1 DEF Database!PurgedMeansErased
  <1>2. ASSUME Database!Start PROVE Database!PurgedMeansErased'
    BY <1>2, <1>0 DEF Database!Start, Database!At,
      Database!PurgedMeansErased, Database!ActiveFollowsPhase,
      Database!FilesAgree, Database!Making, Database!Waiting,
      Database!ErasedByPhase, Database!Erasing, Database!FileSaysTheSame
  <1>3. ASSUME Database!DropLog PROVE Database!PurgedMeansErased'
    BY <1>3, <1>0 DEF Database!DropLog, Database!At,
      Database!PurgedMeansErased, Database!ActiveFollowsPhase,
      Database!FilesAgree, Database!Making, Database!Waiting,
      Database!ErasedByPhase, Database!Erasing, Database!FileSaysTheSame
  <1>4. ASSUME Database!Exit PROVE Database!PurgedMeansErased'
    BY <1>4, <1>0 DEF Database!Exit, Database!At, Database!PurgedMeansErased,
      Database!ActiveFollowsPhase, Database!FilesAgree, Database!Making,
      Database!Waiting, Database!ErasedByPhase, Database!Erasing,
      Database!FileSaysTheSame
  <1>5. ASSUME Database!CreateFile PROVE Database!PurgedMeansErased'
    BY <1>5, <1>0, CreateEffect DEF Database!CreateFile, Database!At,
      Database!Goto, Database!PurgedMeansErased, Database!ActiveFollowsPhase,
      Database!FilesAgree, Database!Making, Database!Waiting,
      Database!ErasedByPhase, Database!Erasing, Database!FileSaysTheSame
  <1>6. ASSUME Database!BeginImport PROVE Database!PurgedMeansErased'
    BY <1>6, <1>0 DEF Database!BeginImport, Database!At, Database!Goto,
      Database!Exists, Database!SourceMatches, Database!PurgedMeansErased,
      Database!ActiveFollowsPhase, Database!FilesAgree, Database!Making,
      Database!Waiting, Database!ErasedByPhase, Database!Erasing,
      Database!FileSaysTheSame
  <1>7. ASSUME Database!TakeSnapshot PROVE Database!PurgedMeansErased'
    BY <1>7, <1>0, SnapshotEffect DEF Database!TakeSnapshot, Database!At,
      Database!Goto, Database!Snapshot, Database!Exists,
      Database!PurgedMeansErased, Database!ActiveFollowsPhase,
      Database!FilesAgree, Database!Making, Database!Waiting,
      Database!ErasedByPhase, Database!Erasing, Database!FileSaysTheSame
  <1>8. ASSUME Database!Keep PROVE Database!PurgedMeansErased'
    BY <1>8, <1>0 DEF Database!Keep, Database!At, Database!Goto,
      Database!PurgedMeansErased, Database!ActiveFollowsPhase,
      Database!FilesAgree, Database!Making, Database!Waiting,
      Database!ErasedByPhase, Database!Erasing, Database!FileSaysTheSame
  <1>9. ASSUME Database!CopyRetained PROVE Database!PurgedMeansErased'
    BY <1>9, <1>0 DEF Database!CopyRetained, Database!At, Database!Goto,
      Database!PurgedMeansErased, Database!ActiveFollowsPhase,
      Database!FilesAgree, Database!Making, Database!Waiting,
      Database!ErasedByPhase, Database!Erasing, Database!FileSaysTheSame
  <1>10. ASSUME Database!Activate PROVE Database!PurgedMeansErased'
    BY <1>10, <1>0, ActivateEffect DEF Database!Activate, Database!At,
      Database!Goto, Database!PurgedMeansErased, Database!ActiveFollowsPhase,
      Database!FilesAgree, Database!Making, Database!Waiting,
      Database!ErasedByPhase, Database!Erasing, Database!FileSaysTheSame
  <1>11. ASSUME Database!Open PROVE Database!PurgedMeansErased'
    BY <1>11, <1>0, OpenEffect DEF Database!Open, Database!At, Database!Goto,
      Database!Reply, Database!Write, Database!Migrate,
      Database!PurgedMeansErased, Database!ActiveFollowsPhase,
      Database!FilesAgree, Database!Making, Database!Waiting,
      Database!ErasedByPhase, Database!Erasing, Database!FileSaysTheSame
  <1>12. ASSUME Database!ClearPlaintext PROVE Database!PurgedMeansErased'
    BY <1>12, <1>0, ClearEffect DEF Database!ClearPlaintext, Database!At,
      Database!Goto, Database!Write, Database!PurgedMeansErased,
      Database!ActiveFollowsPhase, Database!FilesAgree, Database!Making,
      Database!Waiting, Database!ErasedByPhase, Database!Erasing,
      Database!FileSaysTheSame
  <1>13. ASSUME Database!Purge PROVE Database!PurgedMeansErased'
    BY <1>13, <1>0 DEF Database!Purge, Database!At, Database!Goto,
      Database!PurgedMeansErased, Database!ActiveFollowsPhase,
      Database!FilesAgree, Database!Making, Database!Waiting,
      Database!ErasedByPhase, Database!Erasing, Database!FileSaysTheSame
  <1>14. ASSUME Database!ScrubRetained PROVE Database!PurgedMeansErased'
    BY <1>14, <1>0, ScrubEffect DEF Database!ScrubRetained, Database!At,
      Database!Goto, Database!PurgedMeansErased, Database!ActiveFollowsPhase,
      Database!FilesAgree, Database!Making, Database!Waiting,
      Database!ErasedByPhase, Database!Erasing, Database!FileSaysTheSame
  <1>15. ASSUME Database!MarkPurged PROVE Database!PurgedMeansErased'
    BY <1>15, <1>0, MarkEffect DEF Database!MarkPurged, Database!At,
      Database!Goto, Database!Write, Database!PurgedMeansErased,
      Database!ActiveFollowsPhase, Database!FilesAgree, Database!Making,
      Database!Waiting, Database!ErasedByPhase, Database!Erasing,
      Database!FileSaysTheSame
  <1>16. ASSUME Database!Fail PROVE Database!PurgedMeansErased'
    BY <1>16, <1>0 DEF Database!Fail, Database!At, Database!Reply,
      Database!Migration, Database!PurgedMeansErased,
      Database!ActiveFollowsPhase, Database!FilesAgree, Database!Making,
      Database!Waiting, Database!ErasedByPhase, Database!Erasing,
      Database!FileSaysTheSame
  <1> QED
    BY <1>1, <1>2, <1>3, <1>4, <1>5, <1>6, <1>7, <1>8, <1>9, <1>10, <1>11,
      <1>12, <1>13, <1>14, <1>15, <1>16 DEF Database!Next, Database!Crash,
      Database!Ask, Database!RefuseFresh, Database!RefuseImport,
      Database!SourceIsMissing, Database!Reserve, Database!SaveSecret,
      Database!MigrateAccounts, Database!Manage, Database!Complete,
      Database!At, Database!Goto, Database!Reply

\* A credential is in the Keychain before it leaves a file.
LEMMA DatabaseSecrets ==
  ASSUME Database!Shape, Database!ActiveFollowsPhase, Database!FilesAgree,
    Database!CallIsOfItsSource, Database!SecretsAreKept,
    Database!ErasedByPhase, [Database!Next]_databaseVars
  PROVE  Database!SecretsAreKept'
  <1> USE DEF databaseVars, Database!files, Database!process, Database!bounds
  <1>0. /\ active \in Database!Databases \cup {None}
        /\ onDisk \in Database!Databases \cup {None}
        /\ None \notin Database!Databases
        /\ None \notin Database!Copies
        /\ retained \in Database!Copies \cup {None}
        /\ staged \in Database!Copies \cup {None}
        /\ reservation \in Database!Reservations \cup {None}
        /\ None \notin Database!Reservations
        /\ WithSecret \subseteq External \cup {Own}
        /\ Fresh \notin WithSecret
    BY SomethingIsThere, DatabaseAssumption DEF Database!Shape,
      Database!FileShape, Database!CallShape
  <1>1. CASE UNCHANGED <<active, onDisk, retained, staged, reservation,
    phase, dKeychain>>
    BY <1>1 DEF Database!SecretsAreKept, Database!Kept
  <1>2. ASSUME Database!Start PROVE Database!SecretsAreKept'
    BY <1>2, <1>0 DEF Database!Start, Database!At, Database!SecretsAreKept,
      Database!Kept, Database!ActiveFollowsPhase, Database!FilesAgree,
      Database!Making, Database!Waiting, Database!CallIsOfItsSource,
      Database!Selectable, Database!ErasedByPhase, Database!Erasing
  <1>3. ASSUME Database!DropLog PROVE Database!SecretsAreKept'
    BY <1>3, <1>0 DEF Database!DropLog, Database!At, Database!SecretsAreKept,
      Database!Kept, Database!ActiveFollowsPhase, Database!FilesAgree,
      Database!Making, Database!Waiting, Database!CallIsOfItsSource,
      Database!Selectable, Database!ErasedByPhase, Database!Erasing
  <1>4. ASSUME Database!Exit PROVE Database!SecretsAreKept'
    BY <1>4, <1>0 DEF Database!Exit, Database!At, Database!SecretsAreKept,
      Database!Kept, Database!ActiveFollowsPhase, Database!FilesAgree,
      Database!Making, Database!Waiting, Database!CallIsOfItsSource,
      Database!Selectable, Database!ErasedByPhase, Database!Erasing
  <1>5. ASSUME Database!Crash PROVE Database!SecretsAreKept'
    BY <1>5, <1>0 DEF Database!Crash, Database!At, Database!SecretsAreKept,
      Database!Kept, Database!ActiveFollowsPhase, Database!FilesAgree,
      Database!Making, Database!Waiting, Database!CallIsOfItsSource,
      Database!Selectable, Database!ErasedByPhase, Database!Erasing
  <1>6. ASSUME NEW what \in Database!Selectable \cup {Fresh},
    Database!Ask(what)
         PROVE  Database!SecretsAreKept'
    BY <1>6, <1>0 DEF Database!Ask, Database!At, Database!SecretsAreKept,
      Database!Kept, Database!ActiveFollowsPhase, Database!FilesAgree,
      Database!Making, Database!Waiting, Database!CallIsOfItsSource,
      Database!Selectable, Database!ErasedByPhase, Database!Erasing
  <1>7. ASSUME Database!RefuseFresh PROVE Database!SecretsAreKept'
    BY <1>7, <1>0 DEF Database!RefuseFresh, Database!At, Database!Reply,
      Database!SecretsAreKept, Database!Kept, Database!ActiveFollowsPhase,
      Database!FilesAgree, Database!Making, Database!Waiting,
      Database!CallIsOfItsSource, Database!Selectable,
      Database!ErasedByPhase, Database!Erasing
  <1>8. ASSUME Database!RefuseImport PROVE Database!SecretsAreKept'
    BY <1>8, <1>0 DEF Database!RefuseImport, Database!At, Database!Reply,
      Database!SecretsAreKept, Database!Kept, Database!ActiveFollowsPhase,
      Database!FilesAgree, Database!Making, Database!Waiting,
      Database!CallIsOfItsSource, Database!Selectable,
      Database!ErasedByPhase, Database!Erasing
  <1>9. ASSUME Database!CreateFile PROVE Database!SecretsAreKept'
    BY <1>9, <1>0, CreateEffect DEF Database!CreateFile, Database!At,
      Database!Goto, Database!SecretsAreKept, Database!Kept,
      Database!ActiveFollowsPhase, Database!FilesAgree, Database!Making,
      Database!Waiting, Database!CallIsOfItsSource, Database!Selectable,
      Database!ErasedByPhase, Database!Erasing
  <1>10. ASSUME Database!BeginImport PROVE Database!SecretsAreKept'
    BY <1>10, <1>0 DEF Database!BeginImport, Database!At, Database!Goto,
      Database!Exists, Database!SourceMatches, Database!SecretsAreKept,
      Database!Kept, Database!ActiveFollowsPhase, Database!FilesAgree,
      Database!Making, Database!Waiting, Database!CallIsOfItsSource,
      Database!Selectable, Database!ErasedByPhase, Database!Erasing
  <1>11. ASSUME Database!TakeSnapshot PROVE Database!SecretsAreKept'
    BY <1>11, <1>0, SnapshotEffect DEF Database!TakeSnapshot, Database!At,
      Database!Goto, Database!Snapshot, Database!Exists,
      Database!SecretsAreKept, Database!Kept, Database!ActiveFollowsPhase,
      Database!FilesAgree, Database!Making, Database!Waiting,
      Database!CallIsOfItsSource, Database!Selectable,
      Database!ErasedByPhase, Database!Erasing
  <1>12. ASSUME Database!SourceIsMissing PROVE Database!SecretsAreKept'
    BY <1>12, <1>0 DEF Database!SourceIsMissing, Database!At, Database!Reply,
      Database!SecretsAreKept, Database!Kept, Database!ActiveFollowsPhase,
      Database!FilesAgree, Database!Making, Database!Waiting,
      Database!CallIsOfItsSource, Database!Selectable,
      Database!ErasedByPhase, Database!Erasing
  <1>13. ASSUME Database!Keep PROVE Database!SecretsAreKept'
    BY <1>13, <1>0 DEF Database!Keep, Database!At, Database!Goto,
      Database!SecretsAreKept, Database!Kept, Database!ActiveFollowsPhase,
      Database!FilesAgree, Database!Making, Database!Waiting,
      Database!CallIsOfItsSource, Database!Selectable,
      Database!ErasedByPhase, Database!Erasing
  <1>14. ASSUME Database!Reserve PROVE Database!SecretsAreKept'
    BY <1>14, <1>0, ReserveEffect DEF Database!Reserve, Database!At,
      Database!Goto, Database!SecretsAreKept, Database!Kept,
      Database!ActiveFollowsPhase, Database!FilesAgree, Database!Making,
      Database!Waiting, Database!CallIsOfItsSource, Database!Selectable,
      Database!ErasedByPhase, Database!Erasing
  <1>15. ASSUME Database!CopyRetained PROVE Database!SecretsAreKept'
    BY <1>15, <1>0 DEF Database!CopyRetained, Database!At, Database!Goto,
      Database!SecretsAreKept, Database!Kept, Database!ActiveFollowsPhase,
      Database!FilesAgree, Database!Making, Database!Waiting,
      Database!CallIsOfItsSource, Database!Selectable,
      Database!ErasedByPhase, Database!Erasing
  <1>16. ASSUME Database!Activate PROVE Database!SecretsAreKept'
    BY <1>16, <1>0, ActivateEffect DEF Database!Activate, Database!At,
      Database!Goto, Database!SecretsAreKept, Database!Kept,
      Database!ActiveFollowsPhase, Database!FilesAgree, Database!Making,
      Database!Waiting, Database!CallIsOfItsSource, Database!Selectable,
      Database!ErasedByPhase, Database!Erasing
  <1>17. ASSUME Database!Open PROVE Database!SecretsAreKept'
    BY <1>17, <1>0, OpenEffect DEF Database!Open, Database!At, Database!Goto,
      Database!Reply, Database!Write, Database!Migrate,
      Database!SecretsAreKept, Database!Kept, Database!ActiveFollowsPhase,
      Database!FilesAgree, Database!Making, Database!Waiting,
      Database!CallIsOfItsSource, Database!Selectable,
      Database!ErasedByPhase, Database!Erasing
  <1>18. ASSUME Database!SaveSecret PROVE Database!SecretsAreKept'
    <2>1. active \in Database!Databases
      BY <1>18, OpenedIsActive DEF Database!SaveSecret, Database!At,
        Database!Making, Database!Waiting
    <2>2. active.of # None
      BY <2>1, DatabaseAssumption DEF Database!Databases, Database!Origins
    <2> QED
      BY <1>18, <2>2 DEF Database!SaveSecret, Database!At, Database!Goto,
        Database!SecretsAreKept, Database!Kept
  <1>19. ASSUME Database!ClearPlaintext PROVE Database!SecretsAreKept'
    BY <1>19, <1>0, ClearEffect DEF Database!ClearPlaintext, Database!At,
      Database!Goto, Database!Write, Database!SecretsAreKept, Database!Kept,
      Database!ActiveFollowsPhase, Database!FilesAgree, Database!Making,
      Database!Waiting, Database!CallIsOfItsSource, Database!Selectable,
      Database!ErasedByPhase, Database!Erasing
  <1>20. ASSUME Database!Purge PROVE Database!SecretsAreKept'
    BY <1>20, <1>0 DEF Database!Purge, Database!At, Database!Goto,
      Database!SecretsAreKept, Database!Kept, Database!ActiveFollowsPhase,
      Database!FilesAgree, Database!Making, Database!Waiting,
      Database!CallIsOfItsSource, Database!Selectable,
      Database!ErasedByPhase, Database!Erasing
  <1>21. ASSUME Database!ScrubRetained PROVE Database!SecretsAreKept'
    BY <1>21, <1>0, ScrubEffect, OpenedIsActive DEF Database!ScrubRetained,
      Database!At, Database!Goto, Database!SecretsAreKept, Database!Kept,
      Database!ActiveFollowsPhase, Database!FilesAgree, Database!Making,
      Database!Waiting, Database!CallIsOfItsSource, Database!Selectable,
      Database!ErasedByPhase, Database!Erasing
  <1>22. ASSUME Database!MarkPurged PROVE Database!SecretsAreKept'
    BY <1>22, <1>0, MarkEffect DEF Database!MarkPurged, Database!At,
      Database!Goto, Database!Write, Database!SecretsAreKept, Database!Kept,
      Database!ActiveFollowsPhase, Database!FilesAgree, Database!Making,
      Database!Waiting, Database!CallIsOfItsSource, Database!Selectable,
      Database!ErasedByPhase, Database!Erasing
  <1>23. ASSUME Database!MigrateAccounts PROVE Database!SecretsAreKept'
    BY <1>23, <1>0 DEF Database!MigrateAccounts, Database!At, Database!Goto,
      Database!SecretsAreKept, Database!Kept, Database!ActiveFollowsPhase,
      Database!FilesAgree, Database!Making, Database!Waiting,
      Database!CallIsOfItsSource, Database!Selectable,
      Database!ErasedByPhase, Database!Erasing
  <1>24. ASSUME Database!Manage PROVE Database!SecretsAreKept'
    BY <1>24, <1>0 DEF Database!Manage, Database!At, Database!Reply,
      Database!SecretsAreKept, Database!Kept, Database!ActiveFollowsPhase,
      Database!FilesAgree, Database!Making, Database!Waiting,
      Database!CallIsOfItsSource, Database!Selectable,
      Database!ErasedByPhase, Database!Erasing
  <1>25. ASSUME Database!Complete PROVE Database!SecretsAreKept'
    BY <1>25, <1>0 DEF Database!Complete, Database!At, Database!Reply,
      Database!SecretsAreKept, Database!Kept, Database!ActiveFollowsPhase,
      Database!FilesAgree, Database!Making, Database!Waiting,
      Database!CallIsOfItsSource, Database!Selectable,
      Database!ErasedByPhase, Database!Erasing
  <1>26. ASSUME Database!Fail PROVE Database!SecretsAreKept'
    BY <1>26, <1>0 DEF Database!Fail, Database!At, Database!Reply,
      Database!Migration, Database!SecretsAreKept, Database!Kept,
      Database!ActiveFollowsPhase, Database!FilesAgree, Database!Making,
      Database!Waiting, Database!CallIsOfItsSource, Database!Selectable,
      Database!ErasedByPhase, Database!Erasing
  <1> QED
    BY <1>1, <1>2, <1>3, <1>4, <1>5, <1>6, <1>7, <1>8, <1>9, <1>10, <1>11,
      <1>12, <1>13, <1>14, <1>15, <1>16, <1>17, <1>18, <1>19, <1>20, <1>21,
      <1>22, <1>23, <1>24, <1>25, <1>26 DEF Database!Next

\* An answer is of the database that the call has opened.
LEMMA DatabaseAnswered ==
  ASSUME Database!Shape, Database!ActiveFollowsPhase, Database!FilesAgree,
    Database!CallIsOfItsSource, Database!ReservationIsKept,
    Database!AnsweredFromItsSource, [Database!Next]_databaseVars
  PROVE  Database!AnsweredFromItsSource'
  <1> USE DEF databaseVars, Database!files, Database!process, Database!bounds
  <1>0. /\ active \in Database!Databases \cup {None}
        /\ onDisk \in Database!Databases \cup {None}
        /\ None \notin Database!Databases
        /\ call \in Database!Calls \cup {None}
        /\ None \notin Database!Calls
        /\ answer \in Database!Answers \cup {None}
        /\ None \notin External \cup {Managed, Fresh, Startup}
        /\ Fresh \notin External \cup {Managed}
        /\ Startup \notin External \cup {Managed, Fresh}
    BY SomethingIsThere, DatabaseAssumption DEF Database!Shape,
      Database!FileShape, Database!CallShape
  <1>1. CASE UNCHANGED <<active, answer>>
    BY <1>1 DEF Database!AnsweredFromItsSource
  <1>2. ASSUME Database!Start PROVE Database!AnsweredFromItsSource'
    BY <1>2, <1>0 DEF Database!Start, Database!At,
      Database!AnsweredFromItsSource, Database!ActiveFollowsPhase,
      Database!FilesAgree, Database!Making, Database!Waiting,
      Database!CallIsOfItsSource, Database!ReservationIsKept,
      Database!Selectable
  <1>3. ASSUME Database!DropLog PROVE Database!AnsweredFromItsSource'
    BY <1>3, <1>0 DEF Database!DropLog, Database!At,
      Database!AnsweredFromItsSource, Database!ActiveFollowsPhase,
      Database!FilesAgree, Database!Making, Database!Waiting,
      Database!CallIsOfItsSource, Database!ReservationIsKept,
      Database!Selectable
  <1>4. ASSUME Database!Exit PROVE Database!AnsweredFromItsSource'
    BY <1>4, <1>0 DEF Database!Exit, Database!At,
      Database!AnsweredFromItsSource, Database!ActiveFollowsPhase,
      Database!FilesAgree, Database!Making, Database!Waiting,
      Database!CallIsOfItsSource, Database!ReservationIsKept,
      Database!Selectable
  <1>5. ASSUME Database!Crash PROVE Database!AnsweredFromItsSource'
    BY <1>5, <1>0 DEF Database!Crash, Database!At,
      Database!AnsweredFromItsSource, Database!ActiveFollowsPhase,
      Database!FilesAgree, Database!Making, Database!Waiting,
      Database!CallIsOfItsSource, Database!ReservationIsKept,
      Database!Selectable
  <1>6. ASSUME Database!RefuseFresh PROVE Database!AnsweredFromItsSource'
    BY <1>6, <1>0 DEF Database!RefuseFresh, Database!At, Database!Reply,
      Database!AnsweredFromItsSource, Database!ActiveFollowsPhase,
      Database!FilesAgree, Database!Making, Database!Waiting,
      Database!CallIsOfItsSource, Database!ReservationIsKept,
      Database!Selectable
  <1>7. ASSUME Database!RefuseImport PROVE Database!AnsweredFromItsSource'
    BY <1>7, <1>0 DEF Database!RefuseImport, Database!At, Database!Reply,
      Database!AnsweredFromItsSource, Database!ActiveFollowsPhase,
      Database!FilesAgree, Database!Making, Database!Waiting,
      Database!CallIsOfItsSource, Database!ReservationIsKept,
      Database!Selectable
  <1>8. ASSUME Database!SourceIsMissing PROVE Database!AnsweredFromItsSource'
    BY <1>8, <1>0 DEF Database!SourceIsMissing, Database!At, Database!Reply,
      Database!AnsweredFromItsSource, Database!ActiveFollowsPhase,
      Database!FilesAgree, Database!Making, Database!Waiting,
      Database!CallIsOfItsSource, Database!ReservationIsKept,
      Database!Selectable
  <1>9. ASSUME Database!CreateFile PROVE Database!AnsweredFromItsSource'
    BY <1>9, <1>0, CreateEffect DEF Database!CreateFile, Database!At,
      Database!Goto, Database!AnsweredFromItsSource,
      Database!ActiveFollowsPhase, Database!FilesAgree, Database!Making,
      Database!Waiting, Database!CallIsOfItsSource,
      Database!ReservationIsKept, Database!Selectable
  <1>10. ASSUME Database!Activate PROVE Database!AnsweredFromItsSource'
    BY <1>10, <1>0, ActivateEffect DEF Database!Activate, Database!At,
      Database!Goto, Database!AnsweredFromItsSource,
      Database!ActiveFollowsPhase, Database!FilesAgree, Database!Making,
      Database!Waiting, Database!CallIsOfItsSource,
      Database!ReservationIsKept, Database!Selectable
  <1>11. ASSUME Database!Open PROVE Database!AnsweredFromItsSource'
    BY <1>11, <1>0, OpenEffect DEF Database!Open, Database!At, Database!Goto,
      Database!Reply, Database!Write, Database!Migrate,
      Database!AnsweredFromItsSource, Database!ActiveFollowsPhase,
      Database!FilesAgree, Database!Making, Database!Waiting,
      Database!CallIsOfItsSource, Database!ReservationIsKept,
      Database!Selectable
  <1>12. ASSUME Database!ClearPlaintext PROVE Database!AnsweredFromItsSource'
    BY <1>12, <1>0, ClearEffect DEF Database!ClearPlaintext, Database!At,
      Database!Goto, Database!Write, Database!AnsweredFromItsSource,
      Database!ActiveFollowsPhase, Database!FilesAgree, Database!Making,
      Database!Waiting, Database!CallIsOfItsSource,
      Database!ReservationIsKept, Database!Selectable
  <1>13. ASSUME Database!MarkPurged PROVE Database!AnsweredFromItsSource'
    BY <1>13, <1>0, MarkEffect DEF Database!MarkPurged, Database!At,
      Database!Goto, Database!Write, Database!AnsweredFromItsSource,
      Database!ActiveFollowsPhase, Database!FilesAgree, Database!Making,
      Database!Waiting, Database!CallIsOfItsSource,
      Database!ReservationIsKept, Database!Selectable
  <1>14. ASSUME Database!Manage PROVE Database!AnsweredFromItsSource'
    BY <1>14, <1>0 DEF Database!Manage, Database!At, Database!Reply,
      Database!AnsweredFromItsSource, Database!ActiveFollowsPhase,
      Database!FilesAgree, Database!Making, Database!Waiting,
      Database!CallIsOfItsSource, Database!ReservationIsKept,
      Database!Selectable
  <1>15. ASSUME Database!Complete PROVE Database!AnsweredFromItsSource'
    BY <1>15, <1>0 DEF Database!Complete, Database!At, Database!Reply,
      Database!AnsweredFromItsSource, Database!ActiveFollowsPhase,
      Database!FilesAgree, Database!Making, Database!Waiting,
      Database!CallIsOfItsSource, Database!ReservationIsKept,
      Database!Selectable
  <1>16. ASSUME Database!Fail PROVE Database!AnsweredFromItsSource'
    BY <1>16, <1>0 DEF Database!Fail, Database!At, Database!Reply,
      Database!Migration, Database!AnsweredFromItsSource,
      Database!ActiveFollowsPhase, Database!FilesAgree, Database!Making,
      Database!Waiting, Database!CallIsOfItsSource,
      Database!ReservationIsKept, Database!Selectable
  <1> QED
    BY <1>1, <1>2, <1>3, <1>4, <1>5, <1>6, <1>7, <1>8, <1>9, <1>10, <1>11,
      <1>12, <1>13, <1>14, <1>15, <1>16 DEF Database!Next, Database!Ask,
      Database!BeginImport, Database!TakeSnapshot, Database!Keep,
      Database!Reserve, Database!CopyRetained, Database!SaveSecret,
      Database!Purge, Database!ScrubRetained, Database!MigrateAccounts,
      Database!At, Database!Goto, Database!Snapshot, Database!Exists,
      Database!SourceMatches

\* It holds of the first state.
LEMMA DatabaseBegins == Database!Init => Database!IInv
  <1> SUFFICES ASSUME Database!Init PROVE Database!IInv
    OBVIOUS
  <1> USE DEF Database!Init
  <1>0. \/ retained = None
        \/ /\ retained \in Database!Copies
           /\ retained.plain = (retained.of \in WithSecret)
    <2>1. CASE retained = None
      BY <2>1
    <2>2. CASE retained = [of |-> Own, plain |-> Own \in WithSecret]
      <3>1. (Own \in WithSecret) \in BOOLEAN
        OBVIOUS
      <3> QED
        BY <2>2, <3>1 DEF Database!Copies, Database!Origins
    <2> QED
      BY <2>1, <2>2
  <1>1. Database!Shape
    BY <1>0 DEF Database!Shape, Database!FileShape, Database!CallShape,
      Database!Phases
  <1>2. /\ Database!ActiveFollowsPhase /\ Database!FilesAgree
        /\ Database!ReservationIsKept /\ Database!CallIsOfItsSource
    BY DEF Database!ActiveFollowsPhase, Database!FilesAgree,
      Database!ReservationIsKept, Database!CallIsOfItsSource,
      Database!Making, Database!Waiting
  <1>3. /\ Database!ErasedByPhase /\ Database!FileSaysTheSame
        /\ Database!AnsweredFromItsSource /\ Database!PurgedMeansErased
    BY DEF Database!ErasedByPhase, Database!Erasing,
      Database!FileSaysTheSame, Database!AnsweredFromItsSource,
      Database!PurgedMeansErased
  <1>4. Database!SecretsAreKept
    BY <1>0 DEF Database!SecretsAreKept, Database!Kept
  <1> QED
    BY <1>1, <1>2, <1>3, <1>4 DEF Database!IInv

\* The step of a call, whatever it is.
LEMMA DatabaseStep ==
  Database!IInv /\ [Database!Next]_databaseVars => Database!IInv'
  BY DatabaseFiles, DatabaseCalls, DatabasePhases, DatabaseFilesAgree,
    DatabaseReservation, DatabaseSource, DatabaseErased, DatabaseSays,
    DatabasePurged, DatabaseSecrets, DatabaseAnswered
  DEF Database!IInv, Database!Shape

\* A call that opens or imports a database answers from the one it was asked
\* for; a credential leaves the last file that has it in plaintext only when the
\* Keychain has it, and no file has one when the purge says that it is over,
\* wherever the process ended (migrate_legacy_credentials, scrub_retained).
THEOREM ImportKeeps == LibrarySpec => []ImportKeepsSecretsAndData
  <1> DEFINE Inv == component = "database" => Database!IInv
  <1>1. LibraryInit => Inv
    BY DatabaseBegins DEF LibraryInit, CredentialsInit, DatabaseInit,
      ReviewInit, PagesInit, HandoffInit, SetupInit, LanguagesInit
  <1>2. Inv /\ [LibraryNext]_everything => Inv'
    <2> SUFFICES ASSUME Inv, [LibraryNext]_everything,
                        component' = "database"
                 PROVE  Database!IInv'
      OBVIOUS
    <2>1. [Database!Next]_databaseVars /\ component = "database"
      BY DEF LibraryNext, everything, CredentialsNext, DatabaseNext,
        ReviewNext, PagesNext, HandoffNext, SetupNext, LanguagesNext
    <2> QED
      BY <2>1, DatabaseStep
  <1>3. Inv => ImportKeepsSecretsAndData
    BY DEF ImportKeepsSecretsAndData, Database!IInv, Database!SecretsAreKept,
      Database!Kept, Database!ErasedMeansKept
  <1> QED
    BY <1>1, <1>2, <1>3, PTL DEF LibrarySpec

-----------------------------------------------------------------------------
(* The editor of the record.  A record is a sheet of cells; the edits of   *)
(* a page lead from sheet to sheet.                                        *)

\* The values that cells can have.
ReviewValues == Names \cup Texts \cup People

\* The records that can be shown.
Sheets == [Review!Cells -> ReviewValues \cup {Absent}]

\* The edits of a cell that is there.
Corrections ==
  [cell : Review!Cells, before : ReviewValues, after : ReviewValues]

Answered == {"none", "saved", "conflict", "invalid", "storage"}

\* An edit leads from one sheet to the next.
Leads(s, e, t) ==
  s[e.cell] = e.before /\ t = [s EXCEPT ![e.cell] = e.after]

\* There are finitely many cells.
LEMMA CellsAreFinite == IsFiniteSet(Review!Cells)
  <1>1. IsFiniteSet({"name"}) /\ IsFiniteSet({"text", "who"})
    <2>1. IsFiniteSet({"name"}) /\ IsFiniteSet({"text"})
          /\ IsFiniteSet({"who"})
      BY FS_Singleton
    <2>2. IsFiniteSet({"text"} \cup {"who"})
      BY <2>1, FS_Union
    <2>3. {"text"} \cup {"who"} = {"text", "who"}
      OBVIOUS
    <2> QED
      BY <2>1, <2>2, <2>3
  <1>2. IsFiniteSet({"name"} \X People)
        /\ IsFiniteSet({"text", "who"} \X Review!Passages)
    BY <1>1, FS_Product, ReviewAssumption
  <1> QED
    BY <1>2, FS_Union
      DEF Review!Cells, Review!NameCells, Review!PassageCells

\* A cell is one of a name, of a text or of a participant.
LEMMA CellKinds ==
  /\ \A c \in Review!Cells : Review!Values(c) \subseteq ReviewValues
  /\ \A c \in Review!NameCells : c \in Review!Cells
  <1>1. \A c \in Review!Cells : c[1] \in {"name", "text", "who"}
    BY DEF Review!Cells, Review!NameCells, Review!PassageCells
  <1>2. \A c \in Review!Cells : Review!Values(c) \subseteq ReviewValues
    BY <1>1 DEF Review!Values, ReviewValues
  <1> QED
    BY <1>2 DEF Review!Cells

\* A finite set has a listing of its members, each once.
LEMMA Listing ==
  ASSUME NEW S, IsFiniteSet(S)
  PROVE  /\ Cardinality(S) \in Nat
         /\ Review!SetToSeq(S) \in [1..Cardinality(S) -> S]
         /\ \A x, y \in 1..Cardinality(S) :
              Review!SetToSeq(S)[x] = Review!SetToSeq(S)[y] => x = y
         /\ \A c \in S : \E x \in 1..Cardinality(S) :
              Review!SetToSeq(S)[x] = c
  <1>1. Cardinality(S) \in Nat
    BY FS_CardinalityType
  <1>2. PICK f : f \in Bijection(1..Cardinality(S), S)
    BY FS_CardinalityType DEF ExistsBijection
  <1>3. /\ f \in [1..Cardinality(S) -> S]
        /\ \A x, y \in 1..Cardinality(S) : f[x] = f[y] => x = y
    BY <1>2, Fun_BijectionProperties
  <1>4. Review!Cardinality(S) = Cardinality(S)
    BY DEF Review!Cardinality, Cardinality
  <1> DEFINE g == Review!SetToSeq(S)
  <1>5. /\ g \in [1..Cardinality(S) -> S]
        /\ \A x, y \in 1..Cardinality(S) : g[x] = g[y] => x = y
    <2>1. \E h \in [1..Cardinality(S) -> S] : Review!IsInjective(h)
      BY <1>3 DEF Review!IsInjective
    <2>2. g \in [1..Cardinality(S) -> S] /\ Review!IsInjective(g)
      BY <2>1, <1>4 DEF Review!SetToSeq
    <2> QED
      BY <2>2 DEF Review!IsInjective
  <1> HIDE DEF g
  <1>6. g \in Injection(1..Cardinality(S), S)
    BY <1>5 DEF Injection, IsInjective
  <1>7. Cardinality(1..Cardinality(S)) = Cardinality(S)
    BY <1>1, FS_Interval
  <1>8. g \in Surjection(1..Cardinality(S), S)
    BY <1>6, <1>7, FS_Injection
  <1>9. \A c \in S : \E x \in 1..Cardinality(S) : g[x] = c
    BY <1>8 DEF Surjection
  <1> QED
    BY <1>1, <1>5, <1>9 DEF g

\* A set that has 0, and with a number the next, has all natural numbers.
LEMMA Counting ==
  ASSUME NEW S, 0 \in S, \A n \in Nat : n \in S => n + 1 \in S
  PROVE  Nat \subseteq S
  <1> DEFINE T == Nat \ S
  <1>1. SUFFICES ASSUME T # {} PROVE FALSE
    OBVIOUS
  <1>2. \A y, x \in Nat : <<y, x>> \in OpToRel(<, Nat) <=> y < x
    BY DEF OpToRel
  <1>3. \E R : /\ IsWellFoundedOn(R, Nat)
               /\ \A y, x \in Nat : <<y, x>> \in R <=> y < x
    BY <1>2, NatLessThanWellFounded, Zenon
  <1>4. PICK R : /\ IsWellFoundedOn(R, Nat)
                 /\ \A y, x \in Nat : <<y, x>> \in R <=> y < x
    BY <1>3, Zenon
  <1>5. \E x \in T : \A y \in T : ~(<<y, x>> \in R)
    <2>1. T \subseteq Nat /\ T # {}
      BY <1>1
    <2>2. IsWellFoundedOn(R, Nat)
      BY <1>4
    <2> HIDE DEF T
    <2> QED
      BY <2>1, <2>2, WFMin
  <1>6. PICK x \in T : \A y \in T : ~(<<y, x>> \in R)
    BY <1>5, Zenon
  <1>7. \A y \in T : ~(y < x)
    BY <1>4, <1>6, Zenon
  <1>8. x \in Nat /\ x # 0
    BY <1>6
  <1>9. x - 1 \in Nat /\ x - 1 < x /\ x = (x - 1) + 1
    BY <1>8
  <1>10. x - 1 \in S
    BY <1>7, <1>9
  <1>11. x \in S
    BY <1>9, <1>10
  <1> QED
    BY <1>6, <1>11

\* What is between two sheets is edits that lead from what the first has to
\* what the second has, one of a cell; nothing, if nothing has changed.
LEMMA BetweenIsListed ==
  ASSUME NEW s \in Sheets, NEW t \in Sheets
  PROVE  \E n \in Nat : \E cells \in [1..n -> Review!Live(Review!Patch(s, t))] :
           /\ \A x, y \in 1..n : cells[x] = cells[y] => x = y
           /\ \A c \in Review!Live(Review!Patch(s, t)) :
                \E x \in 1..n : cells[x] = c
           /\ Review!CommandsBetween(s, t) =
                [x \in 1..n |-> [cell |-> cells[x], before |-> s[cells[x]],
                                 after |-> t[cells[x]]]]
  <1> DEFINE changed == Review!Live(Review!Patch(s, t))
  <1>1. IsFiniteSet(changed)
    BY CellsAreFinite, FS_Subset DEF Review!Live
  <1> DEFINE n == Cardinality(changed)
             cells == Review!SetToSeq(changed)
  <1>2. /\ n \in Nat /\ cells \in [1..n -> changed]
        /\ \A x, y \in 1..n : cells[x] = cells[y] => x = y
        /\ \A c \in changed : \E x \in 1..n : cells[x] = c
    <2> HIDE DEF changed
    <2> QED
      BY <1>1, Listing
  <1>3. Review!CommandsBetween(s, t) =
          [x \in 1..n |-> [cell |-> cells[x], before |-> s[cells[x]],
                           after |-> t[cells[x]]]]
    <2>1. DOMAIN cells = 1..n
      BY <1>2
    <2>2. Review!CommandsBetween(s, t) =
            [x \in DOMAIN cells |->
               [cell |-> cells[x], before |-> s[cells[x]],
                after |-> t[cells[x]]]]
      BY DEF Review!CommandsBetween
    <2> HIDE DEF cells, n
    <2> QED
      BY <2>1, <2>2
  <1> HIDE DEF cells, n, changed
  <1>4. \E m \in Nat : \E listed \in [1..m -> changed] :
           /\ \A x, y \in 1..m : listed[x] = listed[y] => x = y
           /\ \A c \in changed : \E x \in 1..m : listed[x] = c
           /\ Review!CommandsBetween(s, t) =
                [x \in 1..m |-> [cell |-> listed[x], before |-> s[listed[x]],
                                 after |-> t[listed[x]]]]
    BY <1>2, <1>3
  <1> QED
    BY <1>4 DEF changed

\* An edit that leads from one sheet to another leads back, undone.
LEMMA LeadsBack ==
  ASSUME NEW s \in Sheets, NEW e \in Corrections, NEW t, Leads(s, e, t)
  PROVE  /\ t \in Sheets
         /\ Review!ApplyEdit(t, e, "before") = s
         /\ Review!ApplyEdit(s, e, "after") = t
         /\ Review!Live(t) = Review!Live(s)
  <1>1. /\ e.cell \in Review!Cells
        /\ e.before \in ReviewValues /\ e.after \in ReviewValues
        /\ e["before"] = e.before /\ e["after"] = e.after
    BY DEF Corrections
  <1>2. e.before # Absent /\ e.after # Absent
    BY <1>1, ReviewAssumption DEF ReviewValues
  <1>3. Review!ApplyEdit(s, e, "after") = t
    BY <1>1 DEF Leads, Review!ApplyEdit
  <1>4. Review!ApplyEdit(t, e, "before") = s
    BY <1>1 DEF Leads, Review!ApplyEdit, Sheets
  <1>5. t \in Sheets
    BY <1>1 DEF Leads, Sheets
  <1>6. \A c \in Review!Cells : t[c] = Absent <=> s[c] = Absent
    BY <1>1, <1>2 DEF Leads, Sheets
  <1> QED
    BY <1>3, <1>4, <1>5, <1>6 DEF Review!Live

\* Undoing the edits that led through sheets to the last leads to the first.
LEMMA UndoneIsFirst ==
  ASSUME NEW edits \in Seq(Corrections), NEW sheets,
         \A k \in 0..Len(edits) : sheets[k] \in Sheets,
         \A k \in 1..Len(edits) : Leads(sheets[k - 1], edits[k], sheets[k])
  PROVE  Review!Undone(sheets[Len(edits)], edits) = sheets[0]
  <1> DEFINE L == Len(edits)
             Goes(g, n) ==
               IF n = 0 THEN sheets[L]
               ELSE Review!ApplyEdit(g[n - 1], edits[L - n + 1], "before")
             back == CHOOSE g : g = [n \in 0..L |-> Goes(g, n)]
  <1>1. L \in Nat
    OBVIOUS
  <1>2. \A n \in 1..L :
          sheets[L - n] = Review!ApplyEdit(sheets[L - (n - 1)],
                                           edits[L - n + 1], "before")
    <2> SUFFICES ASSUME NEW n \in 1..L
                 PROVE  sheets[L - n] =
                          Review!ApplyEdit(sheets[L - (n - 1)],
                                           edits[L - n + 1], "before")
      OBVIOUS
    <2>1. /\ L - n + 1 \in 1..Len(edits) /\ L - n \in 0..Len(edits)
          /\ (L - n + 1) - 1 = L - n /\ L - (n - 1) = L - n + 1
      BY <1>1
    <2>2. /\ sheets[L - n] \in Sheets /\ edits[L - n + 1] \in Corrections
          /\ Leads(sheets[(L - n + 1) - 1], edits[L - n + 1],
                   sheets[L - n + 1])
      BY <2>1
    <2> HIDE DEF L
    <2>3. sheets[L - n] =
            Review!ApplyEdit(sheets[L - n + 1], edits[L - n + 1], "before")
      BY <2>1, <2>2, LeadsBack
    <2> QED
      BY <2>1, <2>3
  <1>3. \E g : g = [n \in 0..L |-> Goes(g, n)]
    <2> DEFINE g == [n \in 0..L |-> sheets[L - n]]
    <2>1. \A n \in 0..L : g[n] = Goes(g, n)
      <3> SUFFICES ASSUME NEW n \in 0..L PROVE g[n] = Goes(g, n)
        OBVIOUS
      <3>1. CASE n = 0
        BY <3>1, <1>1
      <3>2. CASE n # 0
        <4>1. n \in 1..L /\ n - 1 \in 0..L
          BY <3>2, <1>1
        <4>2. g[n - 1] = sheets[L - (n - 1)] /\ g[n] = sheets[L - n]
          BY <4>1
        <4>3. Goes(g, n) =
                Review!ApplyEdit(g[n - 1], edits[L - n + 1], "before")
          BY <3>2
        <4> HIDE DEF g, Goes
        <4> QED
          BY <1>2, <4>1, <4>2, <4>3
      <3> QED
        BY <3>1, <3>2
    <2>2. g = [n \in 0..L |-> sheets[L - n]]
      OBVIOUS
    <2>3. \A n \in 0..L : g[n] = sheets[L - n]
      OBVIOUS
    <2> HIDE DEF g, Goes
    <2>4. [n \in 0..L |-> sheets[L - n]] = [n \in 0..L |-> Goes(g, n)]
      BY <2>1, <2>3
    <2>5. g = [n \in 0..L |-> Goes(g, n)]
      BY <2>2, <2>4
    <2> QED
      BY <2>5
  <1>4. back = [n \in 0..L |-> Goes(back, n)]
    <2> HIDE DEF Goes
    <2> QED
      BY <1>3
  <1>5. Review!Undone(sheets[L], edits) = back[L]
    BY DEF Review!Undone
  <1> HIDE DEF back
  <1>6. \A n \in 0..L : back[n] = Goes(back, n)
    <2> HIDE DEF Goes
    <2> QED
      BY <1>4
  <1> DEFINE S == {n \in Nat : n <= L => back[n] = sheets[L - n]}
  <1>7. 0 \in S
    BY <1>1, <1>6
  <1>8. \A n \in Nat : n \in S => n + 1 \in S
    <2> SUFFICES ASSUME NEW n \in Nat, n \in S
                 PROVE  n + 1 \in S
      OBVIOUS
    <2>3. n + 1 \in Nat
      OBVIOUS
    <2> SUFFICES ASSUME n + 1 <= L
                 PROVE  back[n + 1] = sheets[L - (n + 1)]
      BY <2>3, Zenon
    <2>4. n <= L => back[n] = sheets[L - n]
      BY Zenon
    <2>1. /\ n + 1 \in 1..L /\ n + 1 \in 0..L /\ n + 1 # 0 /\ n <= L
          /\ (n + 1) - 1 = n
      BY <1>1
    <2>2. back[n + 1] =
            Review!ApplyEdit(back[(n + 1) - 1], edits[L - (n + 1) + 1],
                             "before")
      BY <1>6, <2>1
    <2> HIDE DEF L, Goes, S
    <2> QED
      BY <1>2, <2>4, <2>1, <2>2
  <1>9. L \in S
    <2> HIDE DEF S
    <2> QED
      BY <1>1, <1>7, <1>8, Counting
  <1> QED
    BY <1>1, <1>5, <1>9

\* What the requests of a save and a read hold.
SaveRequests ==
  [expected : Nat, changes : Sheets, snapshot : Sheets, answer : Answered]

RecordReads ==
  [step : {"version", "participants", "transcripts"}, version : Nat,
   names : Sheets]

ReviewShape ==
  /\ revision \in Nat /\ version \in Nat
  /\ rGeneration \in 0..MaxLoads["review"]
  /\ record \in Sheets /\ pages \in Sheets
  /\ baseline \in Sheets /\ present \in Sheets
  /\ past \in Seq(Corrections) /\ future \in Seq(Corrections)
  /\ reading # Absent => reading \in RecordReads
  /\ requests \in [0..MaxLoads["review"] -> SaveRequests \cup {Absent}]

\* A read belongs to a page that shows nothing yet; if no version came after
\* the one it read first, the names it has read are those there are.
ReadInv ==
  reading # Absent =>
    /\ ~shown
    /\ reading.step # "version" => reading.version <= revision
    /\ reading.step = "transcripts" /\ exists /\ reading.version = revision =>
         \A c \in Review!NameCells : reading.names[c] = record[c]

\* A save is of this page, which shows the version it expects, or of an
\* earlier one; one that was accepted has made a version.
AskedInv ==
  /\ version <= revision
  /\ \A g \in 0..MaxLoads["review"] : requests[g] # Absent =>
       /\ g <= rGeneration
       /\ requests[g].answer = "saved" => requests[g].expected < revision
       /\ g = rGeneration =>
            /\ shown /\ requests[g].expected = version
            /\ Review!Live(requests[g].snapshot) \subseteq Review!Live(present)

\* A page without a record has no edits; one with a record shows all that
\* the paginated transcript has and all that it takes for the record.
ShownInv ==
  /\ ~shown => past = <<>> /\ future = <<>>
  /\ shown => /\ Review!Live(pages) \subseteq Review!Live(present)
              /\ Review!Live(baseline) \subseteq Review!Live(present)

UpToDate == shown /\ exists /\ version = revision

\* While no version comes after that of the page, it knows every cell there
\* is, its baseline says of each what the record says, a change is marked,
\* and a save asks for what makes the record that of its snapshot.
UpToDateInv ==
  UpToDate =>
    /\ \A c \in Review!Live(baseline) : record[c] \in {baseline[c], Absent}
    /\ Review!Live(record) \subseteq Review!Live(present)
    /\ Review!Live(baseline) = Review!Live(present)
    /\ Review!Differ(baseline, present) => dirty
    /\ requests[rGeneration] # Absent =>
         LET r == requests[rGeneration]
         IN  /\ r.changes = Review!Patch(baseline, r.snapshot)
             /\ Review!Live(r.snapshot) = Review!Live(baseline)

Committed ==
  /\ shown /\ exists /\ requests[rGeneration] # Absent
  /\ requests[rGeneration].answer = "saved"
  /\ requests[rGeneration].expected + 1 = revision

\* While no version comes after one that a save of the page has made, the
\* record is that of the snapshot of the save.
CommittedInv ==
  Committed =>
    LET sheet == requests[rGeneration].snapshot
    IN  /\ \A c \in Review!Live(sheet) : record[c] \in {sheet[c], Absent}
        /\ Review!Live(record) \subseteq Review!Live(sheet)
        /\ Review!Live(present) = Review!Live(sheet)

\* The sheets through which the edits have led: from one that has what the
\* baseline has, to the present one, and on to those that can be redone.
Traced(sheets) ==
  /\ \A k \in 0..Len(past) + Len(future) :
       sheets[k] \in Sheets /\ Review!Live(sheets[k]) = Review!Live(present)
  /\ sheets[Len(past)] = present
  /\ \A c \in Review!Live(baseline) : sheets[0][c] = baseline[c]
  /\ \A k \in 1..Len(past) : Leads(sheets[k - 1], past[k], sheets[k])
  /\ \A k \in 1..Len(future) :
       Leads(sheets[Len(past) + k - 1], future[k], sheets[Len(past) + k])

TraceInv == shown => \E sheets : Traced(sheets)

ReviewInv ==
  /\ ReviewShape /\ ReadInv /\ AskedInv /\ ShownInv
  /\ UpToDateInv /\ CommittedInv /\ TraceInv

\* What the record says of a cell that is not there.
LEMMA NothingIsSheet == Review!Nothing \in Sheets
  BY DEF Review!Nothing, Sheets

\* A sheet with the cells of another is a sheet.
LEMMA MergedIsSheet ==
  ASSUME NEW s \in Sheets, NEW t \in Sheets
  PROVE  /\ Review!Merged(s, t) \in Sheets
         /\ Review!Live(Review!Merged(s, t)) =
              Review!Live(s) \cup Review!Live(t)
         /\ \A c \in Review!Live(s) : Review!Merged(s, t)[c] = s[c]
         /\ Review!Live(t) \subseteq Review!Live(s) => Review!Merged(s, t) = s
  <1>1. /\ Review!Merged(s, t) \in Sheets
        /\ \A c \in Review!Cells :
             Review!Merged(s, t)[c] = IF s[c] = Absent THEN t[c] ELSE s[c]
    BY DEF Review!Merged, Sheets
  <1>2. Review!Live(t) \subseteq Review!Live(s) =>
          \A c \in Review!Cells : Review!Merged(s, t)[c] = s[c]
    BY <1>1 DEF Review!Live
  <1>3. Review!Live(t) \subseteq Review!Live(s) => Review!Merged(s, t) = s
    BY <1>1, <1>2 DEF Sheets
  <1> QED
    BY <1>1, <1>3 DEF Review!Live

\* What a save asks for is a sheet.
LEMMA PatchIsSheet ==
  ASSUME NEW s \in Sheets, NEW t \in Sheets
  PROVE  Review!Patch(s, t) \in Sheets
  BY DEF Review!Patch, Sheets

\* The first transcript of a Session.
LEMMA ReviewBegins == Review!Init => ReviewInv
  <1> SUFFICES ASSUME Review!Init PROVE ReviewInv
    OBVIOUS
  <1>1. record \in Sheets
    <2>1. PICK who \in [Transcripts[1] -> People] :
            record = [c \in Review!Cells |->
              CASE c[1] = "name" ->
                      IF \E b \in DOMAIN who : who[b] = c[2]
                      THEN Called ELSE Absent
                [] c[1] = "text" ->
                      IF c[2] \in DOMAIN who THEN Heard ELSE Absent
                [] c[1] = "who" ->
                      IF c[2] \in DOMAIN who THEN who[c[2]] ELSE Absent]
      BY DEF Review!Init
    <2>2. \A c \in Review!Cells : c[1] \in {"name", "text", "who"}
      BY DEF Review!Cells, Review!NameCells, Review!PassageCells
    <2>3. \A c \in Review!Cells :
            record[c] \in {Called, Heard, Absent} \cup People
      BY <2>1, <2>2
    <2> QED
      BY <2>1, <2>3, ReviewAssumption DEF Sheets, ReviewValues
  <1>2. /\ ~shown /\ reading = Absent /\ past = <<>> /\ future = <<>>
        /\ revision = 0 /\ version = 0 /\ rGeneration = 0
        /\ baseline \in Sheets /\ present \in Sheets /\ pages \in Sheets
        /\ requests = [g \in 0..MaxLoads["review"] |-> Absent]
    BY NothingIsSheet DEF Review!Init
  <1> QED
    BY <1>1, <1>2, ReviewAssumption
      DEF ReviewInv, ReviewShape, ReadInv, AskedInv, ShownInv, UpToDateInv,
        UpToDate, CommittedInv, Committed, TraceInv

\* What an edit, its undoing or its redoing leaves alone.
EditKeeps ==
  /\ shown /\ shown' = shown /\ exists' = exists /\ revision' = revision
  /\ record' = record /\ rGeneration' = rGeneration /\ reading' = reading
  /\ version' = version /\ baseline' = baseline /\ pages' = pages
  /\ requests' = requests
  /\ present' \in Sheets /\ Review!Live(present') = Review!Live(present)
  /\ past' \in Seq(Corrections) /\ future' \in Seq(Corrections)
  /\ Review!Differ(baseline', present') => dirty'

\* An edit leads on from the present sheet.
LEMMA EditEffect ==
  ASSUME ReviewInv, NEW c \in Review!Cells, NEW v \in Review!Values(c),
         Review!Edit(c, v)
  PROVE  EditKeeps /\ TraceInv'
  <1> DEFINE e == [cell |-> c, before |-> present[c], after |-> v]
  <1>1. /\ shown /\ present[c] # Absent
        /\ present' = Review!ApplyEdit(present, e, "after")
        /\ past' = Append(past, e) /\ future' = <<>>
        /\ dirty' = Review!Differ(baseline, present')
        /\ UNCHANGED <<Review!database, rGeneration, reading, shown, version,
                       baseline, pages, requests>>
    BY DEF Review!Edit
  <1>2. present \in Sheets /\ past \in Seq(Corrections)
    BY DEF ReviewInv, ReviewShape
  <1>3. e \in Corrections
    <2>1. v \in ReviewValues
      BY CellKinds
    <2>2. present[c] \in ReviewValues
      BY <1>1, <1>2 DEF Sheets
    <2> QED
      BY <2>1, <2>2 DEF Corrections
  <1>4. e.cell = c /\ e.before = present[c] /\ e.after = v
    OBVIOUS
  <1> HIDE DEF e
  <1>5. Leads(present, e, present')
    BY <1>1, <1>2, <1>3, <1>4 DEF Leads, Review!ApplyEdit, Corrections
  <1>6. present' \in Sheets /\ Review!Live(present') = Review!Live(present)
    BY <1>2, <1>3, <1>5, LeadsBack
  <1>7. EditKeeps
    BY <1>1, <1>2, <1>3, <1>6 DEF EditKeeps, Review!database
  <1>8. PICK sheets : Traced(sheets)
    BY <1>1 DEF ReviewInv, TraceInv
  <1>9. /\ Len(past') = Len(past) + 1 /\ Len(past) \in Nat /\ Len(future') = 0
        /\ \A k \in 1..Len(past) : past'[k] = past[k]
        /\ past'[Len(past) + 1] = e
    BY <1>1, <1>2, <1>3
  <1>10. \A k \in 0..Len(past) :
           sheets[k] \in Sheets /\ Review!Live(sheets[k]) = Review!Live(present)
    BY <1>8, <1>9 DEF Traced, ReviewInv, ReviewShape
  <1>11. /\ sheets[Len(past)] = present
         /\ \A d \in Review!Live(baseline) : sheets[0][d] = baseline[d]
         /\ \A k \in 1..Len(past) : Leads(sheets[k - 1], past[k], sheets[k])
    BY <1>8 DEF Traced
  <1>12. PICK more : /\ \A k \in 0..Len(past) : more[k] = sheets[k]
                     /\ more[Len(past) + 1] = present'
    <2> DEFINE m == [k \in 0..Len(past) + 1 |->
                       IF k <= Len(past) THEN sheets[k] ELSE present']
    <2>1. /\ \A k \in 0..Len(past) : m[k] = sheets[k]
          /\ m[Len(past) + 1] = present'
      BY <1>9
    <2> HIDE DEF m
    <2> QED
      BY <2>1
  <1>13. \A k \in 0..Len(past) + 1 :
           more[k] \in Sheets /\ Review!Live(more[k]) = Review!Live(present')
    <2>1. \A k \in 0..Len(past) + 1 :
            k \in 0..Len(past) \/ k = Len(past) + 1
      BY <1>9
    <2> QED
      BY <2>1, <1>6, <1>10, <1>12
  <1>14. \A k \in 1..Len(past) + 1 : Leads(more[k - 1], past'[k], more[k])
    <2> SUFFICES ASSUME NEW k \in 1..Len(past) + 1
                 PROVE  Leads(more[k - 1], past'[k], more[k])
      OBVIOUS
    <2>1. CASE k \in 1..Len(past)
      <3>1. k - 1 \in 0..Len(past) /\ k \in 0..Len(past)
        BY <2>1, <1>9
      <3> QED
        BY <2>1, <3>1, <1>9, <1>11, <1>12
    <2>2. CASE k = Len(past) + 1
      <3>1. k - 1 = Len(past) /\ Len(past) \in 0..Len(past)
        BY <2>2, <1>9
      <3> QED
        BY <2>2, <3>1, <1>5, <1>9, <1>11, <1>12
    <2> QED
      BY <1>9, <2>1, <2>2
  <1>15. 0 \in 0..Len(past)
    BY <1>9
  <1>16. /\ Len(past') + Len(future') = Len(past) + 1
         /\ 1..Len(future') = {} /\ baseline' = baseline
         /\ more[Len(past')] = present' /\ more[0] = sheets[0]
    BY <1>1, <1>9, <1>12, <1>15
  <1>17. Traced(more)'
    <2>1. Len(past') = Len(past) + 1
      BY <1>9
    <2>2. \A k \in 0..Len(past') + Len(future') :
            /\ more[k] \in Sheets
            /\ Review!Live(more[k]) = Review!Live(present')
      BY <1>13, <1>16
    <2>3. \A k \in 1..Len(past') : Leads(more[k - 1], past'[k], more[k])
      BY <2>1, <1>14
    <2>4. \A k \in 1..Len(future') :
            Leads(more[Len(past') + k - 1], future'[k], more[Len(past') + k])
      BY <1>16
    <2>5. \A d \in Review!Live(baseline') : more[0][d] = baseline'[d]
      BY <1>11, <1>16
    <2> QED
      BY <2>2, <2>3, <2>4, <2>5, <1>16 DEF Traced
  <1> QED
    BY <1>7, <1>17 DEF TraceInv

\* Undoing leads back to the sheet before the present one.
LEMMA UndoEffect ==
  ASSUME ReviewInv, Review!Undo
  PROVE  EditKeeps /\ TraceInv'
  <1> DEFINE e == past[Len(past)]
             L == Len(past)
  <1>1. /\ past # <<>>
        /\ present' = Review!ApplyEdit(present, e, "before")
        /\ past' = SubSeq(past, 1, L - 1)
        /\ future' = <<e>> \o future
        /\ dirty' = Review!Differ(baseline, present')
        /\ UNCHANGED <<Review!database, rGeneration, reading, shown, version,
                       baseline, pages, requests>>
    BY DEF Review!Undo, Review!Last, Review!Front
  <1>2. /\ present \in Sheets /\ past \in Seq(Corrections)
        /\ future \in Seq(Corrections) /\ shown
    BY <1>1 DEF ReviewInv, ReviewShape, ShownInv
  <1>3. /\ L \in Nat /\ L >= 1 /\ L - 1 \in Nat
        /\ e \in Corrections /\ past' \in Seq(Corrections)
        /\ future' \in Seq(Corrections)
        /\ Len(past') = L - 1 /\ Len(future') = Len(future) + 1
        /\ Len(future) \in Nat
        /\ \A k \in 1..L - 1 : past'[k] = past[k]
        /\ future'[1] = e
        /\ \A k \in 1..Len(future) : future'[k + 1] = future[k]
    BY <1>1, <1>2
  <1>4. PICK sheets : Traced(sheets)
    BY <1>2 DEF ReviewInv, TraceInv
  <1>5. /\ \A k \in 0..L + Len(future) :
             /\ sheets[k] \in Sheets
             /\ Review!Live(sheets[k]) = Review!Live(present)
        /\ sheets[L] = present
        /\ \A c \in Review!Live(baseline) : sheets[0][c] = baseline[c]
        /\ \A k \in 1..L : Leads(sheets[k - 1], past[k], sheets[k])
        /\ \A k \in 1..Len(future) :
             Leads(sheets[L + k - 1], future[k], sheets[L + k])
    BY <1>4 DEF Traced
  <1>6. Leads(sheets[L - 1], e, present) /\ sheets[L - 1] \in Sheets
    <2>1. L \in 1..L /\ L - 1 \in 0..L + Len(future)
      BY <1>3
    <2> QED
      BY <2>1, <1>5
  <1> HIDE DEF e, L
  <1>7. present' = sheets[L - 1] /\ Review!Live(present) = Review!Live(present')
    BY <1>1, <1>3, <1>6, LeadsBack
  <1>8. EditKeeps
    BY <1>1, <1>2, <1>3, <1>6, <1>7 DEF EditKeeps, Review!database
  <1>9. \A k \in 0..(L - 1) + (Len(future) + 1) :
          /\ sheets[k] \in Sheets
          /\ Review!Live(sheets[k]) = Review!Live(present')
    <2>1. (L - 1) + (Len(future) + 1) = L + Len(future)
      BY <1>3
    <2> QED
      BY <2>1, <1>5, <1>7
  <1>10. \A k \in 1..L - 1 : Leads(sheets[k - 1], past'[k], sheets[k])
    <2>1. \A k \in 1..L - 1 : k \in 1..L
      BY <1>3
    <2> QED
      BY <2>1, <1>3, <1>5
  <1>11. \A k \in 1..Len(future) + 1 :
           Leads(sheets[(L - 1) + k - 1], future'[k], sheets[(L - 1) + k])
    <2> SUFFICES ASSUME NEW k \in 1..Len(future) + 1
                 PROVE  Leads(sheets[(L - 1) + k - 1], future'[k],
                              sheets[(L - 1) + k])
      OBVIOUS
    <2>1. CASE k = 1
      <3>1. (L - 1) + k - 1 = L - 1 /\ (L - 1) + k = L
        BY <2>1, <1>3
      <3> QED
        BY <2>1, <3>1, <1>3, <1>5, <1>6
    <2>2. CASE k # 1
      <3>1. /\ k - 1 \in 1..Len(future) /\ (k - 1) + 1 = k
            /\ (L - 1) + k - 1 = L + (k - 1) - 1
            /\ (L - 1) + k = L + (k - 1)
        <4>1. L \in Int /\ Len(future) \in Nat
          BY <1>3
        <4>2. k \in Int /\ 1 <= k /\ k <= Len(future) + 1
          BY <4>1
        <4> QED
          BY <2>2, <4>1, <4>2
      <3>2. future'[k] = future[k - 1]
        BY <3>1, <1>3
      <3>3. Leads(sheets[L + (k - 1) - 1], future[k - 1], sheets[L + (k - 1)])
        BY <3>1, <1>5
      <3> QED
        BY <3>1, <3>2, <3>3
    <2> QED
      BY <2>1, <2>2
  <1>12. Traced(sheets)'
    BY <1>1, <1>3, <1>5, <1>7, <1>9, <1>10, <1>11 DEF Traced
  <1> QED
    BY <1>8, <1>12 DEF TraceInv

\* Redoing leads on to the sheet after the present one.
LEMMA RedoEffect ==
  ASSUME ReviewInv, Review!Redo
  PROVE  EditKeeps /\ TraceInv'
  <1> DEFINE e == future[1]
             L == Len(past)
  <1>1. /\ future # <<>>
        /\ present' = Review!ApplyEdit(present, e, "after")
        /\ past' = Append(past, e)
        /\ future' = Tail(future)
        /\ dirty' = Review!Differ(baseline, present')
        /\ UNCHANGED <<Review!database, rGeneration, reading, shown, version,
                       baseline, pages, requests>>
    BY DEF Review!Redo
  <1>2. /\ present \in Sheets /\ past \in Seq(Corrections)
        /\ future \in Seq(Corrections) /\ shown
    BY <1>1 DEF ReviewInv, ReviewShape, ShownInv
  <1>3. /\ L \in Nat /\ Len(future) \in Nat /\ Len(future) >= 1
        /\ e \in Corrections /\ past' \in Seq(Corrections)
        /\ future' \in Seq(Corrections)
        /\ Len(past') = L + 1 /\ Len(future') = Len(future) - 1
        /\ \A k \in 1..L : past'[k] = past[k]
        /\ past'[L + 1] = e
        /\ \A k \in 1..Len(future) - 1 : future'[k] = future[k + 1]
    BY <1>1, <1>2
  <1>4. PICK sheets : Traced(sheets)
    BY <1>2 DEF ReviewInv, TraceInv
  <1>5. /\ \A k \in 0..L + Len(future) :
             /\ sheets[k] \in Sheets
             /\ Review!Live(sheets[k]) = Review!Live(present)
        /\ sheets[L] = present
        /\ \A c \in Review!Live(baseline) : sheets[0][c] = baseline[c]
        /\ \A k \in 1..L : Leads(sheets[k - 1], past[k], sheets[k])
        /\ \A k \in 1..Len(future) :
             Leads(sheets[L + k - 1], future[k], sheets[L + k])
    BY <1>4 DEF Traced
  <1>6. Leads(present, e, sheets[L + 1]) /\ sheets[L + 1] \in Sheets
    <2>1. 1 \in 1..Len(future) /\ L + 1 \in 0..L + Len(future)
          /\ L + 1 - 1 = L
      BY <1>3
    <2> QED
      BY <2>1, <1>5
  <1> HIDE DEF e, L
  <1>7. present' = sheets[L + 1] /\ Review!Live(present) = Review!Live(present')
    BY <1>1, <1>2, <1>3, <1>6, LeadsBack
  <1>8. EditKeeps
    BY <1>1, <1>2, <1>3, <1>6, <1>7 DEF EditKeeps, Review!database
  <1>9. \A k \in 0..(L + 1) + (Len(future) - 1) :
          /\ sheets[k] \in Sheets
          /\ Review!Live(sheets[k]) = Review!Live(present')
    <2>1. (L + 1) + (Len(future) - 1) = L + Len(future)
      BY <1>3
    <2> QED
      BY <2>1, <1>5, <1>7
  <1>10. \A k \in 1..L + 1 : Leads(sheets[k - 1], past'[k], sheets[k])
    <2> SUFFICES ASSUME NEW k \in 1..L + 1
                 PROVE  Leads(sheets[k - 1], past'[k], sheets[k])
      OBVIOUS
    <2>1. CASE k \in 1..L
      BY <2>1, <1>3, <1>5
    <2>2. CASE k = L + 1
      <3>1. k - 1 = L
        BY <2>2, <1>3
      <3> QED
        BY <2>2, <3>1, <1>3, <1>5, <1>6
    <2> QED
      BY <1>3, <2>1, <2>2
  <1>11. \A k \in 1..Len(future) - 1 :
           Leads(sheets[(L + 1) + k - 1], future'[k], sheets[(L + 1) + k])
    <2> SUFFICES ASSUME NEW k \in 1..Len(future) - 1
                 PROVE  Leads(sheets[(L + 1) + k - 1], future'[k],
                              sheets[(L + 1) + k])
      OBVIOUS
    <2>0. L \in Nat /\ Len(future) \in Nat
      BY <1>3
    <2>1. /\ k + 1 \in 1..Len(future)
          /\ (L + 1) + k - 1 = L + (k + 1) - 1
          /\ (L + 1) + k = L + (k + 1)
      BY <2>0
    <2>2. future'[k] = future[k + 1]
      BY <1>3, Zenon
    <2> QED
      BY <2>1, <2>2, <1>5
  <1>12. Traced(sheets)'
    BY <1>1, <1>3, <1>5, <1>7, <1>9, <1>10, <1>11 DEF Traced
  <1> QED
    BY <1>8, <1>12 DEF TraceInv

\* A sheet with cells that it does not have from another, which has the same
\* cells at every edit.
Widened(now, more, s) ==
  [c \in Review!Cells |-> IF now[c] = Absent THEN more[c] ELSE s[c]]

\* Cells that come later are not those of an edit, which leads on as before.
LEMMA WidenedLeads ==
  ASSUME NEW now \in Sheets, NEW more \in Sheets, NEW s \in Sheets,
         Review!Live(s) = Review!Live(now)
  PROVE  /\ Widened(now, more, s) \in Sheets
         /\ Review!Live(Widened(now, more, s)) =
              Review!Live(now) \cup Review!Live(more)
         /\ \A e \in Corrections, t \in Sheets :
              Leads(s, e, t) =>
                Leads(Widened(now, more, s), e, Widened(now, more, t))
  <1>1. Widened(now, more, s) \in Sheets
    BY DEF Widened, Sheets
  <1>2. \A c \in Review!Cells :
          Widened(now, more, s)[c] = IF now[c] = Absent THEN more[c] ELSE s[c]
    BY DEF Widened
  <1>3. \A c \in Review!Cells : s[c] = Absent <=> now[c] = Absent
    BY DEF Review!Live
  <1>4. Review!Live(Widened(now, more, s)) =
          Review!Live(now) \cup Review!Live(more)
    BY <1>2, <1>3 DEF Review!Live
  <1>5. ASSUME NEW e \in Corrections, NEW t \in Sheets, Leads(s, e, t)
        PROVE  Leads(Widened(now, more, s), e, Widened(now, more, t))
    <2>1. /\ e.cell \in Review!Cells
          /\ e.before \in ReviewValues /\ e.before # Absent
      BY ReviewAssumption DEF Corrections, ReviewValues
    <2>2. s[e.cell] = e.before /\ t = [s EXCEPT ![e.cell] = e.after]
      BY <1>5 DEF Leads
    <2>3. now[e.cell] # Absent
      BY <1>3, <2>1, <2>2
    <2>4. Widened(now, more, s)[e.cell] = e.before
      BY <1>2, <2>1, <2>2, <2>3
    <2>5. Widened(now, more, t) =
            [Widened(now, more, s) EXCEPT ![e.cell] = e.after]
      BY <2>1, <2>2, <2>3 DEF Widened, Sheets
    <2> QED
      BY <2>4, <2>5 DEF Leads
  <1> QED
    BY <1>1, <1>4, <1>5

\* What more passages leave alone.
MoreKeeps ==
  /\ shown' = shown /\ exists' = exists /\ revision' = revision
  /\ record' = record /\ rGeneration' = rGeneration /\ reading' = reading
  /\ version' = version /\ past' = past /\ future' = future
  /\ dirty' = dirty /\ requests' = requests
  /\ pages' \in Sheets /\ baseline' \in Sheets /\ present' \in Sheets
  /\ shown =>
       /\ Review!Live(pages') \subseteq Review!Live(present')
       /\ Review!Live(present) \subseteq Review!Live(present')
       /\ Review!Live(baseline') \subseteq Review!Live(present')
       /\ Review!Live(record) \subseteq Review!Live(present) =>
            baseline' = baseline /\ present' = present

\* A page takes passages that it does not have, and no others.
LEMMA PassagesEffect ==
  ASSUME ReviewInv, Review!MorePassages
  PROVE  MoreKeeps /\ TraceInv'
  <1>1. PICK b \in Review!Passages :
          /\ pages' = [c \in Review!Cells |->
                         IF c \in Review!PassageCells({b}) THEN record[c]
                         ELSE pages[c]]
          /\ IF shown
               THEN /\ baseline' = [c \in Review!Cells |->
                         IF present[c] = Absent THEN pages'[c]
                         ELSE baseline[c]]
                    /\ present' = Review!Merged(present, pages')
               ELSE UNCHANGED <<baseline, present>>
    BY DEF Review!MorePassages
  <1>2. /\ shown' = shown /\ exists' = exists /\ revision' = revision
        /\ record' = record /\ rGeneration' = rGeneration
        /\ reading' = reading /\ version' = version /\ past' = past
        /\ future' = future /\ dirty' = dirty /\ requests' = requests
    BY DEF Review!MorePassages, Review!database
  <1>3. /\ record \in Sheets /\ pages \in Sheets
        /\ baseline \in Sheets /\ present \in Sheets
    BY DEF ReviewInv, ReviewShape
  <1>4. pages' \in Sheets
    BY <1>1, <1>3 DEF Sheets
  <1>5. CASE ~shown
    BY <1>1, <1>2, <1>3, <1>4, <1>5 DEF MoreKeeps, TraceInv
  <1>6. CASE shown
    <2>1. /\ present' \in Sheets
          /\ Review!Live(present') =
               Review!Live(present) \cup Review!Live(pages')
          /\ Review!Live(pages') \subseteq Review!Live(present) =>
               present' = present
      <3>1. /\ Review!Merged(present, pages') \in Sheets
            /\ Review!Live(Review!Merged(present, pages')) =
                 Review!Live(present) \cup Review!Live(pages')
            /\ Review!Live(pages') \subseteq Review!Live(present) =>
                 Review!Merged(present, pages') = present
        BY <1>3, <1>4, MergedIsSheet
      <3>2. present' = Review!Merged(present, pages')
        BY <1>1, <1>6
      <3> QED
        BY <3>1, <3>2
    <2>2. baseline' = Widened(present, pages', baseline)
      BY <1>1, <1>6 DEF Widened
    <2>3. baseline' \in Sheets
      BY <2>2, <1>3, <1>4 DEF Widened, Sheets
    <2>4. /\ Review!Live(pages) \subseteq Review!Live(present)
          /\ Review!Live(baseline) \subseteq Review!Live(present)
      BY <1>6 DEF ReviewInv, ShownInv
    <2>5. Review!Live(baseline') \subseteq Review!Live(present')
      BY <2>1, <2>2, <2>4 DEF Widened, Review!Live
    <2>6. ASSUME Review!Live(record) \subseteq Review!Live(present)
          PROVE  baseline' = baseline /\ present' = present
      <3>1. Review!Live(pages') \subseteq Review!Live(present)
        BY <1>1, <2>4, <2>6 DEF Review!Live
      <3>2. \A c \in Review!Cells : present[c] = Absent =>
              pages'[c] = Absent /\ baseline[c] = Absent
        BY <2>4, <3>1 DEF Review!Live
      <3>3. baseline' = baseline
        BY <2>2, <2>3, <3>2, <1>3 DEF Widened, Sheets
      <3> QED
        BY <2>1, <3>1, <3>3
    <2>7. MoreKeeps
      BY <1>2, <1>4, <2>1, <2>3, <2>5, <2>6 DEF MoreKeeps
    <2>8. PICK sheets : Traced(sheets)
      BY <1>6 DEF ReviewInv, TraceInv
    <2> DEFINE N == Len(past) + Len(future)
    <2>9. /\ Len(past) \in Nat /\ Len(future) \in Nat
          /\ past \in Seq(Corrections) /\ future \in Seq(Corrections)
      BY DEF ReviewInv, ReviewShape
    <2>10. /\ \A k \in 0..N :
                /\ sheets[k] \in Sheets
                /\ Review!Live(sheets[k]) = Review!Live(present)
           /\ sheets[Len(past)] = present
           /\ \A c \in Review!Live(baseline) : sheets[0][c] = baseline[c]
           /\ \A k \in 1..Len(past) : Leads(sheets[k - 1], past[k], sheets[k])
           /\ \A k \in 1..Len(future) :
                Leads(sheets[Len(past) + k - 1], future[k],
                      sheets[Len(past) + k])
      BY <2>8 DEF Traced
    <2>11. PICK wide : \A k \in 0..N :
             wide[k] = Widened(present, pages', sheets[k])
      <3> DEFINE w == [k \in 0..N |-> Widened(present, pages', sheets[k])]
      <3>1. \A k \in 0..N : w[k] = Widened(present, pages', sheets[k])
        OBVIOUS
      <3> HIDE DEF w
      <3> QED
        BY <3>1
    <2>12. \A k \in 0..N : /\ wide[k] \in Sheets
                           /\ Review!Live(wide[k]) = Review!Live(present')
      BY <1>3, <1>4, <2>1, <2>10, <2>11, WidenedLeads
    <2>13. \A j, k \in 0..N : \A e \in Corrections :
             Leads(sheets[j], e, sheets[k]) => Leads(wide[j], e, wide[k])
      BY <1>3, <1>4, <2>10, <2>11, WidenedLeads
    <2>14. \A k \in 1..Len(past) : Leads(wide[k - 1], past[k], wide[k])
      <3> SUFFICES ASSUME NEW k \in 1..Len(past)
                   PROVE  Leads(wide[k - 1], past[k], wide[k])
        OBVIOUS
      <3>1. k - 1 \in 0..N /\ k \in 0..N /\ past[k] \in Corrections
        BY <2>9
      <3> HIDE DEF N
      <3> QED
        BY <3>1, <2>10, <2>13
    <2>15. \A k \in 1..Len(future) :
             Leads(wide[Len(past) + k - 1], future[k], wide[Len(past) + k])
      <3> SUFFICES ASSUME NEW k \in 1..Len(future)
                   PROVE  Leads(wide[Len(past) + k - 1], future[k],
                                wide[Len(past) + k])
        OBVIOUS
      <3>1. /\ Len(past) + k - 1 \in 0..N /\ Len(past) + k \in 0..N
            /\ future[k] \in Corrections
        BY <2>9
      <3> HIDE DEF N
      <3> QED
        BY <3>1, <2>10, <2>13
    <2>16. wide[Len(past)] = present'
      <3>1. Len(past) \in 0..N
        BY <2>9
      <3>2. wide[Len(past)] = Widened(present, pages', present)
        BY <3>1, <2>10, <2>11
      <3> QED
        BY <3>2, <1>1, <1>6 DEF Widened, Review!Merged
    <2>17. \A c \in Review!Live(baseline') : wide[0][c] = baseline'[c]
      <3>1. 0 \in 0..N
        BY <2>9
      <3>2. wide[0] = Widened(present, pages', sheets[0])
        BY <3>1, <2>11
      <3>3. \A c \in Review!Cells :
              /\ wide[0][c] = IF present[c] = Absent THEN pages'[c]
                              ELSE sheets[0][c]
              /\ baseline'[c] = IF present[c] = Absent THEN pages'[c]
                                ELSE baseline[c]
        BY <3>2, <2>2 DEF Widened
      <3> QED
        BY <3>3, <2>10 DEF Review!Live
    <2> HIDE DEF N
    <2>18. Traced(wide)'
      <3>1. N' = N /\ N' = Len(past') + Len(future')
        BY <1>2 DEF N
      <3> QED
        BY <1>2, <3>1, <2>12, <2>14, <2>15, <2>16, <2>17 DEF Traced, N
    <2> QED
      BY <2>7, <2>18 DEF TraceInv
  <1> QED
    BY <1>5, <1>6

\* The edits that are between what was saved and the present sheet lead from
\* the one to the other; where no cell has come since, none means none.
LEMMA BetweenLeads ==
  ASSUME NEW saved \in Sheets, NEW now \in Sheets,
         Review!Live(saved) \subseteq Review!Live(now)
  PROVE  LET edits == Review!CommandsBetween(saved, now)
         IN  /\ edits \in Seq(Corrections)
             /\ Review!Live(saved) = Review!Live(now)
                  /\ Review!Differ(saved, now) => edits # <<>>
             /\ \E sheets :
                  /\ \A k \in 0..Len(edits) :
                       /\ sheets[k] \in Sheets
                       /\ Review!Live(sheets[k]) = Review!Live(now)
                  /\ sheets[Len(edits)] = now
                  /\ \A c \in Review!Live(saved) : sheets[0][c] = saved[c]
                  /\ \A k \in 1..Len(edits) :
                       Leads(sheets[k - 1], edits[k], sheets[k])
  <1> DEFINE changed == Review!Live(Review!Patch(saved, now))
             edits == Review!CommandsBetween(saved, now)
  <1>1. PICK n \in Nat : \E cells \in [1..n -> changed] :
          /\ \A x, y \in 1..n : cells[x] = cells[y] => x = y
          /\ \A c \in changed : \E x \in 1..n : cells[x] = c
          /\ edits = [x \in 1..n |->
                        [cell |-> cells[x], before |-> saved[cells[x]],
                         after |-> now[cells[x]]]]
    BY BetweenIsListed, ZenonT(40)
  <1>13. PICK cells \in [1..n -> changed] :
          /\ \A x, y \in 1..n : cells[x] = cells[y] => x = y
          /\ \A c \in changed : \E x \in 1..n : cells[x] = c
          /\ edits = [x \in 1..n |->
                        [cell |-> cells[x], before |-> saved[cells[x]],
                         after |-> now[cells[x]]]]
    BY <1>1, Zenon
  <1>2. \A c \in Review!Cells :
          c \in changed <=> saved[c] # Absent /\ saved[c] # now[c]
    BY DEF Review!Live, Review!Patch
  <1>3. changed \subseteq Review!Cells
    BY DEF Review!Live
  <1> HIDE DEF changed, edits
  <1>4. \A x \in 1..n : edits[x] \in Corrections
    BY <1>13, <1>2, <1>3 DEF Corrections, Sheets, Review!Live
  <1>5. edits \in Seq(Corrections) /\ Len(edits) = n
    BY <1>13, <1>4
  <1>6. Review!Live(saved) = Review!Live(now) /\ Review!Differ(saved, now)
          => edits # <<>>
    <2> SUFFICES ASSUME Review!Live(saved) = Review!Live(now),
                        Review!Differ(saved, now)
                 PROVE  edits # <<>>
      OBVIOUS
    <2>1. PICK c \in changed : TRUE
      BY <1>2 DEF Review!Differ, Review!Live
    <2>2. PICK x \in 1..n : cells[x] = c
      BY <1>13, <2>1
    <2> QED
      BY <1>13, <1>5, <2>2
  <1> DEFINE Part(k) ==
        [c \in Review!Cells |->
           IF saved[c] # Absent /\ \A x \in 1..k : cells[x] # c
             THEN saved[c] ELSE now[c]]
  <1>7. PICK sheets : \A k \in 0..n : sheets[k] = Part(k)
    <2> DEFINE w == [k \in 0..n |-> Part(k)]
    <2>1. \A k \in 0..n : w[k] = Part(k)
      OBVIOUS
    <2> HIDE DEF w
    <2> QED
      BY <2>1
  <1>15. \A k \in 0..n : \A c \in Review!Cells :
           /\ (saved[c] # Absent /\ \A x \in 1..k : cells[x] # c) =>
                sheets[k][c] = saved[c]
           /\ ~(saved[c] # Absent /\ \A x \in 1..k : cells[x] # c) =>
                sheets[k][c] = now[c]
    <2> SUFFICES ASSUME NEW k \in 0..n, NEW c \in Review!Cells
                 PROVE  /\ (saved[c] # Absent
                              /\ \A x \in 1..k : cells[x] # c) =>
                             sheets[k][c] = saved[c]
                        /\ ~(saved[c] # Absent
                               /\ \A x \in 1..k : cells[x] # c) =>
                             sheets[k][c] = now[c]
      OBVIOUS
    <2>1. sheets[k] = Part(k)
      BY <1>7
    <2> QED
      BY <2>1
  <1>8. \A k \in 0..n :
          sheets[k] \in Sheets /\ Review!Live(sheets[k]) = Review!Live(now)
    <2> SUFFICES ASSUME NEW k \in 0..n
                 PROVE  /\ sheets[k] \in Sheets
                        /\ Review!Live(sheets[k]) = Review!Live(now)
      OBVIOUS
    <2>1. sheets[k] = Part(k)
      BY <1>7
    <2>2. \A c \in Review!Cells : sheets[k][c] \in {saved[c], now[c]}
      BY <1>15
    <2>3. sheets[k] \in Sheets
      BY <2>1, <2>2 DEF Sheets
    <2>4. \A c \in Review!Cells : sheets[k][c] = Absent <=> now[c] = Absent
      BY <1>15 DEF Review!Live
    <2> QED
      BY <2>3, <2>4 DEF Review!Live
  <1>9. sheets[n] = now
    <2>1. n \in 0..n /\ sheets[n] = Part(n)
      BY <1>7
    <2>2. \A c \in Review!Cells : Part(n)[c] = now[c]
      BY <1>13, <1>2
    <2> QED
      BY <2>1, <2>2, <1>8 DEF Sheets
  <1>10. \A c \in Review!Live(saved) : sheets[0][c] = saved[c]
    <2>1. 0 \in 0..n /\ 1..0 = {}
      OBVIOUS
    <2> QED
      BY <2>1, <1>15 DEF Review!Live
  <1>11. \A k \in 1..n : Leads(sheets[k - 1], edits[k], sheets[k])
    <2> SUFFICES ASSUME NEW k \in 1..n
                 PROVE  Leads(sheets[k - 1], edits[k], sheets[k])
      OBVIOUS
    <2>1. k - 1 \in 0..n /\ k \in 0..n /\ 1..k = 1..(k - 1) \cup {k}
      OBVIOUS
    <2>2. /\ edits[k].cell = cells[k] /\ edits[k].before = saved[cells[k]]
          /\ edits[k].after = now[cells[k]] /\ cells[k] \in changed
          /\ cells[k] \in Review!Cells
      BY <1>13, <1>3
    <2>3. \A x \in 1..(k - 1) : cells[x] # cells[k]
      BY <1>13
    <2>4. sheets[k - 1][cells[k]] = saved[cells[k]]
      BY <1>2, <1>15, <2>1, <2>2, <2>3
    <2>5. \A c \in Review!Cells :
            sheets[k][c] = IF c = cells[k] THEN now[c] ELSE sheets[k - 1][c]
      BY <1>15, <2>1
    <2>6. sheets[k] = [sheets[k - 1] EXCEPT ![cells[k]] = now[cells[k]]]
      BY <2>1, <2>2, <2>5, <1>8 DEF Sheets
    <2> QED
      BY <2>2, <2>4, <2>6 DEF Leads
  <1> HIDE DEF Part
  <1>12. \E parts :
           /\ \A k \in 0..Len(edits) :
                /\ parts[k] \in Sheets
                /\ Review!Live(parts[k]) = Review!Live(now)
           /\ parts[Len(edits)] = now
           /\ \A c \in Review!Live(saved) : parts[0][c] = saved[c]
           /\ \A k \in 1..Len(edits) :
                Leads(parts[k - 1], edits[k], parts[k])
    BY <1>5, <1>8, <1>9, <1>10, <1>11
  <1> QED
    BY <1>5, <1>6, <1>12 DEF edits

\* The sheets are those they were when neither they nor the edits change.
LEMMA TraceKept ==
  ASSUME TraceInv,
         UNCHANGED <<shown, baseline, present, past, future>>
  PROVE  TraceInv'
  <1> SUFFICES ASSUME shown PROVE TraceInv'
    BY DEF TraceInv
  <1>1. PICK sheets : Traced(sheets)
    BY DEF TraceInv
  <1>2. Traced(sheets)'
    BY <1>1 DEF Traced
  <1> QED
    BY <1>2 DEF TraceInv

\* A load forgets the record of the page; a save on its way is an earlier
\* one's.
LEMMA LoadKeeps ==
  ASSUME ReviewInv, Review!OpenPage \/ Review!Reload
  PROVE  ReviewInv'
  <1>1. /\ rGeneration < MaxLoads["review"] /\ rGeneration' = rGeneration + 1
        /\ reading' = [step |-> "version", version |-> 0,
                       names |-> Review!Nothing]
        /\ ~shown' /\ version' = 0
        /\ baseline' = Review!Nothing /\ present' = Review!Nothing
        /\ past' = <<>> /\ future' = <<>>
        /\ exists' = exists /\ revision' = revision /\ record' = record
        /\ requests' = requests
    BY DEF Review!OpenPage, Review!Reload, Review!BeginLoad,
      Review!Forgotten, Review!database
  <1>2. pages' \in Sheets
    <2>1. CASE Review!Reload
      BY <2>1 DEF Review!Reload, ReviewInv, ReviewShape
    <2>2. CASE Review!OpenPage
      BY <2>2 DEF Review!OpenPage, ReviewInv, ReviewShape, Sheets
    <2> QED
      BY <2>1, <2>2
  <1>3. /\ revision \in Nat /\ record \in Sheets
        /\ rGeneration \in 0..MaxLoads["review"]
        /\ requests \in [0..MaxLoads["review"] -> SaveRequests \cup {Absent}]
        /\ \A g \in 0..MaxLoads["review"] : requests[g] # Absent =>
             /\ g <= rGeneration
             /\ requests[g].answer = "saved" =>
                  requests[g].expected < revision
    BY DEF ReviewInv, ReviewShape, AskedInv
  <1>4. ReviewShape'
    BY <1>1, <1>2, <1>3, NothingIsSheet, ReviewAssumption
      DEF ReviewShape, RecordReads
  <1>5. ReadInv'
    BY <1>1 DEF ReadInv
  <1>6. AskedInv'
    BY <1>1, <1>3, ReviewAssumption DEF AskedInv
  <1>7. ShownInv' /\ UpToDateInv' /\ CommittedInv' /\ TraceInv'
    BY <1>1 DEF ShownInv, UpToDateInv, UpToDate, CommittedInv, Committed,
      TraceInv
  <1> QED
    BY <1>4, <1>5, <1>6, <1>7 DEF ReviewInv

\* Only the read goes on.
ReadMoves ==
  /\ exists' = exists /\ revision' = revision /\ record' = record
  /\ rGeneration' = rGeneration /\ shown' = shown /\ version' = version
  /\ baseline' = baseline /\ present' = present /\ past' = past
  /\ future' = future /\ dirty' = dirty /\ pages' = pages
  /\ requests' = requests

\* A read in which only itself has moved keeps everything else.
LEMMA ReadMovesKeeps ==
  ASSUME ReviewInv, ReadMoves, ReadInv',
         reading' # Absent => reading' \in RecordReads
  PROVE  ReviewInv'
  <1>1. ReviewShape'
    BY DEF ReviewInv, ReviewShape, ReadMoves
  <1>2. AskedInv' /\ ShownInv' /\ UpToDateInv' /\ CommittedInv'
    BY DEF ReviewInv, AskedInv, ShownInv, UpToDateInv, UpToDate,
      CommittedInv, Committed, ReadMoves
  <1>3. TraceInv'
    BY TraceKept DEF ReviewInv, ReadMoves
  <1> QED
    BY <1>1, <1>2, <1>3 DEF ReviewInv

\* The version is read first, then the names.
LEMMA ReadingKeeps ==
  ASSUME ReviewInv,
         Review!ReadVersion \/ Review!ReadParticipants \/ Review!ReadFails
  PROVE  ReviewInv'
  <1>1. ReadMoves
    BY DEF Review!ReadVersion, Review!ReadParticipants, Review!ReadFails,
      Review!database, Review!editor, ReadMoves
  <1>2. /\ reading # Absent /\ reading \in RecordReads /\ ~shown
        /\ revision \in Nat /\ record \in Sheets
        /\ reading.step # "version" => reading.version <= revision
    BY DEF Review!ReadVersion, Review!ReadParticipants, Review!ReadFails,
      ReviewInv, ReviewShape, ReadInv
  <1>3. CASE Review!ReadVersion
    <2>1. /\ reading' \in RecordReads /\ reading'.step = "participants"
          /\ reading'.version = revision
      BY <1>2, <1>3 DEF Review!ReadVersion, RecordReads
    <2>2. ReadInv'
      BY <1>1, <1>2, <2>1 DEF ReadInv, ReadMoves
    <2> QED
      BY <1>1, <2>1, <2>2, ReadMovesKeeps
  <1>4. CASE Review!ReadParticipants
    <2> DEFINE names == [c \in Review!Cells |->
                           IF c \in Review!NameCells THEN record[c]
                           ELSE Absent]
    <2>1. /\ reading.step = "participants"
          /\ reading' = [reading EXCEPT !.step = "transcripts",
                                        !.names = names]
      BY <1>4 DEF Review!ReadParticipants
    <2>2. /\ names \in Sheets
          /\ \A c \in Review!NameCells : names[c] = record[c]
      BY <1>2, CellKinds DEF Sheets
    <2> HIDE DEF names
    <2>3. /\ reading' \in RecordReads /\ reading'.step = "transcripts"
          /\ reading'.version = reading.version /\ reading'.names = names
      BY <1>2, <2>1, <2>2 DEF RecordReads
    <2>4. ReadInv'
      BY <1>1, <1>2, <2>1, <2>2, <2>3 DEF ReadInv, ReadMoves
    <2> QED
      BY <1>1, <2>3, <2>4, ReadMovesKeeps
  <1>5. CASE Review!ReadFails
    <2>1. reading' = Absent
      BY <1>5 DEF Review!ReadFails
    <2> QED
      BY <1>1, <2>1, ReadMovesKeeps DEF ReadInv
  <1> QED
    BY <1>3, <1>4, <1>5

\* The page takes what it has read for the record of the version it has read
\* first, and if none came after it, it is.
LEMMA TakingKeeps ==
  ASSUME ReviewInv, Review!ReadTranscripts
  PROVE  ReviewInv'
  <1> DEFINE read == [c \in Review!Cells |->
                        IF c \in Review!NameCells THEN reading.names[c]
                        ELSE record[c]]
             sheet == Review!Merged(read, pages)
  <1>1. /\ reading # Absent /\ reading.step = "transcripts"
        /\ baseline' = sheet /\ present' = sheet
        /\ version' = reading.version /\ shown' /\ reading' = Absent
        /\ exists' = exists /\ revision' = revision /\ record' = record
        /\ rGeneration' = rGeneration /\ past' = past /\ future' = future
        /\ pages' = pages /\ requests' = requests
    BY DEF Review!ReadTranscripts, Review!VersionRead, Review!database
  <1>2. /\ revision \in Nat /\ record \in Sheets /\ pages \in Sheets
        /\ rGeneration \in 0..MaxLoads["review"]
        /\ requests \in [0..MaxLoads["review"] -> SaveRequests \cup {Absent}]
        /\ reading \in RecordReads
    BY <1>1 DEF ReviewInv, ReviewShape
  <1>3. /\ reading.version \in Nat /\ reading.version <= revision
        /\ reading.names \in Sheets /\ ~shown
        /\ exists /\ reading.version = revision =>
             \A c \in Review!NameCells : reading.names[c] = record[c]
    BY <1>1, <1>2 DEF ReviewInv, ReadInv, RecordReads
  <1>4. past = <<>> /\ future = <<>> /\ requests[rGeneration] = Absent
    BY <1>2, <1>3 DEF ReviewInv, ShownInv, AskedInv
  <1>5. read \in Sheets
    BY <1>2, <1>3 DEF Sheets
  <1>6. exists /\ reading.version = revision => read = record
    BY <1>2, <1>3, <1>5 DEF Sheets
  <1> HIDE DEF read
  <1>7. /\ sheet \in Sheets
        /\ Review!Live(sheet) = Review!Live(read) \cup Review!Live(pages)
        /\ \A c \in Review!Live(read) : sheet[c] = read[c]
    BY <1>2, <1>5, MergedIsSheet
  <1> HIDE DEF sheet
  <1>8. ReviewShape'
    BY <1>1, <1>2, <1>3, <1>4, <1>7 DEF ReviewInv, ReviewShape
  <1>9. ReadInv'
    BY <1>1 DEF ReadInv
  <1>10. AskedInv'
    BY <1>1, <1>2, <1>3, <1>4 DEF ReviewInv, AskedInv
  <1>11. ShownInv'
    BY <1>1, <1>4, <1>7 DEF ShownInv
  <1>12. UpToDateInv'
    <2> SUFFICES ASSUME UpToDate'
                 PROVE  /\ \A c \in Review!Live(sheet) :
                             record[c] \in {sheet[c], Absent}
                        /\ Review!Live(record) \subseteq Review!Live(sheet)
                        /\ ~Review!Differ(sheet, sheet)
      BY <1>1, <1>4 DEF UpToDateInv
    <2>1. read = record
      BY <1>1, <1>6 DEF UpToDate
    <2> QED
      BY <2>1, <1>7 DEF Review!Live, Review!Differ
  <1>13. CommittedInv'
    BY <1>1, <1>4 DEF CommittedInv, Committed
  <1>14. TraceInv'
    <2>1. /\ Len(past') = 0 /\ Len(future') = 0 /\ 1..0 = {}
          /\ 0..0 + 0 = {0}
      BY <1>1, <1>4
    <2>2. PICK sheets : sheets[0] = sheet
      <3>1. [k \in {0} |-> sheet][0] = sheet
        OBVIOUS
      <3> QED
        BY <3>1
    <2>3. Traced(sheets)'
      <3>1. \A k \in 0..Len(past') + Len(future') :
              /\ sheets[k] \in Sheets
              /\ Review!Live(sheets[k]) = Review!Live(present')
        BY <1>1, <1>7, <2>1, <2>2
      <3>2. /\ \A k \in 1..Len(past') :
                 Leads(sheets[k - 1], past'[k], sheets[k])
            /\ \A k \in 1..Len(future') :
                 Leads(sheets[Len(past') + k - 1], future'[k],
                       sheets[Len(past') + k])
            /\ sheets[Len(past')] = present'
            /\ \A c \in Review!Live(baseline') : sheets[0][c] = baseline'[c]
        BY <1>1, <2>1, <2>2
      <3> QED
        BY <3>1, <3>2 DEF Traced
    <2> QED
      BY <2>3 DEF TraceInv
  <1> QED
    BY <1>8, <1>9, <1>10, <1>11, <1>12, <1>13, <1>14 DEF ReviewInv

\* Edits change no baseline, and no cells.
LEMMA EditingKeeps ==
  ASSUME ReviewInv, EditKeeps, TraceInv'
  PROVE  ReviewInv'
  <1>1. ReviewShape'
    BY DEF ReviewInv, ReviewShape, EditKeeps
  <1>2. ReadInv'
    BY DEF ReviewInv, ReadInv, EditKeeps
  <1>3. AskedInv'
    BY DEF ReviewInv, AskedInv, EditKeeps
  <1>4. ShownInv'
    BY DEF ReviewInv, ShownInv, EditKeeps
  <1>5. UpToDateInv'
    BY DEF ReviewInv, UpToDateInv, UpToDate, EditKeeps
  <1>6. CommittedInv'
    BY DEF ReviewInv, CommittedInv, Committed, EditKeeps
  <1> QED
    BY <1>1, <1>2, <1>3, <1>4, <1>5, <1>6 DEF ReviewInv

\* Of a page up to date, every cell there is is shown: none comes.
LEMMA PassagesKeep ==
  ASSUME ReviewInv, MoreKeeps, TraceInv'
  PROVE  ReviewInv'
  <1>1. ReviewShape'
    BY DEF ReviewInv, ReviewShape, MoreKeeps
  <1>2. ReadInv'
    BY DEF ReviewInv, ReadInv, MoreKeeps
  <1>3. AskedInv'
    BY DEF ReviewInv, AskedInv, MoreKeeps
  <1>4. ShownInv'
    BY DEF ReviewInv, ShownInv, MoreKeeps
  <1>5. UpToDateInv'
    <2>1. UpToDate => baseline' = baseline /\ present' = present
      BY DEF ReviewInv, UpToDateInv, UpToDate, MoreKeeps
    <2> QED
      BY <2>1 DEF ReviewInv, UpToDateInv, UpToDate, MoreKeeps
  <1>6. CommittedInv'
    <2>1. Committed => baseline' = baseline /\ present' = present
      BY DEF ReviewInv, CommittedInv, Committed, MoreKeeps
    <2> QED
      BY <2>1 DEF ReviewInv, CommittedInv, Committed, MoreKeeps
  <1> QED
    BY <1>1, <1>2, <1>3, <1>4, <1>5, <1>6 DEF ReviewInv

\* A save asks for the difference of the baseline and what is shown.
LEMMA SaveKeeps ==
  ASSUME ReviewInv, Review!Save
  PROVE  ReviewInv'
  <1> DEFINE r == [expected |-> version,
                   changes |-> Review!Patch(baseline, present),
                   snapshot |-> present, answer |-> "none"]
  <1>1. /\ shown /\ requests' = [requests EXCEPT ![rGeneration] = r]
        /\ exists' = exists /\ revision' = revision /\ record' = record
        /\ rGeneration' = rGeneration /\ reading' = reading
        /\ shown' = shown /\ version' = version /\ baseline' = baseline
        /\ present' = present /\ past' = past /\ future' = future
        /\ dirty' = dirty /\ pages' = pages
    BY DEF Review!Save, Review!database
  <1>2. /\ version \in Nat /\ baseline \in Sheets /\ present \in Sheets
        /\ rGeneration \in 0..MaxLoads["review"]
        /\ requests \in [0..MaxLoads["review"] -> SaveRequests \cup {Absent}]
    BY DEF ReviewInv, ReviewShape
  <1>3. r \in SaveRequests
    BY <1>2, PatchIsSheet DEF SaveRequests, Answered
  <1>4. /\ r.expected = version /\ r.snapshot = present
        /\ r.changes = Review!Patch(baseline, present)
        /\ r.answer = "none"
    OBVIOUS
  <1> HIDE DEF r
  <1>5. /\ requests' \in [0..MaxLoads["review"] -> SaveRequests \cup {Absent}]
        /\ requests'[rGeneration] = r
        /\ \A g \in 0..MaxLoads["review"] :
             g # rGeneration => requests'[g] = requests[g]
    BY <1>1, <1>2, <1>3
  <1>6. ReviewShape'
    BY <1>1, <1>5 DEF ReviewInv, ReviewShape
  <1>7. ReadInv'
    BY <1>1 DEF ReviewInv, ReadInv
  <1>8. AskedInv'
    <2> SUFFICES ASSUME NEW g \in 0..MaxLoads["review"],
                        requests'[g] # Absent
                 PROVE  /\ g <= rGeneration
                        /\ requests'[g].answer = "saved" =>
                             requests'[g].expected < revision
                        /\ g = rGeneration =>
                             /\ requests'[g].expected = version
                             /\ Review!Live(requests'[g].snapshot)
                                  \subseteq Review!Live(present)
      BY <1>1 DEF ReviewInv, AskedInv
    <2>1. CASE g = rGeneration
      BY <2>1, <1>2, <1>4, <1>5
    <2>2. CASE g # rGeneration
      BY <2>2, <1>5 DEF ReviewInv, AskedInv
    <2> QED
      BY <2>1, <2>2
  <1>9. ShownInv'
    BY <1>1 DEF ReviewInv, ShownInv
  <1>10. UpToDateInv'
    BY <1>1, <1>4, <1>5 DEF ReviewInv, UpToDateInv, UpToDate
  <1>11. CommittedInv'
    BY <1>1, <1>4, <1>5 DEF CommittedInv, Committed
  <1>12. TraceInv'
    BY <1>1, TraceKept DEF ReviewInv
  <1> QED
    BY <1>6, <1>7, <1>8, <1>9, <1>10, <1>11, <1>12 DEF ReviewInv

\* The page does not move.
PageStays ==
  /\ rGeneration' = rGeneration /\ reading' = reading /\ shown' = shown
  /\ version' = version /\ baseline' = baseline /\ present' = present
  /\ past' = past /\ future' = future /\ dirty' = dirty /\ pages' = pages

\* What an answer changes of a save.
LEMMA AnswerEffect ==
  ASSUME ReviewInv, NEW g \in Review!Saves, NEW says \in Answered,
         Review!Answer(g, says)
  PROVE  /\ g \in 0..MaxLoads["review"] /\ requests[g] # Absent
         /\ requests[g] \in SaveRequests
         /\ requests' \in [0..MaxLoads["review"] -> SaveRequests \cup {Absent}]
         /\ requests'[g] \in SaveRequests
         /\ requests'[g].expected = requests[g].expected
         /\ requests'[g].changes = requests[g].changes
         /\ requests'[g].snapshot = requests[g].snapshot
         /\ requests'[g].answer = says
         /\ \A o \in 0..MaxLoads["review"] :
              o # g => requests'[o] = requests[o]
  <1>1. requests \in [0..MaxLoads["review"] -> SaveRequests \cup {Absent}]
    BY DEF ReviewInv, ReviewShape
  <1>2. /\ g \in 0..MaxLoads["review"] /\ requests[g] # Absent
        /\ requests[g] \in SaveRequests
    BY <1>1 DEF Review!Saves
  <1>3. requests' = [requests EXCEPT ![g].answer = says]
    BY DEF Review!Answer
  <1>4. requests'[g] = [requests[g] EXCEPT !.answer = says]
    BY <1>1, <1>2, <1>3
  <1> QED
    BY <1>1, <1>2, <1>3, <1>4 DEF SaveRequests

\* A save that is accepted makes the record that of its snapshot, if the page
\* was up to date; any other page is not, from now on.
LEMMA CommitKeeps ==
  ASSUME ReviewInv, NEW g \in Review!Saves, Review!CommitSave(g)
  PROVE  ReviewInv'
  <1> DEFINE r == requests[g]
  <1>1. /\ r # Absent /\ exists /\ revision = r.expected
        /\ revision' = revision + 1
        /\ record' = Review!Merged(r.changes, record)
        /\ Review!Answer(g, "saved") /\ exists' = exists
    BY DEF Review!CommitSave, Review!IsCurrent
  <1>2. PageStays
    BY DEF Review!CommitSave, PageStays, Review!page, Review!editor
  <1>3. /\ g \in 0..MaxLoads["review"] /\ r \in SaveRequests
        /\ requests' \in [0..MaxLoads["review"] -> SaveRequests \cup {Absent}]
        /\ requests'[g].expected = r.expected
        /\ requests'[g].snapshot = r.snapshot
        /\ requests'[g].answer = "saved"
        /\ \A o \in 0..MaxLoads["review"] :
             o # g => requests'[o] = requests[o]
    BY <1>1, AnswerEffect DEF Answered
  <1>4. /\ revision \in Nat /\ record \in Sheets /\ version \in Nat
        /\ rGeneration \in 0..MaxLoads["review"]
    BY DEF ReviewInv, ReviewShape
  <1>5. r.changes \in Sheets /\ r.snapshot \in Sheets /\ r.expected \in Nat
    BY <1>3 DEF SaveRequests
  <1> HIDE DEF r
  <1>6. /\ record' \in Sheets
        /\ Review!Live(record') =
             Review!Live(r.changes) \cup Review!Live(record)
        /\ \A c \in Review!Cells :
             record'[c] = IF r.changes[c] = Absent THEN record[c]
                          ELSE r.changes[c]
    BY <1>1, <1>4, <1>5, MergedIsSheet DEF Review!Merged
  <1>7. /\ version <= revision
        /\ \A o \in 0..MaxLoads["review"] : requests[o] # Absent =>
             /\ o <= rGeneration
             /\ requests[o].answer = "saved" =>
                  requests[o].expected < revision
             /\ o = rGeneration =>
                  /\ shown /\ requests[o].expected = version
                  /\ Review!Live(requests[o].snapshot)
                       \subseteq Review!Live(present)
    BY DEF ReviewInv, AskedInv
  <1>8. ReviewShape'
    BY <1>1, <1>2, <1>3, <1>4, <1>6
      DEF ReviewInv, ReviewShape, PageStays
  <1>9. ReadInv'
    BY <1>1, <1>2, <1>4 DEF ReviewInv, ReviewShape, ReadInv, RecordReads,
      PageStays
  <1>10. AskedInv'
    <2>1. \A o \in 0..MaxLoads["review"] :
            requests[o] # Absent => requests[o] \in SaveRequests
      BY DEF ReviewInv, ReviewShape
    <2>2. version' <= revision'
      BY <1>1, <1>2, <1>4, <1>7 DEF PageStays
    <2> SUFFICES ASSUME NEW o \in 0..MaxLoads["review"],
                        requests'[o] # Absent
                 PROVE  /\ o <= rGeneration
                        /\ requests'[o].answer = "saved" =>
                             requests'[o].expected < revision + 1
                        /\ o = rGeneration =>
                             /\ shown /\ requests'[o].expected = version
                             /\ Review!Live(requests'[o].snapshot)
                                  \subseteq Review!Live(present)
      BY <2>2, <1>1, <1>2 DEF AskedInv, PageStays
    <2>3. CASE o = g
      BY <2>3, <1>1, <1>3, <1>4, <1>7 DEF r
    <2>4. CASE o # g
      BY <2>1, <2>4, <1>3, <1>4, <1>7 DEF SaveRequests
    <2> QED
      BY <2>3, <2>4
  <1>11. ShownInv'
    BY <1>2 DEF ReviewInv, ShownInv, PageStays
  <1>12. UpToDateInv'
    BY <1>1, <1>2, <1>4, <1>7 DEF UpToDateInv, UpToDate, PageStays
  <1>13. CommittedInv'
    <2> SUFFICES ASSUME Committed'
                 PROVE  /\ \A c \in Review!Live(r.snapshot) :
                             record'[c] \in {r.snapshot[c], Absent}
                        /\ Review!Live(record') \subseteq
                             Review!Live(r.snapshot)
                        /\ Review!Live(present) = Review!Live(r.snapshot)
                        /\ g = rGeneration
      BY <1>2, <1>3 DEF CommittedInv, PageStays
    <2>1. /\ requests'[rGeneration] # Absent /\ shown
          /\ requests'[rGeneration].answer = "saved"
          /\ requests'[rGeneration].expected + 1 = revision + 1
      BY <1>1, <1>2 DEF Committed, PageStays
    <2>2. g = rGeneration
      <3> SUFFICES ASSUME g # rGeneration PROVE FALSE
        OBVIOUS
      <3>1. requests'[rGeneration] = requests[rGeneration]
        BY <1>3, <1>4
      <3>2. requests[rGeneration].expected < revision
        BY <2>1, <3>1, <1>4, <1>7
      <3>3. requests[rGeneration].expected \in Nat
        BY <2>1, <3>1, <1>4 DEF ReviewInv, ReviewShape, SaveRequests
      <3> QED
        BY <2>1, <3>1, <3>2, <3>3, <1>4
    <2>3. UpToDate
      BY <2>1, <2>2, <1>1, <1>3, <1>7 DEF UpToDate, r
    <2>4. /\ \A c \in Review!Live(baseline) :
               record[c] \in {baseline[c], Absent}
          /\ Review!Live(record) \subseteq Review!Live(present)
          /\ Review!Live(baseline) = Review!Live(present)
          /\ r.changes = Review!Patch(baseline, r.snapshot)
          /\ Review!Live(r.snapshot) = Review!Live(baseline)
      BY <2>2, <2>3, <1>1 DEF ReviewInv, UpToDateInv, r
    <2>5. \A c \in Review!Cells :
            r.changes[c] =
              IF baseline[c] # Absent /\ baseline[c] # r.snapshot[c]
                THEN r.snapshot[c] ELSE Absent
      BY <2>4 DEF Review!Patch
    <2> QED
      BY <2>2, <2>4, <2>5, <1>6 DEF Review!Live
  <1>14. TraceInv'
    BY <1>2, TraceKept DEF ReviewInv, PageStays
  <1> QED
    BY <1>8, <1>9, <1>10, <1>11, <1>12, <1>13, <1>14 DEF ReviewInv

\* A save that is refused changes nothing.
LEMMA RefuseKeeps ==
  ASSUME ReviewInv, NEW g \in Review!Saves, Review!RefuseSave(g)
  PROVE  ReviewInv'
  <1>1. /\ PageStays /\ exists' = exists /\ revision' = revision
        /\ record' = record
    BY DEF Review!RefuseSave, PageStays, Review!page, Review!editor,
      Review!database
  <1>2. PICK says \in Answered : says # "saved" /\ Review!Answer(g, says)
    BY DEF Review!RefuseSave, Answered
  <1>3. /\ g \in 0..MaxLoads["review"] /\ requests[g] # Absent
        /\ requests' \in [0..MaxLoads["review"] -> SaveRequests \cup {Absent}]
        /\ requests'[g].expected = requests[g].expected
        /\ requests'[g].changes = requests[g].changes
        /\ requests'[g].snapshot = requests[g].snapshot
        /\ requests'[g].answer # "saved"
        /\ \A o \in 0..MaxLoads["review"] :
             o # g => requests'[o] = requests[o]
    BY <1>2, AnswerEffect
  <1>4. ReviewShape'
    BY <1>1, <1>3 DEF ReviewInv, ReviewShape, PageStays
  <1>5. ReadInv' /\ ShownInv'
    BY <1>1 DEF ReviewInv, ReadInv, ShownInv, PageStays
  <1>6. AskedInv'
    BY <1>1, <1>3 DEF ReviewInv, AskedInv, PageStays
  <1>7. rGeneration \in 0..MaxLoads["review"]
    BY DEF ReviewInv, ReviewShape
  <1>8. UpToDateInv'
    BY <1>1, <1>3, <1>7 DEF ReviewInv, UpToDateInv, UpToDate, PageStays
  <1>9. CommittedInv'
    BY <1>1, <1>3, <1>7 DEF ReviewInv, CommittedInv, Committed, PageStays
  <1>10. TraceInv'
    BY <1>1, TraceKept DEF ReviewInv, PageStays
  <1> QED
    BY <1>4, <1>5, <1>6, <1>8, <1>9, <1>10 DEF ReviewInv

\* An answer that is not for this page, or that refuses, ends its save.
LEMMA EndedKeeps ==
  ASSUME ReviewInv, PageStays, exists' = exists, revision' = revision,
         record' = record, NEW g \in Review!Saves,
         requests' = [requests EXCEPT ![g] = Absent]
  PROVE  ReviewInv'
  <1>1. /\ requests \in [0..MaxLoads["review"] -> SaveRequests \cup {Absent}]
        /\ rGeneration \in 0..MaxLoads["review"]
    BY DEF ReviewInv, ReviewShape
  <1>2. /\ requests' \in [0..MaxLoads["review"] -> SaveRequests \cup {Absent}]
        /\ \A o \in 0..MaxLoads["review"] :
             requests'[o] # Absent => requests'[o] = requests[o]
    BY <1>1
  <1>3. ReviewShape'
    BY <1>2 DEF ReviewInv, ReviewShape, PageStays
  <1>4. ReadInv' /\ ShownInv'
    BY DEF ReviewInv, ReadInv, ShownInv, PageStays
  <1>5. AskedInv'
    BY <1>2 DEF ReviewInv, AskedInv, PageStays
  <1>6. UpToDateInv'
    BY <1>1, <1>2 DEF ReviewInv, UpToDateInv, UpToDate, PageStays
  <1>7. CommittedInv'
    BY <1>1, <1>2 DEF ReviewInv, CommittedInv, Committed, PageStays
  <1>8. TraceInv'
    BY TraceKept DEF ReviewInv, PageStays
  <1> QED
    BY <1>3, <1>4, <1>5, <1>6, <1>7, <1>8 DEF ReviewInv

\* A save that was accepted becomes the baseline; what was edited meanwhile
\* becomes the past.
LEMMA SavedKeeps ==
  ASSUME ReviewInv, NEW g \in Review!Saves, Review!Saved(g)
  PROVE  ReviewInv'
  <1> DEFINE saved == requests[g].snapshot
             edits == Review!CommandsBetween(saved, present)
  <1>1. /\ requests[g] # Absent /\ requests[g].answer = "saved"
        /\ requests' = [requests EXCEPT ![g] = Absent]
        /\ exists' = exists /\ revision' = revision /\ record' = record
        /\ rGeneration' = rGeneration /\ reading' = reading
        /\ shown' = shown /\ present' = present /\ pages' = pages
    BY DEF Review!Saved, Review!database
  <1>2. CASE g # rGeneration
    <2>1. PageStays
      BY <1>1, <1>2 DEF Review!Saved, PageStays
    <2> QED
      BY <1>1, <2>1, EndedKeeps
  <1>3. CASE g = rGeneration
    <2>1. /\ version' = requests[g].expected + 1
          /\ baseline' = saved /\ past' = edits /\ future' = <<>>
          /\ dirty' = (edits # <<>>)
      BY <1>3 DEF Review!Saved, Review!SavedSnapshot
    <2>2. /\ requests \in [0..MaxLoads["review"] ->
                             SaveRequests \cup {Absent}]
          /\ g \in 0..MaxLoads["review"]
          /\ revision \in Nat /\ present \in Sheets
      BY DEF ReviewInv, ReviewShape, Review!Saves
    <2>3. requests[g] \in SaveRequests
      BY <1>1, <2>2
    <2>4. saved \in Sheets /\ requests[g].expected \in Nat
      BY <2>3 DEF SaveRequests
    <2>5. /\ Review!Live(saved) \subseteq Review!Live(present)
          /\ requests[g].expected < revision /\ shown
          /\ requests[g].expected = version
      BY <1>1, <1>3, <2>2 DEF ReviewInv, AskedInv
    <2> HIDE DEF saved
    <2>6. /\ edits \in Seq(Corrections)
          /\ Review!Live(saved) = Review!Live(present)
               /\ Review!Differ(saved, present) => edits # <<>>
          /\ \E sheets :
               /\ \A k \in 0..Len(edits) :
                    /\ sheets[k] \in Sheets
                    /\ Review!Live(sheets[k]) = Review!Live(present)
               /\ sheets[Len(edits)] = present
               /\ \A c \in Review!Live(saved) : sheets[0][c] = saved[c]
               /\ \A k \in 1..Len(edits) :
                    Leads(sheets[k - 1], edits[k], sheets[k])
      BY <2>2, <2>4, <2>5, BetweenLeads
    <2> HIDE DEF edits
    <2>7. /\ requests' \in [0..MaxLoads["review"] ->
                              SaveRequests \cup {Absent}]
          /\ requests'[rGeneration] = Absent
          /\ \A o \in 0..MaxLoads["review"] :
               requests'[o] # Absent =>
                 requests'[o] = requests[o] /\ o # rGeneration
      BY <1>1, <1>3, <2>2
    <2>8. ReviewShape'
      BY <1>1, <2>1, <2>4, <2>6, <2>7 DEF ReviewInv, ReviewShape
    <2>9. ReadInv'
      BY <1>1 DEF ReviewInv, ReadInv
    <2>10. AskedInv'
      <3>1. version' <= revision'
        BY <1>1, <2>1, <2>2, <2>4, <2>5
      <3> QED
        BY <3>1, <1>1, <2>7 DEF ReviewInv, AskedInv
    <2>11. ShownInv'
      BY <1>1, <2>1, <2>5 DEF ReviewInv, ShownInv
    <2>12. UpToDateInv'
      <3> SUFFICES ASSUME UpToDate'
                   PROVE  /\ \A c \in Review!Live(saved) :
                               record[c] \in {saved[c], Absent}
                          /\ Review!Live(record) \subseteq
                               Review!Live(present)
                          /\ Review!Live(saved) = Review!Live(present)
        BY <1>1, <2>1, <2>6, <2>7 DEF UpToDateInv
      <3>1. Committed
        BY <1>1, <1>3, <2>1, <2>5 DEF UpToDate, Committed
      <3> QED
        BY <3>1, <1>3 DEF ReviewInv, CommittedInv, saved
    <2>13. CommittedInv'
      BY <1>1, <2>7 DEF CommittedInv, Committed
    <2>14. TraceInv'
      <3>1. PICK sheets :
               /\ \A k \in 0..Len(edits) :
                    /\ sheets[k] \in Sheets
                    /\ Review!Live(sheets[k]) = Review!Live(present)
               /\ sheets[Len(edits)] = present
               /\ \A c \in Review!Live(saved) : sheets[0][c] = saved[c]
               /\ \A k \in 1..Len(edits) :
                    Leads(sheets[k - 1], edits[k], sheets[k])
        BY <2>6
      <3>2. /\ Len(past') = Len(edits) /\ Len(future') = 0 /\ 1..0 = {}
            /\ Len(edits) \in Nat
        BY <2>1, <2>6
      <3>3. Len(past') + Len(future') = Len(edits)
        BY <3>2
      <3>4. Traced(sheets)'
        BY <1>1, <2>1, <3>1, <3>2, <3>3 DEF Traced
      <3> QED
        BY <3>4 DEF TraceInv
    <2> QED
      BY <2>8, <2>9, <2>10, <2>11, <2>12, <2>13, <2>14 DEF ReviewInv
  <1> QED
    BY <1>2, <1>3

\* A refusal leaves the page as it is.
LEMMA NotSavedKeeps ==
  ASSUME ReviewInv, NEW g \in Review!Saves, Review!NotSaved(g)
  PROVE  ReviewInv'
  <1>1. /\ PageStays /\ exists' = exists /\ revision' = revision
        /\ record' = record /\ requests' = [requests EXCEPT ![g] = Absent]
    BY DEF Review!NotSaved, PageStays, Review!database
  <1> QED
    BY <1>1, EndedKeeps

\* After another transcript, or without the Session, no page is up to date
\* and no save counts.
LEMMA ElsewhereKeeps ==
  ASSUME ReviewInv, Review!Retranscribe \/ Review!DeleteMeeting
  PROVE  ReviewInv'
  <1>1. /\ PageStays /\ requests' = requests
        /\ exists' => revision' = revision + 1
        /\ revision' \in {revision, revision + 1}
    BY DEF Review!Retranscribe, Review!DeleteMeeting, PageStays,
      Review!page, Review!editor
  <1>2. record \in Sheets /\ revision \in Nat /\ version \in Nat
        /\ version <= revision
    BY DEF ReviewInv, ReviewShape, AskedInv
  <1>3. record' \in Sheets
    <2>1. CASE Review!DeleteMeeting
      BY <2>1, NothingIsSheet DEF Review!DeleteMeeting
    <2>2. CASE Review!Retranscribe
      <3>1. PICK who \in [Transcripts[current + 1] -> People] :
              record' = [c \in Review!Cells |->
                CASE c[1] = "name" ->
                        IF \E b \in DOMAIN who : who[b] = c[2]
                        THEN Review!Merged(record,
                               [d \in Review!Cells |-> Called])[c]
                        ELSE record[c]
                  [] c[1] = "text" ->
                        IF c[2] \in DOMAIN who THEN Heard ELSE Absent
                  [] c[1] = "who" ->
                        IF c[2] \in DOMAIN who THEN who[c[2]] ELSE Absent]
        BY <2>2 DEF Review!Retranscribe
      <3>2. \A c \in Review!Cells : c[1] \in {"name", "text", "who"}
        BY DEF Review!Cells, Review!NameCells, Review!PassageCells
      <3>3. \A c \in Review!Cells :
              /\ Review!Merged(record, [d \in Review!Cells |-> Called])[c]
                   \in ReviewValues \cup {Absent}
              /\ record[c] \in ReviewValues \cup {Absent}
        BY <1>2, ReviewAssumption DEF Review!Merged, Sheets, ReviewValues
      <3>4. \A c \in Review!Cells :
              record'[c] \in ReviewValues \cup {Absent}
        <4> SUFFICES ASSUME NEW c \in Review!Cells
                     PROVE  record'[c] \in ReviewValues \cup {Absent}
          OBVIOUS
        <4>1. CASE c[1] = "name"
          BY <4>1, <3>1, <3>3
        <4>2. CASE c[1] = "text"
          BY <4>2, <3>1, ReviewAssumption DEF ReviewValues
        <4>3. CASE c[1] = "who"
          BY <4>3, <3>1 DEF ReviewValues
        <4> QED
          BY <4>1, <4>2, <4>3, <3>2
      <3> QED
        BY <3>1, <3>4 DEF Sheets
    <2> QED
      BY <2>1, <2>2
  <1>4. ReviewShape'
    BY <1>1, <1>2, <1>3 DEF ReviewInv, ReviewShape, PageStays
  <1>5. ReadInv'
    BY <1>1, <1>2 DEF ReviewInv, ReviewShape, ReadInv, RecordReads,
      PageStays
  <1>6. \A g \in 0..MaxLoads["review"] : requests[g] # Absent =>
          requests[g].expected \in Nat
    BY DEF ReviewInv, ReviewShape, SaveRequests
  <1>7. AskedInv'
    BY <1>1, <1>2, <1>6 DEF ReviewInv, AskedInv, PageStays
  <1>8. ShownInv'
    BY <1>1 DEF ReviewInv, ShownInv, PageStays
  <1>9. UpToDateInv'
    BY <1>1, <1>2 DEF UpToDateInv, UpToDate, PageStays
  <1>10. CommittedInv'
    <2>1. rGeneration \in 0..MaxLoads["review"]
      BY DEF ReviewInv, ReviewShape
    <2>2. requests[rGeneration] # Absent
            /\ requests[rGeneration].answer = "saved" =>
          requests[rGeneration].expected + 1 < revision + 1
      BY <2>1, <1>2, <1>6 DEF ReviewInv, AskedInv
    <2>3. ~Committed'
      <3>1. ASSUME Committed' PROVE FALSE
        <4>1. /\ requests[rGeneration] # Absent
              /\ requests[rGeneration].answer = "saved"
              /\ requests[rGeneration].expected + 1 = revision + 1
          BY <3>1, <1>1 DEF Committed, PageStays
        <4> QED
          BY <4>1, <2>1, <2>2, <1>2, <1>6
      <3> QED
        BY <3>1
    <2> QED
      BY <2>3 DEF CommittedInv
  <1>11. TraceInv'
    BY <1>1, TraceKept DEF ReviewInv, PageStays
  <1> QED
    BY <1>4, <1>5, <1>7, <1>8, <1>9, <1>10, <1>11 DEF ReviewInv

\* The step of the editor or of the database, whatever it is.
LEMMA ReviewStep ==
  ASSUME ReviewInv, [Review!Next]_reviewVars
  PROVE  ReviewInv'
  <1>1. CASE UNCHANGED reviewVars
    <2>1. ReadMoves /\ reading' = reading
      BY <1>1 DEF reviewVars, ReadMoves
    <2> QED
      BY <2>1, ReadMovesKeeps DEF ReviewInv, ReviewShape, ReadInv, ReadMoves
  <1>2. CASE Review!OpenPage \/ Review!Reload
    BY <1>2, LoadKeeps
  <1>3. CASE Review!ReadVersion \/ Review!ReadParticipants
               \/ Review!ReadFails
    BY <1>3, ReadingKeeps
  <1>4. CASE Review!ReadTranscripts
    BY <1>4, TakingKeeps
  <1>5. CASE Review!MorePassages
    BY <1>5, PassagesEffect, PassagesKeep
  <1>6. ASSUME NEW c \in Review!Cells, NEW v \in Review!Values(c),
               Review!Edit(c, v)
        PROVE  ReviewInv'
    BY <1>6, EditEffect, EditingKeeps
  <1>7. CASE Review!Undo
    BY <1>7, UndoEffect, EditingKeeps
  <1>8. CASE Review!Redo
    BY <1>8, RedoEffect, EditingKeeps
  <1>9. CASE Review!Save
    BY <1>9, SaveKeeps
  <1>10. ASSUME NEW g \in Review!Saves,
                \/ Review!CommitSave(g) \/ Review!RefuseSave(g)
                \/ Review!Saved(g) \/ Review!NotSaved(g)
         PROVE  ReviewInv'
    BY <1>10, CommitKeeps, RefuseKeeps, SavedKeeps, NotSavedKeeps
  <1>11. CASE Review!Retranscribe \/ Review!DeleteMeeting
    BY <1>11, ElsewhereKeeps
  <1> QED
    BY <1>1, <1>2, <1>3, <1>4, <1>5, <1>6, <1>7, <1>8, <1>9, <1>10, <1>11
      DEF Review!Next

\* What the invariant says of the page.
LEMMA ReviewIsSafe ==
  ASSUME ReviewInv
  PROVE  /\ Review!SavesReplaceWhatWasShown
         /\ Review!NothingUnsavedLooksSaved
         /\ Review!UndoLeadsBack
  <1>1. Review!SavesReplaceWhatWasShown
    BY DEF ReviewInv, UpToDateInv, UpToDate, Review!SavesReplaceWhatWasShown
  <1>2. Review!NothingUnsavedLooksSaved
    <2> SUFFICES ASSUME UpToDate, ~dirty, NEW c \in Review!Live(present)
                 PROVE  record[c] \in {present[c], Absent}
      BY DEF Review!NothingUnsavedLooksSaved, UpToDate
    <2>1. /\ c \in Review!Live(baseline) /\ ~Review!Differ(baseline, present)
          /\ record[c] \in {baseline[c], Absent}
      BY DEF ReviewInv, UpToDateInv
    <2> QED
      BY <2>1 DEF Review!Differ
  <1>3. Review!UndoLeadsBack
    <2> SUFFICES ASSUME shown
                 PROVE  \A c \in Review!Live(baseline) :
                          Review!Undone(present, past)[c] = baseline[c]
      BY DEF Review!UndoLeadsBack
    <2>1. PICK sheets : Traced(sheets)
      BY DEF ReviewInv, TraceInv
    <2>2. /\ past \in Seq(Corrections) /\ Len(past) \in Nat
          /\ Len(future) \in Nat
      BY DEF ReviewInv, ReviewShape
    <2>3. /\ \A k \in 0..Len(past) : sheets[k] \in Sheets
          /\ \A k \in 1..Len(past) : Leads(sheets[k - 1], past[k], sheets[k])
          /\ sheets[Len(past)] = present
          /\ \A c \in Review!Live(baseline) : sheets[0][c] = baseline[c]
      <3>1. \A k \in 0..Len(past) : k \in 0..Len(past) + Len(future)
        BY <2>2
      <3> QED
        BY <2>1, <3>1 DEF Traced
    <2>4. Review!Undone(present, past) = sheets[0]
      BY <2>2, <2>3, UndoneIsFirst
    <2> QED
      BY <2>3, <2>4
  <1> QED
    BY <1>1, <1>2, <1>3

\* A save replaces nothing that its user was not shown, an editor with nothing
\* left to save shows what is stored, and undoing all leads back to what is
\* saved (PrincipalRecordRepository::save, useReviewRecord,
\* reviewRecordReducer).
THEOREM EditsStaySafe == LibrarySpec => []EditsAreSafe
  <1> DEFINE Inv == component = "review" => ReviewInv
  <1>1. LibraryInit => Inv
    BY ReviewBegins DEF LibraryInit, CredentialsInit, DatabaseInit,
      ReviewInit, PagesInit, HandoffInit, SetupInit, LanguagesInit
  <1>2. Inv /\ [LibraryNext]_everything => Inv'
    <2> SUFFICES ASSUME Inv, [LibraryNext]_everything,
                        component' = "review"
                 PROVE  ReviewInv'
      OBVIOUS
    <2>1. [Review!Next]_reviewVars /\ component = "review"
      BY DEF LibraryNext, everything, CredentialsNext, DatabaseNext,
        ReviewNext, PagesNext, HandoffNext, SetupNext, LanguagesNext
    <2> QED
      BY <2>1, ReviewStep
  <1>3. Inv => EditsAreSafe
    BY ReviewIsSafe DEF EditsAreSafe
  <1> QED
    BY <1>1, <1>2, <1>3, PTL DEF LibrarySpec

-----------------------------------------------------------------------------
(* The pages of a transcript.  A load is asked for as long as no later     *)
(* reset has its number: while nothing disturbs them there is one such     *)
(* load at a time, so that what it adds begins where the offset is.        *)

\* A page of a transcript, from a place that it reaches or not.
LEMMA PageFacts ==
  ASSUME NEW s \in Seq(Pages!Passages), NEW n \in Nat
  PROVE  LET p == Pages!Page(s, n)
         IN  /\ p \in Seq(Pages!Passages)
             /\ n <= Len(s) => n + Len(p) <= Len(s)
             /\ \A i \in 1..Len(p) : p[i] = s[n + i]
  <1> DEFINE last == IF n + PageSize < Len(s) THEN n + PageSize ELSE Len(s)
  <1>1. /\ Len(s) \in Nat /\ last \in Nat /\ last <= Len(s)
        /\ n <= Len(s) => n <= last
        /\ n + 1 \in Int
    BY PagesAssumption, LenProperties
  <1>2. \A i \in (n + 1)..last : s[i] \in Pages!Passages
    BY <1>1, ElementOfSeq
  <1> HIDE DEF last
  <1>3. /\ SubSeq(s, n + 1, last) \in Seq(Pages!Passages)
        /\ Len(SubSeq(s, n + 1, last)) =
             IF n + 1 <= last THEN last - (n + 1) + 1 ELSE 0
        /\ \A i \in 1..(last - (n + 1) + 1) :
             SubSeq(s, n + 1, last)[i] = s[(n + 1) + i - 1]
    BY <1>1, <1>2, SubSeqProperties
  <1>4. Pages!Page(s, n) = SubSeq(s, n + 1, last)
    BY DEF Pages!Page, last
  <1>5. Len(SubSeq(s, n + 1, last)) = IF n < last THEN last - n ELSE 0
    BY <1>1, <1>3
  <1>6. ASSUME NEW k \in 1..Len(SubSeq(s, n + 1, last))
        PROVE  SubSeq(s, n + 1, last)[k] = s[n + k]
    <2>1. k \in 1..(last - (n + 1) + 1) /\ (n + 1) + k - 1 = n + k
      BY <1>1, <1>5
    <2> QED
      BY <2>1, <1>3
  <1>7. n <= Len(s) => n + Len(SubSeq(s, n + 1, last)) <= Len(s)
    BY <1>1, <1>5
  <1> QED
    BY <1>3, <1>4, <1>6, <1>7

\* The rows of a Session are a sequence, of the length that a count says.
LEMMA RowsFacts ==
  ASSUME Pages!Shape, NEW m \in Meetings
  PROVE  /\ Pages!Rows(m) \in Seq(Pages!Passages)
         /\ Len(Pages!Rows(m)) \in Nat
         /\ \A l \in DOMAIN loads : loads[l] \in Pages!Loads
         /\ DOMAIN loads = 1..Len(loads) /\ Len(loads) \in Nat
  <1>1. Pages!Rows(m) \in Seq(Pages!Passages)
    BY EmptySeq DEF Pages!Shape, Pages!Rows, Pages!HasRow
  <1>2. loads \in Seq(Pages!Loads)
    BY DEF Pages!Shape
  <1> QED
    BY <1>1, <1>2, LenProperties, ElementOfSeq

\* The loads are records, numbered from one.
LEMMA LoadFacts ==
  ASSUME Pages!Shape
  PROVE  /\ \A l \in DOMAIN loads : loads[l] \in Pages!Loads
         /\ DOMAIN loads = 1..Len(loads) /\ Len(loads) \in Nat
  <1>1. loads \in Seq(Pages!Loads)
    BY DEF Pages!Shape
  <1> QED
    BY <1>1, LenProperties, ElementOfSeq

\* The number of the last reset.
LEMMA EpochFacts ==
  ASSUME Pages!Shape
  PROVE  /\ IsFiniteSet({k \in DOMAIN loads : loads[k].kind = "first"})
         /\ Pages!Epoch \in Nat
  <1>1. IsFiniteSet(DOMAIN loads)
    BY LoadFacts, FS_Interval
  <1>2. {k \in DOMAIN loads : loads[k].kind = "first"} \in SUBSET DOMAIN loads
    OBVIOUS
  <1>3. IsFiniteSet({k \in DOMAIN loads : loads[k].kind = "first"})
    BY <1>1, <1>2, FS_Subset
  <1>4. Cardinality({k \in DOMAIN loads : loads[k].kind = "first"}) \in Nat
    BY <1>3, FS_CardinalityType
  <1> QED
    BY <1>3, <1>4 DEF Pages!Epoch, Pages!Cardinality, Cardinality

\* One more load: the first of a new reset, or a further page of the last one.
LEMMA AppendedLoad ==
  ASSUME Pages!Shape, NEW entry \in Pages!Loads, loads' = Append(loads, entry)
  PROVE  /\ loads' \in Seq(Pages!Loads)
         /\ DOMAIN loads' = 1..(Len(loads) + 1)
         /\ loads'[Len(loads) + 1] = entry
         /\ \A l \in DOMAIN loads : l \in DOMAIN loads' /\ loads'[l] = loads[l]
         /\ \A l \in DOMAIN loads' : l \in DOMAIN loads \/ l = Len(loads) + 1
         /\ Pages!Epoch' = IF entry.kind = "first" THEN Pages!Epoch + 1
                                                  ELSE Pages!Epoch
  <1>1. /\ loads' \in Seq(Pages!Loads)
        /\ DOMAIN loads' = 1..(Len(loads) + 1)
        /\ loads'[Len(loads) + 1] = entry
        /\ \A l \in DOMAIN loads : l \in DOMAIN loads' /\ loads'[l] = loads[l]
        /\ \A l \in DOMAIN loads' : l \in DOMAIN loads \/ l = Len(loads) + 1
        /\ Len(loads) + 1 \notin DOMAIN loads
    <2>1. loads \in Seq(Pages!Loads)
      BY DEF Pages!Shape
    <2>2. /\ loads' \in Seq(Pages!Loads)
          /\ Len(loads') = Len(loads) + 1
          /\ \A l \in 1..Len(loads) : loads'[l] = loads[l]
          /\ loads'[Len(loads) + 1] = entry
      BY <2>1, AppendProperties
    <2>3. DOMAIN loads' = 1..Len(loads')
      BY <2>2, LenProperties
    <2> QED
      BY <2>2, <2>3, LoadFacts
  <1> DEFINE firsts == {k \in DOMAIN loads : loads[k].kind = "first"}
  <1>2. CASE entry.kind = "first"
    <2>1. {k \in DOMAIN loads' : loads'[k].kind = "first"} =
            firsts \cup {Len(loads) + 1}
      BY <1>1, <1>2
    <2>2. Cardinality(firsts \cup {Len(loads) + 1}) = Cardinality(firsts) + 1
      BY <1>1, EpochFacts, FS_AddElement
    <2>3. /\ Pages!Epoch = Cardinality(firsts)
          /\ Pages!Epoch' =
               Cardinality({k \in DOMAIN loads' : loads'[k].kind = "first"})
      BY DEF Pages!Epoch, Pages!Cardinality, Cardinality
    <2> QED
      BY <1>1, <1>2, <2>1, <2>2, <2>3
  <1>3. CASE entry.kind # "first"
    <2>1. {k \in DOMAIN loads' : loads'[k].kind = "first"} = firsts
      BY <1>1, <1>3
    <2> QED
      BY <1>1, <1>3, <2>1 DEF Pages!Epoch
  <1> QED
    BY <1>2, <1>3

\* A load goes on: only where it stands and what it has read change.
LEMMA AdvancedLoad ==
  ASSUME Pages!Shape, NEW j \in DOMAIN loads, NEW entry \in Pages!Loads,
         loads' = [loads EXCEPT ![j] = entry],
         entry.kind = loads[j].kind
  PROVE  /\ loads' \in Seq(Pages!Loads)
         /\ DOMAIN loads' = DOMAIN loads
         /\ loads'[j] = entry
         /\ \A l \in DOMAIN loads : l # j => loads'[l] = loads[l]
         /\ Pages!Epoch' = Pages!Epoch
  <1>1. loads \in Seq(Pages!Loads)
    BY DEF Pages!Shape
  <1>2. /\ loads' \in Seq(Pages!Loads)
        /\ Len(loads') = Len(loads)
        /\ \A l \in DOMAIN loads :
             loads'[l] = IF l = j THEN entry ELSE loads[l]
    BY <1>1, LoadFacts, ExceptSeq
  <1>3. DOMAIN loads' = DOMAIN loads
    BY <1>2, LenProperties, LoadFacts
  <1>4. {k \in DOMAIN loads' : loads'[k].kind = "first"} =
          {k \in DOMAIN loads : loads[k].kind = "first"}
    BY <1>2, <1>3
  <1> QED
    BY <1>2, <1>3, <1>4 DEF Pages!Epoch

\* A reset and its load.
LEMMA ResetEffect ==
  ASSUME Pages!Shape, NEW m \in Meetings, Pages!LoadFromStart(m)
  PROVE  \E entry \in Pages!Loads :
           /\ loads' = Append(loads, entry)
           /\ entry.meeting = m /\ entry.kind = "first"
           /\ entry.epoch = Pages!Epoch + 1 /\ entry.step = "metadata"
           /\ entry.offset = 0
  <1> DEFINE entry == [Pages!Load(m, "first", "metadata", 0)
                        EXCEPT !.epoch = Pages!Epoch + 1]
  <1>1. entry = [meeting |-> m, kind |-> "first", epoch |-> Pages!Epoch + 1,
                step |-> "metadata", offset |-> 0, total |-> 0, rows |-> <<>>]
    BY DEF Pages!Load
  <1> HIDE DEF entry
  <1>2. entry \in Pages!Loads
    <2>1. <<>> \in Seq(Pages!Passages)
      BY EmptySeq
    <2>2. Pages!Epoch \in Nat
      BY EpochFacts
    <2> QED
      BY <1>1, <2>1, <2>2 DEF Pages!Loads
  <1>3. loads' = Append(loads, entry)
    BY DEF Pages!LoadFromStart, entry
  <1> QED
    BY <1>1, <1>2, <1>3

\* A further page is asked for.
LEMMA MoreEffect ==
  ASSUME Pages!Shape, Pages!LoadMore, meetingId \in Meetings
  PROVE  \E entry \in Pages!Loads :
           /\ loads' = Append(loads, entry)
           /\ entry.meeting = meetingId /\ entry.kind = "more"
           /\ entry.epoch = Pages!Epoch /\ entry.step = "count"
           /\ entry.offset = offset
  <1> DEFINE entry == Pages!Load(meetingId, "more", "count", offset)
  <1>1. entry = [meeting |-> meetingId, kind |-> "more",
                epoch |-> Pages!Epoch, step |-> "count", offset |-> offset,
                total |-> 0, rows |-> <<>>]
    BY DEF Pages!Load
  <1> HIDE DEF entry
  <1>2. entry \in Pages!Loads
    <2>1. <<>> \in Seq(Pages!Passages)
      BY EmptySeq
    <2>2. Pages!Epoch \in Nat /\ offset \in Nat
      BY EpochFacts DEF Pages!Shape
    <2> QED
      BY <1>1, <2>1, <2>2 DEF Pages!Loads
  <1>3. loads' = Append(loads, entry)
    BY DEF Pages!LoadMore, entry
  <1> QED
    BY <1>1, <1>2, <1>3

\* What the steps of a load make of it.
LEMMA MetadataEffect ==
  ASSUME Pages!Shape, NEW k \in DOMAIN loads, Pages!LoadMetadata(k)
  PROVE  \E entry \in Pages!Loads :
           /\ loads' = [loads EXCEPT ![k] = entry]
           /\ entry.meeting = loads[k].meeting /\ entry.kind = loads[k].kind
           /\ entry.epoch = loads[k].epoch /\ entry.offset = loads[k].offset
           /\ entry.step = "count"
  <1> DEFINE entry == [loads[k] EXCEPT !.step = "count"]
  <1>1. loads[k] \in Pages!Loads
    BY LoadFacts
  <1>2. loads' = [loads EXCEPT ![k] = entry]
    BY DEF Pages!LoadMetadata
  <1>3. /\ entry \in Pages!Loads
        /\ entry.meeting = loads[k].meeting /\ entry.kind = loads[k].kind
        /\ entry.epoch = loads[k].epoch /\ entry.offset = loads[k].offset
        /\ entry.step = "count"
    BY <1>1 DEF Pages!Loads
  <1> QED
    BY <1>2, <1>3

\* ... the count, ...
LEMMA CountEffect ==
  ASSUME Pages!Shape, NEW k \in DOMAIN loads, Pages!CountRows(k)
  PROVE  \E entry \in Pages!Loads :
           /\ loads' = [loads EXCEPT ![k] = entry]
           /\ entry.meeting = loads[k].meeting /\ entry.kind = loads[k].kind
           /\ entry.epoch = loads[k].epoch /\ entry.offset = loads[k].offset
           /\ entry.step = "rows"
           /\ entry.total = Len(Pages!Rows(loads[k].meeting))
  <1> DEFINE entry == [loads[k] EXCEPT
                        !.step = "rows",
                        !.total = Len(Pages!Rows(loads[k].meeting))]
  <1>1. loads[k] \in Pages!Loads /\ loads[k].meeting \in Meetings
    BY LoadFacts DEF Pages!Loads
  <1>2. Len(Pages!Rows(loads[k].meeting)) \in Nat
    BY <1>1, RowsFacts
  <1>3. loads' = [loads EXCEPT ![k] = entry]
    BY DEF Pages!CountRows
  <1>4. /\ entry \in Pages!Loads
        /\ entry.meeting = loads[k].meeting /\ entry.kind = loads[k].kind
        /\ entry.epoch = loads[k].epoch /\ entry.offset = loads[k].offset
        /\ entry.step = "rows"
        /\ entry.total = Len(Pages!Rows(loads[k].meeting))
    BY <1>1, <1>2 DEF Pages!Loads
  <1> QED
    BY <1>3, <1>4

\* ... the page, ...
LEMMA RowsEffect ==
  ASSUME Pages!Shape, NEW k \in DOMAIN loads, Pages!ReadRows(k)
  PROVE  \E entry \in Pages!Loads :
           /\ loads' = [loads EXCEPT ![k] = entry]
           /\ entry.meeting = loads[k].meeting /\ entry.kind = loads[k].kind
           /\ entry.epoch = loads[k].epoch /\ entry.offset = loads[k].offset
           /\ entry.step = "answer"
           /\ entry.total = loads[k].total
           /\ entry.rows = Pages!Page(Pages!Rows(loads[k].meeting),
                                     loads[k].offset)
  <1> DEFINE page == Pages!Page(Pages!Rows(loads[k].meeting),
                                loads[k].offset)
             entry == [loads[k] EXCEPT !.step = "answer", !.rows = page]
  <1>1. /\ loads[k] \in Pages!Loads /\ loads[k].meeting \in Meetings
        /\ loads[k].offset \in Nat
    BY LoadFacts DEF Pages!Loads
  <1>2. page \in Seq(Pages!Passages)
    BY <1>1, RowsFacts, PageFacts
  <1>3. loads' = [loads EXCEPT ![k] = entry]
    BY DEF Pages!ReadRows
  <1> HIDE DEF page
  <1>4. /\ entry \in Pages!Loads
        /\ entry.meeting = loads[k].meeting /\ entry.kind = loads[k].kind
        /\ entry.epoch = loads[k].epoch /\ entry.offset = loads[k].offset
        /\ entry.step = "answer" /\ entry.total = loads[k].total
        /\ entry.rows = page
    BY <1>1, <1>2 DEF Pages!Loads
  <1> QED
    BY <1>3, <1>4 DEF page

\* ... and what its end does.
LEMMA EndEffect ==
  ASSUME Pages!Shape, NEW k \in DOMAIN loads, Pages!Ended(k)
  PROVE  /\ \E entry \in Pages!Loads :
              /\ loads' = [loads EXCEPT ![k] = entry]
              /\ entry.meeting = loads[k].meeting
              /\ entry.kind = loads[k].kind
              /\ entry.epoch = loads[k].epoch
              /\ entry.offset = loads[k].offset
              /\ entry.step = "ended"
         /\ loads[k].kind = "more" => UNCHANGED isLoading
         /\ loads[k].kind = "first" => UNCHANGED loadingMore
  <1> DEFINE entry == [loads[k] EXCEPT !.step = "ended", !.total = 0,
                                      !.rows = <<>>]
  <1>1. loads[k] \in Pages!Loads
    BY LoadFacts
  <1>2. entry \in Pages!Loads
    BY <1>1, EmptySeq DEF Pages!Loads
  <1>3. loads' = [loads EXCEPT ![k] = entry]
    BY DEF Pages!Ended
  <1>4. /\ entry.meeting = loads[k].meeting /\ entry.kind = loads[k].kind
        /\ entry.epoch = loads[k].epoch /\ entry.offset = loads[k].offset
        /\ entry.step = "ended"
    BY <1>1 DEF Pages!Loads
  <1>5. /\ loads[k].kind = "more" => UNCHANGED isLoading
        /\ loads[k].kind = "first" => UNCHANGED loadingMore
    BY DEF Pages!Ended
  <1> QED
    BY <1>2, <1>3, <1>4, <1>5

\* Nothing that is asked for or shown changes, unless it was disturbed.
LEMMA PagesMove ==
  ASSUME Pages!IInv, Pages!Shape',
         UNCHANGED <<meetingId, transcripts, hasMore, offset, isLoading,
                     loadingMore, error, loads>>,
         undisturbed' => /\ undisturbed
                         /\ meetingId # None =>
                              Pages!Rows(meetingId)' = Pages!Rows(meetingId)
  PROVE  Pages!IInv'
  <1> USE DEF Pages!IInv
  <1>1. Pages!Epoch' = Pages!Epoch
    BY DEF Pages!Epoch
  <1>2. \A k : /\ Pages!StillAsked(k)' = Pages!StillAsked(k)
               /\ Pages!Live(k)' = Pages!Live(k)
    BY <1>1 DEF Pages!StillAsked, Pages!Live
  <1>3. Pages!EpochsAreReached' /\ Pages!LoadsAreOfTheirMeeting'
    BY <1>1, <1>2 DEF Pages!EpochsAreReached, Pages!LoadsAreOfTheirMeeting
  <1>4. Pages!OneLoad'
    BY <1>2 DEF Pages!OneLoad
  <1>5. Pages!ReadsAreWhole'
    BY <1>2 DEF Pages!ReadsAreWhole, Pages!Page
  <1>6. Pages!OffsetIsReached'
    BY DEF Pages!OffsetIsReached
  <1>7. Pages!PagesAreWhole'
    BY DEF Pages!PagesAreWhole
  <1> QED
    BY <1>3, <1>4, <1>5, <1>6, <1>7

\* A transcript is written or replaced: what is read from now on is another.
LEMMA PagesStore ==
  ASSUME Pages!IInv, NEW m \in Meetings, NEW n \in Lengths, Pages!Store(m, n),
         UNCHANGED <<Pages!hook, loads>>
  PROVE  Pages!IInv'
  <1> USE DEF Pages!IInv, Pages!hook, Pages!shownState
  <1>1. /\ stored \in [Meetings -> Seq(Pages!Passages) \cup {None}]
        /\ edition \in [Meetings -> Nat] /\ edition[m] \in Nat
        /\ meetingId \in Meetings \cup {None}
    BY DEF Pages!Shape
  <1>2. Pages!Transcribed(m, n) \in Seq(Pages!Passages)
    <2>1. edition[m] + 1 \in 1..MaxEditions /\ n \in Nat
      BY <1>1, PagesAssumption DEF Pages!Store
    <2>2. \A i \in 1..n : <<m, edition[m] + 1, i>> \in Pages!Passages
      BY <2>1 DEF Pages!Passages
    <2> QED
      BY <2>1, <2>2, IsASeq DEF Pages!Transcribed
  <1>3. stored' = [stored EXCEPT ![m] = Pages!Transcribed(m, n)]
    BY DEF Pages!Store
  <1>4. Pages!Shape'
    <2>1. edition' \in [Meetings -> Nat]
      BY <1>1 DEF Pages!Store
    <2>2. stored' \in [Meetings -> Seq(Pages!Passages) \cup {None}]
      BY <1>1, <1>2, <1>3
    <2> QED
      BY <2>1, <2>2 DEF Pages!Shape
  <1>5. undisturbed' => undisturbed /\ m # meetingId
    BY DEF Pages!Store
  <1>6. meetingId # None /\ m # meetingId =>
          Pages!Rows(meetingId)' = Pages!Rows(meetingId)
    BY <1>1, <1>3 DEF Pages!Rows, Pages!HasRow
  <1> QED
    BY <1>4, <1>5, <1>6, PagesMove

\* A deleted Session has no passages.
LEMMA PagesDelete ==
  ASSUME Pages!IInv, NEW m \in Meetings, Pages!DeleteMeeting(m)
  PROVE  Pages!IInv'
  <1> USE DEF Pages!IInv, Pages!hook, Pages!shownState
  <1>1. /\ stored \in [Meetings -> Seq(Pages!Passages) \cup {None}]
        /\ meetingId \in Meetings \cup {None}
    BY DEF Pages!Shape
  <1>2. /\ stored' = [stored EXCEPT ![m] = None]
        /\ undisturbed' => undisturbed /\ m # meetingId
        /\ UNCHANGED <<edition, Pages!hook, loads>>
    BY DEF Pages!DeleteMeeting
  <1>3. Pages!Shape'
    BY <1>1, <1>2 DEF Pages!Shape
  <1>4. meetingId # None /\ m # meetingId =>
          Pages!Rows(meetingId)' = Pages!Rows(meetingId)
    BY <1>1, <1>2 DEF Pages!Rows, Pages!HasRow
  <1> QED
    BY <1>2, <1>3, <1>4, PagesMove

\* A reset: no earlier load is asked for any more, and nothing is shown.
LEMMA PagesReset ==
  ASSUME Pages!IInv, NEW m \in Meetings, Pages!LoadFromStart(m),
         meetingId' = m, UNCHANGED <<stored, edition>>
  PROVE  Pages!IInv'
  <1> USE DEF Pages!IInv
  <1>1. PICK entry \in Pages!Loads :
          /\ loads' = Append(loads, entry)
          /\ entry.meeting = m /\ entry.kind = "first"
          /\ entry.epoch = Pages!Epoch + 1 /\ entry.step = "metadata"
          /\ entry.offset = 0
    BY ResetEffect
  <1>2. /\ loads' \in Seq(Pages!Loads)
        /\ DOMAIN loads' = 1..(Len(loads) + 1)
        /\ loads'[Len(loads) + 1] = entry
        /\ \A l \in DOMAIN loads : l \in DOMAIN loads' /\ loads'[l] = loads[l]
        /\ \A l \in DOMAIN loads' : l \in DOMAIN loads \/ l = Len(loads) + 1
        /\ Pages!Epoch' = Pages!Epoch + 1
    BY <1>1, AppendedLoad
  <1>3. /\ transcripts' = {} /\ offset' = 0 /\ isLoading' = TRUE
    BY DEF Pages!LoadFromStart
  <1>4. Pages!Shape'
    BY <1>2, <1>3 DEF Pages!Shape
  <1>5. /\ Pages!Epoch \in Nat
        /\ \A l \in DOMAIN loads :
             loads[l].epoch \in Nat /\ loads[l].epoch <= Pages!Epoch
    BY EpochFacts, LoadFacts DEF Pages!EpochsAreReached, Pages!Loads
  <1>6. \A l \in DOMAIN loads' :
          IF l = Len(loads) + 1 THEN loads'[l] = entry
          ELSE ~Pages!StillAsked(l)' /\ loads'[l].epoch <= Pages!Epoch'
    BY <1>2, <1>5 DEF Pages!StillAsked
  <1>7. Pages!EpochsAreReached'
    BY <1>1, <1>2, <1>5, <1>6 DEF Pages!EpochsAreReached
  <1>8. Pages!LoadsAreOfTheirMeeting'
    BY <1>1, <1>6 DEF Pages!LoadsAreOfTheirMeeting
  <1>9. Pages!OneLoad'
    BY <1>1, <1>3, <1>6 DEF Pages!OneLoad, Pages!Live
  <1>10. Pages!ReadsAreWhole'
    BY <1>1, <1>6 DEF Pages!ReadsAreWhole
  <1>11. Pages!OffsetIsReached'
    <2>1. Len(Pages!Rows(m)) \in Nat
      BY RowsFacts
    <2>2. Pages!Rows(m)' = Pages!Rows(m)
      BY DEF Pages!Rows, Pages!HasRow
    <2> QED
      BY <1>3, <2>1, <2>2 DEF Pages!OffsetIsReached, Pages!Rows, Pages!HasRow
  <1>12. Pages!PagesAreWhole'
    BY <1>3 DEF Pages!PagesAreWhole
  <1> QED
    BY <1>4, <1>7, <1>8, <1>9, <1>10, <1>11, <1>12

\* A further page is asked for only when no load is under way.
LEMMA PagesMore ==
  ASSUME Pages!IInv, Pages!LoadMore
  PROVE  Pages!IInv'
  <1> USE DEF Pages!IInv
  <1>0. /\ meetingId \in Meetings /\ ~loadingMore /\ ~isLoading
        /\ UNCHANGED <<stored, edition, meetingId, transcripts, offset,
                       isLoading, undisturbed, error, hasMore>>
        /\ loadingMore'
    BY DEF Pages!LoadMore, Pages!Shape, Pages!library, Pages!shownState
  <1>1. PICK entry \in Pages!Loads :
          /\ loads' = Append(loads, entry)
          /\ entry.meeting = meetingId /\ entry.kind = "more"
          /\ entry.epoch = Pages!Epoch /\ entry.step = "count"
          /\ entry.offset = offset
    BY <1>0, MoreEffect
  <1>2. /\ loads' \in Seq(Pages!Loads)
        /\ DOMAIN loads' = 1..(Len(loads) + 1)
        /\ loads'[Len(loads) + 1] = entry
        /\ \A l \in DOMAIN loads : l \in DOMAIN loads' /\ loads'[l] = loads[l]
        /\ \A l \in DOMAIN loads' : l \in DOMAIN loads \/ l = Len(loads) + 1
        /\ Pages!Epoch' = Pages!Epoch
    BY <1>1, AppendedLoad
  <1>3. Pages!Epoch \in Nat
    BY EpochFacts
  <1>4. Pages!Shape'
    BY <1>0, <1>2 DEF Pages!Shape
  <1>5. \A l \in DOMAIN loads' :
          \/ l = Len(loads) + 1 /\ loads'[l] = entry
          \/ /\ l \in DOMAIN loads /\ loads'[l] = loads[l]
             /\ Pages!StillAsked(l)' = Pages!StillAsked(l)
             /\ Pages!Live(l)' = Pages!Live(l)
    BY <1>2 DEF Pages!StillAsked, Pages!Live
  <1>6. Pages!EpochsAreReached'
    BY <1>1, <1>2, <1>3, <1>5 DEF Pages!EpochsAreReached
  <1>7. Pages!LoadsAreOfTheirMeeting'
    BY <1>0, <1>1, <1>5 DEF Pages!LoadsAreOfTheirMeeting
  <1>8. undisturbed => \A l \in DOMAIN loads : ~Pages!Live(l)
    <2>1. meetingId # None
      BY DEF Pages!LoadMore
    <2> QED
      BY <1>0, <2>1 DEF Pages!OneLoad
  <1>9. Pages!OneLoad'
    BY <1>0, <1>1, <1>5, <1>8 DEF Pages!OneLoad
  <1>10. /\ Pages!Rows(meetingId)' = Pages!Rows(meetingId)
         /\ \A n : Pages!Page(Pages!Rows(meetingId), n)' =
                     Pages!Page(Pages!Rows(meetingId), n)
    BY <1>0 DEF Pages!Rows, Pages!HasRow, Pages!Page
  <1>11. Pages!ReadsAreWhole'
    BY <1>0, <1>1, <1>5, <1>10 DEF Pages!ReadsAreWhole
  <1>12. Pages!OffsetIsReached'
    BY <1>0, <1>10 DEF Pages!OffsetIsReached
  <1>13. Pages!PagesAreWhole'
    BY <1>0, <1>10 DEF Pages!PagesAreWhole
  <1> QED
    BY <1>4, <1>6, <1>7, <1>9, <1>11, <1>12, <1>13

\* The steps of a load that is asked for, or of an earlier one.
LEMMA PagesMetadata ==
  ASSUME Pages!IInv, NEW k \in DOMAIN loads, Pages!LoadMetadata(k)
  PROVE  Pages!IInv'
  <1> USE DEF Pages!IInv
  <1>0. /\ UNCHANGED <<stored, edition, meetingId, transcripts, hasMore, offset,
                       isLoading, loadingMore>>
        /\ loads[k] \in Pages!Loads
    BY LoadFacts DEF Pages!LoadMetadata, Pages!library, Pages!hook,
      Pages!shownState, Pages!Ended
  <1>1. PICK entry \in Pages!Loads :
          /\ loads' = [loads EXCEPT ![k] = entry]
          /\ entry.meeting = loads[k].meeting /\ entry.kind = loads[k].kind
          /\ entry.epoch = loads[k].epoch /\ entry.offset = loads[k].offset
          /\ entry.step = "count"
    BY MetadataEffect
  <1>2. /\ loads' \in Seq(Pages!Loads)
        /\ DOMAIN loads' = DOMAIN loads
        /\ loads'[k] = entry
        /\ \A l \in DOMAIN loads : l # k => loads'[l] = loads[l]
        /\ Pages!Epoch' = Pages!Epoch
    BY <1>1, AdvancedLoad
  <1>3. /\ \A l \in DOMAIN loads : Pages!StillAsked(l)' = Pages!StillAsked(l)
        /\ \A l \in DOMAIN loads :
             l # k => Pages!Live(l)' = Pages!Live(l)
    BY <1>1, <1>2 DEF Pages!StillAsked, Pages!Live
  <1>4. Pages!EpochsAreReached'
    BY <1>1, <1>2 DEF Pages!EpochsAreReached
  <1>5. Pages!LoadsAreOfTheirMeeting'
    BY <1>0, <1>1, <1>2, <1>3 DEF Pages!LoadsAreOfTheirMeeting
  <1>6. /\ Pages!Rows(meetingId)' = Pages!Rows(meetingId)
        /\ \A n : Pages!Page(Pages!Rows(meetingId), n)' =
                    Pages!Page(Pages!Rows(meetingId), n)
    BY <1>0 DEF Pages!Rows, Pages!HasRow, Pages!Page
  <1>7. Pages!StillAsked(k) => loads[k].meeting = meetingId
    BY DEF Pages!LoadsAreOfTheirMeeting
  <1>8. /\ undisturbed' => undisturbed /\ Pages!StillAsked(k)
        /\ ~error' => ~error
        /\ loads[k].step = "metadata"
    <2>1. undisturbed' = (undisturbed /\ Pages!StillAsked(k))
      BY DEF Pages!LoadMetadata
    <2>2. error' = TRUE \/ error' = error
      BY DEF Pages!LoadMetadata
    <2>3. loads[k].step = "metadata"
      BY DEF Pages!LoadMetadata, Pages!At
    <2>4. undisturbed' => undisturbed /\ Pages!StillAsked(k)
      BY <2>1
    <2>5. ~error' => ~error
      <3>1. CASE error' = TRUE
        BY <3>1
      <3>2. CASE error' = error
        BY <3>2
      <3> QED
        BY <2>2, <3>1, <3>2
    <2> QED
      BY <2>3, <2>4, <2>5
  <1>14. Pages!Shape'
    BY <1>0, <1>2 DEF Pages!Shape
  <1>15. Pages!OneLoad'
    BY <1>0, <1>1, <1>2, <1>3, <1>8 DEF Pages!OneLoad, Pages!Live
  <1>16. Pages!ReadsAreWhole'
    BY <1>0, <1>1, <1>2, <1>3, <1>6, <1>7, <1>8 DEF Pages!ReadsAreWhole
  <1>17. Pages!OffsetIsReached'
    BY <1>0, <1>6, <1>8 DEF Pages!OffsetIsReached
  <1>18. Pages!PagesAreWhole'
    BY <1>0, <1>6, <1>8 DEF Pages!PagesAreWhole
  <1> QED
    BY <1>4, <1>5, <1>14, <1>15, <1>16, <1>17, <1>18

\* A count is of the rows there are, ...
LEMMA PagesCount ==
  ASSUME Pages!IInv, NEW k \in DOMAIN loads, Pages!CountRows(k)
  PROVE  Pages!IInv'
  <1> USE DEF Pages!IInv
  <1>0. /\ UNCHANGED <<stored, edition, meetingId, transcripts, hasMore, offset,
                       isLoading, loadingMore,
                       error, undisturbed>>
        /\ loads[k] \in Pages!Loads
    BY LoadFacts DEF Pages!CountRows, Pages!library, Pages!hook,
      Pages!shownState, Pages!Ended
  <1>1. PICK entry \in Pages!Loads :
          /\ loads' = [loads EXCEPT ![k] = entry]
          /\ entry.meeting = loads[k].meeting /\ entry.kind = loads[k].kind
          /\ entry.epoch = loads[k].epoch /\ entry.offset = loads[k].offset
          /\ entry.step = "rows"
          /\ entry.total = Len(Pages!Rows(loads[k].meeting))
    BY CountEffect
  <1>2. /\ loads' \in Seq(Pages!Loads)
        /\ DOMAIN loads' = DOMAIN loads
        /\ loads'[k] = entry
        /\ \A l \in DOMAIN loads : l # k => loads'[l] = loads[l]
        /\ Pages!Epoch' = Pages!Epoch
    BY <1>1, AdvancedLoad
  <1>3. /\ \A l \in DOMAIN loads : Pages!StillAsked(l)' = Pages!StillAsked(l)
        /\ \A l \in DOMAIN loads :
             l # k => Pages!Live(l)' = Pages!Live(l)
    BY <1>1, <1>2 DEF Pages!StillAsked, Pages!Live
  <1>4. Pages!EpochsAreReached'
    BY <1>1, <1>2 DEF Pages!EpochsAreReached
  <1>5. Pages!LoadsAreOfTheirMeeting'
    BY <1>0, <1>1, <1>2, <1>3 DEF Pages!LoadsAreOfTheirMeeting
  <1>6. /\ Pages!Rows(meetingId)' = Pages!Rows(meetingId)
        /\ \A n : Pages!Page(Pages!Rows(meetingId), n)' =
                    Pages!Page(Pages!Rows(meetingId), n)
    BY <1>0 DEF Pages!Rows, Pages!HasRow, Pages!Page
  <1>7. Pages!StillAsked(k) => loads[k].meeting = meetingId
    BY DEF Pages!LoadsAreOfTheirMeeting
  <1>8. loads[k].step = "count"
    BY DEF Pages!CountRows, Pages!At
  <1>14. Pages!Shape'
    BY <1>0, <1>2 DEF Pages!Shape
  <1>15. Pages!OneLoad'
    BY <1>0, <1>1, <1>2, <1>3, <1>8 DEF Pages!OneLoad, Pages!Live
  <1>16. Pages!ReadsAreWhole'
    BY <1>0, <1>1, <1>2, <1>3, <1>6, <1>7, <1>8 DEF Pages!ReadsAreWhole
  <1>17. Pages!OffsetIsReached'
    BY <1>0, <1>6, <1>8 DEF Pages!OffsetIsReached
  <1>18. Pages!PagesAreWhole'
    BY <1>0, <1>6, <1>8 DEF Pages!PagesAreWhole
  <1> QED
    BY <1>4, <1>5, <1>14, <1>15, <1>16, <1>17, <1>18

\* ... and so is a page.
LEMMA PagesRead ==
  ASSUME Pages!IInv, NEW k \in DOMAIN loads, Pages!ReadRows(k)
  PROVE  Pages!IInv'
  <1> USE DEF Pages!IInv
  <1>0. /\ UNCHANGED <<stored, edition, meetingId, transcripts, hasMore, offset,
                       isLoading, loadingMore,
                       error, undisturbed>>
        /\ loads[k] \in Pages!Loads
    BY LoadFacts DEF Pages!ReadRows, Pages!library, Pages!hook,
      Pages!shownState, Pages!Ended
  <1>1. PICK entry \in Pages!Loads :
          /\ loads' = [loads EXCEPT ![k] = entry]
          /\ entry.meeting = loads[k].meeting /\ entry.kind = loads[k].kind
          /\ entry.epoch = loads[k].epoch /\ entry.offset = loads[k].offset
          /\ entry.step = "answer"
          /\ entry.total = loads[k].total
          /\ entry.rows = Pages!Page(Pages!Rows(loads[k].meeting),
                                    loads[k].offset)
    BY RowsEffect
  <1>2. /\ loads' \in Seq(Pages!Loads)
        /\ DOMAIN loads' = DOMAIN loads
        /\ loads'[k] = entry
        /\ \A l \in DOMAIN loads : l # k => loads'[l] = loads[l]
        /\ Pages!Epoch' = Pages!Epoch
    BY <1>1, AdvancedLoad
  <1>3. /\ \A l \in DOMAIN loads : Pages!StillAsked(l)' = Pages!StillAsked(l)
        /\ \A l \in DOMAIN loads :
             l # k => Pages!Live(l)' = Pages!Live(l)
    BY <1>1, <1>2 DEF Pages!StillAsked, Pages!Live
  <1>4. Pages!EpochsAreReached'
    BY <1>1, <1>2 DEF Pages!EpochsAreReached
  <1>5. Pages!LoadsAreOfTheirMeeting'
    BY <1>0, <1>1, <1>2, <1>3 DEF Pages!LoadsAreOfTheirMeeting
  <1>6. /\ Pages!Rows(meetingId)' = Pages!Rows(meetingId)
        /\ \A n : Pages!Page(Pages!Rows(meetingId), n)' =
                    Pages!Page(Pages!Rows(meetingId), n)
    BY <1>0 DEF Pages!Rows, Pages!HasRow, Pages!Page
  <1>7. Pages!StillAsked(k) => loads[k].meeting = meetingId
    BY DEF Pages!LoadsAreOfTheirMeeting
  <1>8. loads[k].step = "rows"
    BY DEF Pages!ReadRows, Pages!At
  <1>14. Pages!Shape'
    BY <1>0, <1>2 DEF Pages!Shape
  <1>15. Pages!OneLoad'
    BY <1>0, <1>1, <1>2, <1>3, <1>8 DEF Pages!OneLoad, Pages!Live
  <1>16. Pages!ReadsAreWhole'
    BY <1>0, <1>1, <1>2, <1>3, <1>6, <1>7, <1>8 DEF Pages!ReadsAreWhole
  <1>17. Pages!OffsetIsReached'
    BY <1>0, <1>6, <1>8 DEF Pages!OffsetIsReached
  <1>18. Pages!PagesAreWhole'
    BY <1>0, <1>6, <1>8 DEF Pages!PagesAreWhole
  <1> QED
    BY <1>4, <1>5, <1>14, <1>15, <1>16, <1>17, <1>18

\* The end of a load is the end of the only one that was asked for.
LEMMA PagesFailure ==
  ASSUME Pages!IInv, NEW k \in DOMAIN loads, Pages!LoadFails(k)
  PROVE  Pages!IInv'
  <1> USE DEF Pages!IInv
  <1>0. /\ UNCHANGED <<stored, edition, meetingId, transcripts, hasMore,
                       offset>>
        /\ loads[k] \in Pages!Loads
    BY LoadFacts DEF Pages!LoadFails, Pages!library, Pages!hook,
      Pages!shownState, Pages!Ended
  <1>1. PICK entry \in Pages!Loads :
          /\ loads' = [loads EXCEPT ![k] = entry]
          /\ entry.meeting = loads[k].meeting /\ entry.kind = loads[k].kind
          /\ entry.epoch = loads[k].epoch /\ entry.offset = loads[k].offset
          /\ entry.step = "ended"
    BY EndEffect DEF Pages!LoadFails
  <1>2. /\ loads' \in Seq(Pages!Loads)
        /\ DOMAIN loads' = DOMAIN loads
        /\ loads'[k] = entry
        /\ \A l \in DOMAIN loads : l # k => loads'[l] = loads[l]
        /\ Pages!Epoch' = Pages!Epoch
    BY <1>1, AdvancedLoad
  <1>3. /\ \A l \in DOMAIN loads : Pages!StillAsked(l)' = Pages!StillAsked(l)
        /\ \A l \in DOMAIN loads :
             l # k => Pages!Live(l)' = Pages!Live(l)
    BY <1>1, <1>2 DEF Pages!StillAsked, Pages!Live
  <1>4. Pages!EpochsAreReached'
    BY <1>1, <1>2 DEF Pages!EpochsAreReached
  <1>5. Pages!LoadsAreOfTheirMeeting'
    BY <1>0, <1>1, <1>2, <1>3 DEF Pages!LoadsAreOfTheirMeeting
  <1>6. /\ Pages!Rows(meetingId)' = Pages!Rows(meetingId)
        /\ \A n : Pages!Page(Pages!Rows(meetingId), n)' =
                    Pages!Page(Pages!Rows(meetingId), n)
    BY <1>0 DEF Pages!Rows, Pages!HasRow, Pages!Page
  <1>7. Pages!StillAsked(k) => loads[k].meeting = meetingId
    BY DEF Pages!LoadsAreOfTheirMeeting
  <1>8. /\ undisturbed' => undisturbed /\ Pages!StillAsked(k)
        /\ loads[k].step # "ended"
        /\ error'
    BY DEF Pages!LoadFails
  <1>14. Pages!Shape'
    BY <1>0, <1>2 DEF Pages!Shape
  <1>9. CASE ~(meetingId # None /\ undisturbed')
    <2>1. /\ Pages!OneLoad' /\ Pages!ReadsAreWhole' /\ Pages!OffsetIsReached'
          /\ Pages!PagesAreWhole'
      BY <1>0, <1>9 DEF Pages!OneLoad, Pages!ReadsAreWhole,
        Pages!OffsetIsReached, Pages!PagesAreWhole
    <2> QED
      BY <1>4, <1>5, <1>14, <2>1
  <1>10. CASE meetingId # None /\ undisturbed'
    <2>0. undisturbed /\ Pages!StillAsked(k) /\ Pages!Live(k)
      BY <1>8, <1>10 DEF Pages!Live
    <2>1. /\ \A l \in DOMAIN loads : ~Pages!Live(l)'
          /\ loads[k].kind = "first" => offset = 0
          /\ loads[k].offset = offset
      BY <1>1, <1>2, <1>3, <1>10, <2>0 DEF Pages!OneLoad, Pages!Live
    <2>2. Pages!OneLoad'
      BY <1>2, <2>1 DEF Pages!OneLoad
    <2>3. Pages!ReadsAreWhole'
      BY <1>0, <1>1, <1>2, <1>3, <1>6, <1>10, <2>0 DEF Pages!ReadsAreWhole
    <2>4. Pages!OffsetIsReached'
      BY <1>0, <1>6, <1>10, <2>0 DEF Pages!OffsetIsReached
    <2>5. Pages!PagesAreWhole'
      BY <1>0, <1>6, <1>8, <1>10, <2>0 DEF Pages!PagesAreWhole
    <2> QED
      BY <1>4, <1>5, <1>14, <2>2, <2>3, <2>4, <2>5
  <1> QED
    BY <1>9, <1>10

\* An answer adds the page that follows the offset, and the offset follows it.
LEMMA PagesAnswer ==
  ASSUME Pages!IInv, NEW k \in DOMAIN loads, Pages!Answered(k)
  PROVE  Pages!IInv'
  <1> USE DEF Pages!IInv
  <1>0. /\ UNCHANGED <<stored, edition, meetingId, error>>
        /\ loads[k] \in Pages!Loads
    BY LoadFacts DEF Pages!Answered, Pages!library, Pages!hook,
      Pages!shownState, Pages!Ended
  <1>1. PICK entry \in Pages!Loads :
          /\ loads' = [loads EXCEPT ![k] = entry]
          /\ entry.meeting = loads[k].meeting /\ entry.kind = loads[k].kind
          /\ entry.epoch = loads[k].epoch /\ entry.offset = loads[k].offset
          /\ entry.step = "ended"
    BY EndEffect DEF Pages!Answered
  <1>2. /\ loads' \in Seq(Pages!Loads)
        /\ DOMAIN loads' = DOMAIN loads
        /\ loads'[k] = entry
        /\ \A l \in DOMAIN loads : l # k => loads'[l] = loads[l]
        /\ Pages!Epoch' = Pages!Epoch
    BY <1>1, AdvancedLoad
  <1>3. /\ \A l \in DOMAIN loads : Pages!StillAsked(l)' = Pages!StillAsked(l)
        /\ \A l \in DOMAIN loads :
             l # k => Pages!Live(l)' = Pages!Live(l)
    BY <1>1, <1>2 DEF Pages!StillAsked, Pages!Live
  <1>4. Pages!EpochsAreReached'
    BY <1>1, <1>2 DEF Pages!EpochsAreReached
  <1>5. Pages!LoadsAreOfTheirMeeting'
    BY <1>0, <1>1, <1>2, <1>3 DEF Pages!LoadsAreOfTheirMeeting
  <1>6. /\ Pages!Rows(meetingId)' = Pages!Rows(meetingId)
        /\ \A n : Pages!Page(Pages!Rows(meetingId), n)' =
                    Pages!Page(Pages!Rows(meetingId), n)
    BY <1>0 DEF Pages!Rows, Pages!HasRow, Pages!Page
  <1>7. Pages!StillAsked(k) => loads[k].meeting = meetingId
    BY DEF Pages!LoadsAreOfTheirMeeting
  <1>8. /\ undisturbed' => undisturbed /\ Pages!StillAsked(k)
        /\ loads[k].step = "answer"
        /\ offset' = loads[k].offset + Len(loads[k].rows)
        /\ hasMore' = (loads[k].offset + Len(loads[k].rows) < loads[k].total)
        /\ transcripts' = Pages!Applied(loads[k])
    BY DEF Pages!Answered, Pages!At, Pages!NextOffset
  <1>14. Pages!Shape'
    <2>1. loads[k].offset \in Nat /\ loads[k].rows \in Seq(Pages!Passages)
      BY <1>0 DEF Pages!Loads
    <2>2. offset' \in Nat
      BY <1>8, <2>1, LenProperties
    <2> QED
      BY <1>0, <1>2, <2>2 DEF Pages!Shape
  <1>9. CASE ~(meetingId # None /\ undisturbed')
    <2>1. /\ Pages!OneLoad' /\ Pages!ReadsAreWhole' /\ Pages!OffsetIsReached'
          /\ Pages!PagesAreWhole'
      BY <1>0, <1>9 DEF Pages!OneLoad, Pages!ReadsAreWhole,
        Pages!OffsetIsReached, Pages!PagesAreWhole
    <2> QED
      BY <1>4, <1>5, <1>14, <2>1
  <1>10. CASE meetingId # None /\ undisturbed'
    <2>0. undisturbed /\ Pages!StillAsked(k) /\ Pages!Live(k)
      BY <1>8, <1>10 DEF Pages!Live
    <2>1. /\ \A l \in DOMAIN loads : ~Pages!Live(l)'
          /\ loads[k].kind = "first" => offset = 0
          /\ loads[k].offset = offset
      BY <1>1, <1>2, <1>3, <1>10, <2>0 DEF Pages!OneLoad, Pages!Live
    <2>2. Pages!OneLoad'
      BY <1>2, <2>1 DEF Pages!OneLoad
    <2>3. Pages!ReadsAreWhole'
      BY <1>0, <1>1, <1>2, <1>3, <1>6, <1>10, <2>0 DEF Pages!ReadsAreWhole
    <2> DEFINE rows == Pages!Rows(meetingId)
               page == Pages!Page(rows, offset)
    <2>6. /\ rows \in Seq(Pages!Passages) /\ Len(rows) \in Nat
          /\ offset \in Nat /\ offset <= Len(rows)
      BY <1>10, <2>0, RowsFacts DEF Pages!Shape, Pages!OffsetIsReached
    <2>7. /\ page \in Seq(Pages!Passages) /\ Len(page) \in Nat
          /\ offset + Len(page) <= Len(rows)
          /\ \A i \in 1..Len(page) : page[i] = rows[offset + i]
          /\ DOMAIN page = 1..Len(page)
      BY <2>6, PageFacts, LenProperties
    <2>8. loads[k].rows = page /\ loads[k].total = Len(rows)
      BY <1>8, <1>10, <2>0, <2>1 DEF Pages!ReadsAreWhole
    <2>9. transcripts = {rows[i] : i \in 1..offset}
      BY <1>10, <2>0 DEF Pages!PagesAreWhole
    <2> HIDE DEF page, rows
    <2>10. transcripts' = {rows[i] : i \in 1..(offset + Len(page))}
      <3> DEFINE new == {page[i] : i \in DOMAIN page}
      <3>1. new = {rows[i] : i \in (offset + 1)..(offset + Len(page))}
        <4>1. \A i \in (offset + 1)..(offset + Len(page)) :
                i - offset \in 1..Len(page) /\ page[i - offset] = rows[i]
          BY <2>6, <2>7
        <4>2. \A i \in 1..Len(page) :
                offset + i \in (offset + 1)..(offset + Len(page))
          BY <2>6, <2>7
        <4> QED
          BY <2>7, <4>1, <4>2
      <3>2. {rows[i] : i \in 1..offset} \cup new =
              {rows[i] : i \in 1..(offset + Len(page))}
        <4>1. 1..(offset + Len(page)) =
                (1..offset) \cup ((offset + 1)..(offset + Len(page)))
          BY <2>6, <2>7
        <4> QED
          BY <3>1, <4>1
      <3>3. transcripts' = IF loads[k].kind = "more"
                           THEN transcripts \cup new ELSE new
        BY <1>8, <2>8 DEF Pages!Applied
      <3>4. loads[k].kind \in {"first", "more"}
        BY <1>0 DEF Pages!Loads
      <3>5. CASE loads[k].kind = "more"
        BY <2>9, <3>2, <3>3, <3>5
      <3>6. CASE loads[k].kind = "first"
        <4>1. offset = 0 /\ {rows[i] : i \in 1..offset} = {}
          BY <2>1, <3>6
        <4> QED
          BY <3>2, <3>3, <3>6, <4>1
      <3> QED
        BY <3>4, <3>5, <3>6
    <2>11. /\ offset' = offset + Len(page)
           /\ hasMore' = (offset + Len(page) < Len(rows))
      BY <1>8, <2>1, <2>8
    <2>12. Pages!Rows(meetingId)' = rows
      BY <1>6 DEF rows
    <2>4. Pages!OffsetIsReached'
      BY <2>7, <2>11, <2>12 DEF Pages!OffsetIsReached
    <2>5. Pages!PagesAreWhole'
      <3>1. ~hasMore' => offset' = Len(rows)
        <4>1. CASE offset + Len(page) < Len(rows)
          BY <2>11, <4>1, Zenon
        <4>2. CASE ~(offset + Len(page) < Len(rows))
          BY <2>6, <2>7, <2>11, <4>2
        <4> QED
          BY <4>1, <4>2
      <3> QED
        BY <2>10, <2>11, <2>12, <3>1 DEF Pages!PagesAreWhole
    <2> QED
      BY <1>4, <1>5, <1>14, <2>2, <2>3, <2>4, <2>5
  <1> QED
    BY <1>9, <1>10

\* It holds of the first state.
LEMMA PagesBegin == Pages!Init => Pages!IInv
  <1> SUFFICES ASSUME Pages!Init PROVE Pages!IInv
    OBVIOUS
  <1>1. loads = <<>> /\ loads \in Seq(Pages!Loads) /\ DOMAIN loads = {}
    BY EmptySeq DEF Pages!Init
  <1>2. Pages!Shape
    BY <1>1 DEF Pages!Init, Pages!Shape
  <1>3. /\ Pages!EpochsAreReached /\ Pages!LoadsAreOfTheirMeeting
        /\ Pages!OneLoad /\ Pages!ReadsAreWhole
    BY <1>1 DEF Pages!EpochsAreReached, Pages!LoadsAreOfTheirMeeting,
      Pages!OneLoad, Pages!ReadsAreWhole
  <1>4. Pages!OffsetIsReached /\ Pages!PagesAreWhole
    BY DEF Pages!Init, Pages!OffsetIsReached, Pages!PagesAreWhole
  <1> QED
    BY <1>2, <1>3, <1>4 DEF Pages!IInv

\* The step of a page, whatever it is.
LEMMA PagesStep == Pages!IInv /\ [Pages!Next]_pagesVars => Pages!IInv'
  <1> SUFFICES ASSUME Pages!IInv, [Pages!Next]_pagesVars PROVE Pages!IInv'
    OBVIOUS
  <1>1. CASE UNCHANGED pagesVars
    <2>1. /\ Pages!Shape'
          /\ Pages!Rows(meetingId)' = Pages!Rows(meetingId)
          /\ UNCHANGED <<meetingId, transcripts, hasMore, offset, isLoading,
                         loadingMore, error, loads, undisturbed>>
      BY <1>1 DEF pagesVars, Pages!IInv, Pages!Shape, Pages!Rows, Pages!HasRow
    <2> QED
      BY <2>1, PagesMove
  <1>2. ASSUME NEW m \in Meetings, NEW n \in Lengths,
               Pages!SaveTranscript(m, n) \/ Pages!Retranscribe(m, n)
        PROVE  Pages!IInv'
    BY <1>2, PagesStore DEF Pages!SaveTranscript, Pages!Retranscribe
  <1>3. ASSUME NEW m \in Meetings, Pages!DeleteMeeting(m) PROVE Pages!IInv'
    BY <1>3, PagesDelete
  <1>4. ASSUME NEW m \in Meetings, Pages!OpenMeeting(m) PROVE Pages!IInv'
    BY <1>4, PagesReset DEF Pages!OpenMeeting, Pages!library
  <1>5. CASE Pages!Refetch
    <2>1. /\ meetingId \in Meetings /\ meetingId' = meetingId
          /\ Pages!LoadFromStart(meetingId)
          /\ UNCHANGED <<stored, edition>>
      BY <1>5 DEF Pages!Refetch, Pages!IInv, Pages!Shape, Pages!library
    <2> QED
      BY <2>1, PagesReset
  <1>6. CASE Pages!LoadMore
    BY <1>6, PagesMore
  <1>7. ASSUME NEW k \in DOMAIN loads,
               \/ Pages!LoadMetadata(k) \/ Pages!CountRows(k)
               \/ Pages!ReadRows(k) \/ Pages!Answered(k) \/ Pages!LoadFails(k)
        PROVE  Pages!IInv'
    BY <1>7, PagesMetadata, PagesCount, PagesRead, PagesAnswer, PagesFailure
  <1> QED
    BY <1>1, <1>2, <1>3, <1>4, <1>5, <1>6, <1>7 DEF Pages!Next

\* While nothing has disturbed them, the pages that are shown are every passage
\* up to the offset and none beyond it, and all of the transcript when no more
\* are offered: no failure, no torn count of a page and no order of the answers
\* makes the hook skip a passage (usePaginatedTranscripts).
THEOREM PagesStayWhole == LibrarySpec => []PagesAreWhole
  <1> DEFINE Inv == component = "pages" => Pages!IInv
  <1>1. LibraryInit => Inv
    BY PagesBegin DEF LibraryInit, CredentialsInit, DatabaseInit, ReviewInit,
      PagesInit, HandoffInit, SetupInit, LanguagesInit
  <1>2. Inv /\ [LibraryNext]_everything => Inv'
    <2> SUFFICES ASSUME Inv, [LibraryNext]_everything,
                        component' = "pages"
                 PROVE  Pages!IInv'
      OBVIOUS
    <2>1. [Pages!Next]_pagesVars /\ component = "pages"
      BY DEF LibraryNext, everything, CredentialsNext, DatabaseNext,
        ReviewNext, PagesNext, HandoffNext, SetupNext, LanguagesNext
    <2> QED
      BY <2>1, PagesStep
  <1>3. Inv => PagesAreWhole
    BY DEF PagesAreWhole, Pages!IInv
  <1> QED
    BY <1>1, <1>2, <1>3, PTL DEF LibrarySpec

-----------------------------------------------------------------------------
(* The exports                                                             *)

\* What the variables of an export are.
LEMMA HandoffShape ==
  ASSUME Handoff!Shape, [Handoff!Next]_handoffVars
  PROVE  Handoff!Shape'
  <1> USE DEF handoffVars, Handoff!disk, Handoff!export, Handoff!Records,
    Handoff!Contents, Handoff!PCs
  <1>1. CASE UNCHANGED <<hRecord, changes, temporary, pc, snapshot, asked,
    hFaults, hCrashes>>
    BY <1>1 DEF Handoff!Shape
  <1>2. ASSUME NEW e \in Exports, Handoff!Save(e) PROVE Handoff!Shape'
    BY <1>2, HandoffAssumption DEF Handoff!Save, Handoff!Goes, Handoff!Shape
  <1>3. ASSUME NEW e \in Exports, Handoff!CancelSelection(e) PROVE
    Handoff!Shape'
    BY <1>3, HandoffAssumption DEF Handoff!CancelSelection, Handoff!Goes,
      Handoff!Ends, Handoff!Shape
  <1>4. ASSUME NEW e \in Exports, NEW p \in Places, Handoff!Select(e, p)
    PROVE Handoff!Shape'
    BY <1>4, HandoffAssumption DEF Handoff!Select, Handoff!Goes,
      Handoff!Shape
  <1>5. ASSUME NEW e \in Exports, Handoff!ReadRecord(e) PROVE Handoff!Shape'
    BY <1>5, HandoffAssumption DEF Handoff!ReadRecord, Handoff!Goes,
      Handoff!ReadsAfter, Handoff!Shape
  <1>6. ASSUME NEW e \in Exports, Handoff!RecordUnavailable(e) PROVE
    Handoff!Shape'
    BY <1>6, HandoffAssumption DEF Handoff!RecordUnavailable, Handoff!Goes,
      Handoff!Ends, Handoff!Fault, Handoff!Shape
  <1>7. ASSUME NEW e \in Exports, Handoff!Share(e) PROVE Handoff!Shape'
    BY <1>7, HandoffAssumption DEF Handoff!Share, Handoff!Goes, Handoff!Shape
  <1>8. ASSUME NEW e \in Exports, Handoff!ShareContent(e) PROVE
    Handoff!Shape'
    BY <1>8, HandoffAssumption DEF Handoff!ShareContent, Handoff!Goes,
      Handoff!Ends, Handoff!Fault, Handoff!Shape
  <1>9. ASSUME NEW e \in Exports, Handoff!RefusePlace(e) PROVE Handoff!Shape'
    BY <1>9, HandoffAssumption DEF Handoff!RefusePlace, Handoff!Goes,
      Handoff!Ends, Handoff!Fault, Handoff!Shape
  <1>10. ASSUME NEW e \in Exports, Handoff!CreateTemporary(e) PROVE
    Handoff!Shape'
    BY <1>10, HandoffAssumption DEF Handoff!CreateTemporary, Handoff!Goes,
      Handoff!Shape
  <1>11. ASSUME NEW e \in Exports, Handoff!WriteTemporary(e) PROVE
    Handoff!Shape'
    BY <1>11, HandoffAssumption DEF Handoff!WriteTemporary, Handoff!Goes,
      Handoff!WriteAll, Handoff!Shape
  <1>12. ASSUME NEW e \in Exports, Handoff!Rename(e) PROVE Handoff!Shape'
    BY <1>12, HandoffAssumption DEF Handoff!Rename, Handoff!Goes,
      Handoff!Ends, Handoff!Shape
  <1>13. ASSUME NEW e \in Exports, Handoff!WriteFails(e) PROVE Handoff!Shape'
    BY <1>13, HandoffAssumption DEF Handoff!WriteFails, Handoff!Goes,
      Handoff!Fault, Handoff!Shape
  <1>14. ASSUME NEW e \in Exports, Handoff!RemoveTemporary(e) PROVE
    Handoff!Shape'
    BY <1>14, HandoffAssumption DEF Handoff!RemoveTemporary, Handoff!Goes,
      Handoff!Ends, Handoff!Fault, Handoff!Removed, Handoff!Shape
  <1>15. ASSUME Handoff!ChangeRecord PROVE Handoff!Shape'
    BY <1>15, HandoffAssumption DEF Handoff!ChangeRecord, Handoff!Shape
  <1>16. ASSUME Handoff!DeleteMeeting PROVE Handoff!Shape'
    BY <1>16, HandoffAssumption DEF Handoff!DeleteMeeting, Handoff!Shape
  <1>17. ASSUME Handoff!Crash PROVE Handoff!Shape'
    BY <1>17, HandoffAssumption DEF Handoff!Crash, Handoff!Shape
  <1> QED
    BY <1>1, <1>2, <1>3, <1>4, <1>5, <1>6, <1>7, <1>8, <1>9, <1>10, <1>11,
      <1>12, <1>13, <1>14, <1>15, <1>16, <1>17 DEF Handoff!Next

\* No write of the record leaves it behind its count of changes.
LEMMA HandoffLatest ==
  ASSUME Handoff!Shape, Handoff!RecordIsLatest, [Handoff!Next]_handoffVars
  PROVE  Handoff!RecordIsLatest'
  <1> USE DEF handoffVars, Handoff!disk, Handoff!export
  <1>1. CASE UNCHANGED <<hRecord, changes>>
    BY <1>1 DEF Handoff!RecordIsLatest
  <1>2. ASSUME Handoff!ChangeRecord PROVE Handoff!RecordIsLatest'
    BY <1>2 DEF Handoff!ChangeRecord, Handoff!RecordIsLatest
  <1>3. ASSUME Handoff!DeleteMeeting PROVE Handoff!RecordIsLatest'
    BY <1>3 DEF Handoff!DeleteMeeting, Handoff!RecordIsLatest
  <1> QED
    BY <1>1, <1>2, <1>3 DEF Handoff!Next, Handoff!Save,
      Handoff!CancelSelection, Handoff!Select, Handoff!ReadRecord,
      Handoff!RecordUnavailable, Handoff!Share, Handoff!ShareContent,
      Handoff!RefusePlace, Handoff!CreateTemporary, Handoff!WriteTemporary,
      Handoff!Rename, Handoff!WriteFails, Handoff!RemoveTemporary,
      Handoff!Crash, Handoff!Goes, Handoff!Ends, Handoff!Fault,
      Handoff!Removed, Handoff!WriteAll, Handoff!ReadsAfter

\* An export asks at the record there is; the count only grows.
LEMMA HandoffAsked ==
  ASSUME Handoff!Shape, Handoff!AskedBefore, [Handoff!Next]_handoffVars
  PROVE  Handoff!AskedBefore'
  <1> USE DEF handoffVars, Handoff!disk, Handoff!export
  <1>0. /\ asked \in [Exports -> Nat]
        /\ changes \in Nat
    BY HandoffAssumption DEF Handoff!Shape, Handoff!Records
  <1>1. CASE UNCHANGED <<changes, asked>>
    BY <1>1 DEF Handoff!AskedBefore
  <1>2. ASSUME NEW e \in Exports, NEW p \in Places, Handoff!Select(e, p)
    PROVE Handoff!AskedBefore'
    BY <1>2, <1>0 DEF Handoff!Select, Handoff!Goes, Handoff!AskedBefore
  <1>3. ASSUME Handoff!ChangeRecord PROVE Handoff!AskedBefore'
    BY <1>3, <1>0 DEF Handoff!ChangeRecord, Handoff!AskedBefore
  <1>4. ASSUME NEW e \in Exports, Handoff!CancelSelection(e) PROVE
    Handoff!AskedBefore'
    BY <1>4, <1>0 DEF Handoff!CancelSelection, Handoff!Goes, Handoff!Ends,
      Handoff!AskedBefore
  <1>5. ASSUME NEW e \in Exports, Handoff!RecordUnavailable(e) PROVE
    Handoff!AskedBefore'
    BY <1>5, <1>0 DEF Handoff!RecordUnavailable, Handoff!Goes, Handoff!Ends,
      Handoff!Fault, Handoff!AskedBefore
  <1>6. ASSUME NEW e \in Exports, Handoff!ShareContent(e) PROVE
    Handoff!AskedBefore'
    BY <1>6, <1>0 DEF Handoff!ShareContent, Handoff!Goes, Handoff!Ends,
      Handoff!Fault, Handoff!AskedBefore
  <1>7. ASSUME NEW e \in Exports, Handoff!RefusePlace(e) PROVE
    Handoff!AskedBefore'
    BY <1>7, <1>0 DEF Handoff!RefusePlace, Handoff!Goes, Handoff!Ends,
      Handoff!Fault, Handoff!AskedBefore
  <1>8. ASSUME NEW e \in Exports, Handoff!Rename(e) PROVE
    Handoff!AskedBefore'
    BY <1>8, <1>0 DEF Handoff!Rename, Handoff!Goes, Handoff!Ends,
      Handoff!AskedBefore
  <1>9. ASSUME NEW e \in Exports, Handoff!RemoveTemporary(e) PROVE
    Handoff!AskedBefore'
    BY <1>9, <1>0 DEF Handoff!RemoveTemporary, Handoff!Goes, Handoff!Ends,
      Handoff!Fault, Handoff!Removed, Handoff!AskedBefore
  <1>10. ASSUME Handoff!Crash PROVE Handoff!AskedBefore'
    BY <1>10, <1>0 DEF Handoff!Crash, Handoff!AskedBefore
  <1> QED
    BY <1>1, <1>2, <1>3, <1>4, <1>5, <1>6, <1>7, <1>8, <1>9, <1>10 DEF
      Handoff!Next, Handoff!Save, Handoff!ReadRecord, Handoff!Share,
      Handoff!CreateTemporary, Handoff!WriteTemporary, Handoff!WriteFails,
      Handoff!DeleteMeeting, Handoff!Goes, Handoff!Fault, Handoff!WriteAll,
      Handoff!ReadsAfter

\* The record that is read stays in hand until the file is renamed.
LEMMA HandoffInHand ==
  ASSUME Handoff!Shape, Handoff!SnapshotInHand, [Handoff!Next]_handoffVars
  PROVE  Handoff!SnapshotInHand'
  <1> USE DEF handoffVars, Handoff!disk, Handoff!export
  <1>0. /\ pc \in [Exports -> Handoff!PCs]
        /\ snapshot \in [Exports -> Handoff!Records \cup {Nowhere}]
        /\ hRecord \in Handoff!Records \cup {Nowhere}
    BY DEF Handoff!Shape
  <1>1. CASE UNCHANGED <<pc, snapshot>>
    BY <1>1 DEF Handoff!SnapshotInHand
  <1>2. ASSUME NEW e \in Exports, Handoff!Save(e) PROVE
    Handoff!SnapshotInHand'
    BY <1>2, <1>0 DEF Handoff!Save, Handoff!Goes, Handoff!SnapshotInHand
  <1>3. ASSUME NEW e \in Exports, Handoff!CancelSelection(e) PROVE
    Handoff!SnapshotInHand'
    BY <1>3, <1>0 DEF Handoff!CancelSelection, Handoff!Goes, Handoff!Ends,
      Handoff!SnapshotInHand
  <1>4. ASSUME NEW e \in Exports, NEW p \in Places, Handoff!Select(e, p)
    PROVE Handoff!SnapshotInHand'
    BY <1>4, <1>0 DEF Handoff!Select, Handoff!Goes, Handoff!SnapshotInHand
  <1>5. ASSUME NEW e \in Exports, Handoff!ReadRecord(e) PROVE
    Handoff!SnapshotInHand'
    BY <1>5, <1>0 DEF Handoff!ReadRecord, Handoff!Goes, Handoff!ReadsAfter,
      Handoff!SnapshotInHand
  <1>6. ASSUME NEW e \in Exports, Handoff!RecordUnavailable(e) PROVE
    Handoff!SnapshotInHand'
    BY <1>6, <1>0 DEF Handoff!RecordUnavailable, Handoff!Goes, Handoff!Ends,
      Handoff!Fault, Handoff!SnapshotInHand
  <1>7. ASSUME NEW e \in Exports, Handoff!Share(e) PROVE
    Handoff!SnapshotInHand'
    BY <1>7, <1>0 DEF Handoff!Share, Handoff!Goes, Handoff!SnapshotInHand
  <1>8. ASSUME NEW e \in Exports, Handoff!ShareContent(e) PROVE
    Handoff!SnapshotInHand'
    BY <1>8, <1>0 DEF Handoff!ShareContent, Handoff!Goes, Handoff!Ends,
      Handoff!Fault, Handoff!SnapshotInHand
  <1>9. ASSUME NEW e \in Exports, Handoff!RefusePlace(e) PROVE
    Handoff!SnapshotInHand'
    BY <1>9, <1>0 DEF Handoff!RefusePlace, Handoff!Goes, Handoff!Ends,
      Handoff!Fault, Handoff!SnapshotInHand
  <1>10. ASSUME NEW e \in Exports, Handoff!CreateTemporary(e) PROVE
    Handoff!SnapshotInHand'
    BY <1>10, <1>0 DEF Handoff!CreateTemporary, Handoff!Goes,
      Handoff!SnapshotInHand
  <1>11. ASSUME NEW e \in Exports, Handoff!WriteTemporary(e) PROVE
    Handoff!SnapshotInHand'
    BY <1>11, <1>0 DEF Handoff!WriteTemporary, Handoff!Goes,
      Handoff!WriteAll, Handoff!SnapshotInHand
  <1>12. ASSUME NEW e \in Exports, Handoff!Rename(e) PROVE
    Handoff!SnapshotInHand'
    BY <1>12, <1>0 DEF Handoff!Rename, Handoff!Goes, Handoff!Ends,
      Handoff!SnapshotInHand
  <1>13. ASSUME NEW e \in Exports, Handoff!WriteFails(e) PROVE
    Handoff!SnapshotInHand'
    BY <1>13, <1>0 DEF Handoff!WriteFails, Handoff!Goes, Handoff!Fault,
      Handoff!SnapshotInHand
  <1>14. ASSUME NEW e \in Exports, Handoff!RemoveTemporary(e) PROVE
    Handoff!SnapshotInHand'
    BY <1>14, <1>0 DEF Handoff!RemoveTemporary, Handoff!Goes, Handoff!Ends,
      Handoff!Fault, Handoff!Removed, Handoff!SnapshotInHand
  <1>15. ASSUME Handoff!Crash PROVE Handoff!SnapshotInHand'
    BY <1>15, <1>0 DEF Handoff!Crash, Handoff!SnapshotInHand
  <1> QED
    BY <1>1, <1>2, <1>3, <1>4, <1>5, <1>6, <1>7, <1>8, <1>9, <1>10, <1>11,
      <1>12, <1>13, <1>14, <1>15 DEF Handoff!Next, Handoff!ChangeRecord,
      Handoff!DeleteMeeting

\* write_all has ended when the file is renamed.
LEMMA HandoffRenamed ==
  ASSUME Handoff!Shape, Handoff!RenamedIsWhole, [Handoff!Next]_handoffVars
  PROVE  Handoff!RenamedIsWhole'
  <1> USE DEF handoffVars, Handoff!disk, Handoff!export
  <1>0. /\ pc \in [Exports -> Handoff!PCs]
        /\ snapshot \in [Exports -> Handoff!Records \cup {Nowhere}]
        /\ temporary \in [Exports -> Handoff!Contents]
    BY DEF Handoff!Shape
  <1>1. CASE UNCHANGED <<pc, snapshot, temporary>>
    BY <1>1 DEF Handoff!RenamedIsWhole
  <1>2. ASSUME NEW e \in Exports, Handoff!Save(e) PROVE
    Handoff!RenamedIsWhole'
    BY <1>2, <1>0 DEF Handoff!Save, Handoff!Goes, Handoff!RenamedIsWhole
  <1>3. ASSUME NEW e \in Exports, Handoff!CancelSelection(e) PROVE
    Handoff!RenamedIsWhole'
    BY <1>3, <1>0 DEF Handoff!CancelSelection, Handoff!Goes, Handoff!Ends,
      Handoff!RenamedIsWhole
  <1>4. ASSUME NEW e \in Exports, NEW p \in Places, Handoff!Select(e, p)
    PROVE Handoff!RenamedIsWhole'
    BY <1>4, <1>0 DEF Handoff!Select, Handoff!Goes, Handoff!RenamedIsWhole
  <1>5. ASSUME NEW e \in Exports, Handoff!ReadRecord(e) PROVE
    Handoff!RenamedIsWhole'
    BY <1>5, <1>0 DEF Handoff!ReadRecord, Handoff!Goes, Handoff!ReadsAfter,
      Handoff!RenamedIsWhole
  <1>6. ASSUME NEW e \in Exports, Handoff!RecordUnavailable(e) PROVE
    Handoff!RenamedIsWhole'
    BY <1>6, <1>0 DEF Handoff!RecordUnavailable, Handoff!Goes, Handoff!Ends,
      Handoff!Fault, Handoff!RenamedIsWhole
  <1>7. ASSUME NEW e \in Exports, Handoff!Share(e) PROVE
    Handoff!RenamedIsWhole'
    BY <1>7, <1>0 DEF Handoff!Share, Handoff!Goes, Handoff!RenamedIsWhole
  <1>8. ASSUME NEW e \in Exports, Handoff!ShareContent(e) PROVE
    Handoff!RenamedIsWhole'
    BY <1>8, <1>0 DEF Handoff!ShareContent, Handoff!Goes, Handoff!Ends,
      Handoff!Fault, Handoff!RenamedIsWhole
  <1>9. ASSUME NEW e \in Exports, Handoff!RefusePlace(e) PROVE
    Handoff!RenamedIsWhole'
    BY <1>9, <1>0 DEF Handoff!RefusePlace, Handoff!Goes, Handoff!Ends,
      Handoff!Fault, Handoff!RenamedIsWhole
  <1>10. ASSUME NEW e \in Exports, Handoff!CreateTemporary(e) PROVE
    Handoff!RenamedIsWhole'
    BY <1>10, <1>0 DEF Handoff!CreateTemporary, Handoff!Goes,
      Handoff!RenamedIsWhole
  <1>11. ASSUME NEW e \in Exports, Handoff!WriteTemporary(e) PROVE
    Handoff!RenamedIsWhole'
    BY <1>11, <1>0 DEF Handoff!WriteTemporary, Handoff!Goes,
      Handoff!WriteAll, Handoff!RenamedIsWhole
  <1>12. ASSUME NEW e \in Exports, Handoff!Rename(e) PROVE
    Handoff!RenamedIsWhole'
    BY <1>12, <1>0 DEF Handoff!Rename, Handoff!Goes, Handoff!Ends,
      Handoff!RenamedIsWhole
  <1>13. ASSUME NEW e \in Exports, Handoff!WriteFails(e) PROVE
    Handoff!RenamedIsWhole'
    BY <1>13, <1>0 DEF Handoff!WriteFails, Handoff!Goes, Handoff!Fault,
      Handoff!RenamedIsWhole
  <1>14. ASSUME NEW e \in Exports, Handoff!RemoveTemporary(e) PROVE
    Handoff!RenamedIsWhole'
    BY <1>14, <1>0 DEF Handoff!RemoveTemporary, Handoff!Goes, Handoff!Ends,
      Handoff!Fault, Handoff!Removed, Handoff!RenamedIsWhole
  <1>15. ASSUME Handoff!Crash PROVE Handoff!RenamedIsWhole'
    BY <1>15, <1>0 DEF Handoff!Crash, Handoff!RenamedIsWhole
  <1> QED
    BY <1>1, <1>2, <1>3, <1>4, <1>5, <1>6, <1>7, <1>8, <1>9, <1>10, <1>11,
      <1>12, <1>13, <1>14, <1>15 DEF Handoff!Next, Handoff!ChangeRecord,
      Handoff!DeleteMeeting

\* Only a failure leads to the removal of the temporary file.
LEMMA HandoffRemoved ==
  ASSUME Handoff!Shape, Handoff!RemovedAfterFailure,
    [Handoff!Next]_handoffVars
  PROVE  Handoff!RemovedAfterFailure'
  <1> USE DEF handoffVars, Handoff!disk, Handoff!export
  <1>0. /\ pc \in [Exports -> Handoff!PCs]
        /\ hFaults \in Nat
    BY DEF Handoff!Shape
  <1>1. CASE UNCHANGED <<pc, hFaults>>
    BY <1>1 DEF Handoff!RemovedAfterFailure
  <1>2. ASSUME NEW e \in Exports, Handoff!Save(e) PROVE
    Handoff!RemovedAfterFailure'
    BY <1>2, <1>0 DEF Handoff!Save, Handoff!Goes, Handoff!RemovedAfterFailure
  <1>3. ASSUME NEW e \in Exports, Handoff!CancelSelection(e) PROVE
    Handoff!RemovedAfterFailure'
    BY <1>3, <1>0 DEF Handoff!CancelSelection, Handoff!Goes, Handoff!Ends,
      Handoff!RemovedAfterFailure
  <1>4. ASSUME NEW e \in Exports, NEW p \in Places, Handoff!Select(e, p)
    PROVE Handoff!RemovedAfterFailure'
    BY <1>4, <1>0 DEF Handoff!Select, Handoff!Goes,
      Handoff!RemovedAfterFailure
  <1>5. ASSUME NEW e \in Exports, Handoff!ReadRecord(e) PROVE
    Handoff!RemovedAfterFailure'
    BY <1>5, <1>0 DEF Handoff!ReadRecord, Handoff!Goes, Handoff!ReadsAfter,
      Handoff!RemovedAfterFailure
  <1>6. ASSUME NEW e \in Exports, Handoff!RecordUnavailable(e) PROVE
    Handoff!RemovedAfterFailure'
    BY <1>6, <1>0 DEF Handoff!RecordUnavailable, Handoff!Goes, Handoff!Ends,
      Handoff!Fault, Handoff!RemovedAfterFailure
  <1>7. ASSUME NEW e \in Exports, Handoff!Share(e) PROVE
    Handoff!RemovedAfterFailure'
    BY <1>7, <1>0 DEF Handoff!Share, Handoff!Goes,
      Handoff!RemovedAfterFailure
  <1>8. ASSUME NEW e \in Exports, Handoff!ShareContent(e) PROVE
    Handoff!RemovedAfterFailure'
    BY <1>8, <1>0 DEF Handoff!ShareContent, Handoff!Goes, Handoff!Ends,
      Handoff!Fault, Handoff!RemovedAfterFailure
  <1>9. ASSUME NEW e \in Exports, Handoff!RefusePlace(e) PROVE
    Handoff!RemovedAfterFailure'
    BY <1>9, <1>0 DEF Handoff!RefusePlace, Handoff!Goes, Handoff!Ends,
      Handoff!Fault, Handoff!RemovedAfterFailure
  <1>10. ASSUME NEW e \in Exports, Handoff!CreateTemporary(e) PROVE
    Handoff!RemovedAfterFailure'
    BY <1>10, <1>0 DEF Handoff!CreateTemporary, Handoff!Goes,
      Handoff!RemovedAfterFailure
  <1>11. ASSUME NEW e \in Exports, Handoff!WriteTemporary(e) PROVE
    Handoff!RemovedAfterFailure'
    BY <1>11, <1>0 DEF Handoff!WriteTemporary, Handoff!Goes,
      Handoff!WriteAll, Handoff!RemovedAfterFailure
  <1>12. ASSUME NEW e \in Exports, Handoff!Rename(e) PROVE
    Handoff!RemovedAfterFailure'
    BY <1>12, <1>0 DEF Handoff!Rename, Handoff!Goes, Handoff!Ends,
      Handoff!RemovedAfterFailure
  <1>13. ASSUME NEW e \in Exports, Handoff!WriteFails(e) PROVE
    Handoff!RemovedAfterFailure'
    BY <1>13, <1>0 DEF Handoff!WriteFails, Handoff!Goes, Handoff!Fault,
      Handoff!RemovedAfterFailure
  <1>14. ASSUME NEW e \in Exports, Handoff!RemoveTemporary(e) PROVE
    Handoff!RemovedAfterFailure'
    BY <1>14, <1>0 DEF Handoff!RemoveTemporary, Handoff!Goes, Handoff!Ends,
      Handoff!Fault, Handoff!Removed, Handoff!RemovedAfterFailure
  <1>15. ASSUME Handoff!Crash PROVE Handoff!RemovedAfterFailure'
    BY <1>15, <1>0 DEF Handoff!Crash, Handoff!RemovedAfterFailure
  <1> QED
    BY <1>1, <1>2, <1>3, <1>4, <1>5, <1>6, <1>7, <1>8, <1>9, <1>10, <1>11,
      <1>12, <1>13, <1>14, <1>15 DEF Handoff!Next, Handoff!ChangeRecord,
      Handoff!DeleteMeeting

\* What is renamed into place is the record that was in hand.
LEMMA HandoffFiles ==
  ASSUME Handoff!Shape, Handoff!SnapshotInHand, Handoff!RenamedIsWhole,
    Handoff!FilesAreWhole, [Handoff!Next]_handoffVars
  PROVE  Handoff!FilesAreWhole'
  <1> USE DEF handoffVars, Handoff!disk, Handoff!export
  <1>1. CASE UNCHANGED <<file>>
    BY <1>1 DEF Handoff!FilesAreWhole
  <1>2. ASSUME NEW e \in Exports, Handoff!Rename(e) PROVE
    Handoff!FilesAreWhole'
    BY <1>2, HandoffAssumption DEF Handoff!Rename, Handoff!Goes,
      Handoff!Ends, Handoff!FilesAreWhole, Handoff!RenamedIsWhole,
      Handoff!SnapshotInHand, Handoff!Shape, Handoff!Records
  <1>3. ASSUME NEW e \in Exports, Handoff!WriteTemporary(e) PROVE
    Handoff!FilesAreWhole'
    BY <1>3 DEF Handoff!WriteTemporary, Handoff!Goes, Handoff!WriteAll,
      Handoff!FilesAreWhole
  <1> QED
    BY <1>1, <1>2, <1>3 DEF Handoff!Next, Handoff!Save,
      Handoff!CancelSelection, Handoff!Select, Handoff!ReadRecord,
      Handoff!RecordUnavailable, Handoff!Share, Handoff!ShareContent,
      Handoff!RefusePlace, Handoff!CreateTemporary, Handoff!WriteFails,
      Handoff!RemoveTemporary, Handoff!ChangeRecord, Handoff!DeleteMeeting,
      Handoff!Crash, Handoff!Goes, Handoff!Ends, Handoff!Fault,
      Handoff!Removed, Handoff!ReadsAfter

\* The record is read when the place is selected, and not before.
LEMMA HandoffCurrent ==
  ASSUME Handoff!Shape, Handoff!RecordIsLatest, Handoff!AskedBefore,
    Handoff!ExportIsCurrent, [Handoff!Next]_handoffVars
  PROVE  Handoff!ExportIsCurrent'
  <1> USE DEF handoffVars, Handoff!disk, Handoff!export
  <1>0. /\ pc \in [Exports -> Handoff!PCs]
        /\ snapshot \in [Exports -> Handoff!Records \cup {Nowhere}]
        /\ asked \in [Exports -> Handoff!Records]
    BY DEF Handoff!Shape
  <1>1. CASE UNCHANGED <<pc, snapshot, asked>>
    BY <1>1 DEF Handoff!ExportIsCurrent
  <1>2. ASSUME NEW e \in Exports, Handoff!Save(e) PROVE
    Handoff!ExportIsCurrent'
    BY <1>2, <1>0 DEF Handoff!Save, Handoff!Goes, Handoff!ExportIsCurrent
  <1>3. ASSUME NEW e \in Exports, Handoff!CancelSelection(e) PROVE
    Handoff!ExportIsCurrent'
    BY <1>3, <1>0 DEF Handoff!CancelSelection, Handoff!Goes, Handoff!Ends,
      Handoff!ExportIsCurrent
  <1>4. ASSUME NEW e \in Exports, NEW p \in Places, Handoff!Select(e, p)
    PROVE Handoff!ExportIsCurrent'
    BY <1>4, <1>0 DEF Handoff!Select, Handoff!Goes, Handoff!ExportIsCurrent
  <1>5. ASSUME NEW e \in Exports, Handoff!ReadRecord(e) PROVE
    Handoff!ExportIsCurrent'
    BY <1>5, <1>0 DEF Handoff!ReadRecord, Handoff!Goes, Handoff!ReadsAfter,
      Handoff!ExportIsCurrent, Handoff!RecordIsLatest, Handoff!AskedBefore
  <1>6. ASSUME NEW e \in Exports, Handoff!RecordUnavailable(e) PROVE
    Handoff!ExportIsCurrent'
    BY <1>6, <1>0 DEF Handoff!RecordUnavailable, Handoff!Goes, Handoff!Ends,
      Handoff!Fault, Handoff!ExportIsCurrent
  <1>7. ASSUME NEW e \in Exports, Handoff!Share(e) PROVE
    Handoff!ExportIsCurrent'
    BY <1>7, <1>0 DEF Handoff!Share, Handoff!Goes, Handoff!ExportIsCurrent
  <1>8. ASSUME NEW e \in Exports, Handoff!ShareContent(e) PROVE
    Handoff!ExportIsCurrent'
    BY <1>8, <1>0 DEF Handoff!ShareContent, Handoff!Goes, Handoff!Ends,
      Handoff!Fault, Handoff!ExportIsCurrent
  <1>9. ASSUME NEW e \in Exports, Handoff!RefusePlace(e) PROVE
    Handoff!ExportIsCurrent'
    BY <1>9, <1>0 DEF Handoff!RefusePlace, Handoff!Goes, Handoff!Ends,
      Handoff!Fault, Handoff!ExportIsCurrent
  <1>10. ASSUME NEW e \in Exports, Handoff!CreateTemporary(e) PROVE
    Handoff!ExportIsCurrent'
    BY <1>10, <1>0 DEF Handoff!CreateTemporary, Handoff!Goes,
      Handoff!ExportIsCurrent
  <1>11. ASSUME NEW e \in Exports, Handoff!WriteTemporary(e) PROVE
    Handoff!ExportIsCurrent'
    BY <1>11, <1>0 DEF Handoff!WriteTemporary, Handoff!Goes,
      Handoff!WriteAll, Handoff!ExportIsCurrent
  <1>12. ASSUME NEW e \in Exports, Handoff!Rename(e) PROVE
    Handoff!ExportIsCurrent'
    BY <1>12, <1>0 DEF Handoff!Rename, Handoff!Goes, Handoff!Ends,
      Handoff!ExportIsCurrent
  <1>13. ASSUME NEW e \in Exports, Handoff!WriteFails(e) PROVE
    Handoff!ExportIsCurrent'
    BY <1>13, <1>0 DEF Handoff!WriteFails, Handoff!Goes, Handoff!Fault,
      Handoff!ExportIsCurrent
  <1>14. ASSUME NEW e \in Exports, Handoff!RemoveTemporary(e) PROVE
    Handoff!ExportIsCurrent'
    BY <1>14, <1>0 DEF Handoff!RemoveTemporary, Handoff!Goes, Handoff!Ends,
      Handoff!Fault, Handoff!Removed, Handoff!ExportIsCurrent
  <1>15. ASSUME Handoff!Crash PROVE Handoff!ExportIsCurrent'
    BY <1>15, <1>0 DEF Handoff!Crash, Handoff!ExportIsCurrent
  <1> QED
    BY <1>1, <1>2, <1>3, <1>4, <1>5, <1>6, <1>7, <1>8, <1>9, <1>10, <1>11,
      <1>12, <1>13, <1>14, <1>15 DEF Handoff!Next, Handoff!ChangeRecord,
      Handoff!DeleteMeeting

\* What is left behind, a failed removal or the end of the process left.
LEMMA HandoffLeft ==
  ASSUME Handoff!Shape, Handoff!RemovedAfterFailure, Handoff!NothingIsLeft,
    [Handoff!Next]_handoffVars
  PROVE  Handoff!NothingIsLeft'
  <1> USE DEF handoffVars, Handoff!disk, Handoff!export
  <1>0. /\ hFaults \in Nat
        /\ hCrashes \in Nat
    BY DEF Handoff!Shape
  <1>1. CASE UNCHANGED <<leftover, hFaults, hCrashes>>
    BY <1>1 DEF Handoff!NothingIsLeft
  <1>2. ASSUME NEW e \in Exports, Handoff!RecordUnavailable(e) PROVE
    Handoff!NothingIsLeft'
    BY <1>2, <1>0 DEF Handoff!RecordUnavailable, Handoff!Goes, Handoff!Ends,
      Handoff!Fault, Handoff!NothingIsLeft
  <1>3. ASSUME NEW e \in Exports, Handoff!ShareContent(e) PROVE
    Handoff!NothingIsLeft'
    BY <1>3, <1>0 DEF Handoff!ShareContent, Handoff!Goes, Handoff!Ends,
      Handoff!Fault, Handoff!NothingIsLeft
  <1>4. ASSUME NEW e \in Exports, Handoff!RefusePlace(e) PROVE
    Handoff!NothingIsLeft'
    BY <1>4, <1>0 DEF Handoff!RefusePlace, Handoff!Goes, Handoff!Ends,
      Handoff!Fault, Handoff!NothingIsLeft
  <1>5. ASSUME NEW e \in Exports, Handoff!WriteFails(e) PROVE
    Handoff!NothingIsLeft'
    BY <1>5, <1>0 DEF Handoff!WriteFails, Handoff!Goes, Handoff!Fault,
      Handoff!NothingIsLeft
  <1>6. ASSUME NEW e \in Exports, Handoff!RemoveTemporary(e) PROVE
    Handoff!NothingIsLeft'
    BY <1>6, <1>0 DEF Handoff!RemoveTemporary, Handoff!Goes, Handoff!Ends,
      Handoff!Fault, Handoff!Removed, Handoff!NothingIsLeft,
      Handoff!RemovedAfterFailure
  <1>7. ASSUME Handoff!Crash PROVE Handoff!NothingIsLeft'
    BY <1>7, <1>0 DEF Handoff!Crash, Handoff!NothingIsLeft
  <1> QED
    BY <1>1, <1>2, <1>3, <1>4, <1>5, <1>6, <1>7 DEF Handoff!Next,
      Handoff!Save, Handoff!CancelSelection, Handoff!Select,
      Handoff!ReadRecord, Handoff!Share, Handoff!CreateTemporary,
      Handoff!WriteTemporary, Handoff!Rename, Handoff!ChangeRecord,
      Handoff!DeleteMeeting, Handoff!Goes, Handoff!Ends, Handoff!WriteAll,
      Handoff!ReadsAfter

\* It holds of the first state.
LEMMA HandoffBegins == Handoff!Init => Handoff!IInv
  <1> SUFFICES ASSUME Handoff!Init PROVE Handoff!IInv
    OBVIOUS
  <1>1. Handoff!Shape
    BY HandoffAssumption DEF Handoff!Init, Handoff!Shape, Handoff!Records,
      Handoff!Contents, Handoff!PCs
  <1>2. /\ Handoff!RecordIsLatest /\ Handoff!AskedBefore
        /\ Handoff!SnapshotInHand /\ Handoff!RenamedIsWhole
        /\ Handoff!RemovedAfterFailure /\ Handoff!ExportIsCurrent
        /\ Handoff!NothingIsLeft
    BY DEF Handoff!Init, Handoff!RecordIsLatest, Handoff!AskedBefore,
      Handoff!SnapshotInHand, Handoff!RenamedIsWhole,
      Handoff!RemovedAfterFailure, Handoff!ExportIsCurrent,
      Handoff!NothingIsLeft
  <1>3. Handoff!FilesAreWhole
    BY HandoffAssumption DEF Handoff!Init, Handoff!FilesAreWhole
  <1> QED
    BY <1>1, <1>2, <1>3 DEF Handoff!IInv

\* The step of an export, whatever it is.
LEMMA HandoffStep ==
  Handoff!IInv /\ [Handoff!Next]_handoffVars => Handoff!IInv'
  BY HandoffShape, HandoffLatest, HandoffAsked, HandoffInHand, HandoffRenamed,
    HandoffRemoved, HandoffFiles, HandoffCurrent, HandoffLeft
  DEF Handoff!IInv

\* A file that an export makes is the whole record, no older than the record
\* was when its place was selected, and no temporary file outlives an export
\* that did not fail (save_after_destination_selection, write_atomic).
THEOREM ExportsAreWhole == LibrarySpec => []HandoffIsWhole
  <1> DEFINE Inv == component = "handoff" => Handoff!IInv
  <1>1. LibraryInit => Inv
    BY HandoffBegins DEF LibraryInit, CredentialsInit, DatabaseInit, ReviewInit,
      PagesInit, HandoffInit, SetupInit, LanguagesInit
  <1>2. Inv /\ [LibraryNext]_everything => Inv'
    <2> SUFFICES ASSUME Inv, [LibraryNext]_everything, component' = "handoff"
                 PROVE  Handoff!IInv'
      OBVIOUS
    <2>1. [Handoff!Next]_handoffVars /\ component = "handoff"
      BY DEF LibraryNext, everything, CredentialsNext, DatabaseNext,
        ReviewNext, PagesNext, HandoffNext, SetupNext, LanguagesNext
    <2> QED
      BY <2>1, HandoffStep
  <1>3. Inv => HandoffIsWhole
    BY DEF HandoffIsWhole, Handoff!IInv
  <1> QED
    BY <1>1, <1>2, <1>3, PTL DEF LibrarySpec

-----------------------------------------------------------------------------
(* The first setup                                                         *)

\* A setup that is marked is complete.
LEMMA MarkedIsComplete ==
  Setup!Completed([completed |-> TRUE, step |-> LastStep, downloaded |-> TRUE])
  <1>1. [completed |-> TRUE, step |-> LastStep, downloaded |-> TRUE]
          \in Setup!Status
    BY SetupAssumption DEF Setup!Status, Setup!Steps
  <1> QED
    BY <1>1, SetupAssumption DEF Setup!Completed

\* What the setup has configured, and where its completions stand.
LEMMA SetupShape ==
  ASSUME Setup!Shape, [Setup!Next]_setupVars
  PROVE  Setup!Shape'
  <1> USE DEF setupVars, Setup!page, Setup!history, Setup!PCs
  <1>1. CASE UNCHANGED <<sPc, sConfigured, overlapped, outdone, sFaults>>
    BY <1>1 DEF Setup!Shape
  <1>2. ASSUME Setup!AnswerLayout PROVE Setup!Shape'
    BY <1>2 DEF Setup!AnswerLayout, Setup!Fault, Setup!Shape
  <1>3. ASSUME Setup!LoadFails PROVE Setup!Shape'
    BY <1>3 DEF Setup!LoadFails, Setup!Fault, Setup!Shape
  <1>4. ASSUME NEW s \in saves, Setup!LandSave(s) PROVE Setup!Shape'
    BY <1>4 DEF Setup!LandSave, Setup!Fault, Setup!Put, Setup!Shape
  <1>5. ASSUME NEW c \in Completions, Setup!Finish(c) PROVE Setup!Shape'
    BY <1>5 DEF Setup!Finish, Setup!HoldSaves, Setup!Shape
  <1>6. ASSUME NEW c \in Completions, Setup!SaveFindingsConfig(c)
         PROVE  Setup!Shape'
    <2>1. sConfigured' \in SUBSET Setup!Configurations
      BY <1>6 DEF Setup!SaveFindingsConfig, Setup!Fault, Setup!Shape,
        Setup!Configurations
    <2>2. /\ sPc' \in [Completions -> Setup!PCs]
          /\ sFaults' \in Nat
      BY <1>6 DEF Setup!SaveFindingsConfig, Setup!Fault, Setup!Shape,
        Setup!AfterFindings
    <2> QED
      BY <1>6, <2>1, <2>2 DEF Setup!SaveFindingsConfig, Setup!Shape
  <1>7. ASSUME NEW c \in Completions, Setup!SaveTranscriptConfig(c)
         PROVE  Setup!Shape'
    <2>1. sConfigured' \in SUBSET Setup!Configurations
      BY <1>7 DEF Setup!SaveTranscriptConfig, Setup!Fault, Setup!Shape,
        Setup!Configurations
    <2>2. /\ sPc' \in [Completions -> Setup!PCs]
          /\ sFaults' \in Nat
      BY <1>7 DEF Setup!SaveTranscriptConfig, Setup!Fault, Setup!Shape,
        Setup!AfterFindings
    <2> QED
      BY <1>7, <2>1, <2>2 DEF Setup!SaveTranscriptConfig, Setup!Shape
  <1>8. ASSUME NEW c \in Completions, Setup!MarkCompleted(c)
         PROVE  Setup!Shape'
    BY <1>8 DEF Setup!MarkCompleted, Setup!Fault, Setup!Put, Setup!Shape
  <1>9. ASSUME NEW c \in Completions, Setup!AnswerCompleted(c)
         PROVE  Setup!Shape'
    BY <1>9 DEF Setup!AnswerCompleted, Setup!Shows, Setup!Shape
  <1>10. ASSUME NEW c \in Completions, Setup!AnswerFailed(c)
          PROVE  Setup!Shape'
    BY <1>10 DEF Setup!AnswerFailed, Setup!Shape
  <1>11. ASSUME NEW c \in Completions, Setup!Reload(c) PROVE Setup!Shape'
    BY <1>11 DEF Setup!Reload, Setup!Mount, Setup!Shape
  <1>12. ASSUME Setup!Crash PROVE Setup!Shape'
    BY <1>12 DEF Setup!Crash, Setup!Mount, Setup!Shape
  <1> QED
    BY <1>1, <1>2, <1>3, <1>4, <1>5, <1>6, <1>7, <1>8, <1>9, <1>10, <1>11,
      <1>12 DEF Setup!Next, Setup!AnswerLoad, Setup!AnswerVerification,
      Setup!GoToStep, Setup!AnnounceModel, Setup!FireTimer, Setup!WriteStore,
      Setup!Shows

\* complete_onboarding configures before it marks.
LEMMA SetupConfigured ==
  ASSUME Setup!Shape, Setup!ConfiguredFirst, [Setup!Next]_setupVars
  PROVE  Setup!ConfiguredFirst'
  <1> USE DEF setupVars, Setup!page, Setup!history
  <1>0. /\ sPc \in [Completions -> Setup!PCs]
        /\ sConfigured \in SUBSET Setup!Configurations
    BY DEF Setup!Shape
  <1>1. CASE UNCHANGED <<sPc, sConfigured>>
    BY <1>1 DEF Setup!ConfiguredFirst, Setup!Configurations
  <1>2. ASSUME NEW c \in Completions, Setup!Finish(c)
         PROVE  Setup!ConfiguredFirst'
    BY <1>2, <1>0 DEF Setup!Finish, Setup!HoldSaves, Setup!ConfiguredFirst,
      Setup!Configurations
  <1>3. ASSUME NEW c \in Completions, Setup!SaveFindingsConfig(c)
         PROVE  Setup!ConfiguredFirst'
    BY <1>3, <1>0 DEF Setup!SaveFindingsConfig, Setup!Fault,
      Setup!AfterFindings, Setup!ConfiguredFirst, Setup!Configurations
  <1>4. ASSUME NEW c \in Completions, Setup!SaveTranscriptConfig(c)
         PROVE  Setup!ConfiguredFirst'
    BY <1>4, <1>0 DEF Setup!SaveTranscriptConfig, Setup!Fault,
      Setup!ConfiguredFirst, Setup!Configurations
  <1>5. ASSUME NEW c \in Completions, Setup!MarkCompleted(c)
         PROVE  Setup!ConfiguredFirst'
    BY <1>5, <1>0 DEF Setup!MarkCompleted, Setup!Fault, Setup!Put,
      Setup!ConfiguredFirst, Setup!Configurations
  <1>6. ASSUME NEW c \in Completions, Setup!AnswerCompleted(c)
         PROVE  Setup!ConfiguredFirst'
    BY <1>6, <1>0 DEF Setup!AnswerCompleted, Setup!Shows,
      Setup!ConfiguredFirst, Setup!Configurations
  <1>7. ASSUME NEW c \in Completions, Setup!AnswerFailed(c)
         PROVE  Setup!ConfiguredFirst'
    BY <1>7, <1>0 DEF Setup!AnswerFailed, Setup!ConfiguredFirst,
      Setup!Configurations
  <1>8. ASSUME NEW c \in Completions, Setup!Reload(c)
         PROVE  Setup!ConfiguredFirst'
    BY <1>8, <1>0 DEF Setup!Reload, Setup!Mount, Setup!ConfiguredFirst,
      Setup!Configurations
  <1>9. ASSUME Setup!Crash PROVE Setup!ConfiguredFirst'
    BY <1>9, <1>0 DEF Setup!Crash, Setup!Mount, Setup!ConfiguredFirst,
      Setup!Configurations
  <1> QED
    BY <1>1, <1>2, <1>3, <1>4, <1>5, <1>6, <1>7, <1>8, <1>9 DEF Setup!Next,
      Setup!AnswerLayout, Setup!AnswerLoad, Setup!LoadFails,
      Setup!AnswerVerification, Setup!GoToStep, Setup!AnnounceModel,
      Setup!FireTimer, Setup!WriteStore, Setup!LandSave, Setup!Shows,
      Setup!Fault, Setup!Put

\* Unless the page says that they overlapped, one completion runs.
LEMMA SetupOne ==
  ASSUME Setup!Shape, Setup!OneCompletion, [Setup!Next]_setupVars
  PROVE  Setup!OneCompletion'
  <1> USE DEF setupVars, Setup!page, Setup!history
  <1>0. /\ sPc \in [Completions -> Setup!PCs]
    BY DEF Setup!Shape
  <1>1. CASE UNCHANGED <<sPc, overlapped>>
    BY <1>1 DEF Setup!OneCompletion
  <1>2. ASSUME NEW c \in Completions, Setup!Finish(c)
         PROVE  Setup!OneCompletion'
    BY <1>2, <1>0 DEF Setup!Finish, Setup!HoldSaves, Setup!OneCompletion
  <1>3. ASSUME NEW c \in Completions, Setup!SaveFindingsConfig(c)
         PROVE  Setup!OneCompletion'
    BY <1>3, <1>0 DEF Setup!SaveFindingsConfig, Setup!Fault,
      Setup!AfterFindings, Setup!OneCompletion
  <1>4. ASSUME NEW c \in Completions, Setup!SaveTranscriptConfig(c)
         PROVE  Setup!OneCompletion'
    BY <1>4, <1>0 DEF Setup!SaveTranscriptConfig, Setup!Fault,
      Setup!OneCompletion
  <1>5. ASSUME NEW c \in Completions, Setup!MarkCompleted(c)
         PROVE  Setup!OneCompletion'
    BY <1>5, <1>0 DEF Setup!MarkCompleted, Setup!Fault, Setup!Put,
      Setup!OneCompletion
  <1>6. ASSUME NEW c \in Completions, Setup!AnswerCompleted(c)
         PROVE  Setup!OneCompletion'
    BY <1>6, <1>0 DEF Setup!AnswerCompleted, Setup!Shows, Setup!OneCompletion
  <1>7. ASSUME NEW c \in Completions, Setup!AnswerFailed(c)
         PROVE  Setup!OneCompletion'
    BY <1>7, <1>0 DEF Setup!AnswerFailed, Setup!OneCompletion
  <1>8. ASSUME NEW c \in Completions, Setup!Reload(c)
         PROVE  Setup!OneCompletion'
    BY <1>8, <1>0 DEF Setup!Reload, Setup!Mount, Setup!OneCompletion
  <1>9. ASSUME Setup!Crash PROVE Setup!OneCompletion'
    BY <1>9, <1>0 DEF Setup!Crash, Setup!Mount, Setup!OneCompletion
  <1> QED
    BY <1>1, <1>2, <1>3, <1>4, <1>5, <1>6, <1>7, <1>8, <1>9 DEF Setup!Next,
      Setup!AnswerLayout, Setup!AnswerLoad, Setup!LoadFails,
      Setup!AnswerVerification, Setup!GoToStep, Setup!AnnounceModel,
      Setup!FireTimer, Setup!WriteStore, Setup!LandSave, Setup!Shows,
      Setup!Fault, Setup!Put

\* isCompleting is set before a completion and reset after it.
LEMMA SetupHeld ==
  ASSUME Setup!Shape, Setup!OneCompletion, Setup!SavesAreHeld,
    [Setup!Next]_setupVars
  PROVE  Setup!SavesAreHeld'
  <1> USE DEF setupVars, Setup!page, Setup!history
  <1>0. /\ sPc \in [Completions -> Setup!PCs]
    BY DEF Setup!Shape
  <1>1. CASE UNCHANGED <<sPc, overlapped, isCompleting>>
    BY <1>1 DEF Setup!SavesAreHeld, Setup!UnderWay
  <1>2. ASSUME NEW c \in Completions, Setup!Finish(c)
         PROVE  Setup!SavesAreHeld'
    BY <1>2, <1>0 DEF Setup!Finish, Setup!HoldSaves, Setup!SavesAreHeld,
      Setup!UnderWay, Setup!OneCompletion
  <1>3. ASSUME NEW c \in Completions, Setup!SaveFindingsConfig(c)
         PROVE  Setup!SavesAreHeld'
    BY <1>3, <1>0 DEF Setup!SaveFindingsConfig, Setup!Fault,
      Setup!AfterFindings, Setup!SavesAreHeld, Setup!UnderWay,
      Setup!OneCompletion
  <1>4. ASSUME NEW c \in Completions, Setup!SaveTranscriptConfig(c)
         PROVE  Setup!SavesAreHeld'
    BY <1>4, <1>0 DEF Setup!SaveTranscriptConfig, Setup!Fault,
      Setup!SavesAreHeld, Setup!UnderWay, Setup!OneCompletion
  <1>5. ASSUME NEW c \in Completions, Setup!MarkCompleted(c)
         PROVE  Setup!SavesAreHeld'
    BY <1>5, <1>0 DEF Setup!MarkCompleted, Setup!Fault, Setup!Put,
      Setup!SavesAreHeld, Setup!UnderWay, Setup!OneCompletion
  <1>6. ASSUME NEW c \in Completions, Setup!AnswerCompleted(c)
         PROVE  Setup!SavesAreHeld'
    BY <1>6, <1>0 DEF Setup!AnswerCompleted, Setup!Shows, Setup!SavesAreHeld,
      Setup!UnderWay, Setup!OneCompletion
  <1>7. ASSUME NEW c \in Completions, Setup!AnswerFailed(c)
         PROVE  Setup!SavesAreHeld'
    BY <1>7, <1>0 DEF Setup!AnswerFailed, Setup!SavesAreHeld, Setup!UnderWay,
      Setup!OneCompletion
  <1>8. ASSUME NEW c \in Completions, Setup!Reload(c)
         PROVE  Setup!SavesAreHeld'
    BY <1>8, <1>0 DEF Setup!Reload, Setup!Mount, Setup!SavesAreHeld,
      Setup!UnderWay, Setup!OneCompletion
  <1>9. ASSUME Setup!Crash PROVE Setup!SavesAreHeld'
    BY <1>9, <1>0 DEF Setup!Crash, Setup!Mount, Setup!SavesAreHeld,
      Setup!UnderWay, Setup!OneCompletion
  <1> QED
    BY <1>1, <1>2, <1>3, <1>4, <1>5, <1>6, <1>7, <1>8, <1>9 DEF Setup!Next,
      Setup!AnswerLayout, Setup!AnswerLoad, Setup!LoadFails,
      Setup!AnswerVerification, Setup!GoToStep, Setup!AnnounceModel,
      Setup!FireTimer, Setup!WriteStore, Setup!LandSave, Setup!Shows,
      Setup!Fault, Setup!Put

\* A save is sent by a timer that finds no completion.
LEMMA SetupBeside ==
  ASSUME Setup!SavesAreHeld, Setup!NoneBeside, [Setup!Next]_setupVars
  PROVE  Setup!NoneBeside'
  <1> USE DEF setupVars, Setup!page, Setup!history
  <1>1. CASE UNCHANGED <<saves>>
    BY <1>1 DEF Setup!NoneBeside
  <1>2. ASSUME Setup!FireTimer PROVE Setup!NoneBeside'
    <2>1. CASE isCompleting
      BY <1>2, <2>1 DEF Setup!FireTimer, Setup!NoneBeside
    <2>2. CASE ~isCompleting
      <3>1. (Setup!UnderWay # {} /\ ~overlapped) = FALSE
        BY <2>2 DEF Setup!SavesAreHeld
      <3>2. PICK n \in 1..MaxSaves : saves' = saves \cup
              {[status |-> timer, number |-> n, beside |-> FALSE]}
        BY <1>2, <2>2, <3>1 DEF Setup!FireTimer
      <3> QED
        BY <3>2 DEF Setup!NoneBeside
    <2> QED
      BY <2>1, <2>2
  <1>3. ASSUME NEW s \in saves, Setup!LandSave(s) PROVE Setup!NoneBeside'
    BY <1>3 DEF Setup!LandSave, Setup!Fault, Setup!Put, Setup!NoneBeside
  <1>4. ASSUME Setup!Crash PROVE Setup!NoneBeside'
    BY <1>4 DEF Setup!Crash, Setup!Mount, Setup!NoneBeside
  <1> QED
    BY <1>1, <1>2, <1>3, <1>4 DEF Setup!Next, Setup!AnswerLayout,
      Setup!AnswerLoad, Setup!LoadFails, Setup!AnswerVerification,
      Setup!GoToStep, Setup!AnnounceModel, Setup!WriteStore, Setup!Finish,
      Setup!SaveFindingsConfig, Setup!SaveTranscriptConfig,
      Setup!MarkCompleted, Setup!AnswerCompleted, Setup!AnswerFailed,
      Setup!Reload, Setup!Shows, Setup!Fault, Setup!Put, Setup!HoldSaves,
      Setup!AfterFindings, Setup!Mount

\* Between the mark of a completion and its answer nothing unmarks it.
LEMMA SetupSuccess ==
  ASSUME Setup!Shape, Setup!NoneBeside, Setup!OneCompletion,
    Setup!CompletionLasts, Setup!SuccessIsKept, [Setup!Next]_setupVars
  PROVE  Setup!SuccessIsKept'
  <1> USE DEF setupVars, Setup!page, Setup!history
  <1>0. /\ sPc \in [Completions -> Setup!PCs]
    BY DEF Setup!Shape
  <1>1. CASE UNCHANGED <<sPc, overlapped, outdone, store, disk>>
    BY <1>1 DEF Setup!SuccessIsKept, Setup!Completed
  <1>2. ASSUME NEW c \in Completions, Setup!Finish(c)
         PROVE  Setup!SuccessIsKept'
    BY <1>2, <1>0 DEF Setup!Finish, Setup!HoldSaves, Setup!SuccessIsKept,
      Setup!Completed
  <1>3. ASSUME NEW c \in Completions, Setup!SaveFindingsConfig(c)
         PROVE  Setup!SuccessIsKept'
    BY <1>3, <1>0 DEF Setup!SaveFindingsConfig, Setup!Fault,
      Setup!AfterFindings, Setup!SuccessIsKept, Setup!Completed
  <1>4. ASSUME NEW c \in Completions, Setup!SaveTranscriptConfig(c)
         PROVE  Setup!SuccessIsKept'
    BY <1>4, <1>0 DEF Setup!SaveTranscriptConfig, Setup!Fault,
      Setup!SuccessIsKept, Setup!Completed
  <1>5. ASSUME NEW c \in Completions, Setup!MarkCompleted(c)
         PROVE  Setup!SuccessIsKept'
    <2>1. CASE sFaults' = sFaults
      <3>1. /\ store' = [completed |-> TRUE, step |-> LastStep,
                        downloaded |-> TRUE]
            /\ disk' = store'
        BY <1>5, <2>1 DEF Setup!MarkCompleted, Setup!Put, Setup!Fault,
          Setup!Shape
      <3> QED
        BY <1>5, <3>1, MarkedIsComplete
        DEF Setup!MarkCompleted, Setup!SuccessIsKept,
          Setup!Shape, Setup!OneCompletion, Setup!CompletionLasts
    <2>2. CASE sFaults' # sFaults
      <3>1. /\ sPc' = [sPc EXCEPT ![c] = "failed"]
            /\ store' = [completed |-> TRUE, step |-> LastStep,
                        downloaded |-> TRUE]
            /\ disk' = disk
            /\ outdone' => outdone
            /\ disk' # store' /\ outdone => outdone'
        BY <1>5, <2>2 DEF Setup!MarkCompleted, Setup!Put, Setup!Fault,
          Setup!Shape
      <3> QED
        BY <1>5, <3>1, MarkedIsComplete
        DEF Setup!MarkCompleted, Setup!SuccessIsKept,
          Setup!Shape, Setup!OneCompletion, Setup!CompletionLasts
    <2> QED
      BY <2>1, <2>2
  <1>6. ASSUME NEW c \in Completions, Setup!AnswerCompleted(c)
         PROVE  Setup!SuccessIsKept'
    BY <1>6, <1>0 DEF Setup!AnswerCompleted, Setup!Shows,
      Setup!SuccessIsKept, Setup!Completed
  <1>7. ASSUME NEW c \in Completions, Setup!AnswerFailed(c)
         PROVE  Setup!SuccessIsKept'
    BY <1>7, <1>0 DEF Setup!AnswerFailed, Setup!SuccessIsKept,
      Setup!Completed
  <1>8. ASSUME NEW c \in Completions, Setup!Reload(c)
         PROVE  Setup!SuccessIsKept'
    BY <1>8, <1>0 DEF Setup!Reload, Setup!Mount, Setup!SuccessIsKept,
      Setup!Completed
  <1>9. ASSUME Setup!Crash PROVE Setup!SuccessIsKept'
    BY <1>9, <1>0 DEF Setup!Crash, Setup!Mount, Setup!SuccessIsKept,
      Setup!Completed
  <1>10. ASSUME NEW s \in saves, Setup!LandSave(s) PROVE Setup!SuccessIsKept'
    BY <1>10, <1>0 DEF Setup!LandSave, Setup!Fault, Setup!Put,
      Setup!SuccessIsKept, Setup!Completed, Setup!NoneBeside
  <1>11. ASSUME Setup!WriteStore PROVE Setup!SuccessIsKept'
    BY <1>11, <1>0 DEF Setup!WriteStore, Setup!SuccessIsKept, Setup!Completed
  <1> QED
    BY <1>1, <1>2, <1>3, <1>4, <1>5, <1>6, <1>7, <1>8, <1>9, <1>10, <1>11 DEF
      Setup!Next, Setup!AnswerLayout, Setup!AnswerLoad, Setup!LoadFails,
      Setup!AnswerVerification, Setup!GoToStep, Setup!AnnounceModel,
      Setup!FireTimer, Setup!Shows, Setup!Fault

\* What marks the setup, or writes a mark to disk, finds it configured.
LEMMA SetupCompleted ==
  ASSUME Setup!Shape, Setup!ConfiguredFirst, Setup!CompletedIsConfigured,
    [Setup!Next]_setupVars
  PROVE  Setup!CompletedIsConfigured'
  <1> USE DEF setupVars, Setup!page, Setup!history
  <1>0. /\ sConfigured \in SUBSET Setup!Configurations
    BY DEF Setup!Shape
  <1>1. CASE UNCHANGED <<sConfigured, store, disk>>
    BY <1>1 DEF Setup!CompletedIsConfigured, Setup!Completed,
      Setup!Configurations
  <1>2. ASSUME NEW s \in saves, Setup!LandSave(s)
         PROVE  Setup!CompletedIsConfigured'
    BY <1>2, <1>0 DEF Setup!LandSave, Setup!Fault, Setup!Put,
      Setup!CompletedIsConfigured, Setup!Completed, Setup!Configurations
  <1>3. ASSUME Setup!WriteStore PROVE Setup!CompletedIsConfigured'
    BY <1>3, <1>0 DEF Setup!WriteStore, Setup!CompletedIsConfigured,
      Setup!Completed, Setup!Configurations
  <1>4. ASSUME NEW c \in Completions, Setup!SaveFindingsConfig(c)
         PROVE  Setup!CompletedIsConfigured'
    BY <1>4, <1>0 DEF Setup!SaveFindingsConfig, Setup!Fault,
      Setup!AfterFindings, Setup!CompletedIsConfigured, Setup!Completed,
      Setup!Configurations
  <1>5. ASSUME NEW c \in Completions, Setup!SaveTranscriptConfig(c)
         PROVE  Setup!CompletedIsConfigured'
    BY <1>5, <1>0 DEF Setup!SaveTranscriptConfig, Setup!Fault,
      Setup!CompletedIsConfigured, Setup!Completed, Setup!Configurations
  <1>6. ASSUME NEW c \in Completions, Setup!MarkCompleted(c)
         PROVE  Setup!CompletedIsConfigured'
    BY <1>6, <1>0 DEF Setup!MarkCompleted, Setup!Fault, Setup!Put,
      Setup!CompletedIsConfigured, Setup!Completed, Setup!Configurations,
      Setup!ConfiguredFirst
  <1>7. ASSUME Setup!Crash PROVE Setup!CompletedIsConfigured'
    BY <1>7, <1>0 DEF Setup!Crash, Setup!Mount, Setup!CompletedIsConfigured,
      Setup!Completed, Setup!Configurations
  <1> QED
    BY <1>1, <1>2, <1>3, <1>4, <1>5, <1>6, <1>7 DEF Setup!Next,
      Setup!AnswerLayout, Setup!AnswerLoad, Setup!LoadFails,
      Setup!AnswerVerification, Setup!GoToStep, Setup!AnnounceModel,
      Setup!FireTimer, Setup!Finish, Setup!AnswerCompleted,
      Setup!AnswerFailed, Setup!Reload, Setup!Shows, Setup!Fault,
      Setup!HoldSaves, Setup!Mount

\* No save takes a completion back that the page was told of.
LEMMA SetupLasts ==
  ASSUME Setup!Shape, Setup!NoneBeside, Setup!SuccessIsKept,
    Setup!CompletionLasts, [Setup!Next]_setupVars
  PROVE  Setup!CompletionLasts'
  <1> USE DEF setupVars, Setup!page, Setup!history
  <1>1. CASE UNCHANGED <<told, outdone, overlapped, store, disk>>
    BY <1>1 DEF Setup!CompletionLasts, Setup!Completed
  <1>2. ASSUME NEW c \in Completions, Setup!Finish(c)
         PROVE  Setup!CompletionLasts'
    BY <1>2 DEF Setup!Finish, Setup!HoldSaves, Setup!CompletionLasts,
      Setup!Completed
  <1>3. ASSUME NEW s \in saves, Setup!LandSave(s) PROVE Setup!CompletionLasts'
    BY <1>3 DEF Setup!LandSave, Setup!Fault, Setup!Put,
      Setup!CompletionLasts, Setup!Completed, Setup!NoneBeside
  <1>4. ASSUME Setup!WriteStore PROVE Setup!CompletionLasts'
    BY <1>4 DEF Setup!WriteStore, Setup!CompletionLasts, Setup!Completed
  <1>5. ASSUME NEW c \in Completions, Setup!MarkCompleted(c)
         PROVE  Setup!CompletionLasts'
    <2>1. CASE sFaults' = sFaults
      <3>1. /\ store' = [completed |-> TRUE, step |-> LastStep,
                        downloaded |-> TRUE]
            /\ disk' = store'
        BY <1>5, <2>1 DEF Setup!MarkCompleted, Setup!Put, Setup!Fault,
          Setup!Shape
      <3> QED
        BY <1>5, <3>1, MarkedIsComplete
        DEF Setup!MarkCompleted, Setup!CompletionLasts,
          Setup!Shape
    <2>2. CASE sFaults' # sFaults
      <3>1. /\ sPc' = [sPc EXCEPT ![c] = "failed"]
            /\ store' = [completed |-> TRUE, step |-> LastStep,
                        downloaded |-> TRUE]
            /\ disk' = disk
            /\ outdone' => outdone
            /\ disk' # store' /\ outdone => outdone'
        BY <1>5, <2>2 DEF Setup!MarkCompleted, Setup!Put, Setup!Fault,
          Setup!Shape
      <3> QED
        BY <1>5, <3>1, MarkedIsComplete
        DEF Setup!MarkCompleted, Setup!CompletionLasts,
          Setup!Shape
    <2> QED
      BY <2>1, <2>2
  <1>6. ASSUME NEW c \in Completions, Setup!AnswerCompleted(c)
         PROVE  Setup!CompletionLasts'
    BY <1>6 DEF Setup!AnswerCompleted, Setup!Shows, Setup!CompletionLasts,
      Setup!Completed, Setup!SuccessIsKept
  <1>7. ASSUME Setup!Crash PROVE Setup!CompletionLasts'
    BY <1>7 DEF Setup!Crash, Setup!Mount, Setup!CompletionLasts,
      Setup!Completed
  <1> QED
    BY <1>1, <1>2, <1>3, <1>4, <1>5, <1>6, <1>7 DEF Setup!Next,
      Setup!AnswerLayout, Setup!AnswerLoad, Setup!LoadFails,
      Setup!AnswerVerification, Setup!GoToStep, Setup!AnnounceModel,
      Setup!FireTimer, Setup!SaveFindingsConfig, Setup!SaveTranscriptConfig,
      Setup!AnswerFailed, Setup!Reload, Setup!Shows, Setup!Fault,
      Setup!AfterFindings, Setup!Mount

\* It holds of the first state.
LEMMA SetupBegins == Setup!Init => Setup!IInv
  <1> SUFFICES ASSUME Setup!Init PROVE Setup!IInv
    OBVIOUS
  <1> USE SetupAssumption DEF Setup!Init
  <1>1. /\ Setup!Shape /\ Setup!ConfiguredFirst /\ Setup!OneCompletion
        /\ Setup!SavesAreHeld /\ Setup!NoneBeside
    BY DEF Setup!Shape, Setup!PCs, Setup!ConfiguredFirst, Setup!OneCompletion,
      Setup!SavesAreHeld, Setup!UnderWay, Setup!NoneBeside
  <1>2. /\ Setup!SuccessIsKept /\ Setup!CompletedIsConfigured
        /\ Setup!CompletionLasts
    BY DEF Setup!SuccessIsKept, Setup!CompletedIsConfigured,
      Setup!CompletionLasts, Setup!Completed
  <1> QED
    BY <1>1, <1>2 DEF Setup!IInv

\* The step of the setup, whatever it is.
LEMMA SetupStep ==
  Setup!IInv /\ [Setup!Next]_setupVars => Setup!IInv'
  BY SetupShape, SetupConfigured, SetupOne, SetupHeld, SetupBeside,
    SetupSuccess, SetupCompleted, SetupLasts
  DEF Setup!IInv

\* A setup that is complete has both of its configurations, and a completion
\* that the page was told of lasts, in the store and on disk, whatever saves
\* were announced (complete_onboarding, saveOnboardingStatus).
THEOREM SetupStays == LibrarySpec => []OnboardingIsKept
  <1> DEFINE Inv == component = "setup" => Setup!IInv
  <1>1. LibraryInit => Inv
    BY SetupBegins DEF LibraryInit, CredentialsInit, DatabaseInit,
      ReviewInit, PagesInit, HandoffInit, SetupInit, LanguagesInit
  <1>2. Inv /\ [LibraryNext]_everything => Inv'
    <2> SUFFICES ASSUME Inv, [LibraryNext]_everything,
                        component' = "setup"
                 PROVE  Setup!IInv'
      OBVIOUS
    <2>1. [Setup!Next]_setupVars /\ component = "setup"
      BY DEF LibraryNext, everything, CredentialsNext, DatabaseNext,
        ReviewNext, PagesNext, HandoffNext, SetupNext, LanguagesNext
    <2> QED
      BY <2>1, SetupStep
  <1>3. Inv => OnboardingIsKept
    BY DEF OnboardingIsKept, Setup!IInv
  <1> QED
    BY <1>1, <1>2, <1>3, PTL DEF LibrarySpec

-----------------------------------------------------------------------------
(* The languages in the metadata                                           *)

\* What the variables of the metadata are.
LEMMA LanguagesShape ==
  ASSUME Chosen!Shape, Chosen!WantedIsKnown, Chosen!CopiesAreFresh,
    [Chosen!Next]_languagesVars
  PROVE  Chosen!Shape'
  <1> USE DEF languagesVars, Chosen!calls, Chosen!jobVars, Chosen!history,
    Chosen!Writers, Chosen!PCs
  <1>1. CASE UNCHANGED <<lFile, kept, lEdition, lPc, lWanted, copy, jobCopy>>
    BY <1>1 DEF Chosen!Shape
  <1>2. ASSUME NEW w \in Choices, Chosen!Choose(w) PROVE Chosen!Shape'
    BY <1>2, LanguagesAssumption DEF Chosen!Choose, Chosen!Goes, Chosen!Shape
  <1>3. ASSUME NEW g \in Detections, Chosen!Generate(g) PROVE Chosen!Shape'
    BY <1>3, LanguagesAssumption DEF Chosen!Generate, Chosen!Goes,
      Chosen!Shape
  <1>4. ASSUME NEW g \in Detections, Chosen!ReadChosen(g) PROVE Chosen!Shape'
    BY <1>4, LanguagesAssumption DEF Chosen!ReadChosen, Chosen!Goes,
      Chosen!Fault, Chosen!Shape
  <1>5. ASSUME NEW g \in Detections, Chosen!ReadDetected(g) PROVE
    Chosen!Shape'
    BY <1>5, LanguagesAssumption DEF Chosen!ReadDetected, Chosen!Goes,
      Chosen!Fault, Chosen!Shape
  <1>6. ASSUME NEW w \in Chosen!Writers, Chosen!ReadMetadata(w) PROVE
    Chosen!Shape'
    BY <1>6, LanguagesAssumption DEF Chosen!ReadMetadata, Chosen!Goes,
      Chosen!MayWrite, Chosen!Shape
  <1>7. ASSUME NEW w \in Chosen!Writers, Chosen!ReplaceMetadata(w) PROVE
    Chosen!Shape'
    BY <1>7, LanguagesAssumption DEF Chosen!ReplaceMetadata, Chosen!Goes,
      Chosen!Release, Chosen!With, Chosen!Shape, Chosen!WantedIsKnown,
      Chosen!CopiesAreFresh, Chosen!Metadata
  <1>8. ASSUME NEW w \in Chosen!Writers, Chosen!WriteFails(w) PROVE
    Chosen!Shape'
    BY <1>8, LanguagesAssumption DEF Chosen!WriteFails, Chosen!Goes,
      Chosen!Fault, Chosen!Release, Chosen!Shape
  <1>9. ASSUME Chosen!CommitTranscript PROVE Chosen!Shape'
    BY <1>9, LanguagesAssumption DEF Chosen!CommitTranscript, Chosen!Shape,
      Chosen!Editions
  <1>10. ASSUME Chosen!ReadForJob PROVE Chosen!Shape'
    BY <1>10, LanguagesAssumption DEF Chosen!ReadForJob, Chosen!Shape
  <1>11. ASSUME Chosen!ReplaceForJob PROVE Chosen!Shape'
    BY <1>11, LanguagesAssumption DEF Chosen!ReplaceForJob,
      Chosen!Retranscribed, Chosen!Shape, Chosen!CopiesAreFresh,
      Chosen!Metadata
  <1>12. ASSUME Chosen!JobWriteFails PROVE Chosen!Shape'
    BY <1>12, LanguagesAssumption DEF Chosen!JobWriteFails, Chosen!Fault,
      Chosen!Shape
  <1>13. ASSUME Chosen!Crash PROVE Chosen!Shape'
    BY <1>13, LanguagesAssumption DEF Chosen!Crash, Chosen!Shape
  <1>14. ASSUME Chosen!BeginJob PROVE Chosen!Shape'
    BY <1>14, LanguagesAssumption DEF Chosen!BeginJob, Chosen!Shape
  <1>15. ASSUME Chosen!ReplaceForSnapshot PROVE Chosen!Shape'
    BY <1>15, LanguagesAssumption DEF Chosen!ReplaceForSnapshot,
      Chosen!Snapshotted, Chosen!Shape, Chosen!CopiesAreFresh,
      Chosen!Metadata
  <1>16. ASSUME Chosen!JobFails PROVE Chosen!Shape'
    BY <1>16, LanguagesAssumption DEF Chosen!JobFails, Chosen!Fault,
      Chosen!Shape
  <1> QED
    BY <1>1, <1>2, <1>3, <1>4, <1>5, <1>6, <1>7, <1>8, <1>9, <1>10, <1>11,
      <1>12, <1>13, <1>14, <1>15, <1>16 DEF Chosen!Next

\* Commands choose a language, generations read the edition there is.
LEMMA LanguagesWanted ==
  ASSUME Chosen!Shape, Chosen!WantedIsKnown, [Chosen!Next]_languagesVars
  PROVE  Chosen!WantedIsKnown'
  <1> USE DEF languagesVars, Chosen!calls, Chosen!jobVars, Chosen!history,
    Chosen!Writers
  <1>0. /\ lPc \in [Chosen!Writers -> Chosen!PCs]
        /\ lWanted \in [Chosen!Writers ->
                          Languages \cup Chosen!Editions \cup {None}]
        /\ lEdition \in Chosen!Editions
        /\ Choices \cap Detections = {}
    BY LanguagesAssumption DEF Chosen!Shape
  <1>1. CASE UNCHANGED <<lPc, lWanted>>
    BY <1>1 DEF Chosen!WantedIsKnown
  <1>2. ASSUME NEW w \in Choices, Chosen!Choose(w) PROVE
    Chosen!WantedIsKnown'
    BY <1>2, <1>0 DEF Chosen!Choose, Chosen!Goes, Chosen!WantedIsKnown
  <1>3. ASSUME NEW g \in Detections, Chosen!Generate(g) PROVE
    Chosen!WantedIsKnown'
    BY <1>3, <1>0 DEF Chosen!Generate, Chosen!Goes, Chosen!WantedIsKnown
  <1>4. ASSUME NEW g \in Detections, Chosen!ReadChosen(g) PROVE
    Chosen!WantedIsKnown'
    BY <1>4, <1>0 DEF Chosen!ReadChosen, Chosen!Goes, Chosen!Fault,
      Chosen!WantedIsKnown
  <1>5. ASSUME NEW g \in Detections, Chosen!ReadDetected(g) PROVE
    Chosen!WantedIsKnown'
    BY <1>5, <1>0 DEF Chosen!ReadDetected, Chosen!Goes, Chosen!Fault,
      Chosen!WantedIsKnown
  <1>6. ASSUME NEW w \in Chosen!Writers, Chosen!ReadMetadata(w) PROVE
    Chosen!WantedIsKnown'
    BY <1>6, <1>0 DEF Chosen!ReadMetadata, Chosen!Goes, Chosen!MayWrite,
      Chosen!WantedIsKnown
  <1>7. ASSUME NEW w \in Chosen!Writers, Chosen!ReplaceMetadata(w) PROVE
    Chosen!WantedIsKnown'
    BY <1>7, <1>0 DEF Chosen!ReplaceMetadata, Chosen!Goes, Chosen!Release,
      Chosen!With, Chosen!WantedIsKnown
  <1>8. ASSUME NEW w \in Chosen!Writers, Chosen!WriteFails(w) PROVE
    Chosen!WantedIsKnown'
    BY <1>8, <1>0 DEF Chosen!WriteFails, Chosen!Goes, Chosen!Fault,
      Chosen!Release, Chosen!WantedIsKnown
  <1>9. ASSUME Chosen!Crash PROVE Chosen!WantedIsKnown'
    BY <1>9, <1>0 DEF Chosen!Crash, Chosen!WantedIsKnown
  <1> QED
    BY <1>1, <1>2, <1>3, <1>4, <1>5, <1>6, <1>7, <1>8, <1>9 DEF Chosen!Next,
      Chosen!BeginJob, Chosen!ReplaceForSnapshot, Chosen!JobFails,
      Chosen!CommitTranscript, Chosen!ReadForJob, Chosen!ReplaceForJob,
      Chosen!JobWriteFails, Chosen!Fault

\* The lock is taken before the file is read, and let go by its holder.
LEMMA LanguagesLock ==
  ASSUME Chosen!Shape, Chosen!LockIsHeld, [Chosen!Next]_languagesVars
  PROVE  Chosen!LockIsHeld'
  <1> USE DEF languagesVars, Chosen!calls, Chosen!jobVars, Chosen!history,
    Chosen!Writers
  <1>0. /\ lPc \in [Chosen!Writers -> Chosen!PCs]
        /\ \A w \in Chosen!Writers : w # None
    BY LanguagesAssumption DEF Chosen!Shape
  <1>1. CASE UNCHANGED <<lPc, holder>>
    BY <1>1 DEF Chosen!LockIsHeld
  <1>2. ASSUME NEW w \in Choices, Chosen!Choose(w) PROVE Chosen!LockIsHeld'
    BY <1>2, <1>0 DEF Chosen!Choose, Chosen!Goes, Chosen!LockIsHeld
  <1>3. ASSUME NEW g \in Detections, Chosen!Generate(g) PROVE
    Chosen!LockIsHeld'
    BY <1>3, <1>0 DEF Chosen!Generate, Chosen!Goes, Chosen!LockIsHeld
  <1>4. ASSUME NEW g \in Detections, Chosen!ReadChosen(g) PROVE
    Chosen!LockIsHeld'
    BY <1>4, <1>0 DEF Chosen!ReadChosen, Chosen!Goes, Chosen!Fault,
      Chosen!LockIsHeld
  <1>5. ASSUME NEW g \in Detections, Chosen!ReadDetected(g) PROVE
    Chosen!LockIsHeld'
    BY <1>5, <1>0 DEF Chosen!ReadDetected, Chosen!Goes, Chosen!Fault,
      Chosen!LockIsHeld
  <1>6. ASSUME NEW w \in Chosen!Writers, Chosen!ReadMetadata(w) PROVE
    Chosen!LockIsHeld'
    BY <1>6, <1>0 DEF Chosen!ReadMetadata, Chosen!Goes, Chosen!MayWrite,
      Chosen!LockIsHeld
  <1>7. ASSUME NEW w \in Chosen!Writers, Chosen!ReplaceMetadata(w) PROVE
    Chosen!LockIsHeld'
    BY <1>7, <1>0 DEF Chosen!ReplaceMetadata, Chosen!Goes, Chosen!Release,
      Chosen!With, Chosen!LockIsHeld
  <1>8. ASSUME NEW w \in Chosen!Writers, Chosen!WriteFails(w) PROVE
    Chosen!LockIsHeld'
    BY <1>8, <1>0 DEF Chosen!WriteFails, Chosen!Goes, Chosen!Fault,
      Chosen!Release, Chosen!LockIsHeld
  <1>9. ASSUME Chosen!Crash PROVE Chosen!LockIsHeld'
    BY <1>9, <1>0 DEF Chosen!Crash, Chosen!LockIsHeld
  <1> QED
    BY <1>1, <1>2, <1>3, <1>4, <1>5, <1>6, <1>7, <1>8, <1>9 DEF Chosen!Next,
      Chosen!BeginJob, Chosen!ReplaceForSnapshot, Chosen!JobFails,
      Chosen!CommitTranscript, Chosen!ReadForJob, Chosen!ReplaceForJob,
      Chosen!JobWriteFails, Chosen!Fault

\* Under the lock the copy is the file's, unless the job ran into it.
LEMMA LanguagesCopies ==
  ASSUME Chosen!Shape, Chosen!LockIsHeld, Chosen!CopiesAreFresh,
    [Chosen!Next]_languagesVars
  PROVE  Chosen!CopiesAreFresh'
  <1> USE DEF languagesVars, Chosen!calls, Chosen!jobVars, Chosen!history,
    Chosen!Writers
  <1>0. /\ lPc \in [Chosen!Writers -> Chosen!PCs]
        /\ copy \in [Chosen!Writers -> Chosen!Metadata \cup {None}]
        /\ lFile \in Chosen!Metadata
        /\ None \notin Chosen!Metadata
        /\ \A w \in Chosen!Writers : w # None
    BY LanguagesAssumption DEF Chosen!Shape
  <1>1. CASE UNCHANGED <<lPc, copy, lFile, clash, job, jobCopy>>
    BY <1>1 DEF Chosen!CopiesAreFresh
  <1>2. ASSUME NEW w \in Choices, Chosen!Choose(w) PROVE
    Chosen!CopiesAreFresh'
    BY <1>2, <1>0 DEF Chosen!Choose, Chosen!Goes, Chosen!CopiesAreFresh
  <1>3. ASSUME NEW g \in Detections, Chosen!Generate(g) PROVE
    Chosen!CopiesAreFresh'
    BY <1>3, <1>0 DEF Chosen!Generate, Chosen!Goes, Chosen!CopiesAreFresh
  <1>4. ASSUME NEW g \in Detections, Chosen!ReadChosen(g) PROVE
    Chosen!CopiesAreFresh'
    BY <1>4, <1>0 DEF Chosen!ReadChosen, Chosen!Goes, Chosen!Fault,
      Chosen!CopiesAreFresh
  <1>5. ASSUME NEW g \in Detections, Chosen!ReadDetected(g) PROVE
    Chosen!CopiesAreFresh'
    BY <1>5, <1>0 DEF Chosen!ReadDetected, Chosen!Goes, Chosen!Fault,
      Chosen!CopiesAreFresh
  <1>6. ASSUME NEW w \in Chosen!Writers, Chosen!ReadMetadata(w) PROVE
    Chosen!CopiesAreFresh'
    BY <1>6, <1>0 DEF Chosen!ReadMetadata, Chosen!Goes, Chosen!MayWrite,
      Chosen!CopiesAreFresh
  <1>7. ASSUME NEW w \in Chosen!Writers, Chosen!ReplaceMetadata(w) PROVE
    Chosen!CopiesAreFresh'
    BY <1>7, <1>0 DEF Chosen!ReplaceMetadata, Chosen!Goes, Chosen!Release,
      Chosen!With, Chosen!CopiesAreFresh, Chosen!LockIsHeld
  <1>8. ASSUME NEW w \in Chosen!Writers, Chosen!WriteFails(w) PROVE
    Chosen!CopiesAreFresh'
    BY <1>8, <1>0 DEF Chosen!WriteFails, Chosen!Goes, Chosen!Fault,
      Chosen!Release, Chosen!CopiesAreFresh
  <1>9. ASSUME Chosen!Crash PROVE Chosen!CopiesAreFresh'
    BY <1>9, <1>0 DEF Chosen!Crash, Chosen!CopiesAreFresh
  <1>10. ASSUME Chosen!CommitTranscript PROVE Chosen!CopiesAreFresh'
    BY <1>10, <1>0 DEF Chosen!CommitTranscript, Chosen!CopiesAreFresh
  <1>11. ASSUME Chosen!ReadForJob PROVE Chosen!CopiesAreFresh'
    BY <1>11, <1>0 DEF Chosen!ReadForJob, Chosen!CopiesAreFresh
  <1>12. ASSUME Chosen!ReplaceForJob PROVE Chosen!CopiesAreFresh'
    BY <1>12, <1>0 DEF Chosen!ReplaceForJob, Chosen!Retranscribed,
      Chosen!Overlapping, Chosen!CopiesAreFresh
  <1>13. ASSUME Chosen!JobWriteFails PROVE Chosen!CopiesAreFresh'
    BY <1>13, <1>0 DEF Chosen!JobWriteFails, Chosen!Fault,
      Chosen!CopiesAreFresh
  <1>14. ASSUME Chosen!BeginJob PROVE Chosen!CopiesAreFresh'
    BY <1>14, <1>0 DEF Chosen!BeginJob, Chosen!CopiesAreFresh
  <1>15. ASSUME Chosen!ReplaceForSnapshot PROVE Chosen!CopiesAreFresh'
    BY <1>15, <1>0 DEF Chosen!ReplaceForSnapshot, Chosen!Snapshotted,
      Chosen!Overlapping, Chosen!CopiesAreFresh
  <1>16. ASSUME Chosen!JobFails PROVE Chosen!CopiesAreFresh'
    BY <1>16, <1>0 DEF Chosen!JobFails, Chosen!Fault, Chosen!CopiesAreFresh
  <1> QED
    BY <1>1, <1>2, <1>3, <1>4, <1>5, <1>6, <1>7, <1>8, <1>9, <1>10, <1>11,
      <1>12, <1>13, <1>14, <1>15, <1>16 DEF Chosen!Next

\* The job writes of the transcript that it has committed.
LEMMA LanguagesMark ==
  ASSUME Chosen!Shape, Chosen!CopiesAreFresh, Chosen!MarkIsReached,
    [Chosen!Next]_languagesVars
  PROVE  Chosen!MarkIsReached'
  <1> USE DEF languagesVars, Chosen!calls, Chosen!jobVars, Chosen!history,
    Chosen!Writers
  <1>0. /\ lFile \in Chosen!Metadata
        /\ lEdition \in Chosen!Editions
    BY LanguagesAssumption DEF Chosen!Shape
  <1>1. CASE UNCHANGED <<lFile, clash, lEdition>>
    BY <1>1 DEF Chosen!MarkIsReached
  <1>2. ASSUME NEW w \in Chosen!Writers, Chosen!ReplaceMetadata(w) PROVE
    Chosen!MarkIsReached'
    BY <1>2, <1>0, LanguagesAssumption DEF Chosen!ReplaceMetadata,
      Chosen!Goes, Chosen!Release, Chosen!With, Chosen!MarkIsReached,
      Chosen!CopiesAreFresh, Chosen!Metadata, Chosen!Editions
  <1>3. ASSUME Chosen!CommitTranscript PROVE Chosen!MarkIsReached'
    BY <1>3, <1>0, LanguagesAssumption DEF Chosen!CommitTranscript,
      Chosen!MarkIsReached, Chosen!CopiesAreFresh, Chosen!Metadata,
      Chosen!Editions
  <1>4. ASSUME Chosen!ReplaceForJob PROVE Chosen!MarkIsReached'
    BY <1>4, <1>0, LanguagesAssumption DEF Chosen!ReplaceForJob,
      Chosen!Retranscribed, Chosen!MarkIsReached, Chosen!CopiesAreFresh,
      Chosen!Metadata, Chosen!Editions
  <1>5. ASSUME Chosen!ReplaceForSnapshot PROVE Chosen!MarkIsReached'
    BY <1>5, <1>0, LanguagesAssumption DEF Chosen!ReplaceForSnapshot,
      Chosen!Snapshotted, Chosen!Overlapping, Chosen!MarkIsReached,
      Chosen!CopiesAreFresh, Chosen!Metadata, Chosen!Editions
  <1> QED
    BY <1>1, <1>2, <1>3, <1>4, <1>5 DEF Chosen!Next, Chosen!Choose,
      Chosen!Generate, Chosen!ReadChosen, Chosen!ReadDetected,
      Chosen!ReadMetadata, Chosen!WriteFails, Chosen!ReadForJob,
      Chosen!BeginJob, Chosen!JobFails, Chosen!JobWriteFails,
      Chosen!Crash, Chosen!Goes, Chosen!Fault, Chosen!MayWrite,
      Chosen!Release

\* A writer that has the file as it is replaces only what it wants to.
LEMMA LanguagesWrites ==
  ASSUME Chosen!Shape, Chosen!CopiesAreFresh, Chosen!WritesAreKept,
    [Chosen!Next]_languagesVars
  PROVE  Chosen!WritesAreKept'
  <1> USE DEF languagesVars, Chosen!calls, Chosen!jobVars, Chosen!history,
    Chosen!Writers
  <1>1. CASE UNCHANGED <<lFile, clash, kept>>
    BY <1>1 DEF Chosen!WritesAreKept
  <1>2. ASSUME NEW w \in Chosen!Writers, Chosen!ReplaceMetadata(w) PROVE
    Chosen!WritesAreKept'
    BY <1>2 DEF Chosen!ReplaceMetadata, Chosen!Goes, Chosen!Release,
      Chosen!With, Chosen!WritesAreKept, Chosen!CopiesAreFresh
  <1>3. ASSUME Chosen!ReplaceForJob PROVE Chosen!WritesAreKept'
    BY <1>3 DEF Chosen!ReplaceForJob, Chosen!Retranscribed,
      Chosen!Overlapping, Chosen!WritesAreKept, Chosen!CopiesAreFresh
  <1>4. ASSUME Chosen!ReplaceForSnapshot PROVE Chosen!WritesAreKept'
    BY <1>4 DEF Chosen!ReplaceForSnapshot, Chosen!Snapshotted,
      Chosen!Overlapping, Chosen!WritesAreKept, Chosen!CopiesAreFresh
  <1> QED
    BY <1>1, <1>2, <1>3, <1>4 DEF Chosen!Next, Chosen!Choose, Chosen!Generate,
      Chosen!ReadChosen, Chosen!ReadDetected, Chosen!ReadMetadata,
      Chosen!WriteFails, Chosen!CommitTranscript, Chosen!ReadForJob,
      Chosen!BeginJob, Chosen!JobFails, Chosen!JobWriteFails,
      Chosen!Crash, Chosen!Goes, Chosen!Fault, Chosen!MayWrite,
      Chosen!Release

\* A detected language is of the edition that was there when it was read.
LEMMA LanguagesDetection ==
  ASSUME Chosen!Shape, Chosen!WantedIsKnown, Chosen!CopiesAreFresh,
    Chosen!MarkIsReached, Chosen!DetectionIsOfItsText,
    [Chosen!Next]_languagesVars
  PROVE  Chosen!DetectionIsOfItsText'
  <1> USE DEF languagesVars, Chosen!calls, Chosen!jobVars, Chosen!history,
    Chosen!Writers
  <1>0. /\ lFile \in Chosen!Metadata
        /\ lEdition \in Chosen!Editions
        /\ lWanted \in [Chosen!Writers ->
                          Languages \cup Chosen!Editions \cup {None}]
    BY LanguagesAssumption DEF Chosen!Shape
  <1>1. CASE UNCHANGED <<lFile, clash, late, lEdition>>
    BY <1>1 DEF Chosen!DetectionIsOfItsText
  <1>2. ASSUME NEW w \in Chosen!Writers, Chosen!ReplaceMetadata(w) PROVE
    Chosen!DetectionIsOfItsText'
    BY <1>2, <1>0, LanguagesAssumption DEF Chosen!ReplaceMetadata,
      Chosen!Goes, Chosen!Release, Chosen!With, Chosen!DetectionIsOfItsText,
      Chosen!CopiesAreFresh, Chosen!MarkIsReached, Chosen!WantedIsKnown,
      Chosen!Metadata, Chosen!Editions
  <1>3. ASSUME Chosen!CommitTranscript PROVE Chosen!DetectionIsOfItsText'
    BY <1>3, <1>0, LanguagesAssumption DEF Chosen!CommitTranscript,
      Chosen!DetectionIsOfItsText, Chosen!CopiesAreFresh,
      Chosen!MarkIsReached, Chosen!WantedIsKnown, Chosen!Metadata,
      Chosen!Editions
  <1>4. ASSUME Chosen!ReplaceForJob PROVE Chosen!DetectionIsOfItsText'
    BY <1>4, <1>0, LanguagesAssumption DEF Chosen!ReplaceForJob,
      Chosen!Retranscribed, Chosen!DetectionIsOfItsText,
      Chosen!CopiesAreFresh, Chosen!MarkIsReached, Chosen!WantedIsKnown,
      Chosen!Metadata, Chosen!Editions
  <1>5. ASSUME Chosen!ReplaceForSnapshot PROVE
    Chosen!DetectionIsOfItsText'
    BY <1>5, <1>0, LanguagesAssumption DEF Chosen!ReplaceForSnapshot,
      Chosen!Snapshotted, Chosen!Overlapping, Chosen!DetectionIsOfItsText,
      Chosen!CopiesAreFresh, Chosen!Metadata, Chosen!Editions
  <1> QED
    BY <1>1, <1>2, <1>3, <1>4, <1>5 DEF Chosen!Next, Chosen!Choose,
      Chosen!Generate, Chosen!ReadChosen, Chosen!ReadDetected,
      Chosen!ReadMetadata, Chosen!WriteFails, Chosen!ReadForJob,
      Chosen!BeginJob, Chosen!JobFails, Chosen!JobWriteFails,
      Chosen!Crash, Chosen!Goes, Chosen!Fault, Chosen!MayWrite,
      Chosen!Release

\* It holds of the first state.
LEMMA LanguagesBegin == Chosen!Init => Chosen!IInv
  <1> SUFFICES ASSUME Chosen!Init PROVE Chosen!IInv
    OBVIOUS
  <1> USE LanguagesAssumption DEF Chosen!Init, Chosen!Metadata, Chosen!Editions
  <1>1. Chosen!Shape
    BY DEF Chosen!Shape, Chosen!PCs
  <1>2. Chosen!WantedIsKnown /\ Chosen!LockIsHeld /\ Chosen!CopiesAreFresh
    BY DEF Chosen!WantedIsKnown, Chosen!LockIsHeld, Chosen!CopiesAreFresh,
      Chosen!Writers
  <1>3. /\ Chosen!MarkIsReached /\ Chosen!WritesAreKept
        /\ Chosen!DetectionIsOfItsText
    BY DEF Chosen!MarkIsReached, Chosen!WritesAreKept,
      Chosen!DetectionIsOfItsText
  <1> QED
    BY <1>1, <1>2, <1>3 DEF Chosen!IInv

\* The step of a writer, whatever it is.
LEMMA LanguagesStep ==
  Chosen!IInv /\ [Chosen!Next]_languagesVars => Chosen!IInv'
  BY LanguagesShape, LanguagesWanted, LanguagesLock, LanguagesCopies,
    LanguagesMark, LanguagesWrites, LanguagesDetection
  DEF Chosen!IInv

\* No writer of the metadata undoes another, and a detected language is of the
\* transcript there is, as long as no retranscription, which writes at its start
\* and at its end without the lock, ran into a writer that takes it
\* (write_language_field_to_metadata, load_or_snapshot_microphone_participants,
\* write_retranscription_metadata).
THEOREM LanguagesStay == LibrarySpec => []LanguagesAreKept
  <1> DEFINE Inv == component = "languages" => Chosen!IInv
  <1>1. LibraryInit => Inv
    BY LanguagesBegin DEF LibraryInit, CredentialsInit, DatabaseInit,
      ReviewInit, PagesInit, HandoffInit, SetupInit, LanguagesInit
  <1>2. Inv /\ [LibraryNext]_everything => Inv'
    <2> SUFFICES ASSUME Inv, [LibraryNext]_everything,
                        component' = "languages"
                 PROVE  Chosen!IInv'
      OBVIOUS
    <2>1. [Chosen!Next]_languagesVars /\ component = "languages"
      BY DEF LibraryNext, everything, CredentialsNext, DatabaseNext,
        ReviewNext, PagesNext, HandoffNext, SetupNext, LanguagesNext
    <2> QED
      BY <2>1, LanguagesStep
  <1>3. Inv => LanguagesAreKept
    BY DEF LanguagesAreKept, Chosen!IInv
  <1> QED
    BY <1>1, <1>2, <1>3, PTL DEF LibrarySpec
=============================================================================
