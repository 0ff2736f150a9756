------------------------ MODULE ProviderCredentials ------------------------
(***************************************************************************)
(* The credential of one external provider: its row of                     *)
(* provider_authorizations and its accounts in the macOS Keychain.         *)
(*                                                                         *)
(* The secret lives in the Keychain, what it is for in SQLite, and no      *)
(* transaction spans both.  A replacement therefore stages a new           *)
(* generation, disabled and not ready, stores the secret under an account  *)
(* of that generation and destination, marks it ready, and erases the      *)
(* account it has superseded.  Every command first completes what a        *)
(* former one has left: it moves a credential of the old form to a         *)
(* generation, completes or rolls back a staged one, and erases what is    *)
(* superseded.  A command can fail, and the process can end, between any   *)
(* two of these calls.                                                     *)
(*                                                                         *)
(* Sources: providers/commands.rs, providers/repository.rs,                *)
(* providers/keychain.rs.                                                  *)
(***************************************************************************)
EXTENDS Naturals

CONSTANTS
  Destinations,  \* endpoint and model of a configuration
  Legacy,        \* the account name of the old form, without a generation
  None,
  MaxGeneration  \* bound: credentials are replaced until this generation

ASSUME ConstantsAssumption ==
  /\ None \notin Destinations /\ None \notin Nat
  /\ Legacy \notin Nat \X Destinations
  /\ MaxGeneration \in Nat

VARIABLES
  up,           \* the application is running
  configured,   \* the provider has a row
  destination,  \* endpoint and model of the row
  enabled,      \* its enabled flag
  generation,   \* its generation
  ready,        \* its ready_generation, None is the -1 of a staged one
  account,      \* its credential_account, Legacy is the empty one
  superseded,   \* its superseded_ columns, None when they are NULL
  keychain,     \* the destination each stored secret was entered for
  command,      \* the command that holds the gate
  step,         \* where it stands
  wanted,       \* the destination it saves a secret for
  restore,      \* whether it re-enables a migrated provider
  approved      \* history: the destination the user last enabled

row == <<configured, destination, enabled, generation, ready, account, superseded>>
locals == <<command, step, wanted, restore>>

vars == <<up, row, keychain, locals, approved>>

-----------------------------------------------------------------------------
(* Types *)

Generations == 0..MaxGeneration

\* credential_generation_account names the generation and the destination.
Accounts == (Generations \X Destinations) \cup {Legacy}

Superseded ==
  [destination : Destinations, generation : Generations, ready : Generations,
   account : Accounts]

ASSUME SupersededAssumption == None \notin Superseded

Commands == {"none", "startup", "status", "save", "enable", "disable",
             "remove"}

\* The steps every command begins with, and those of single commands.
Preamble == {"legacy", "adopt", "copy", "move", "reenable", "drop", "recover",
             "erase", "forget"}
Steps == Preamble \cup {"idle", "body", "store", "mark", "undo", "replaced",
                        "clear", "withdraw"}

TypeOK ==
  /\ up \in BOOLEAN /\ configured \in BOOLEAN
  /\ destination \in Destinations
  /\ enabled \in BOOLEAN
  /\ generation \in Generations
  /\ ready \in Generations \cup {None}
  /\ account \in Accounts
  /\ superseded \in Superseded \cup {None}
  /\ keychain \in [Accounts -> Destinations \cup {None}]
  /\ command \in Commands
  /\ step \in Steps
  /\ (step = "idle") <=> (command = "none")
  /\ wanted \in Destinations
  /\ restore \in BOOLEAN
  /\ approved \in Destinations \cup {None}

-----------------------------------------------------------------------------
(* Helpers *)

Stored(a) == keychain[a] # None

Staged == configured /\ ready # generation

\* The command returns and drops the gate.
Return == command' = "none" /\ step' = "idle"

Goto(s) == step' = s /\ UNCHANGED command

Erase(a) == keychain' = [keychain EXCEPT ![a] = None]

\* A user meets the application with no provider, or with one of the old form.
Init ==
  /\ up = TRUE
  /\ configured \in BOOLEAN
  /\ destination \in Destinations
  /\ enabled \in IF configured THEN BOOLEAN ELSE {FALSE}
  /\ generation = 0 /\ ready = 0 /\ account = Legacy
  /\ superseded = None
  /\ keychain \in [Accounts -> Destinations \cup {None}]
  /\ \A a \in Accounts :
       keychain[a] \in IF configured /\ a = Legacy THEN {None, destination}
                                                  ELSE {None}
  /\ command = "startup" /\ step = "legacy"
  /\ wanted = destination
  /\ restore = FALSE
  /\ approved = IF enabled THEN destination ELSE None

-----------------------------------------------------------------------------
(* Staging, shared by a save and by the migration *)

\* A row that cannot be read counts as one that does not exist.
NextGenerations == IF configured /\ ~Staged THEN {generation + 1, 1} ELSE {1}

\* stage_replacement: the row describes the next generation, not ready and
\* disabled, and remembers the one it replaces.
Stage(d) ==
  /\ \E next \in NextGenerations :
       /\ next <= MaxGeneration
       /\ generation' = next
       /\ account' = <<next, d>>
  /\ configured' = TRUE
  /\ destination' = d
  /\ enabled' = FALSE
  /\ ready' = None
  /\ superseded' = IF configured
                   THEN [destination |-> destination, generation |-> generation,
                         ready |-> ready, account |-> account]
                   ELSE None

\* mark_generation_ready
MarkReady ==
  /\ Staged
  /\ ready' = generation
  /\ enabled' = FALSE
  /\ UNCHANGED <<configured, destination, generation, account, superseded>>

\* Mutation of RollBack: the columns of the replaced generation are dropped,
\* and the row goes on with the destination that was never stored.
RollBackKeepsDestination ==
  /\ Staged
  /\ superseded # None
  /\ ready' = superseded.ready /\ generation' = superseded.generation
  /\ account' = superseded.account
  /\ enabled' = FALSE /\ superseded' = None
  /\ UNCHANGED <<configured, destination>>

\* rollback_staged_replacement: the replaced generation is back, disabled; a
\* first one leaves no row.
RollBack ==
  /\ Staged
  /\ enabled' = FALSE
  /\ superseded' = None
  /\ IF superseded # None
     THEN /\ configured' = TRUE
          /\ destination' = superseded.destination
          /\ generation' = superseded.generation
          /\ ready' = superseded.ready
          /\ account' = superseded.account
     ELSE /\ configured' = FALSE
          /\ generation' = 0 /\ ready' = 0 /\ account' = Legacy
          /\ UNCHANGED destination

-----------------------------------------------------------------------------
(* The preamble: migrate_legacy_credentials, before every command *)

\* A command takes the gate; the startup runs before there are commands.
Begin(c, d) ==
  /\ up /\ step = "idle"
  /\ command' = c /\ step' = "legacy"
  /\ wanted' = d
  /\ UNCHANGED <<up, row, keychain, restore, approved>>

\* A credential of the old form is adopted, when there is one.
FindLegacy ==
  /\ up /\ step = "legacy"
  /\ LET found == configured /\ generation = 0 /\ account = Legacy /\ Stored(Legacy)
     IN /\ restore' = (found /\ enabled)
        /\ Goto(IF found THEN "adopt" ELSE "recover")
  /\ UNCHANGED <<up, row, keychain, wanted, approved>>

Adopt ==
  /\ up /\ step = "adopt"
  /\ Stage(destination)
  /\ Goto("copy")
  /\ UNCHANGED <<up, keychain, wanted, restore, approved>>

CopySecret ==
  /\ up /\ step = "copy"
  /\ keychain' = IF Stored(account) THEN keychain
                  ELSE [keychain EXCEPT ![account] = keychain[Legacy]]
  /\ Goto("move")
  /\ UNCHANGED <<up, row, wanted, restore, approved>>

MarkAdopted ==
  /\ up /\ step = "move"
  /\ MarkReady
  /\ Goto(IF restore THEN "reenable" ELSE "drop")
  /\ UNCHANGED <<up, keychain, wanted, restore, approved>>

\* The provider was enabled before, for the same destination.
Reenable ==
  /\ up /\ step = "reenable"
  /\ enabled' = TRUE
  /\ Goto("drop")
  /\ UNCHANGED <<up, configured, destination, generation, ready, account,
                 superseded, keychain, wanted, restore, approved>>

DropLegacy ==
  /\ up /\ step = "drop"
  /\ Erase(Legacy)
  /\ Goto("recover")
  /\ UNCHANGED <<up, row, wanted, restore, approved>>

\* recover_staged_credentials completes a generation whose secret is stored ...
CompleteStaged ==
  /\ up /\ step = "recover"
  /\ account # Legacy /\ Stored(account)
  /\ MarkReady
  /\ Goto(IF superseded = None THEN "body" ELSE "erase")
  /\ UNCHANGED <<up, keychain, wanted, restore, approved>>

\* ... and rolls back one whose secret never was.
AbandonStaged ==
  /\ up /\ step = "recover"
  /\ ~Stored(account)
  /\ RollBack
  /\ Goto("body")
  /\ UNCHANGED <<up, keychain, wanted, restore, approved>>

NothingStaged ==
  /\ up /\ step = "recover"
  /\ ~Staged
  /\ Goto(IF superseded = None THEN "body" ELSE "erase")
  /\ UNCHANGED <<up, row, keychain, wanted, restore, approved>>

\* cleanup_superseded_credential, in the preamble and at the end of a save:
\* the empty account of the old form is not erased.
EraseSuperseded ==
  /\ up
  /\ step \in {"erase", "replaced"}
  /\ IF superseded # None /\ superseded.account # Legacy
     THEN Erase(superseded.account) ELSE UNCHANGED keychain
  /\ Goto(IF step = "erase" THEN "forget" ELSE "clear")
  /\ UNCHANGED <<up, row, wanted, restore, approved>>

ForgetSuperseded ==
  /\ up
  /\ step \in {"forget", "clear"}
  /\ superseded' = None
  /\ IF step = "forget" THEN Goto("body") ELSE Return
  /\ UNCHANGED <<up, configured, destination, enabled, generation, ready,
                 account, keychain, wanted, restore, approved>>

-----------------------------------------------------------------------------
(* The commands *)

\* Nothing is left to do at startup, and a status is only read.
EndStatus ==
  /\ up /\ step = "body"
  /\ command \in {"startup", "status"}
  /\ Return
  /\ UNCHANGED <<up, row, keychain, wanted, restore, approved>>

StageSave ==
  /\ up /\ step = "body" /\ command = "save"
  /\ Stage(wanted)
  /\ Goto("store")
  /\ UNCHANGED <<up, keychain, wanted, restore, approved>>

\* Mutation of StoreSecret: the replaced account is erased at once.
StoreSecretAndErase ==
  /\ up /\ step = "store"
  /\ keychain' = [a \in Accounts |->
                    IF a = account THEN wanted
                    ELSE IF superseded # None /\ a = superseded.account THEN None
                    ELSE keychain[a]]
  /\ Goto("mark")
  /\ UNCHANGED <<up, row, wanted, restore, approved>>

\* The secret the user has entered, for the destination entered with it.
StoreSecret ==
  /\ up /\ step = "store"
  /\ keychain' = [keychain EXCEPT ![account] = wanted]
  /\ Goto("mark")
  /\ UNCHANGED <<up, row, wanted, restore, approved>>

\* The Keychain refuses the secret.
StoreFails ==
  /\ up /\ step = "store"
  /\ Goto("undo")
  /\ UNCHANGED <<up, row, keychain, wanted, restore, approved>>

UndoSave ==
  /\ up /\ step = "undo"
  /\ RollBack
  /\ Return
  /\ UNCHANGED <<up, keychain, wanted, restore, approved>>

MarkSaved ==
  /\ up /\ step = "mark"
  /\ MarkReady
  /\ Goto("replaced")
  /\ UNCHANGED <<up, keychain, wanted, restore, approved>>

\* set_enabled for the user.
SwitchTask ==
  /\ up /\ step = "body"
  /\ command \in {"enable", "disable"}
  /\ configured
  /\ command = "enable" => ~Staged
  /\ enabled' = (command = "enable")
  /\ approved' = IF command = "enable" THEN destination ELSE approved
  /\ Return
  /\ UNCHANGED <<up, configured, destination, generation, ready, account,
                 superseded, keychain, wanted, restore>>

\* remove_all_credentials: the secrets go first, ...
EraseAll ==
  /\ up /\ step = "body" /\ command = "remove"
  /\ configured
  /\ keychain' = [a \in Accounts |->
                    IF a = account \/ (superseded # None /\ a # Legacy /\
                                       a = superseded.account)
                    THEN None ELSE keychain[a]]
  /\ Goto("withdraw")
  /\ UNCHANGED <<up, row, wanted, restore, approved>>

\* ... then the flag.
Withdraw ==
  /\ up /\ step = "withdraw"
  /\ enabled' = FALSE
  /\ superseded' = None
  /\ Return
  /\ UNCHANGED <<up, configured, destination, generation, ready, account,
                 keychain, wanted, restore, approved>>

\* A storage or Keychain call fails or finds nothing, and the command with it.
Fail ==
  /\ up
  /\ step \in Steps \ {"idle", "store"}
  /\ Return
  /\ UNCHANGED <<up, row, keychain, wanted, restore, approved>>

Crash ==
  /\ up
  /\ up' = FALSE
  /\ Return
  /\ restore' = FALSE
  /\ UNCHANGED <<row, keychain, wanted, approved>>

Restart ==
  /\ ~up
  /\ up' = TRUE
  /\ command' = "startup" /\ step' = "legacy"
  /\ UNCHANGED <<row, keychain, wanted, restore, approved>>

-----------------------------------------------------------------------------
(* Specification *)

Complete ==
  \/ FindLegacy \/ Adopt \/ CopySecret \/ MarkAdopted \/ Reenable \/ DropLegacy
  \/ CompleteStaged \/ AbandonStaged \/ NothingStaged
  \/ EraseSuperseded \/ ForgetSuperseded

Body ==
  \/ EndStatus
  \/ StageSave \/ StoreSecret \/ StoreFails \/ UndoSave \/ MarkSaved
  \/ SwitchTask
  \/ EraseAll \/ Withdraw

Next ==
  \/ \E c \in Commands \ {"none", "startup"}, d \in Destinations : Begin(c, d)
  \/ Complete \/ Body \/ Fail
  \/ Crash \/ Restart

Spec == Init /\ [][Next]_vars

-----------------------------------------------------------------------------
(* Properties *)

\* The secret a transfer or a test uses was entered for the destination it is
\* sent to, whatever replacements failed, were rolled back or cut short.
SecretMatchesDestination ==
  configured /\ ~Staged /\ Stored(account) => keychain[account] = destination

\* Transfers are enabled only for the destination the user enabled them for,
\* and never while its credential is being replaced.
EnabledAsApproved == enabled => destination = approved /\ ~Staged

\* Every secret of a generation belongs to the row or to what it supersedes:
\* a replacement leaves none behind that no command would erase.
NoOrphanSecret ==
  \A a \in Accounts \ {Legacy} : Stored(a) =>
    configured /\ (a = account \/ (superseded # None /\ a = superseded.account))

\* No secret is erased before the one that replaces it is ready: a failed
\* replacement can be rolled back to a credential that works.
ErasedWhenReplaced ==
  [][\A a \in Accounts : Stored(a) /\ keychain'[a] = None =>
       command = "remove" \/ ~Staged]_vars

\* The inductive invariant that LibraryProofs proves.  A row without a
\* generation has the account of the old form and supersedes nothing; any
\* other has the account of its generation and destination.
RowIsNamed ==
  /\ configured \/ account = Legacy
  /\ \/ account = Legacy /\ generation = 0 /\ ready = 0 /\ superseded = None
     \/ /\ account = <<generation, destination>> /\ generation # 0
        /\ ready \in {None, generation}

\* What is superseded was ready, under an account of its own.
SupersededIsNamed ==
  superseded # None =>
    /\ superseded.ready = superseded.generation
    /\ \/ superseded.account = Legacy /\ superseded.generation = 0
       \/ /\ superseded.account = <<superseded.generation, superseded.destination>>
          /\ superseded.generation # 0

\* An account of a generation holds the secret of the destination it names.
SecretsAreNamed ==
  \A a \in Generations \X Destinations : keychain[a] \in {None, a[2]}

\* The secret of the old form is for the destination of the row that names it,
\* and such a row is never given up for nothing.
LegacyIsKept ==
  Stored(Legacy) =>
    /\ configured
    /\ Staged => superseded # None
    /\ account = Legacy => keychain[Legacy] = destination
    /\ superseded # None /\ superseded.account = Legacy =>
         keychain[Legacy] = superseded.destination

\* What holds where a command stands.
StepsAgree ==
  /\ step = "adopt" => configured /\ account = Legacy /\ Stored(Legacy)
  /\ step = "copy" =>
       /\ Staged /\ superseded # None /\ superseded.account = Legacy
       /\ superseded.destination = destination /\ Stored(Legacy)
  /\ step \in {"adopt", "copy", "move", "reenable"} /\ restore =>
       destination = approved
  /\ step = "reenable" => restore
  /\ step \in {"reenable", "drop", "body", "erase", "forget", "replaced",
               "clear", "withdraw"} => ~Staged
  /\ step \in {"body", "withdraw"} => superseded = None
  /\ step \in {"move", "store", "mark", "undo"} => Staged
  /\ step \in {"store", "mark", "undo"} => destination = wanted
  /\ step \in {"store", "undo"} /\ Stored(account) =>
       superseded # None /\ superseded.account = account
  /\ step \in {"forget", "clear"} /\ superseded # None =>
       superseded.account = Legacy \/ ~Stored(superseded.account)

IInv ==
  /\ TypeOK
  /\ RowIsNamed /\ SupersededIsNamed /\ SecretsAreNamed /\ LegacyIsKept
  /\ StepsAgree
  /\ NoOrphanSecret
  /\ EnabledAsApproved

\* After a removal no secret for the provider is in the Keychain.
RemovalLeavesNoSecret ==
  step = "withdraw" => \A a \in Accounts : ~Stored(a)

\* A saved credential is in the Keychain when the save returns.
SavedMeansStored ==
  [][step = "clear" /\ command = "save" /\ step' = "idle" /\ superseded' = None
       => configured /\ Stored(account)]_vars
=============================================================================
