-------------------------- MODULE DatabaseOpening --------------------------
(***************************************************************************)
(* How the database of the application comes to be: created empty, or      *)
(* imported from a database of the older backend.  An import keeps a copy  *)
(* of its source beside the active database, reserves the source so that   *)
(* a retry cannot be answered from another one, moves the credentials      *)
(* that the old tables hold in plaintext to the Keychain, erases them from *)
(* every file, and only then gives the reservation up.  The process may    *)
(* end between any two of these steps; the next one takes them up again.   *)
(* The gates of the initialization and of the import let one call at a     *)
(* time through, so the model has one call.                                *)
(*                                                                         *)
(* Sources: src/frontend/src-tauri/src/database/manager.rs                 *)
(*          src/frontend/src-tauri/src/database/commands.rs                *)
(*          src/frontend/src-tauri/src/database/setup.rs                   *)
(*          src/frontend/src-tauri/src/providers/repository.rs             *)
(*          src/frontend/src-tauri/src/lib.rs                              *)
(***************************************************************************)
EXTENDS Naturals

CONSTANTS
    External,     \* databases elsewhere that the user may select
    Managed,      \* the path of the retained copy, as a source
    Own,          \* the database the older backend left at that path
    Fresh,        \* the database created empty, and the call that does it
    Startup,      \* the call that opens the database when the process starts
    WithSecret,   \* the databases that hold a credential in plaintext
    None,
    MaxFaults,    \* failures of the disk, of SQLite and of the Keychain
    MaxCrashes    \* ends of the process that nothing announces

VARIABLES
    active,       \* meeting_minutes.sqlite as its connections see it
    onDisk,       \* the file without what only its log holds
    retained,     \* meeting_minutes.db
    staged,       \* the snapshot in a staging folder
    reservation,  \* the reservation of the import
    keychain,     \* the database whose credential the Keychain holds
    managed,      \* the process has its AppState
    call,         \* the call that is running
    phase,        \* where it stands
    answer,       \* what the last call of this process was told
    faults,
    crashes

files == <<active, onDisk, retained, staged, reservation>>
process == <<managed, call, phase, answer>>
bounds == <<faults, crashes>>
vars == <<files, keychain, process, bounds>>

-----------------------------------------------------------------------------
(* Types *)

Origins == External \cup {Own}
Copies == [of : Origins, plain : BOOLEAN]
Databases == [of : Origins \cup {Fresh}, plain : BOOLEAN,
              migrated : BOOLEAN, purge : BOOLEAN]
Reservations == [digest : Copies, from : External \cup {Managed}]
Selectable == External \cup {Managed}
Calls == Selectable \cup {Fresh, Startup}
Phases == {"down", "idle", "checking", "snapshot", "keeping", "reserving",
           "copying", "activating", "opening", "securing", "clearing",
           "purging", "scrubbing", "marking", "remaining", "managing",
           "completing"}
Answers == [to : Calls, says : {"done", "retry", "unavailable", "failed"}]

TypeOK ==
    /\ active \in Databases \cup {None}
    /\ onDisk \in Databases \cup {None}
    /\ retained \in Copies \cup {None}
    /\ staged \in Copies \cup {None}
    /\ reservation \in Reservations \cup {None}
    /\ keychain \in Origins \cup {None}
    /\ managed \in BOOLEAN
    /\ call \in Calls \cup {None}
    /\ phase \in Phases
    /\ answer \in Answers \cup {None}
    /\ faults \in 0..MaxFaults
    /\ crashes \in 0..MaxCrashes

Init ==
    /\ active = None
    /\ onDisk = None
    /\ retained \in {None, [of |-> Own, plain |-> Own \in WithSecret]}
    /\ staged = None
    /\ reservation = None
    /\ keychain = None
    /\ managed = FALSE
    /\ call = None
    /\ phase = "down"
    /\ answer = None
    /\ faults = 0
    /\ crashes = 0

-----------------------------------------------------------------------------
(* Helpers *)

(* The snapshot a source gives: VACUUM INTO reads what it holds now.       *)
Snapshot(source) ==
    IF source = Managed THEN retained
    ELSE [of |-> source, plain |-> source \in WithSecret]

Exists(source) == Snapshot(source) # None

(* The source is the one the reservation names.                            *)
SourceMatches(source) == reservation.from = source

(* A change of the active database goes to its file or, with a log, only   *)
(* to the log until a checkpoint.                                          *)
Write(database) ==
    /\ active' = database
    /\ onDisk' \in {database, onDisk}

At(p) == phase = p
Goto(p) == phase' = p /\ UNCHANGED <<managed, call, answer>>
Reply(says) ==
    /\ phase' = "idle"
    /\ answer' = [to |-> call, says |-> says]
    /\ call' = None

-----------------------------------------------------------------------------
(* Startup and the end of the process *)

(* Without an active database the process waits for the page.  With one,   *)
(* stale snapshots go first and the database is opened.                    *)
Start ==
    /\ At("down")
    /\ answer' = None
    /\ managed' = FALSE
    /\ IF active = None
       THEN call' = None /\ phase' = "idle" /\ UNCHANGED staged
       ELSE call' = Startup /\ phase' = "opening" /\ staged' = None
    /\ UNCHANGED <<active, onDisk, retained, reservation, keychain, bounds>>

(* A database that does not open for its log is opened again without it:   *)
(* what only the log held is gone.                                         *)
DropLog ==
    /\ At("opening") /\ call = Startup
    /\ faults < MaxFaults
    /\ faults' = faults + 1
    /\ active' = onDisk
    /\ UNCHANGED <<onDisk, retained, staged, reservation, keychain, process,
                   crashes>>

(* On its way out the process empties the log into the file.               *)
Exit ==
    /\ At("idle")
    /\ onDisk' \in {active, onDisk}
    /\ phase' = "down" /\ managed' = FALSE /\ answer' = None
    /\ UNCHANGED <<active, retained, staged, reservation, keychain, call,
                   bounds>>

Crash ==
    /\ ~At("down")
    /\ crashes < MaxCrashes
    /\ crashes' = crashes + 1
    /\ phase' = "down" /\ call' = None /\ managed' = FALSE /\ answer' = None
    /\ UNCHANGED <<files, keychain, faults>>

-----------------------------------------------------------------------------
(* The calls of the page *)

(* The page imports the database it finds at the managed path, and creates *)
(* an empty one otherwise; import_and_initialize_database also takes a     *)
(* path the user selected.                                                 *)
Ask(what) ==
    /\ At("idle")
    /\ call' = what
    /\ phase' = "checking"
    /\ UNCHANGED <<files, keychain, managed, answer, bounds>>

(* Both calls refuse once there is something they would replace.           *)
RefuseFresh ==
    /\ At("checking") /\ call = Fresh
    /\ \/ managed \/ active # None \/ retained # None \/ reservation # None
    /\ Reply("unavailable")
    /\ UNCHANGED <<files, keychain, managed, bounds>>

RefuseImport ==
    /\ At("checking") /\ call \in Selectable
    /\ IF reservation = None THEN active # None
       ELSE \/ ~Exists(call) \/ ~SourceMatches(call)
            \/ active = None /\ retained # reservation.digest
    /\ Reply("unavailable")
    /\ UNCHANGED <<files, keychain, managed, bounds>>

(* create_new makes the file; a crash leaves it empty, to be opened by the *)
(* next startup.                                                           *)
CreateFile ==
    /\ At("checking") /\ call = Fresh
    /\ ~managed /\ active = None /\ retained = None /\ reservation = None
    /\ staged' = None
    /\ active' = [of |-> Fresh, plain |-> FALSE, migrated |-> FALSE,
                  purge |-> FALSE]
    /\ onDisk' = active'
    /\ Goto("opening")
    /\ UNCHANGED <<retained, reservation, keychain, bounds>>

(* A first import of a source, and a retry that finds the active database  *)
(* or only the retained copy it reserved.                                  *)
BeginImport ==
    /\ At("checking") /\ call \in Selectable
    /\ staged' = None
    /\ \/ /\ reservation = None /\ active = None
          /\ Goto("snapshot")
       \/ /\ reservation # None /\ Exists(call) /\ SourceMatches(call)
          /\ \/ active # None /\ Goto("opening")
             \/ active = None /\ retained = reservation.digest
                /\ Goto("copying")
    /\ UNCHANGED <<active, onDisk, retained, reservation, keychain, bounds>>

TakeSnapshot ==
    /\ At("snapshot")
    /\ Exists(call)
    /\ staged' = Snapshot(call)
    /\ Goto("keeping")
    /\ UNCHANGED <<active, onDisk, retained, reservation, keychain, bounds>>

SourceIsMissing ==
    /\ At("snapshot")
    /\ ~Exists(call)
    /\ Reply("failed")
    /\ UNCHANGED <<files, keychain, managed, bounds>>

(* The snapshot replaces the file at the managed path.                     *)
Keep ==
    /\ At("keeping")
    /\ retained' = staged
    /\ staged' = None
    /\ Goto("reserving")
    /\ UNCHANGED <<active, onDisk, reservation, keychain, bounds>>

Reserve ==
    /\ At("reserving")
    /\ reservation' = [digest |-> retained, from |-> call]
    /\ Goto("copying")
    /\ UNCHANGED <<active, onDisk, retained, staged, keychain, bounds>>

CopyRetained ==
    /\ At("copying")
    /\ staged' = retained
    /\ Goto("activating")
    /\ UNCHANGED <<active, onDisk, retained, reservation, keychain, bounds>>

Activate ==
    /\ At("activating")
    /\ active' = [of |-> staged.of, plain |-> staged.plain,
                  migrated |-> FALSE, purge |-> FALSE]
    /\ onDisk' = active'
    /\ staged' = None
    /\ Goto("opening")
    /\ UNCHANGED <<retained, reservation, keychain, bounds>>

-----------------------------------------------------------------------------
(* Opening: the migrations, which mark the purge as pending *)

Migrate(database) ==
    IF database.migrated THEN database
    ELSE [database EXCEPT !.migrated = TRUE, !.purge = TRUE]

(* The database that an import opens again must still have its purge       *)
(* before it; a startup has its AppState before the credentials move.      *)
Open ==
    /\ At("opening")
    /\ Write(Migrate(active))
    /\ \/ /\ call = Startup
          /\ managed' = TRUE /\ phase' = "securing"
          /\ UNCHANGED <<call, answer>>
       \/ call = Fresh /\ Goto("managing")
       \/ /\ call \in Selectable
          /\ IF active'.purge THEN Goto("securing")
             ELSE Reply("unavailable") /\ UNCHANGED managed
    /\ UNCHANGED <<retained, staged, reservation, keychain, bounds>>

-----------------------------------------------------------------------------
(* migrate_legacy_credentials *)

(* A credential goes to the Keychain unless it has one for that account.   *)
SaveSecret ==
    /\ At("securing")
    /\ keychain' = IF active.plain /\ keychain = None THEN active.of
                   ELSE keychain
    /\ Goto("clearing")
    /\ UNCHANGED <<files, bounds>>

ClearPlaintext ==
    /\ At("clearing")
    /\ Write([active EXCEPT !.plain = FALSE,
                            !.purge = active.purge \/ active.plain])
    /\ Goto(IF active'.purge THEN "purging" ELSE "remaining")
    /\ UNCHANGED <<retained, staged, reservation, keychain, bounds>>

(* Checkpoint, VACUUM, checkpoint: the file forgets what it held.          *)
Purge ==
    /\ At("purging")
    /\ onDisk' = active
    /\ Goto("scrubbing")
    /\ UNCHANGED <<active, retained, staged, reservation, keychain, bounds>>

(* Mutation of ScrubRetained: only the active database is purged.          *)
SkipRetained ==
    /\ At("scrubbing")
    /\ Goto("marking")
    /\ UNCHANGED <<files, keychain, bounds>>

ScrubRetained ==
    /\ At("scrubbing")
    /\ retained' = IF retained = None THEN None
                   ELSE [retained EXCEPT !.plain = FALSE]
    /\ Goto("marking")
    /\ UNCHANGED <<active, onDisk, staged, reservation, keychain, bounds>>

MarkPurged ==
    /\ At("marking")
    /\ Write([active EXCEPT !.purge = FALSE])
    /\ Goto("remaining")
    /\ UNCHANGED <<retained, staged, reservation, keychain, bounds>>

(* The other accounts of the Keychain, which another module follows.       *)
MigrateAccounts ==
    /\ At("remaining")
    /\ Goto(IF call = Startup THEN "completing" ELSE "managing")
    /\ UNCHANGED <<files, keychain, bounds>>

-----------------------------------------------------------------------------
(* The end of a call *)

(* An empty database is told of at once; its two default settings are      *)
(* saved first, and a failure to do so is only logged.                     *)
Manage ==
    /\ At("managing")
    /\ IF managed THEN Reply("unavailable") /\ UNCHANGED managed
       ELSE /\ managed' = TRUE
            /\ IF call = Fresh THEN Reply("done")
               ELSE phase' = "completing" /\ UNCHANGED <<call, answer>>
    /\ UNCHANGED <<files, keychain, bounds>>

(* The reservation goes when no plaintext is left to purge.                *)
Complete ==
    /\ At("completing")
    /\ \/ /\ reservation = None \/ ~active.purge
          /\ reservation' = None
          /\ Reply("done")
       \/ /\ reservation # None /\ active.purge
          /\ UNCHANGED reservation
          /\ Reply("failed")
    /\ UNCHANGED <<active, onDisk, retained, staged, keychain, managed,
                   bounds>>

(* A step fails and its snapshot goes with it.  A startup that cannot open *)
(* ends the process, and puts a migration that fails off until the next.   *)
(* An import asks for a retry when the credentials could not be secured.   *)
Migration == {"securing", "clearing", "purging", "scrubbing", "marking",
              "remaining"}
Fail ==
    /\ phase \notin {"down", "idle", "checking", "managing"}
    /\ faults < MaxFaults
    /\ faults' = faults + 1
    /\ staged' = None
    /\ IF call = Startup /\ At("opening")
       THEN /\ phase' = "down" /\ call' = None
            /\ UNCHANGED answer
       ELSE Reply(IF phase \in Migration THEN "retry" ELSE "failed")
    /\ UNCHANGED <<active, onDisk, retained, reservation, keychain, managed,
                   crashes>>

Next ==
    \/ Start
    \/ DropLog
    \/ Exit
    \/ Crash
    \/ \E what \in Selectable \cup {Fresh} : Ask(what)
    \/ RefuseFresh
    \/ RefuseImport
    \/ CreateFile
    \/ BeginImport
    \/ TakeSnapshot
    \/ SourceIsMissing
    \/ Keep
    \/ Reserve
    \/ CopyRetained
    \/ Activate
    \/ Open
    \/ SaveSecret
    \/ ClearPlaintext
    \/ Purge
    \/ ScrubRetained
    \/ MarkPurged
    \/ MigrateAccounts
    \/ Manage
    \/ Complete
    \/ Fail

Spec == Init /\ [][Next]_vars

-----------------------------------------------------------------------------
(* Properties *)

(* A call that succeeds for a source leaves a database with the content of *)
(* that source, whichever other one an earlier, interrupted call had       *)
(* chosen (import_legacy_database_paths_with_open_hook).                   *)
AnsweredFromItsSource ==
    (answer # None /\ answer.says = "done") =>
        (answer.to \in External \cup {Fresh} => active.of = answer.to)

(* Once the active database says that nothing is left to purge, no file    *)
(* holds a credential in plaintext: not the database, not the file below   *)
(* its log, not the retained copy and not a snapshot that a crash left     *)
(* (migrate_legacy_credentials, scrub_retained_legacy_database).           *)
PurgedMeansErased ==
    (active # None /\ active.migrated /\ ~active.purge) =>
        /\ ~active.plain
        /\ ~onDisk.plain
        /\ retained # None => ~retained.plain
        /\ staged # None => ~staged.plain

(* A credential that the active database no longer shows is in the         *)
(* Keychain (migrate_legacy_credentials).                                  *)
ErasedMeansKept ==
    (active # None /\ active.of \in WithSecret /\ ~active.plain) =>
        keychain # None

(* An import that asked for a retry does not refuse the same source as no  *)
(* longer available in the same process ("Unlock Keychain and retry the    *)
(* import.", migrate_imported_provider_credentials).                       *)
RetryIsAccepted ==
    [][(/\ answer # None /\ answer.says = "retry"
        /\ answer.to \in Selectable
        /\ answer' # None /\ answer'.to = answer.to)
       => answer'.says # "unavailable"]_answer

-----------------------------------------------------------------------------
(* What makes the properties inductive *)

(* The parts of the type invariant that the others rest on.                *)
FileShape ==
    /\ active \in Databases \cup {None}
    /\ onDisk \in Databases \cup {None}
    /\ retained \in Copies \cup {None}
    /\ staged \in Copies \cup {None}
    /\ reservation \in Reservations \cup {None}
CallShape ==
    /\ call \in Calls \cup {None}
    /\ phase \in Phases
    /\ answer \in Answers \cup {None}
Shape == FileShape /\ CallShape

(* An import is without an active database until it activates one, and a   *)
(* call opens one there is.                                                *)
Making == {"snapshot", "keeping", "reserving", "copying", "activating"}
Waiting == {"down", "idle", "checking"}
ActiveFollowsPhase ==
    /\ phase \in Making => active = None /\ call \in Selectable
    /\ phase \notin Making \cup Waiting => active # None /\ call # None
    /\ phase = "managing" => call # Startup
    /\ phase = "checking" => call \in Selectable \cup {Fresh}

(* The file, the log over it and the retained copy are of one database;    *)
(* snapshots that were left go before there is one.                        *)
FilesAgree ==
    /\ (active = None) <=> (onDisk = None)
    /\ active # None => onDisk.of = active.of /\ staged = None
    /\ active # None /\ retained # None => retained.of = active.of

(* What a reservation names, and what was made of it.                      *)
ReservationIsKept ==
    reservation # None =>
        /\ reservation.from \in External =>
               reservation.digest.of = reservation.from
        /\ active # None => active.of = reservation.digest.of

(* What a call has made so far is of the source it was asked for.          *)
CallIsOfItsSource ==
    /\ phase = "keeping" => staged # None
    /\ phase = "keeping" /\ call \in External => staged.of = call
    /\ phase = "reserving" => retained # None
    /\ phase = "reserving" /\ call \in External => retained.of = call
    /\ phase \in {"copying", "activating"} =>
           /\ reservation # None /\ reservation.from = call
           /\ retained = reservation.digest
    /\ phase = "activating" => staged = reservation.digest
    /\ phase \notin Making \cup Waiting /\ call \in External \cup {Fresh} =>
           active.of = call
    /\ answer # None /\ answer.says = "done" => active # None

(* What was erased so far; a database that says that the purge is over is  *)
(* the one on disk too.                                                    *)
Erasing == {"purging", "scrubbing", "marking"}
ErasedByPhase ==
    /\ phase \in Erasing => ~active.plain
    /\ phase \in {"scrubbing", "marking"} => ~onDisk.plain
    /\ phase = "marking" /\ retained # None => ~retained.plain
FileSaysTheSame ==
    (onDisk # None /\ onDisk.migrated /\ ~onDisk.purge) =>
        /\ ~active.plain /\ ~onDisk.plain
        /\ retained # None => ~retained.plain

(* A credential leaves a database or a copy for the Keychain only.         *)
Kept(database) ==
    (database # None /\ database.of \in WithSecret /\ ~database.plain) =>
        keychain # None
SecretsAreKept ==
    /\ Kept(active) /\ Kept(onDisk) /\ Kept(retained) /\ Kept(staged)
    /\ reservation # None => Kept(reservation.digest)
    /\ phase = "clearing" /\ active.plain => keychain # None

IInv ==
    /\ Shape
    /\ ActiveFollowsPhase /\ FilesAgree
    /\ ReservationIsKept /\ CallIsOfItsSource
    /\ ErasedByPhase /\ FileSaysTheSame /\ SecretsAreKept
    /\ AnsweredFromItsSource /\ PurgedMeansErased
=============================================================================
