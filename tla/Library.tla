------------------------------ MODULE Library -------------------------------
(***************************************************************************)
(* What keeps and shows a Session: the credentials, the database and its   *)
(* import, the editor of the record, the pages of a transcript, the export *)
(* of a record, the first setup and the languages in the metadata.  A      *)
(* behaviour is one of one of them.                                        *)
(***************************************************************************)
EXTENDS ProviderCredentials, FiniteSets

CONSTANTS
    (* Of DatabaseOpening *)
    External, Managed, Own, Fresh, Startup, WithSecret,
    (* Of SessionReview *)
    People, Transcripts, Names, Texts, Heard, Called, Absent, MaxEdits,
    MaxRevision,
    (* Of MeetingPages *)
    Meetings, Lengths, PageSize, MaxEditions,
    (* Of AgentHandoff *)
    Exports, Places, Nowhere, Other, Half, MaxChanges,
    (* Of Onboarding *)
    Completions, LastStep, MaxSaves,
    (* Of SummaryLanguages *)
    Choices, Detections, Languages, MaxEdition,
    (* Bounds that several have, by the component *)
    MaxLoads, MaxFaults, MaxCrashes,
    Unused  \* the value of the variables of a component that does not move

VARIABLE component  \* the one that a behaviour is about

VARIABLES
    active, onDisk, retained, staged, reservation, dKeychain, managed, call,
    phase, answer, faults, crashes

databaseVars ==
    <<active, onDisk, retained, staged, reservation, dKeychain, managed, call,
      phase, answer, faults, crashes>>

VARIABLES
    exists, revision, record, current, rGeneration, reading, shown, version,
    baseline, present, past, future, dirty, status, pages, requests, rFaults

reviewVars ==
    <<exists, revision, record, current, rGeneration, reading, shown, version,
      baseline, present, past, future, dirty, status, pages, requests, rFaults>>

VARIABLES
    stored, edition, meetingId, metadata, transcripts, hasMore, offset,
    isLoading, loadingMore, error, loads, undisturbed, pFaults

pagesVars ==
    <<stored, edition, meetingId, metadata, transcripts, hasMore, offset,
      isLoading, loadingMore, error, loads, undisturbed, pFaults>>

VARIABLES
    hRecord, changes, file, temporary, pc, place, snapshot, asked, outcome,
    leftover, hFaults, hCrashes

handoffVars ==
    <<hRecord, changes, file, temporary, pc, place, snapshot, asked, outcome,
      leftover, hFaults, hCrashes>>

VARIABLES
    store, disk, sConfigured, layout, load, savedStep, currentStep, completed,
    parakeetDownloaded, isCompleting, timer, saves, sPc, overlapped, told,
    outdone, sFaults, sCrashes

setupVars ==
    <<store, disk, sConfigured, layout, load, savedStep, currentStep,
      completed, parakeetDownloaded, isCompleting, timer, saves, sPc,
      overlapped, told, outdone, sFaults, sCrashes>>

VARIABLES
    lFile, lEdition, holder, lPc, lWanted, copy, job, jobCopy, kept, clash,
    late, lFaults, lCrashes

languagesVars ==
    <<lFile, lEdition, holder, lPc, lWanted, copy, job, jobCopy, kept, clash,
      late, lFaults, lCrashes>>

Database == INSTANCE DatabaseOpening WITH
    MaxFaults <- MaxFaults["database"], MaxCrashes <- MaxCrashes["database"],
    keychain <- dKeychain

Review == INSTANCE SessionReview WITH
    MaxLoads <- MaxLoads["review"], MaxFaults <- MaxFaults["review"],
    generation <- rGeneration, faults <- rFaults

Pages == INSTANCE MeetingPages WITH
    MaxLoads <- MaxLoads["pages"], MaxFaults <- MaxFaults["pages"],
    faults <- pFaults

Handoff == INSTANCE AgentHandoff WITH
    MaxFaults <- MaxFaults["handoff"], MaxCrashes <- MaxCrashes["handoff"],
    record <- hRecord, faults <- hFaults, crashes <- hCrashes

Setup == INSTANCE Onboarding WITH
    Nothing <- Nowhere, MaxFaults <- MaxFaults["setup"],
    MaxCrashes <- MaxCrashes["setup"], configured <- sConfigured, pc <- sPc,
    faults <- sFaults, crashes <- sCrashes

Chosen == INSTANCE SummaryLanguages WITH
    Generations <- Detections, MaxFaults <- MaxFaults["languages"],
    MaxCrashes <- MaxCrashes["languages"], file <- lFile, edition <- lEdition,
    pc <- lPc, wanted <- lWanted, faults <- lFaults, crashes <- lCrashes

-----------------------------------------------------------------------------
(* A behaviour is one of one component; the variables of the others are    *)
(* not used.                                                               *)

NoCredentials ==
    /\ up = Unused /\ configured = Unused /\ destination = Unused
    /\ enabled = Unused /\ generation = Unused /\ ready = Unused
    /\ account = Unused /\ superseded = Unused /\ keychain = Unused
    /\ command = Unused /\ step = Unused /\ wanted = Unused
    /\ restore = Unused /\ approved = Unused

NoDatabase ==
    /\ active = Unused /\ onDisk = Unused /\ retained = Unused
    /\ staged = Unused /\ reservation = Unused /\ dKeychain = Unused
    /\ managed = Unused /\ call = Unused /\ phase = Unused /\ answer = Unused
    /\ faults = Unused /\ crashes = Unused

NoReview ==
    /\ exists = Unused /\ revision = Unused /\ record = Unused
    /\ current = Unused /\ rGeneration = Unused /\ reading = Unused
    /\ shown = Unused /\ version = Unused /\ baseline = Unused
    /\ present = Unused /\ past = Unused /\ future = Unused /\ dirty = Unused
    /\ status = Unused /\ pages = Unused /\ requests = Unused
    /\ rFaults = Unused

NoPages ==
    /\ stored = Unused /\ edition = Unused /\ meetingId = Unused
    /\ metadata = Unused /\ transcripts = Unused /\ hasMore = Unused
    /\ offset = Unused /\ isLoading = Unused /\ loadingMore = Unused
    /\ error = Unused /\ loads = Unused /\ undisturbed = Unused
    /\ pFaults = Unused

NoHandoff ==
    /\ hRecord = Unused /\ changes = Unused /\ file = Unused
    /\ temporary = Unused /\ pc = Unused /\ place = Unused
    /\ snapshot = Unused /\ asked = Unused /\ outcome = Unused
    /\ leftover = Unused /\ hFaults = Unused /\ hCrashes = Unused

NoSetup ==
    /\ store = Unused /\ disk = Unused /\ sConfigured = Unused
    /\ layout = Unused /\ load = Unused /\ savedStep = Unused
    /\ currentStep = Unused /\ completed = Unused
    /\ parakeetDownloaded = Unused /\ isCompleting = Unused /\ timer = Unused
    /\ saves = Unused /\ sPc = Unused /\ overlapped = Unused /\ told = Unused
    /\ outdone = Unused /\ sFaults = Unused /\ sCrashes = Unused

NoLanguages ==
    /\ lFile = Unused /\ lEdition = Unused /\ holder = Unused /\ lPc = Unused
    /\ lWanted = Unused /\ copy = Unused /\ job = Unused /\ jobCopy = Unused
    /\ kept = Unused /\ clash = Unused /\ late = Unused /\ lFaults = Unused
    /\ lCrashes = Unused

everything == <<component, vars, databaseVars, reviewVars, pagesVars,
          handoffVars, setupVars, languagesVars>>

CredentialsInit ==
    /\ component = "credentials"
    /\ Init
    /\ NoDatabase /\ NoReview /\ NoPages /\ NoHandoff /\ NoSetup
    /\ NoLanguages

CredentialsNext ==
    /\ component = "credentials"
    /\ Next
    /\ UNCHANGED <<component, databaseVars, reviewVars, pagesVars,
                   handoffVars, setupVars, languagesVars>>

DatabaseInit ==
    /\ component = "database"
    /\ Database!Init
    /\ NoCredentials /\ NoReview /\ NoPages /\ NoHandoff /\ NoSetup
    /\ NoLanguages

DatabaseNext ==
    /\ component = "database"
    /\ Database!Next
    /\ UNCHANGED <<component, vars, reviewVars, pagesVars, handoffVars,
                   setupVars, languagesVars>>

ReviewInit ==
    /\ component = "review"
    /\ Review!Init
    /\ NoCredentials /\ NoDatabase /\ NoPages /\ NoHandoff /\ NoSetup
    /\ NoLanguages

ReviewNext ==
    /\ component = "review"
    /\ Review!Next
    /\ UNCHANGED <<component, vars, databaseVars, pagesVars, handoffVars,
                   setupVars, languagesVars>>

PagesInit ==
    /\ component = "pages"
    /\ Pages!Init
    /\ NoCredentials /\ NoDatabase /\ NoReview /\ NoHandoff /\ NoSetup
    /\ NoLanguages

PagesNext ==
    /\ component = "pages"
    /\ Pages!Next
    /\ UNCHANGED <<component, vars, databaseVars, reviewVars, handoffVars,
                   setupVars, languagesVars>>

HandoffInit ==
    /\ component = "handoff"
    /\ Handoff!Init
    /\ NoCredentials /\ NoDatabase /\ NoReview /\ NoPages /\ NoSetup
    /\ NoLanguages

HandoffNext ==
    /\ component = "handoff"
    /\ Handoff!Next
    /\ UNCHANGED <<component, vars, databaseVars, reviewVars, pagesVars,
                   setupVars, languagesVars>>

SetupInit ==
    /\ component = "setup"
    /\ Setup!Init
    /\ NoCredentials /\ NoDatabase /\ NoReview /\ NoPages /\ NoHandoff
    /\ NoLanguages

SetupNext ==
    /\ component = "setup"
    /\ Setup!Next
    /\ UNCHANGED <<component, vars, databaseVars, reviewVars, pagesVars,
                   handoffVars, languagesVars>>

LanguagesInit ==
    /\ component = "languages"
    /\ Chosen!Init
    /\ NoCredentials /\ NoDatabase /\ NoReview /\ NoPages /\ NoHandoff
    /\ NoSetup

LanguagesNext ==
    /\ component = "languages"
    /\ Chosen!Next
    /\ UNCHANGED <<component, vars, databaseVars, reviewVars, pagesVars,
                   handoffVars, setupVars>>

LibraryInit ==
    \/ CredentialsInit \/ DatabaseInit \/ ReviewInit \/ PagesInit
    \/ HandoffInit \/ SetupInit \/ LanguagesInit

LibraryNext ==
    \/ CredentialsNext \/ DatabaseNext \/ ReviewNext \/ PagesNext
    \/ HandoffNext \/ SetupNext \/ LanguagesNext

LibrarySpec == LibraryInit /\ [][LibraryNext]_everything

-----------------------------------------------------------------------------
(* Assumptions about the constants: the bounds are numbers, and a value    *)
(* that stands for nothing is not one of those it stands beside.           *)

ASSUME DatabaseAssumption ==
    /\ WithSecret \subseteq External \cup {Own}
    /\ Managed \notin External
    /\ Fresh \notin External \cup {Managed, Own}
    /\ Startup \notin External \cup {Managed, Fresh}
    /\ None \notin External \cup {Managed, Own, Fresh, Startup}
    /\ None \notin Database!Copies \cup Database!Databases
    /\ None \notin Database!Reservations \cup Database!Answers

ASSUME ReviewAssumption ==
    /\ IsFiniteSet(People) /\ IsFiniteSet(Review!Passages)
    /\ Heard \in Texts /\ Called \in Names
    /\ Absent \notin Names \cup Texts \cup People
    /\ MaxLoads["review"] \in Nat

ASSUME PagesAssumption ==
    Lengths \subseteq Nat /\ PageSize \in Nat /\ MaxEditions \in Nat

ASSUME HandoffAssumption ==
    /\ MaxChanges \in Nat
    /\ {Nowhere, Half} \cap Nat = {}
    /\ Half \notin {Other, Nowhere}

ASSUME SetupAssumption ==
    /\ LastStep \in Nat \ {0}
    /\ Nowhere \notin Setup!Status \cup Setup!Sent

ASSUME LanguagesAssumption ==
    /\ Choices \cap Detections = {}
    /\ None \notin Choices \cup Detections
    /\ MaxEdition \in Nat
    /\ None \notin Nat \cup Chosen!Metadata

-----------------------------------------------------------------------------
(* Properties: those of the components.                                    *)

(* A secret goes where it was entered for, transfers are enabled for what  *)
(* the user approved, no secret of a generation stays behind, and none is  *)
(* erased before the one that replaces it is ready                         *)
(* (ProviderTransfersRepository, credentials.rs, replace_credential).      *)
CredentialsAreKept ==
    /\ [](component = "credentials" =>
            SecretMatchesDestination /\ EnabledAsApproved /\ NoOrphanSecret)
    /\ [][component = "credentials" =>
            \A a \in Accounts : Stored(a) /\ keychain'[a] = None =>
                command = "remove" \/ ~Staged]_everything

(* A call answers from the database it was asked for; a credential leaves  *)
(* the last file that has it in plaintext only when the Keychain has it,   *)
(* and none has it when the purge is over (migrate_legacy_credentials).    *)
ImportKeepsSecretsAndData ==
    component = "database" =>
        /\ Database!AnsweredFromItsSource
        /\ Database!PurgedMeansErased
        /\ Database!ErasedMeansKept

(* A save that is accepted replaces only what its user was shown; an       *)
(* editor with nothing left to save shows what is stored, and undoing      *)
(* leads back to it (PrincipalRecordRepository::save, useReviewRecord,     *)
(* reviewRecordReducer).                                                   *)
EditsAreSafe ==
    component = "review" =>
        /\ Review!SavesReplaceWhatWasShown
        /\ Review!NothingUnsavedLooksSaved
        /\ Review!UndoLeadsBack

(* Undisturbed, the page shows every passage up to its offset              *)
(* (usePaginatedTranscripts).                                              *)
PagesAreWhole == component = "pages" => Pages!PagesAreWhole

(* An exported file is whole and no older than the record was when its     *)
(* place was selected; nothing else is left behind                         *)
(* (save_after_destination_selection, write_atomic).                       *)
HandoffIsWhole ==
    component = "handoff" =>
        /\ Handoff!FilesAreWhole
        /\ Handoff!ExportIsCurrent
        /\ Handoff!NothingIsLeft

(* A setup that is complete is configured, and one the page was told of    *)
(* stays complete whatever is announced and saved while it was completed   *)
(* (complete_onboarding, completeOnboarding, saveOnboardingStatus).        *)
OnboardingIsKept ==
    component = "setup" =>
        Setup!CompletedIsConfigured /\ Setup!CompletionLasts

(* No writer of the metadata undoes another, and a detected language is of *)
(* the transcript there is, as far as retranscriptions, which take no      *)
(* lock at their start nor at their end, let them                          *)
(* (write_language_field_to_metadata,                                      *)
(* load_or_snapshot_microphone_participants,                               *)
(* write_retranscription_metadata).                                        *)
LanguagesAreKept ==
    component = "languages" =>
        Chosen!WritesAreKept /\ Chosen!DetectionIsOfItsText
=============================================================================
