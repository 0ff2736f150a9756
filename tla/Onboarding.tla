----------------------------- MODULE Onboarding -----------------------------
(***************************************************************************)
(* The first setup of the application: the page that leads through it and  *)
(* saves where it stands, a second after every change, and the command     *)
(* that completes it.  Requests of the page are carried out beside each    *)
(* other, so that one sent earlier may land later; the page may be loaded  *)
(* again and the process may end at any step.                              *)
(*                                                                         *)
(* The store keeps its contents in memory and writes them to its file when *)
(* asked, and now and then by itself; it is external.  So is the check     *)
(* whether the speech model is installed, whose answer is any.             *)
(*                                                                         *)
(* Sources: onboarding.rs of src/frontend/src-tauri/src,                   *)
(* contexts/OnboardingContext.tsx, app/layout.tsx and                      *)
(* components/onboarding/steps/ of src/frontend/src.                       *)
(***************************************************************************)
EXTENDS Naturals, FiniteSets

CONSTANTS
    Completions,  \* calls of complete_onboarding
    Nothing,      \* no status, no timer
    LastStep,     \* the last step of the setup
    MaxSaves,     \* bound: saves on their way
    MaxFaults,    \* bound: failed calls
    MaxCrashes    \* bound: ends of the process

VARIABLES
    store,       \* the status in the memory of the store
    disk,        \* the status in its file
    configured,  \* the configurations that SQLite has
    layout,      \* what the layout shows: nothing yet, the setup, the app
    load,        \* get_onboarding_status of the page and what comes after it
    savedStep,   \* the step it has read
    currentStep, completed, parakeetDownloaded,  \* state of the page
    isCompleting,  \* isCompletingRef
    timer,       \* what the pending auto-save would send
    saves,       \* auto-saves on their way
    pc,          \* where each completion stands
    overlapped,  \* history: a completion was asked for while one ran
    told,        \* history: the page was told that the setup is complete
    outdone,     \* history: a save sent with no completion under way landed
    faults, crashes

page == <<layout, load, savedStep, currentStep, completed,
          parakeetDownloaded, isCompleting, timer>>
history == <<overlapped, told, outdone>>
vars == <<store, disk, configured, page, saves, pc, history, faults, crashes>>

-----------------------------------------------------------------------------
(* Types *)

Steps == 1..LastStep
Configurations == {"findings", "transcription"}
Status == [completed : BOOLEAN, step : Steps, downloaded : BOOLEAN]
Sent == [step : Steps, downloaded : BOOLEAN]
Saves == [status : Sent, beside : BOOLEAN, number : 1..MaxSaves]
PCs == {"idle", "findings", "transcription", "marking", "succeeded",
        "failed", "reloading"}

TypeOK ==
    /\ store \in Status \cup {Nothing}
    /\ disk \in Status \cup {Nothing}
    /\ configured \in SUBSET Configurations
    /\ layout \in {"asking", "setup", "app"}
    /\ load \in {"asking", "verifying", "over"}
    /\ savedStep \in Steps
    /\ currentStep \in Steps
    /\ completed \in BOOLEAN
    /\ parakeetDownloaded \in BOOLEAN
    /\ isCompleting \in BOOLEAN
    /\ timer \in Sent \cup {Nothing}
    /\ saves \in SUBSET Saves
    /\ pc \in [Completions -> PCs]
    /\ overlapped \in BOOLEAN
    /\ told \in BOOLEAN
    /\ outdone \in BOOLEAN
    /\ faults \in 0..MaxFaults
    /\ crashes \in 0..MaxCrashes

\* The page as it is mounted: the first effect starts the timer with the
\* values the page begins with.
Mounted == [step |-> 1, downloaded |-> FALSE]

Init ==
    /\ store = Nothing
    /\ disk = Nothing
    /\ configured = {}
    /\ layout = "asking"
    /\ load = "asking"
    /\ savedStep = 1
    /\ currentStep = 1
    /\ completed = FALSE
    /\ parakeetDownloaded = FALSE
    /\ isCompleting = FALSE
    /\ timer = Mounted
    /\ saves = {}
    /\ pc = [c \in Completions |-> "idle"]
    /\ overlapped = FALSE
    /\ told = FALSE
    /\ outdone = FALSE
    /\ faults = 0
    /\ crashes = 0

Completed(status) == status /= Nothing /\ status.completed

Fault == faults < MaxFaults /\ faults' = faults + 1

-----------------------------------------------------------------------------
(* The page *)

\* The page is mounted: the first time, and each time it is loaded again.
Mount ==
    /\ layout' = "asking"
    /\ load' = "asking"
    /\ savedStep' = 1
    /\ currentStep' = 1
    /\ completed' = FALSE
    /\ parakeetDownloaded' = FALSE
    /\ isCompleting' = FALSE
    /\ timer' = Mounted

\* The state of the page changes and its effect runs: the pending save goes,
\* and a new one is due in a second unless the setup is complete or being
\* completed.
Shows(step, done, downloaded) ==
    /\ currentStep' = step
    /\ completed' = done
    /\ parakeetDownloaded' = downloaded
    /\ timer' = IF <<step, done, downloaded>> =
                     <<currentStep, completed, parakeetDownloaded>>
                  THEN timer
                  ELSE IF done \/ isCompleting
                    THEN Nothing
                    ELSE [step |-> step, downloaded |-> downloaded]

\* The layout reads the status, or is refused and shows the setup.
AnswerLayout ==
    /\ layout = "asking"
    /\ \/ /\ layout' = IF Completed(store) THEN "app" ELSE "setup"
          /\ UNCHANGED faults
       \/ layout' = "setup" /\ Fault
    /\ UNCHANGED <<store, disk, configured, load, savedStep, currentStep,
                   completed, parakeetDownloaded, isCompleting, timer, saves,
                   pc, history, crashes>>

\* loadOnboardingStatus: a completed setup is shown at once, one that is
\* under way only after the model was looked for; no status, or a refusal,
\* leaves the page as it was mounted.
AnswerLoad ==
    /\ load = "asking"
    /\ IF store = Nothing
         THEN /\ load' = "over"
              /\ UNCHANGED <<savedStep, currentStep, completed,
                             parakeetDownloaded, timer>>
         ELSE IF store.completed
           THEN /\ load' = "over"
                /\ Shows(store.step, TRUE, store.downloaded)
                /\ UNCHANGED savedStep
           ELSE /\ load' = "verifying"
                /\ savedStep' = store.step
                /\ UNCHANGED <<currentStep, completed, parakeetDownloaded,
                               timer>>
    /\ UNCHANGED <<store, disk, configured, layout, isCompleting, saves, pc,
                   history, faults, crashes>>

LoadFails ==
    /\ load = "asking"
    /\ Fault
    /\ load' = "over"
    /\ UNCHANGED <<store, disk, configured, layout, savedStep, currentStep,
                   completed, parakeetDownloaded, isCompleting, timer, saves,
                   pc, history, crashes>>

\* verifyModelStatus has answered: the page goes to the step that was saved,
\* whatever the user has done meanwhile.
AnswerVerification ==
    /\ load = "verifying"
    /\ load' = "over"
    /\ \E found \in BOOLEAN : Shows(savedStep, FALSE, found)
    /\ UNCHANGED <<store, disk, configured, layout, savedStep, isCompleting,
                   saves, pc, history, faults, crashes>>

\* goNext, goPrevious, goToStep.
GoToStep ==
    /\ layout = "setup"
    /\ \E s \in Steps : s /= currentStep /\ Shows(s, completed,
                                                  parakeetDownloaded)
    /\ UNCHANGED <<store, disk, configured, layout, load, savedStep,
                   isCompleting, saves, pc, history, faults, crashes>>

\* The event of a download that is complete, on any screen.
AnnounceModel ==
    /\ ~parakeetDownloaded
    /\ Shows(currentStep, completed, TRUE)
    /\ UNCHANGED <<store, disk, configured, layout, load, savedStep,
                   isCompleting, saves, pc, history, faults, crashes>>

-----------------------------------------------------------------------------
(* Auto-saves *)

UnderWay == {c \in Completions :
                pc[c] \in {"findings", "transcription", "marking"}}

\* A second has passed: saveOnboardingStatus, unless a completion is under
\* way as far as the page knows.
FireTimer ==
    /\ timer /= Nothing
    /\ timer' = Nothing
    /\ IF isCompleting
         THEN UNCHANGED saves
         ELSE \E n \in 1..MaxSaves :
                /\ \A s \in saves : s.number /= n
                /\ \A k \in 1..(n - 1) : \E s \in saves : s.number = k
                /\ saves' = saves \cup
                     {[status |-> timer, number |-> n,
                       beside |-> UnderWay /= {} /\ ~overlapped]}
    /\ UNCHANGED <<store, disk, configured, layout, load, savedStep,
                   currentStep, completed, parakeetDownloaded, isCompleting,
                   pc, history, faults, crashes>>

\* save_onboarding_status: the memory, then the file, which may fail.
Put(status) ==
    /\ store' = status
    /\ \/ disk' = status /\ UNCHANGED faults
       \/ Fault /\ UNCHANGED disk

LandSave(s) ==
    /\ saves' = saves \ {s}
    /\ Put([completed |-> FALSE, step |-> s.status.step,
            downloaded |-> s.status.downloaded])
    /\ outdone' = (outdone \/ ~s.beside)
    /\ UNCHANGED <<configured, page, pc, overlapped, told, crashes>>

\* The store writes its file by itself.
WriteStore ==
    /\ disk /= store
    /\ disk' = store
    /\ UNCHANGED <<store, configured, page, saves, pc, history, faults,
                   crashes>>

-----------------------------------------------------------------------------
(* completeOnboarding and complete_onboarding *)

\* Mutation of HoldSaves: only the pending save is dropped.
HoldNoSaves == UNCHANGED isCompleting

\* No save is sent while the setup is being completed.
HoldSaves == isCompleting' = TRUE

\* The last step of the setup; its button stays enabled on macOS.
Finish(c) ==
    /\ layout = "setup"
    /\ currentStep = LastStep
    /\ pc[c] = "idle"
    /\ HoldSaves
    /\ timer' = Nothing
    /\ pc' = [pc EXCEPT ![c] = "findings"]
    /\ overlapped' = (overlapped \/ \E d \in Completions : pc[d] /= "idle")
    /\ UNCHANGED <<store, disk, configured, layout, load, savedStep,
                   currentStep, completed, parakeetDownloaded, saves, told,
                   outdone, faults, crashes>>

\* Mutation of AfterFindings: the setup is marked before it is configured.
MarkedFirst == "marking"

AfterFindings == "transcription"

SaveFindingsConfig(c) ==
    /\ pc[c] = "findings"
    /\ \/ /\ configured' = configured \cup {"findings"}
          /\ pc' = [pc EXCEPT ![c] = AfterFindings]
          /\ UNCHANGED faults
       \/ /\ Fault
          /\ pc' = [pc EXCEPT ![c] = "failed"]
          /\ UNCHANGED configured
    /\ UNCHANGED <<store, disk, page, saves, history, crashes>>

SaveTranscriptConfig(c) ==
    /\ pc[c] = "transcription"
    /\ \/ /\ configured' = configured \cup {"transcription"}
          /\ pc' = [pc EXCEPT ![c] = "marking"]
          /\ UNCHANGED faults
       \/ /\ Fault
          /\ pc' = [pc EXCEPT ![c] = "failed"]
          /\ UNCHANGED configured
    /\ UNCHANGED <<store, disk, page, saves, history, crashes>>

\* Every field of the status that was loaded is replaced.  When the file
\* cannot be written the command fails, with the memory changed.
MarkCompleted(c) ==
    /\ pc[c] = "marking"
    /\ Put([completed |-> TRUE, step |-> LastStep, downloaded |-> TRUE])
    /\ pc' = [pc EXCEPT ![c] = IF faults' = faults THEN "succeeded"
                                                   ELSE "failed"]
    /\ outdone' = (outdone /\ disk' /= store')
    /\ UNCHANGED <<configured, page, saves, overlapped, told, crashes>>

\* The answers; the flag falls with the first one.
AnswerCompleted(c) ==
    /\ pc[c] = "succeeded"
    /\ Shows(currentStep, TRUE, parakeetDownloaded)
    /\ isCompleting' = FALSE
    /\ told' = TRUE
    /\ pc' = [pc EXCEPT ![c] = "reloading"]
    /\ UNCHANGED <<store, disk, configured, layout, load, savedStep, saves,
                   overlapped, outdone, faults, crashes>>

AnswerFailed(c) ==
    /\ pc[c] = "failed"
    /\ isCompleting' = FALSE
    /\ pc' = [pc EXCEPT ![c] = "idle"]
    /\ UNCHANGED <<store, disk, configured, layout, load, savedStep,
                   currentStep, completed, parakeetDownloaded, timer, saves,
                   history, faults, crashes>>

\* window.location.reload: requests on their way are carried out, their
\* answers reach nobody.
Reload(c) ==
    /\ pc[c] = "reloading"
    /\ Mount
    /\ pc' = [d \in Completions |->
                IF pc[d] \in {"succeeded", "failed", "reloading"}
                  THEN "idle" ELSE pc[d]]
    /\ UNCHANGED <<store, disk, configured, saves, history, faults, crashes>>

-----------------------------------------------------------------------------

Crash ==
    /\ crashes < MaxCrashes
    /\ crashes' = crashes + 1
    /\ store' = disk
    /\ Mount
    /\ saves' = {}
    /\ pc' = [c \in Completions |-> "idle"]
    /\ UNCHANGED <<disk, configured, history, faults>>

Next ==
    \/ AnswerLayout \/ AnswerLoad \/ LoadFails \/ AnswerVerification
    \/ GoToStep \/ AnnounceModel
    \/ FireTimer \/ WriteStore
    \/ \E s \in saves : LandSave(s)
    \/ \E c \in Completions :
          \/ Finish(c) \/ SaveFindingsConfig(c) \/ SaveTranscriptConfig(c)
          \/ MarkCompleted(c) \/ AnswerCompleted(c) \/ AnswerFailed(c)
          \/ Reload(c)
    \/ Crash

Spec == Init /\ [][Next]_vars

-----------------------------------------------------------------------------
(* Properties *)

\* A setup that counts as complete, in memory or after a restart, has both
\* configurations in the database (complete_onboarding).
CompletedIsConfigured ==
    Completed(store) \/ Completed(disk) => configured = Configurations

\* Once the page was told that the setup is complete it stays so, restarts
\* included, unless an auto-save overwrites it that was sent while nothing
\* was being completed; none is sent meanwhile, whatever is announced
\* (completeOnboarding, saveOnboardingStatus).
CompletionLasts ==
    told /\ ~outdone /\ ~overlapped => Completed(store) /\ Completed(disk)

-----------------------------------------------------------------------------
(* What makes the properties inductive *)

\* The parts of the type invariant that the others rest on.
Shape ==
    /\ configured \in SUBSET Configurations
    /\ pc \in [Completions -> PCs]
    /\ overlapped \in BOOLEAN
    /\ outdone \in BOOLEAN
    /\ faults \in Nat

\* A completion that is about to mark the setup has configured it.
ConfiguredFirst ==
    \A c \in Completions :
        /\ pc[c] = "transcription" => "findings" \in configured
        /\ pc[c] = "marking" => configured = Configurations

\* Of completions that never overlapped, one is there at a time.
OneCompletion ==
    ~overlapped => \A c, d \in Completions :
                      pc[c] /= "idle" /\ pc[d] /= "idle" => c = d

\* The page holds its saves back while the setup is completed, ...
SavesAreHeld == ~overlapped /\ UnderWay /= {} => isCompleting

\* ... so that none was sent beside a completion.
NoneBeside == \A s \in saves : ~s.beside

\* What a completion that succeeded is about to tell the page is so.
SuccessIsKept ==
    ~overlapped /\ ~outdone /\ (\E c \in Completions : pc[c] = "succeeded")
        => Completed(store) /\ Completed(disk)

IInv ==
    /\ Shape
    /\ ConfiguredFirst /\ OneCompletion /\ SavesAreHeld /\ NoneBeside
    /\ SuccessIsKept
    /\ CompletedIsConfigured /\ CompletionLasts
=============================================================================
