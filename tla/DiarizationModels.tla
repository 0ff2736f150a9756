------------------------- MODULE DiarizationModels -------------------------
(***************************************************************************)
(* The model that tells speakers apart: a directory of files that are      *)
(* pinned by their digests, installed from the network into a directory    *)
(* beside it that then takes its place, and used by jobs.  A lock lets     *)
(* many jobs use the model or one install replace it; the status is read   *)
(* without it.  A verification reads one file after the other.             *)
(*                                                                         *)
(* Files may also be damaged, replaced or removed from outside.            *)
(*                                                                         *)
(* Sources: audio/diarization_models.rs and audio/diarization.rs of        *)
(* src/frontend/src-tauri/src.                                             *)
(***************************************************************************)
EXTENDS Naturals, Sequences, SequencesExt

CONSTANTS
    FileCount,   \* files of the manifest
    Jobs,        \* calls of diarize_file
    Installs,    \* calls of diarization_install_models
    Pages,       \* calls of diarization_model_status
    Gone,        \* no directory
    MaxFaults,   \* bound: changes from outside, failed calls
    MaxCrashes   \* bound: ends of the process

VARIABLES
    target,   \* what is in each file of the model's directory
    staging,  \* what is in each file of an install's directory
    line,     \* who waits for MODEL_LOCK, in order
    inside,   \* who holds it
    pc,       \* where each call stands
    at,       \* the file it verifies or downloads
    verdict,  \* DiarizationModelState, as far as it has verified
    touched,  \* history: the files changed from outside since it began
    orphans,  \* directories of installs that the process left behind
    faults, crashes

lock == <<line, inside>>
calls == <<pc, at, verdict, touched>>
vars == <<target, staging, lock, calls, orphans, faults, crashes>>

-----------------------------------------------------------------------------
(* Types *)

Files == 1..FileCount
Calls == Jobs \cup Installs \cup Pages
Holders == Jobs \cup Installs
Directory == [Files -> {"verified", "wrong", "missing"}]
Verdicts == {"available", "corrupted", "missing"}
PCs == {"idle", "waiting", "verifying", "using", "downloading", "checking",
        "activating", "confirming", "told"}

TypeOK ==
    /\ target \in Directory
    /\ staging \in [Installs -> Directory \cup {Gone}]
    /\ line \in Seq(Holders)
    /\ inside \in SUBSET Holders
    /\ pc \in [Calls -> PCs]
    /\ at \in [Calls -> 1..(FileCount + 1)]
    /\ verdict \in [Calls -> Verdicts]
    /\ touched \in SUBSET Calls
    /\ orphans \in Nat
    /\ faults \in 0..MaxFaults
    /\ crashes \in 0..MaxCrashes

Empty == [f \in Files |-> "missing"]
Whole(directory) == \A f \in Files : directory[f] = "verified"

Init ==
    /\ target = Empty
    /\ staging = [i \in Installs |-> Gone]
    /\ line = <<>>
    /\ inside = {}
    /\ pc = [c \in Calls |-> "idle"]
    /\ at = [c \in Calls |-> 1]
    /\ verdict = [c \in Calls |-> "available"]
    /\ touched = {}
    /\ orphans = 0
    /\ faults = 0
    /\ crashes = 0

Fault == faults < MaxFaults /\ faults' = faults + 1

-----------------------------------------------------------------------------
(* Verification *)

\* Mutation of Judged: the last file decides.
JudgedByTheLast(v, content) ==
    CASE content = "verified" -> "available"
      [] content = "wrong" -> "corrupted"
      [] content = "missing" -> "missing"

\* One file of verify_directory: a wrong one outweighs a missing one.
Judged(v, content) ==
    CASE content = "verified" -> v
      [] content = "wrong" -> "corrupted"
      [] content = "missing" -> IF v = "corrupted" THEN v ELSE "missing"

\* A call goes on to a place where it works on the files from the first on.
Begin(c, place) ==
    /\ pc' = [pc EXCEPT ![c] = place]
    /\ at' = [at EXCEPT ![c] = 1]
    /\ verdict' = [verdict EXCEPT ![c] = "available"]
    /\ touched' = touched \ {c}

\* A call goes on with what it has found.
Goes(c, place) ==
    /\ pc' = [pc EXCEPT ![c] = place]
    /\ UNCHANGED <<at, verdict, touched>>

Verified(c, directory) ==
    /\ at[c] \in Files
    /\ verdict' = [verdict EXCEPT ![c] = Judged(@, directory[at[c]])]
    /\ at' = [at EXCEPT ![c] = @ + 1]
    /\ UNCHANGED <<pc, touched>>

VerifyFile(c) ==
    /\ \/ pc[c] \in {"verifying", "confirming"} /\ Verified(c, target)
       \/ pc[c] = "checking" /\ Verified(c, staging[c])
    /\ UNCHANGED <<target, staging, lock, orphans, faults, crashes>>

HasVerified(c) == at[c] > FileCount

-----------------------------------------------------------------------------
(* MODEL_LOCK: first come first served, jobs beside each other *)

\* Mutation of MayEnter: an install reads the lock like a job.
AnybodyMayEnter(c) == TRUE

MayEnter(c) ==
    /\ inside \cap Installs = {}
    /\ c \in Installs => inside = {}

Wait(c) ==
    /\ pc[c] = "idle"
    /\ line' = Append(line, c)
    /\ Goes(c, "waiting")
    /\ UNCHANGED <<target, staging, inside, orphans, faults, crashes>>

Enter ==
    /\ line /= <<>>
    /\ MayEnter(Head(line))
    /\ inside' = inside \cup {Head(line)}
    /\ line' = Tail(line)
    /\ Begin(Head(line), "verifying")
    /\ UNCHANGED <<target, staging, orphans, faults, crashes>>

Leave(c) == inside' = inside \ {c} /\ UNCHANGED line

-----------------------------------------------------------------------------
(* diarize_file *)

\* verified_model_directory: only a model that is available is used.
UseModel(j) ==
    /\ pc[j] = "verifying"
    /\ HasVerified(j)
    /\ IF verdict[j] = "available"
         THEN Goes(j, "using") /\ UNCHANGED lock
         ELSE Goes(j, "idle") /\ Leave(j)
    /\ UNCHANGED <<target, staging, orphans, faults, crashes>>

\* The engine has answered or failed; the guard is dropped.
EndDiarization(j) ==
    /\ pc[j] = "using"
    /\ Goes(j, "idle")
    /\ Leave(j)
    /\ UNCHANGED <<target, staging, orphans, faults, crashes>>

-----------------------------------------------------------------------------
(* diarization_model_status *)

AskStatus(p) ==
    /\ pc[p] = "idle"
    /\ Begin(p, "verifying")
    /\ UNCHANGED <<target, staging, lock, orphans, faults, crashes>>

TellStatus(p) ==
    /\ pc[p] = "verifying"
    /\ HasVerified(p)
    /\ Goes(p, "told")
    /\ UNCHANGED <<target, staging, lock, orphans, faults, crashes>>

Forget(c) ==
    /\ pc[c] = "told"
    /\ Goes(c, "idle")
    /\ UNCHANGED <<target, staging, lock, orphans, faults, crashes>>

-----------------------------------------------------------------------------
(* diarization_install_models *)

\* A model that is available is verified once more and reported.
CheckInstalled(i) ==
    /\ pc[i] = "verifying"
    /\ HasVerified(i)
    /\ IF verdict[i] = "available"
         THEN Begin(i, "confirming") /\ UNCHANGED staging
         ELSE /\ Begin(i, "downloading")
              /\ staging' = [staging EXCEPT ![i] = Empty]
    /\ UNCHANGED <<target, lock, orphans, faults, crashes>>

\* A file is kept only if its length and its digest are the expected ones.
DownloadFile(i) ==
    /\ pc[i] = "downloading"
    /\ at[i] \in Files
    /\ staging' = [staging EXCEPT ![i][at[i]] = "verified"]
    /\ at' = [at EXCEPT ![i] = @ + 1]
    /\ UNCHANGED <<target, lock, pc, verdict, touched, orphans, faults,
                   crashes>>

\* The server, the connection, the disk, or a file that is another one: the
\* directory of the install goes with it.
InstallFails(i) ==
    /\ pc[i] \in {"downloading", "activating"}
    /\ Fault
    /\ staging' = [staging EXCEPT ![i] = Gone]
    /\ Goes(i, "idle")
    /\ Leave(i)
    /\ UNCHANGED <<target, orphans, crashes>>

CheckStaging(i) ==
    /\ pc[i] = "downloading"
    /\ at[i] > FileCount
    /\ Begin(i, "checking")
    /\ UNCHANGED <<target, staging, lock, orphans, faults, crashes>>

\* Mutation of StagingIsWhole: what was downloaded is not verified again.
StagingIsTrusted(i) == TRUE

StagingIsWhole(i) == verdict[i] = "available"

StagingChecked(i) ==
    /\ pc[i] = "checking"
    /\ HasVerified(i)
    /\ IF StagingIsWhole(i)
         THEN Goes(i, "activating") /\ UNCHANGED <<staging, lock>>
         ELSE /\ Goes(i, "idle")
              /\ staging' = [staging EXCEPT ![i] = Gone]
              /\ Leave(i)
    /\ UNCHANGED <<target, orphans, faults, crashes>>

\* activate_staging: the directories change places in one step, and the old
\* one goes with the directory of the install.
Activate(i) ==
    /\ pc[i] = "activating"
    /\ target' = staging[i]
    /\ staging' = [staging EXCEPT ![i] = Gone]
    /\ Begin(i, "confirming")
    /\ UNCHANGED <<lock, orphans, faults, crashes>>

ConfirmInstall(i) ==
    /\ pc[i] = "confirming"
    /\ HasVerified(i)
    /\ Goes(i, "told")
    /\ Leave(i)
    /\ UNCHANGED <<target, staging, orphans, faults, crashes>>

-----------------------------------------------------------------------------
(* From outside *)

\* Somebody changes a file of the model.
ChangeFile ==
    /\ Fault
    /\ \E f \in Files, content \in {"verified", "wrong", "missing"} :
         /\ target[f] /= content
         /\ target' = [target EXCEPT ![f] = content]
    /\ touched' = Calls
    /\ UNCHANGED <<staging, lock, pc, at, verdict, orphans, crashes>>

\* A file that was written is not what was downloaded: a full disk, or
\* somebody again.
DamageStaging(i) ==
    /\ pc[i] = "downloading"
    /\ Fault
    /\ \E f \in Files, content \in {"wrong", "missing"} :
         /\ staging[i][f] = "verified"
         /\ staging' = [staging EXCEPT ![i][f] = content]
    /\ UNCHANGED <<target, lock, calls, orphans, crashes>>

\* The process ends: nothing removes the directories of its installs.
Crash ==
    /\ crashes < MaxCrashes
    /\ crashes' = crashes + 1
    /\ orphans' = orphans + (IF \E i \in Installs : staging[i] /= Gone
                               THEN 1 ELSE 0)
    /\ staging' = [i \in Installs |-> Gone]
    /\ line' = <<>>
    /\ inside' = {}
    /\ pc' = [c \in Calls |-> "idle"]
    /\ UNCHANGED <<target, at, verdict, touched, faults>>

-----------------------------------------------------------------------------

Next ==
    \/ \E c \in Holders : Wait(c)
    \/ Enter
    \/ \E c \in Calls : VerifyFile(c) \/ Forget(c)
    \/ \E j \in Jobs : UseModel(j) \/ EndDiarization(j)
    \/ \E p \in Pages : AskStatus(p) \/ TellStatus(p)
    \/ \E i \in Installs :
          \/ CheckInstalled(i) \/ DownloadFile(i) \/ InstallFails(i)
          \/ CheckStaging(i) \/ StagingChecked(i) \/ Activate(i)
          \/ ConfirmInstall(i) \/ DamageStaging(i)
    \/ ChangeFile
    \/ Crash

Spec == Init /\ [][Next]_vars

-----------------------------------------------------------------------------
(* Properties *)

\* Whoever has found the model available, file by file and whatever was
\* installed meanwhile, has a whole model, unless somebody touched its files
\* (verify_directory, verified_model_directory).
TrustedIsWhole ==
    \A c \in Calls :
        /\ pc[c] \in {"using", "told"}
        /\ verdict[c] = "available"
        /\ c \notin touched
        => Whole(target)

\* Only an install replaces the model, by a whole one in one step, and never
\* while a job uses it: a failed or interrupted install leaves it as it was
\* (install_models, activate_staging, processing_guard).
ReplacedAtOnce ==
    [][/\ target' /= target
       /\ faults' = faults
       => /\ Whole(target')
          /\ \A j \in Jobs : pc[j] /= "using"]_vars

-----------------------------------------------------------------------------
(* What makes the properties inductive *)

\* The parts of the type invariant that the others rest on.
Shape ==
    /\ target \in Directory
    /\ staging \in [Installs -> Directory \cup {Gone}]
    /\ line \in Seq(Holders)
    /\ inside \in SUBSET Holders
    /\ pc \in [Calls -> PCs]
    /\ at \in [Calls -> Nat \ {0}]
    /\ verdict \in [Calls -> Verdicts]
    /\ faults \in Nat

\* Whoever is in the line waits, in one place of it.
LineWaits ==
    /\ \A n \in 1..Len(line) : pc[line[n]] = "waiting"
    /\ \A n, m \in 1..Len(line) : line[n] = line[m] => n = m

\* Whoever works on the files holds the lock.
WorkersAreInside ==
    \A c \in Holders :
        c \in inside <=> pc[c] \notin {"idle", "waiting", "told"}

\* An install holds it alone.
InstallsAreAlone == \A i \in Installs : i \in inside => inside = {i}

\* What a call has verified and nobody has touched is still verified.
VerifiedSoFar ==
    \A c \in Calls :
        /\ pc[c] \in {"verifying", "confirming", "using", "told"}
        /\ verdict[c] = "available"
        /\ c \notin touched
        => \A f \in Files : f < at[c] => target[f] = "verified"

\* Who uses the model or has told of it has verified every file.
AllIsVerified ==
    \A c \in Calls : pc[c] \in {"using", "told"} => HasVerified(c)

\* Only installs work on a directory of their own, and they have it; what
\* they have checked there is verified, and whole when it takes the place of
\* the model.
StagingIsSound ==
    \A c \in Calls :
        /\ pc[c] \in {"downloading", "checking", "activating"}
               => c \in Installs /\ staging[c] \in Directory
        /\ pc[c] = "checking" /\ verdict[c] = "available"
               => \A f \in Files : f < at[c] => staging[c][f] = "verified"
        /\ pc[c] = "activating" => Whole(staging[c])

IInv ==
    /\ Shape
    /\ LineWaits /\ WorkersAreInside /\ InstallsAreAlone
    /\ VerifiedSoFar /\ AllIsVerified /\ StagingIsSound
=============================================================================
