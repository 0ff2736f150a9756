------------------------- MODULE ParakeetDownloads -------------------------
(***************************************************************************)
(* A Parakeet model on disk: a directory of files (the encoder first, the  *)
(* vocabulary last) that calls download, retry, cancel, delete and         *)
(* discover, in a process that may end at any step.                        *)
(*                                                                         *)
(* A file is the set of its parts that are in place; Surplus stands for    *)
(* bytes past its end, NoFile for no file.  The published files are pinned *)
(* to a revision, so that the same part is always the same bytes.  A       *)
(* writer whose directory entry is gone writes to a file nobody sees.      *)
(* Nothing is verified but sizes.  The first two parts are the 99 percent  *)
(* of a file that will do for the whole one, so that a download skips it;  *)
(* of the vocabulary the first part will do for a directory to be valid.   *)
(* The sizes the code expects are taken to be close to the published ones. *)
(*                                                                         *)
(* Sources: parakeet_engine/parakeet_engine.rs and commands.rs.            *)
(***************************************************************************)
EXTENDS Naturals, FiniteSets

CONSTANTS
  Calls,       \* download calls that may be in progress at once
  Page,        \* the page, which lists the models
  MaxWhims,    \* bound: what the user does at will
  MaxFaults,   \* bound: requests, streams and file operations that fail
  MaxRestarts  \* bound: times the process ends

VARIABLES
  status,    \* the model in available_models
  active,    \* the model is in active_downloads
  flag,      \* the model is in cancel_download_flag
  dir,       \* the directory of the model exists
  file,      \* its files
  pc,        \* where each call stands
  at,        \* the file it downloads
  got,       \* the parts of it that it counts as received
  append,    \* it resumes: its writes go to the end of the file
  attached,  \* its file is the one in the directory
  scan,      \* what the discovery of each task has found
  canceller, \* where the cancellation stands
  deleter,   \* where the deletion stands
  whims,     \* what the user did at will
  faults,    \* what failed
  restarts,  \* times the process ended
  disturbed  \* history: calls that did not have the directory to themselves

callVars == <<pc, at, got, append, attached>>
catalogVars == <<status, active, flag>>
diskVars == <<dir, file>>
userVars == <<canceller, deleter>>
bounds == <<whims, faults, restarts>>
vars == <<catalogVars, diskVars, callVars, scan, userVars, bounds, disturbed>>

-----------------------------------------------------------------------------
(* Types *)

Files == 1..2
Parts == 1..3
Surplus == 4
Enough == 2
NoFile == {0}
Beginnings == {NoFile, {}, {1}, {1, 2}, Parts}
Tasks == Calls \cup {Page}
NotScanning == "none"
Statuses == {"unlisted", "available", "missing", "downloading", "corrupted"}
CallPCs == {"idle", "retrying", "resetting", "listing", "listed", "checked",
            "entered", "cleaning", "next", "sending", "opening", "streaming",
            "leaving"}

TypeOK ==
  /\ status \in Statuses
  /\ {active, flag, dir} \subseteq BOOLEAN
  /\ file \in [Files -> SUBSET (Parts \cup {Surplus}) \cup {NoFile}]
  /\ pc \in [Calls -> CallPCs]
  /\ at \in [Calls -> 1..3]
  /\ got \in [Calls -> 0..3]
  /\ append \in [Calls -> BOOLEAN]
  /\ attached \in [Calls -> BOOLEAN]
  /\ scan \in [Tasks -> Statuses \cup {NotScanning}]
  /\ canceller \in {"idle", "flagged", "waiting"}
  /\ deleter \in {"idle", "removed"}
  /\ whims \in 0..MaxWhims
  /\ faults \in 0..MaxFaults
  /\ restarts \in 0..MaxRestarts
  /\ disturbed \subseteq Calls

Init ==
  /\ status = "unlisted"
  /\ active = FALSE
  /\ flag = FALSE
  /\ dir = FALSE
  /\ file = [f \in Files |-> NoFile]
  /\ pc = [c \in Calls |-> "idle"]
  /\ at = [c \in Calls |-> 1]
  /\ got = [c \in Calls |-> 0]
  /\ append = [c \in Calls |-> FALSE]
  /\ attached = [c \in Calls |-> FALSE]
  /\ scan = [t \in Tasks |-> NotScanning]
  /\ canceller = "idle"
  /\ deleter = "idle"
  /\ whims = 0
  /\ faults = 0
  /\ restarts = 0
  /\ disturbed = {}

Whim == whims < MaxWhims /\ whims' = whims + 1 /\ UNCHANGED <<faults, restarts>>
Fault == faults < MaxFaults /\ faults' = faults + 1 /\ UNCHANGED <<whims, restarts>>

-----------------------------------------------------------------------------
(* The directory *)

Size(f) ==
  IF file[f] \in {NoFile, {}} THEN 0
  ELSE CHOOSE n \in file[f] : \A k \in file[f] : k <= n

AllFilesExist == \A f \in Files : file[f] # NoFile
ValidDirectory ==
  /\ AllFilesExist
  /\ \A f \in Files : Size(f) >= (IF f = 2 THEN 1 ELSE Enough)

\* Somebody other than c changes the directory under a call.
Disturbs(c) == disturbed' = disturbed \cup {d \in Calls \ {c} : pc[d] # "idle"}

RemoveDirectory ==
  /\ dir' = FALSE
  /\ file' = [f \in Files |-> NoFile]
  /\ attached' = [c \in Calls |-> FALSE]
  /\ Disturbs(Page)

SetStatus(s) == status' = IF status = "unlisted" THEN status ELSE s

-----------------------------------------------------------------------------
(* discover_models: it holds the lock of the active downloads until it has *)
(* replaced the catalog                                                    *)

ActiveIsWritable == \A t \in Tasks : scan[t] = NotScanning

FoundStatus ==
  CASE active -> "downloading"
    [] ~ active /\ ValidDirectory -> "available"
    [] ~ active /\ AllFilesExist /\ ~ ValidDirectory -> "corrupted"
    [] ~ active /\ ~ AllFilesExist -> "missing"

Scan(t) ==
  /\ scan[t] = NotScanning
  /\ t \in Calls => pc[t] = "listing"
  /\ scan' = [scan EXCEPT ![t] = FoundStatus]
  /\ UNCHANGED <<catalogVars, diskVars, callVars, userVars, bounds, disturbed>>

Moves(c, place) == pc' = [pc EXCEPT ![c] = place]

PublishScan(t) ==
  /\ scan[t] # NotScanning
  /\ status' = scan[t]
  /\ scan' = [scan EXCEPT ![t] = NotScanning]
  /\ IF t \in Calls THEN Moves(t, "listed") ELSE UNCHANGED pc
  /\ UNCHANGED <<active, flag, diskVars, at, got, append, attached, userVars,
                 bounds, disturbed>>

-----------------------------------------------------------------------------
(* parakeet_download_model and parakeet_retry_download *)

Running == {c \in Calls : pc[c] # "idle"}

\* The page offers a download, or a retry, of a model it does not show as
\* available; to ask while a call is out is a whim.
Ask(c, retry) ==
  /\ pc[c] = "idle"
  /\ status \notin {"unlisted", "available"}
  /\ IF Running = {} THEN UNCHANGED bounds ELSE Whim
  /\ Moves(c, IF retry THEN "retrying" ELSE "listing")
  /\ UNCHANGED <<catalogVars, diskVars, at, got, append, attached, scan, userVars,
                 disturbed>>

\* The retry does not ask whether the download it forgets still runs.
ForgetsForRetry == FALSE

ForgetActive(c) ==
  /\ pc[c] = "retrying"
  /\ ActiveIsWritable
  /\ active' = ForgetsForRetry
  /\ Moves(c, "resetting")
  /\ UNCHANGED <<status, flag, diskVars, at, got, append, attached, scan, userVars,
                 bounds, disturbed>>

ForceMissing(c) ==
  /\ pc[c] = "resetting"
  /\ SetStatus("missing")
  /\ Moves(c, "listing")
  /\ UNCHANGED <<active, flag, diskVars, at, got, append, attached, scan, userVars,
                 bounds, disturbed>>

\* The check and the insertion take the lock separately.
CheckActive(c) ==
  /\ pc[c] = "listed"
  /\ Moves(c, IF active THEN "idle" ELSE "checked")
  /\ UNCHANGED <<catalogVars, diskVars, at, got, append, attached, scan, userVars,
                 bounds, disturbed>>

EnterActive(c) ==
  /\ pc[c] = "checked"
  /\ ActiveIsWritable
  /\ active' = TRUE
  /\ Moves(c, "entered")
  /\ UNCHANGED <<status, flag, diskVars, at, got, append, attached, scan, userVars,
                 bounds, disturbed>>

ClearFlag(c) ==
  /\ pc[c] = "entered"
  /\ flag' = FALSE
  /\ SetStatus("downloading")
  /\ Moves(c, "cleaning")
  /\ UNCHANGED <<active, diskVars, at, got, append, attached, scan, userVars, bounds,
                 disturbed>>

\* clean_incomplete_model_directory: a file that cannot be removed is left.
CleanDirectory(c) ==
  /\ pc[c] = "cleaning"
  /\ dir' = TRUE
  /\ \E kept \in SUBSET Files :
       /\ IF kept = {} THEN UNCHANGED bounds ELSE Fault
       /\ IF ValidDirectory
            THEN kept = {} /\ UNCHANGED <<file, attached>>
            ELSE /\ file' = [f \in Files |-> IF f \in kept THEN file[f] ELSE NoFile]
                 /\ attached' = [d \in Calls |-> attached[d] /\ at[d] \in kept]
       /\ disturbed' = IF Running = {c} /\ \A f \in Files : file[f] \in Beginnings
                         THEN disturbed \ {c}
                         ELSE disturbed \cup Running
  /\ at' = [at EXCEPT ![c] = 1]
  /\ Moves(c, "next")
  /\ UNCHANGED <<catalogVars, got, append, scan, userVars>>

\* A file that has 99% of its size is skipped, whatever is in it and whatever
\* it lacks.
NextFile(c) ==
  /\ pc[c] = "next"
  /\ at[c] \in Files
  /\ IF Size(at[c]) >= Enough
       THEN at' = [at EXCEPT ![c] = @ + 1] /\ UNCHANGED <<pc, got>>
       ELSE /\ got' = [got EXCEPT ![c] = Size(at[c])]
            /\ Moves(c, "sending")
            /\ UNCHANGED at
  /\ UNCHANGED <<catalogVars, diskVars, append, attached, scan, userVars, bounds,
                 disturbed>>

-----------------------------------------------------------------------------
(* One file *)

\* An error returned with `?' leaves the model among the active downloads.
Fails(c) ==
  /\ Moves(c, "idle")
  /\ got' = [got EXCEPT ![c] = 0]
  /\ append' = [append EXCEPT ![c] = FALSE]
  /\ attached' = [attached EXCEPT ![c] = FALSE]
  /\ at' = [at EXCEPT ![c] = 1]
  /\ UNCHANGED active

FailsCleanly(c) ==
  /\ ActiveIsWritable
  /\ active' = FALSE
  /\ Moves(c, "idle")
  /\ got' = [got EXCEPT ![c] = 0]
  /\ append' = [append EXCEPT ![c] = FALSE]
  /\ attached' = [attached EXCEPT ![c] = FALSE]
  /\ at' = [at EXCEPT ![c] = 1]

\* 206 resumes, 200 begins again; 416 removes the file and asks once more.
SendRequest(c) ==
  /\ pc[c] = "sending"
  /\ \/ Fault /\ (Fails(c) \/ FailsCleanly(c)) /\ UNCHANGED <<file, disturbed>>
     \/ /\ Moves(c, "opening")
        /\ \/ /\ append' = [append EXCEPT ![c] = got[c] > 0]
              /\ UNCHANGED <<got, file, attached, bounds, disturbed>>
           \/ /\ got[c] > 0
              /\ got' = [got EXCEPT ![c] = 0]
              /\ UNCHANGED <<append, file, attached, bounds, disturbed>>
           \/ /\ got[c] > 0
              /\ Fault
              /\ got' = [got EXCEPT ![c] = 0]
              /\ file' = [file EXCEPT ![at[c]] = NoFile]
              /\ attached' = [d \in Calls |-> attached[d] /\ at[d] # at[c]]
              /\ Disturbs(c)
              /\ UNCHANGED append
        /\ UNCHANGED <<active, at>>
  /\ UNCHANGED <<status, flag, dir, scan, userVars>>

Resumes(c) == append[c]

OpenFile(c) ==
  /\ pc[c] = "opening"
  /\ IF (Resumes(c) /\ file[at[c]] = NoFile) \/ ~ dir
       THEN Fails(c) /\ UNCHANGED <<file, disturbed>>
       ELSE /\ IF Resumes(c)
                 THEN UNCHANGED <<file, disturbed>>
                 ELSE file' = [file EXCEPT ![at[c]] = {}] /\ Disturbs(c)
            /\ attached' = [attached EXCEPT ![c] = TRUE]
            /\ Moves(c, "streaming")
            /\ UNCHANGED <<active, at, got, append>>
  /\ UNCHANGED <<status, flag, dir, scan, userVars, bounds>>

\* Where the next part goes: to its place, or to the end of what is there.
\* A resuming call that was told to create the file writes from its start.
Written(c) ==
  LET part == got[c] + 1 IN
  IF append[c]
    THEN file[at[c]] \cup {IF Size(at[c]) = got[c] THEN part ELSE Surplus}
    ELSE file[at[c]] \cup {part}

ReceivePart(c) ==
  /\ pc[c] = "streaming"
  /\ ~ flag
  /\ got[c] < 3
  /\ got' = [got EXCEPT ![c] = @ + 1]
  /\ SetStatus("downloading")
  /\ IF attached[c]
       THEN file' = [file EXCEPT ![at[c]] = Written(c)] /\ Disturbs(c)
       ELSE UNCHANGED <<file, disturbed>>
  /\ UNCHANGED <<active, flag, dir, pc, at, append, attached, scan, userVars, bounds>>

EndFile(c) ==
  /\ pc[c] = "streaming"
  /\ ~ flag
  /\ got[c] = 3
  /\ at' = [at EXCEPT ![c] = @ + 1]
  /\ attached' = [attached EXCEPT ![c] = FALSE]
  /\ append' = [append EXCEPT ![c] = FALSE]
  /\ Moves(c, "next")
  /\ UNCHANGED <<catalogVars, diskVars, got, scan, userVars, bounds, disturbed>>

\* No bytes for thirty seconds, a broken stream, a write that fails.
BreakOff(c) ==
  /\ pc[c] = "streaming"
  /\ Fault
  /\ FailsCleanly(c)
  /\ SetStatus("missing")
  /\ UNCHANGED <<flag, diskVars, scan, userVars, disturbed>>

\* The flag is looked at before each wait for bytes.
Abandon(c) ==
  /\ pc[c] = "streaming"
  /\ flag
  /\ FailsCleanly(c)
  /\ UNCHANGED <<status, flag, diskVars, scan, userVars, bounds, disturbed>>

\* The download ends in success without a look at the directory.
Complete(c) ==
  /\ pc[c] = "next"
  /\ at[c] \notin Files
  /\ SetStatus("available")
  /\ Moves(c, "leaving")
  /\ UNCHANGED <<active, flag, diskVars, at, got, append, attached, scan, userVars,
                 bounds, disturbed>>

LeaveActive(c) ==
  /\ pc[c] = "leaving"
  /\ FailsCleanly(c)
  /\ flag' = FALSE
  /\ UNCHANGED <<status, diskVars, scan, userVars, bounds, disturbed>>

-----------------------------------------------------------------------------
(* cancel_download, delete_model and the other model *)

CancelDownload ==
  /\ canceller = "idle"
  /\ status = "downloading"
  /\ Whim
  /\ flag' = TRUE
  /\ canceller' = "flagged"
  /\ UNCHANGED <<status, active, diskVars, callVars, scan, deleter, disturbed>>

ForgetDownload ==
  /\ canceller = "flagged"
  /\ ActiveIsWritable
  /\ active' = FALSE
  /\ SetStatus("missing")
  /\ canceller' = "waiting"
  /\ UNCHANGED <<flag, diskVars, callVars, scan, deleter, bounds, disturbed>>

\* After a tenth of a second, whatever has happened in the meantime.
RemoveCancelled ==
  /\ canceller = "waiting"
  /\ RemoveDirectory
  /\ canceller' = "idle"
  /\ UNCHANGED <<catalogVars, pc, at, got, append, scan, deleter, bounds>>

DeleteDirectory ==
  /\ deleter = "idle"
  /\ status \in {"corrupted", "available"}
  /\ Whim
  /\ RemoveDirectory
  /\ deleter' = "removed"
  /\ UNCHANGED <<catalogVars, pc, at, got, append, scan, canceller>>

DeleteStatus ==
  /\ deleter = "removed"
  /\ SetStatus("missing")
  /\ deleter' = "idle"
  /\ UNCHANGED <<active, flag, diskVars, callVars, scan, canceller, bounds,
                 disturbed>>

\* There is one flag: the download of another model clears it.
OtherDownload ==
  /\ flag
  /\ flag' = FALSE
  /\ UNCHANGED <<status, active, diskVars, callVars, scan, userVars, bounds,
                 disturbed>>

\* The process ends; the files stay.
Restart ==
  /\ restarts < MaxRestarts
  /\ restarts' = restarts + 1
  /\ status' = "unlisted"
  /\ active' = FALSE
  /\ flag' = FALSE
  /\ pc' = [c \in Calls |-> "idle"]
  /\ at' = [c \in Calls |-> 1]
  /\ got' = [c \in Calls |-> 0]
  /\ append' = [c \in Calls |-> FALSE]
  /\ attached' = [c \in Calls |-> FALSE]
  /\ scan' = [t \in Tasks |-> NotScanning]
  /\ canceller' = "idle"
  /\ deleter' = "idle"
  /\ disturbed' = {}
  /\ UNCHANGED <<diskVars, whims, faults>>

-----------------------------------------------------------------------------

CallStep(c) ==
  \/ ForgetActive(c) \/ ForceMissing(c) \/ CheckActive(c) \/ EnterActive(c)
  \/ ClearFlag(c) \/ CleanDirectory(c) \/ NextFile(c) \/ SendRequest(c)
  \/ OpenFile(c) \/ ReceivePart(c) \/ EndFile(c) \/ BreakOff(c) \/ Abandon(c)
  \/ Complete(c) \/ LeaveActive(c)

CancelCommand == CancelDownload \/ ForgetDownload \/ RemoveCancelled

DeleteCommand == DeleteDirectory \/ DeleteStatus

ListModels == \E t \in Tasks : Scan(t) \/ PublishScan(t)

Next ==
  \/ \E c \in Calls : CallStep(c) \/ \E retry \in BOOLEAN : Ask(c, retry)
  \/ ListModels
  \/ CancelCommand \/ DeleteCommand \/ OtherDownload
  \/ Restart

\* Every call and every command runs to its end, the page lists the models
\* again, and a user who wants the model presses "retry".
Retry == \E c \in Calls : Ask(c, TRUE) /\ Running = {}

Spec == Init /\ [][Next]_vars
FairSpec ==
  /\ Spec
  /\ \A c \in Calls : SF_vars(CallStep(c))
  /\ \A t \in Tasks : WF_vars(Scan(t)) /\ WF_vars(PublishScan(t))
  /\ SF_vars(Retry)
  /\ SF_vars(ForgetDownload)
  /\ WF_vars(RemoveCancelled)
  /\ WF_vars(DeleteStatus)

-----------------------------------------------------------------------------
(* Properties *)

\* Whatever failed or was cancelled before, a user who retries as the onboarding
\* does ends up with a directory the program takes for a model
\* (parakeet_retry_download).
ModelIsObtainable == []<>(status = "available" /\ ValidDirectory)

\* A call that has the directory to itself, which held nothing but beginnings
\* of the files, leaves every file it receives whole, whether it resumed it or
\* began it again, and reports success only where no file lacks more than what
\* it may have skipped (download_model_detailed).
ReceivedIsWhole ==
  [][\A c \in Calls :
       /\ EndFile(c) /\ c \notin disturbed => file[at[c]] = Parts
       /\ Complete(c) /\ c \notin disturbed =>
            \A f \in Files : file[f] \in {1..Enough, Parts}]_vars

=============================================================================
