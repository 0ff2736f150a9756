-------------------------- MODULE WhisperDownloads --------------------------
(***************************************************************************)
(* The Whisper models on disk: calls that download, cancel, delete and     *)
(* discover them, every await of which is a step boundary, and a process   *)
(* that may end at any step.                                               *)
(*                                                                         *)
(* A file is its two halves, each empty, right or wrong.  A download that  *)
(* has created a file keeps writing to it; once the directory entry is     *)
(* removed it writes to a file that nobody sees ("attached" is FALSE).     *)
(* The digest is computed over the bytes received, not over the file.      *)
(*                                                                         *)
(* Sources: whisper_engine/whisper_engine.rs and commands.rs, and          *)
(* components/WhisperModelManager.tsx for what the user may ask for.       *)
(***************************************************************************)
EXTENDS Naturals, FiniteSets

CONSTANTS
  Models,      \* the catalog
  Calls,       \* download calls that may be in progress at once
  NoModel,     \* an empty cancel flag
  Absent,      \* no file
  MaxWhims,    \* bound: calls, cancellations, deletions made at will
  MaxFaults,   \* bound: requests that fail, bytes that arrive wrong
  MaxRestarts  \* bound: times the process ends

VARIABLES
  status,    \* available_models
  active,    \* active_downloads
  flag,      \* cancel_download_flag
  file,      \* models_dir
  pc,        \* where each download call stands
  model,     \* the model it downloads
  got,       \* the halves it has received
  sound,     \* what it has received is what was published
  attached,  \* its file is the one in the directory
  canceller, \* where the cancellation of each model stands
  deleter,   \* where the deletion of each model stands
  scan,      \* what the discovery in progress has found
  whims,     \* what the user did at will
  faults,    \* requests that failed, bytes that arrived wrong
  restarts,  \* times the process ended
  stranded,  \* history: models that a call which failed left active
  disturbed  \* history: calls whose file somebody else touched, scans that
             \* something happened to

callVars == <<pc, model, got, sound, attached>>
catalogVars == <<status, active, flag>>
userVars == <<canceller, deleter, whims>>
vars == <<catalogVars, file, callVars, userVars, scan, faults, restarts,
          stranded, disturbed>>

-----------------------------------------------------------------------------
(* Types *)

Statuses == {"unlisted", "available", "missing", "downloading", "error",
             "corrupted"}
Files == [1..2 -> {"empty", "right", "wrong"}] \cup {Absent}
Fresh == [h \in 1..2 |-> "empty"]
Whole(f) == f = [h \in 1..2 |-> "right"]
CallPCs == {"idle", "checked", "entered", "sending", "opening", "streaming"}
Nothing == [m \in {} |-> "unlisted"]
Scanning == "scan"

TypeOK ==
  /\ status \in [Models -> Statuses]
  /\ active \subseteq Models
  /\ flag \in Models \cup {NoModel}
  /\ file \in [Models -> Files]
  /\ pc \in [Calls -> CallPCs]
  /\ model \in [Calls -> Models \cup {NoModel}]
  /\ got \in [Calls -> 0..2]
  /\ sound \in [Calls -> BOOLEAN]
  /\ attached \in [Calls -> BOOLEAN]
  /\ canceller \in [Models -> {"idle", "flagged", "waiting"}]
  /\ deleter \in [Models -> {"idle", "removed"}]
  /\ scan \in UNION {[D -> Statuses] : D \in SUBSET Models}
  /\ whims \in 0..MaxWhims
  /\ faults \in 0..MaxFaults
  /\ restarts \in 0..MaxRestarts
  /\ stranded \subseteq Models
  /\ disturbed \subseteq Calls \cup {Scanning}

Init ==
  /\ status = [m \in Models |-> "unlisted"]
  /\ active = {}
  /\ flag = NoModel
  /\ file = [m \in Models |-> Absent]
  /\ pc = [c \in Calls |-> "idle"]
  /\ model = [c \in Calls |-> NoModel]
  /\ got = [c \in Calls |-> 0]
  /\ sound = [c \in Calls |-> TRUE]
  /\ attached = [c \in Calls |-> FALSE]
  /\ canceller = [m \in Models |-> "idle"]
  /\ deleter = [m \in Models |-> "idle"]
  /\ scan = Nothing
  /\ whims = 0
  /\ faults = 0
  /\ restarts = 0
  /\ stranded = {}
  /\ disturbed = {}

-----------------------------------------------------------------------------
(* Files *)

Holders(m) == {c \in Calls : model[c] = m /\ pc[c] = "streaming" /\ attached[c]}

\* Those who no longer know what the file of m holds once c has touched it:
\* the other calls that write to it, and the discovery in progress.
Surprised(m, c) ==
  (Holders(m) \ {c}) \cup (IF scan = Nothing THEN {} ELSE {Scanning})

RemoveFile(m, c) ==
  /\ file' = [file EXCEPT ![m] = Absent]
  /\ attached' = [d \in Calls |-> attached[d] /\ model[d] # m]
  /\ disturbed' = disturbed \cup Surprised(m, c)

SetStatus(m, s) ==
  status' = [status EXCEPT ![m] = IF @ = "unlisted" THEN @ ELSE s]

-----------------------------------------------------------------------------
(* download_model *)

Ends(c) ==
  /\ pc' = [pc EXCEPT ![c] = "idle"]
  /\ model' = [model EXCEPT ![c] = NoModel]
  /\ got' = [got EXCEPT ![c] = 0]
  /\ sound' = [sound EXCEPT ![c] = TRUE]

Moves(c, place) ==
  /\ pc' = [pc EXCEPT ![c] = place]
  /\ UNCHANGED <<model, got, sound>>

Running(m) == {c \in Calls : model[c] = m}

\* The page offers the download of a model that it does not show as available;
\* to ask for it while a call is out is a whim.  A model that is active is
\* refused, which changes nothing.
Download(c, m) ==
  /\ pc[c] = "idle"
  /\ status[m] \notin {"unlisted", "available"}
  /\ m \notin active
  /\ \/ Running(m) = {} /\ UNCHANGED whims
     \/ Running(m) # {} /\ whims < MaxWhims /\ whims' = whims + 1
  /\ pc' = [pc EXCEPT ![c] = "checked"]
  /\ model' = [model EXCEPT ![c] = m]
  /\ UNCHANGED <<catalogVars, file, got, sound, attached, canceller, deleter,
                 scan, faults, restarts, stranded, disturbed>>

\* The check and the insertion take the lock separately.
EnterActive(c) ==
  /\ pc[c] = "checked"
  /\ active' = active \cup {model[c]}
  /\ Moves(c, "entered")
  /\ UNCHANGED <<status, flag, file, attached, userVars, scan, faults, restarts,
                 stranded, disturbed>>

\* One flag serves all models.
ClearFlag(c) ==
  /\ pc[c] = "entered"
  /\ flag' = NoModel
  /\ SetStatus(model[c], "downloading")
  /\ Moves(c, "sending")
  /\ UNCHANGED <<active, file, attached, userVars, scan, faults, restarts,
                 stranded, disturbed>>

\* A request that fails is returned with `?', which leaves the model among the
\* active downloads; only an answer with an error status takes it out.
Fails(c) ==
  Ends(c) /\ UNCHANGED active /\ stranded' = stranded \cup {model[c]}

Inactive(m) == active' = active \ {m} /\ stranded' = stranded \ {m}

\* Mutation of FailsCleanly: the model is not taken out.
KeepsActive(c) == Ends(c) /\ UNCHANGED <<active, stranded>>

FailsCleanly(c) == Ends(c) /\ Inactive(model[c])

Fault == faults < MaxFaults /\ faults' = faults + 1

SendRequest(c) ==
  /\ pc[c] = "sending"
  /\ \/ Moves(c, "opening") /\ UNCHANGED <<active, stranded, faults>>
     \/ Fault /\ (Fails(c) \/ FailsCleanly(c))
  /\ UNCHANGED <<status, flag, file, attached, userVars, scan, restarts,
                 disturbed>>

\* File::create truncates the file that is there.
CreateFile(c) ==
  /\ pc[c] = "opening"
  /\ file' = [file EXCEPT ![model[c]] = Fresh]
  /\ attached' = [attached EXCEPT ![c] = TRUE]
  /\ disturbed' = (disturbed \ {c}) \cup Surprised(model[c], c)
  /\ Moves(c, "streaming")
  /\ UNCHANGED <<catalogVars, userVars, scan, faults, restarts, stranded>>

Abandon(c) ==
  /\ pc[c] = "streaming"
  /\ flag = model[c]
  /\ FailsCleanly(c)
  /\ attached' = [attached EXCEPT ![c] = FALSE]
  /\ UNCHANGED <<status, flag, file, userVars, scan, faults, restarts,
                 disturbed>>

\* Cancellation is seen when the next half arrives, and only then.
BreakOff(c) ==
  /\ pc[c] = "streaming"
  /\ flag # model[c]
  /\ Fault
  /\ Fails(c)
  /\ attached' = [attached EXCEPT ![c] = FALSE]
  /\ UNCHANGED <<status, flag, file, userVars, scan, restarts, disturbed>>

ReceiveHalf(c, right) ==
  /\ pc[c] = "streaming"
  /\ got[c] < 2
  /\ flag # model[c]
  /\ IF right THEN UNCHANGED faults ELSE Fault
  /\ got' = [got EXCEPT ![c] = @ + 1]
  /\ sound' = [sound EXCEPT ![c] = @ /\ right]
  /\ SetStatus(model[c], "downloading")
  /\ IF attached[c]
       THEN /\ file' = [file EXCEPT ![model[c]][got[c] + 1] =
                          IF right THEN "right" ELSE "wrong"]
            /\ disturbed' = disturbed \cup Surprised(model[c], c)
       ELSE UNCHANGED <<file, disturbed>>
  /\ UNCHANGED <<active, flag, pc, model, attached, userVars, scan, restarts,
                 stranded>>

\* Mutation of DigestMatches: the size of what was received is enough.
SizeMatches(c) == got[c] = 2

DigestMatches(c) == got[c] = 2 /\ sound[c]

Complete(c) ==
  /\ pc[c] = "streaming"
  /\ got[c] = 2
  /\ Inactive(model[c])
  /\ Ends(c)
  /\ IF DigestMatches(c)
       THEN /\ SetStatus(model[c], "available")
            /\ attached' = [attached EXCEPT ![c] = FALSE]
            /\ UNCHANGED <<file, disturbed>>
       ELSE /\ SetStatus(model[c], "error")
            /\ RemoveFile(model[c], c)
  /\ UNCHANGED <<flag, userVars, scan, faults, restarts>>

-----------------------------------------------------------------------------
(* cancel_download, delete_model, discover_models *)

\* The page offers the cancellation of a download it shows: one that runs, or
\* what a listing takes for one, the part of a file that a failed call left.
\* Where no call will be refused, to cancel the latter is not a whim.
Leftover(m) == Running(m) = {} /\ m \notin active

CancelDownload(m) ==
  /\ canceller[m] = "idle"
  /\ status[m] = "downloading"
  /\ Running(m) # {} \/ file[m] \notin {Absent, Fresh}
  /\ \/ Leftover(m) /\ UNCHANGED whims
     \/ ~ Leftover(m) /\ whims < MaxWhims /\ whims' = whims + 1
  /\ flag' = m
  /\ canceller' = [canceller EXCEPT ![m] = "flagged"]
  /\ UNCHANGED <<status, active, file, callVars, deleter, scan, faults,
                 restarts, stranded, disturbed>>

ForgetDownload(m) ==
  /\ canceller[m] = "flagged"
  /\ Inactive(m)
  /\ SetStatus(m, "missing")
  /\ canceller' = [canceller EXCEPT ![m] = "waiting"]
  /\ UNCHANGED <<flag, file, callVars, deleter, whims, scan, faults, restarts,
                 disturbed>>

\* After a tenth of a second, whatever has happened in the meantime.
RemoveCancelled(m) ==
  /\ canceller[m] = "waiting"
  /\ canceller' = [canceller EXCEPT ![m] = "idle"]
  /\ RemoveFile(m, NoModel)
  /\ UNCHANGED <<catalogVars, pc, model, got, sound, deleter, whims, scan,
                 faults, restarts, stranded>>

DeleteFile(m) ==
  /\ deleter[m] = "idle"
  /\ status[m] \in {"corrupted", "available"}
  /\ whims < MaxWhims
  /\ whims' = whims + 1
  /\ RemoveFile(m, NoModel)
  /\ deleter' = [deleter EXCEPT ![m] = "removed"]
  /\ UNCHANGED <<catalogVars, pc, model, got, sound, canceller, scan, faults,
                 restarts, stranded>>

DeleteStatus(m) ==
  /\ deleter[m] = "removed"
  /\ SetStatus(m, "missing")
  /\ deleter' = [deleter EXCEPT ![m] = "idle"]
  /\ UNCHANGED <<active, flag, file, callVars, canceller, whims, scan, faults,
                 restarts, stranded, disturbed>>

\* A file of the right size is judged by its digest; a shorter one belongs to
\* a download if the catalog says so.
FoundStatus(m) ==
  CASE file[m] \in {Absent, Fresh} -> "missing"
    [] Whole(file[m]) -> "available"
    [] file[m] \notin {Absent, Fresh} /\ ~ Whole(file[m]) /\ file[m][2] # "empty" ->
         "corrupted"
    [] file[m] \notin {Absent, Fresh} /\ file[m][2] = "empty" ->
         IF status[m] = "downloading" THEN "downloading" ELSE "corrupted"

ScanModel(m) ==
  /\ m \notin DOMAIN scan
  /\ scan' = [n \in DOMAIN scan \cup {m} |-> IF n = m THEN FoundStatus(m) ELSE scan[n]]
  /\ disturbed' = IF scan = Nothing THEN disturbed \ {Scanning} ELSE disturbed
  /\ UNCHANGED <<catalogVars, file, callVars, userVars, faults, restarts,
                 stranded>>

PublishScan ==
  /\ DOMAIN scan = Models
  /\ status' = scan
  /\ scan' = Nothing
  /\ UNCHANGED <<active, flag, file, callVars, userVars, faults, restarts,
                 stranded, disturbed>>

\* The process ends; the files stay.
Restart ==
  /\ restarts < MaxRestarts
  /\ restarts' = restarts + 1
  /\ status' = [m \in Models |-> "unlisted"]
  /\ active' = {}
  /\ flag' = NoModel
  /\ pc' = [c \in Calls |-> "idle"]
  /\ model' = [c \in Calls |-> NoModel]
  /\ got' = [c \in Calls |-> 0]
  /\ sound' = [c \in Calls |-> TRUE]
  /\ attached' = [c \in Calls |-> FALSE]
  /\ canceller' = [m \in Models |-> "idle"]
  /\ deleter' = [m \in Models |-> "idle"]
  /\ scan' = Nothing
  /\ stranded' = {}
  /\ disturbed' = {}
  /\ UNCHANGED <<file, whims, faults>>

-----------------------------------------------------------------------------

CallStep(c) ==
  \/ EnterActive(c) \/ ClearFlag(c) \/ SendRequest(c) \/ CreateFile(c)
  \/ Abandon(c) \/ BreakOff(c) \/ ReceiveHalf(c, TRUE) \/ ReceiveHalf(c, FALSE)
  \/ Complete(c)

CancelCommand(m) ==
  \/ CancelDownload(m) \/ ForgetDownload(m) \/ RemoveCancelled(m)

DeleteCommand(m) == DeleteFile(m) \/ DeleteStatus(m)

ListModels == PublishScan \/ \E m \in Models : ScanModel(m)

Next ==
  \/ \E c \in Calls : CallStep(c) \/ \E m \in Models : Download(c, m)
  \/ \E m \in Models : CancelCommand(m) \/ DeleteCommand(m)
  \/ ListModels
  \/ Restart

\* The runtime runs every call and every command to its end; a user who wants
\* a model asks for it, or cancels a leftover where the page offers only that.
Wants(m) ==
  \/ \E c \in Calls : Download(c, m)
  \/ Leftover(m) /\ CancelDownload(m)

Fairness ==
  /\ \A c \in Calls : WF_vars(CallStep(c))
  /\ \A m \in Models :
       /\ SF_vars(Wants(m))
       /\ WF_vars(ForgetDownload(m) \/ RemoveCancelled(m))
       /\ WF_vars(DeleteStatus(m))
       /\ WF_vars(ScanModel(m))
  /\ WF_vars(PublishScan)

Spec == Init /\ [][Next]_vars
FairSpec == Spec /\ Fairness

-----------------------------------------------------------------------------
(* Properties *)

\* Whatever failed or was cancelled before, a user who goes on asking gets the
\* model in the end, unless a call that failed has left it active, so that it
\* is refused from then on (download_model, cancel_download).
ModelIsObtainable ==
  \A m \in Models :
    \/ []<>(status[m] = "available" /\ Whole(file[m]))
    \/ <>[](m \in stranded)

\* A download that reports success leaves a whole model, unless a deletion, a
\* cancellation or another download had its hand on the file.
ReceivedIsWhole ==
  [][\A c \in Calls :
       Complete(c) /\ status'[model[c]] = "available" /\ c \notin disturbed
         => Whole(file[model[c]])]_vars

=============================================================================
