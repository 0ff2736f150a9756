--------------------------- MODULE ModelDownloads ---------------------------
(***************************************************************************)
(* The downloads of both speech engines.  They share no state: a behaviour *)
(* is one of one engine, and the variables of the other are not used.      *)
(***************************************************************************)
EXTENDS Naturals

CONSTANTS
    Calls,   \* download calls that may be in progress at once
    Models,  \* the catalog of Whisper
    NoModel, \* an empty cancel flag
    Absent,  \* no file
    Page,    \* the page, which lists the models
    Unused,  \* the value of the variables of an engine that does not move
    (* Bounds *)
    MaxWhims, MaxFaults, MaxRestarts

\* What stands for nobody is not one of the calls, and what stands for no
\* model is not one of the models.
ASSUME DownloadsAssumption ==
    /\ NoModel \notin Models
    /\ {NoModel, Page, "scan"} \cap Calls = {}

VARIABLE component  \* the one that a behaviour is about

VARIABLES
    status, active, flag, file, pc, model, got, sound, attached, canceller,
    deleter, scan, whims, faults, restarts, stranded, disturbed

whisperVars ==
    <<status, active, flag, file, pc, model, got, sound, attached, canceller,
      deleter, scan, whims, faults, restarts, stranded, disturbed>>

VARIABLES
    pStatus, pActive, pFlag, dir, pFile, pPc, at, pGot, append, pAttached,
    pScan, pCanceller, pDeleter, pWhims, pFaults, pRestarts, pDisturbed

parakeetVars ==
    <<pStatus, pActive, pFlag, dir, pFile, pPc, at, pGot, append, pAttached,
      pScan, pCanceller, pDeleter, pWhims, pFaults, pRestarts, pDisturbed>>

Whisper == INSTANCE WhisperDownloads

Parakeet == INSTANCE ParakeetDownloads WITH
    status <- pStatus, active <- pActive, flag <- pFlag, file <- pFile,
    pc <- pPc, got <- pGot, attached <- pAttached, scan <- pScan,
    canceller <- pCanceller, deleter <- pDeleter, whims <- pWhims,
    faults <- pFaults, restarts <- pRestarts, disturbed <- pDisturbed

-----------------------------------------------------------------------------
(* A behaviour is one of one component; the variables of the others are    *)
(* not used.                                                               *)

NoWhisper ==
    /\ status = Unused /\ active = Unused /\ flag = Unused /\ file = Unused
    /\ pc = Unused /\ model = Unused /\ got = Unused /\ sound = Unused
    /\ attached = Unused /\ canceller = Unused /\ deleter = Unused
    /\ scan = Unused /\ whims = Unused /\ faults = Unused
    /\ restarts = Unused /\ stranded = Unused /\ disturbed = Unused

NoParakeet ==
    /\ pStatus = Unused /\ pActive = Unused /\ pFlag = Unused /\ dir = Unused
    /\ pFile = Unused /\ pPc = Unused /\ at = Unused /\ pGot = Unused
    /\ append = Unused /\ pAttached = Unused /\ pScan = Unused
    /\ pCanceller = Unused /\ pDeleter = Unused /\ pWhims = Unused
    /\ pFaults = Unused /\ pRestarts = Unused /\ pDisturbed = Unused

everything == <<component, whisperVars, parakeetVars>>

WhisperInit ==
    /\ component = "whisper"
    /\ Whisper!Init
    /\ NoParakeet

WhisperNext ==
    /\ component = "whisper"
    /\ Whisper!Next
    /\ UNCHANGED <<component, parakeetVars>>

ParakeetInit ==
    /\ component = "parakeet"
    /\ Parakeet!Init
    /\ NoWhisper

ParakeetNext ==
    /\ component = "parakeet"
    /\ Parakeet!Next
    /\ UNCHANGED <<component, whisperVars>>

ModelDownloadsInit ==
    \/ WhisperInit \/ ParakeetInit

ModelDownloadsNext ==
    \/ WhisperNext \/ ParakeetNext

ModelDownloadsSpec == ModelDownloadsInit /\ [][ModelDownloadsNext]_everything

-----------------------------------------------------------------------------
(* Fairness: what each component states for itself.  A condition of one    *)
(* joined to a condition of the other is both, as only one of them moves.  *)

WhisperDoes(step) ==
    component = "whisper" /\ step /\ UNCHANGED <<component, parakeetVars>>
ParakeetDoes(step) ==
    component = "parakeet" /\ step /\ UNCHANGED <<component, whisperVars>>

DownloadsFair ==
    /\ \A c \in Calls : SF_everything(ParakeetDoes(Parakeet!CallStep(c)))
    /\ SF_everything(ParakeetDoes(Parakeet!ForgetDownload))
    /\ \A m \in Models :
        /\ SF_everything(\/ WhisperDoes(Whisper!Wants(m))
                         \/ ParakeetDoes(Parakeet!Retry))
        /\ WF_everything(\/ WhisperDoes(\/ Whisper!ForgetDownload(m)
                                        \/ Whisper!RemoveCancelled(m))
                         \/ ParakeetDoes(Parakeet!RemoveCancelled))
        /\ WF_everything(\/ WhisperDoes(Whisper!DeleteStatus(m))
                         \/ ParakeetDoes(Parakeet!DeleteStatus))
        /\ WF_everything(\/ WhisperDoes(Whisper!ScanModel(m))
                         \/ ParakeetDoes(Parakeet!Scan(Page)))
    /\ \A c \in Calls :
        /\ WF_everything(\/ WhisperDoes(Whisper!CallStep(c))
                         \/ ParakeetDoes(Parakeet!Scan(c)))
        /\ WF_everything(ParakeetDoes(Parakeet!PublishScan(c)))
    /\ WF_everything(\/ WhisperDoes(Whisper!PublishScan)
                     \/ ParakeetDoes(Parakeet!PublishScan(Page)))

DownloadsFairSpec == ModelDownloadsSpec /\ DownloadsFair

-----------------------------------------------------------------------------
(* Properties: those of the components. *)

(* Whatever failed or was cancelled before, a user who goes on asking for  *)
(* a model gets it.  Of Whisper there is an exception: a call that failed  *)
(* without taking its model out of the active downloads, so that every     *)
(* later one is refused.  The retry of Parakeet is that of the onboarding  *)
(* (download_model of both engines, parakeet_retry_download).              *)
ModelIsObtainable ==
    \A m \in Models :
        \/ []<>CASE component = "whisper" ->
                       status[m] = "available" /\ Whisper!Whole(file[m])
                 [] component = "parakeet" ->
                       pStatus = "available" /\ Parakeet!ValidDirectory
        \/ <>[](component = "whisper" /\ m \in stranded)

(* What a call leaves is what was published, unless somebody else had a    *)
(* hand on it: of Whisper the model it reports, by its digest; of Parakeet *)
(* every file it received, also one it resumed, and where it reports       *)
(* success no file lacks more than what it skips, one part in a hundred    *)
(* (download_model of both engines).                                       *)
ReceivedIsWhole ==
    [][CASE component = "whisper" ->
              \A c \in Calls :
                  /\ Whisper!Complete(c)
                  /\ status'[model[c]] = "available"
                  /\ c \notin disturbed
                  => Whisper!Whole(file[model[c]])
         [] component = "parakeet" ->
              \A c \in Calls :
                  /\ Parakeet!EndFile(c) /\ c \notin pDisturbed
                      => pFile[at[c]] = Parakeet!Parts
                  /\ Parakeet!Complete(c) /\ c \notin pDisturbed
                      => \A f \in Parakeet!Files :
                             pFile[f] \in {1..Parakeet!Enough, Parakeet!Parts}
      ]_everything
=============================================================================
