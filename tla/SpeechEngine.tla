---------------------------- MODULE SpeechEngine ----------------------------
(***************************************************************************)
(* The speech engine of the process (Whisper or Parakeet) and those who    *)
(* load, use and unload its one model: a live recording, a batch job and   *)
(* the model commands of the settings page.                                *)
(*                                                                         *)
(* The model and its name are two fields behind two asynchronous locks.    *)
(* A lock is not a variable here: the place of a task says what it holds.  *)
(* A task that switches models keeps the read guard of the name from       *)
(* "dropping" on, because the guard is a temporary of an `if let'.         *)
(*                                                                         *)
(* Sources: whisper_engine/whisper_engine.rs and commands.rs,              *)
(* parakeet_engine/parakeet_engine.rs and commands.rs,                     *)
(* audio/transcription/engine.rs, audio/retranscription.rs,                *)
(* audio/common.rs and audio/recording_commands.rs.                        *)
(***************************************************************************)
EXTENDS Naturals, FiniteSets

CONSTANTS
  Models,              \* the models of the catalog
  Live, Batch, Command,\* a recording, a batch job, a model command
  Nobody,              \* no model, no owner, another provider
  Default,             \* DEFAULT_PARAKEET_MODEL
  Disks,               \* bound: the files, and what the catalog holds of them
  Configurations,      \* bound: what the user configures
  Requested            \* bound: the models that batch jobs ask for, Nobody
                       \* for a job that names none

VARIABLES
  engine,     \* the engine this process uses: "whisper" or "parakeet"
  file,       \* what is on disk for each model
  status,     \* available_models
  context,    \* current_context (Whisper), current_model (Parakeet)
  name,       \* current_model (Whisper), current_model_name (Parakeet)
  configured, \* the model in transcript_settings, Nobody for another provider
  lock,       \* ENGINE_LIFECYCLE_LOCK
  recording,  \* IS_RECORDING
  pc,         \* where each task stands
  stage,      \* on whose behalf it loads or unloads
  want,       \* the model it loads
  switching   \* it found another model in place and holds the name's guard

taskVars == <<pc, stage, want, switching>>
modelVars == <<context, name>>
diskVars == <<engine, file>>
vars == <<diskVars, status, modelVars, configured, lock, recording, taskVars>>

-----------------------------------------------------------------------------
(* Types *)

Tasks == {Live, Batch, Command}
Choices == Models \cup {Nobody}
Stages == {"none", "validate", "worker", "reload", "batch", "command", "stop",
           "release"}
LoadPCs == {"loading", "dropping", "forgetting", "opening", "placing", "naming"}
PCs == LoadPCs \cup {"idle", "looking", "serving", "transcribing", "deaf",
                     "leaving"}

TypeOK ==
  /\ engine \in {"whisper", "parakeet"}
  /\ file \in [Models -> {"whole", "damaged", "absent"}]
  /\ status \in [Models -> {"unlisted", "available", "corrupted", "missing"}]
  /\ {context, name, configured} \subseteq Choices
  /\ lock \in Tasks \cup {Nobody}
  /\ recording \in BOOLEAN
  /\ pc \in [Tasks -> PCs]
  /\ stage \in [Tasks -> Stages]
  /\ want \in [Tasks -> Choices]
  /\ switching \in [Tasks -> BOOLEAN]

Init ==
  /\ engine \in {"whisper", "parakeet"}
  /\ \E d \in Disks : file = d.file /\ status = d.status
  /\ context = Nobody
  /\ name = Nobody
  /\ configured \in Configurations
  /\ lock = Nobody
  /\ recording = FALSE
  /\ pc = [t \in Tasks |-> "idle"]
  /\ stage = [t \in Tasks |-> "none"]
  /\ want = [t \in Tasks |-> Nobody]
  /\ switching = [t \in Tasks |-> FALSE]

-----------------------------------------------------------------------------
(* The locks, read off the places of the tasks *)

Others(t) == Tasks \ {t}

\* Whisper transcribes under the read guard of its context, Parakeet under the
\* write guard of its model; an unload keeps the write guard until the name
\* is gone too.  A reader does not overtake a writer that waits.
ModelIsReadable(t) ==
  \A u \in Others(t) : pc[u] \notin {"dropping", "forgetting", "placing"}
ModelIsWritable(t) ==
  \A u \in Others(t) : pc[u] \notin {"transcribing", "forgetting"}

WhisperCanTranscribe(t) == ModelIsReadable(t)
ParakeetCanTranscribe(t) == ModelIsReadable(t) /\ ModelIsWritable(t)

\* Mutation of ReadsName: unload_model reads the name before it forgets it.
AnyUnloadReadsName(t) == pc[t] \in {"dropping", "forgetting"}

\* The read guard of the name that a switching load holds is its own: its
\* own unload waits for it like everybody else's.
ReadsName(t) == switching[t] /\ pc[t] \in {"dropping", "forgetting"}
NameIsWritable == \A u \in Tasks : ~ ReadsName(u)

\* Parakeet's load holds the read guard of the catalog from its first line to
\* its last, and a discovery writes the catalog.
CatalogIsWritable(t) ==
  engine = "parakeet" => \A u \in Others(t) :
    \/ pc[u] \notin LoadPCs
    \/ stage[u] \in {"stop", "release"}

\* is_model_loaded and get_current_model.
IsModelLoaded(t) == ModelIsReadable(t) /\ context # Nobody

-----------------------------------------------------------------------------
(* Discovery: Whisper checks the digest, Parakeet the sizes of the files *)

WhisperDiscovers(m) ==
  CASE file[m] = "absent" -> {"missing"}
    [] file[m] = "whole" -> {"available"}
    [] file[m] = "damaged" -> {"corrupted", "missing"}

ParakeetDiscovers(m) ==
  CASE file[m] = "absent" -> {"missing"}
    [] file[m] = "whole" -> {"available"}
    [] file[m] = "damaged" -> {"available", "corrupted"}

Discovered ==
  {s \in [Models -> {"available", "corrupted", "missing"}] :
     \A m \in Models : s[m] \in IF engine = "whisper" THEN WhisperDiscovers(m)
                                                      ELSE ParakeetDiscovers(m)}

-----------------------------------------------------------------------------
(* Loading and unloading *)

\* Where a task goes once what it called has come back.
Returned(t, ok) ==
  /\ switching' = [switching EXCEPT ![t] = FALSE]
  /\ want' = [want EXCEPT ![t] = Nobody]
  /\ CASE stage[t] = "validate" ->
            /\ recording' = ok
            /\ lock' = Nobody
            /\ pc' = [pc EXCEPT ![t] = IF ok THEN "looking" ELSE "idle"]
            /\ stage' = [stage EXCEPT ![t] = IF ok THEN "worker" ELSE "none"]
       [] stage[t] \in {"worker", "reload"} ->
            /\ pc' = [pc EXCEPT ![t] = IF ok THEN "serving" ELSE "deaf"]
            /\ UNCHANGED <<recording, lock, stage>>
       [] stage[t] = "batch" ->
            /\ pc' = [pc EXCEPT ![t] = IF ok THEN "serving" ELSE "leaving"]
            /\ UNCHANGED <<recording, lock, stage>>
       [] stage[t] = "stop" ->
            /\ recording' = FALSE
            /\ pc' = [pc EXCEPT ![t] = "idle"]
            /\ stage' = [stage EXCEPT ![t] = "none"]
            /\ UNCHANGED lock
       [] stage[t] = "release" ->
            /\ lock' = Nobody
            /\ pc' = [pc EXCEPT ![t] = "idle"]
            /\ stage' = [stage EXCEPT ![t] = "none"]
            /\ UNCHANGED recording
       [] stage[t] = "command" ->
            /\ pc' = [pc EXCEPT ![t] = "idle"]
            /\ stage' = [stage EXCEPT ![t] = "none"]
            /\ UNCHANGED <<recording, lock>>

Goes(t, place) ==
  /\ pc' = [pc EXCEPT ![t] = place]
  /\ UNCHANGED <<stage, want, lock, recording>>

AlreadyLoaded(t) == name = want[t]

\* load_model once it holds a usable model: it is already there, another one
\* is in place, or none is.
FindsModel(t) ==
  \/ /\ AlreadyLoaded(t)
     /\ Returned(t, TRUE)
  \/ /\ ~ AlreadyLoaded(t)
     /\ name # Nobody
     /\ switching' = [switching EXCEPT ![t] = TRUE]
     /\ Goes(t, "dropping")
  \/ /\ name = Nobody
     /\ Goes(t, "opening")
     /\ UNCHANGED switching

\* Whisper computes the digest again and marks a model that fails it.
WhisperLoad(t) ==
  /\ engine = "whisper"
  /\ pc[t] = "loading"
  /\ \/ /\ status[want[t]] # "available"
        /\ Returned(t, FALSE)
        /\ UNCHANGED status
     \/ /\ status[want[t]] = "available"
        /\ file[want[t]] # "whole"
        /\ status' = [status EXCEPT ![want[t]] = "corrupted"]
        /\ Returned(t, FALSE)
     \/ /\ status[want[t]] = "available"
        /\ file[want[t]] = "whole"
        /\ FindsModel(t)
        /\ UNCHANGED status
  /\ UNCHANGED <<diskVars, modelVars, configured>>

\* Parakeet trusts the catalog.
ParakeetLoad(t) ==
  /\ engine = "parakeet"
  /\ pc[t] = "loading"
  /\ IF status[want[t]] = "available" THEN FindsModel(t) ELSE Returned(t, FALSE)
  /\ UNCHANGED <<diskVars, status, modelVars, configured>>

\* The library opens the file.  A damaged one may load all the same.
OpenModel(t) ==
  /\ pc[t] = "opening"
  /\ \/ /\ file[want[t]] # "absent"
        /\ Goes(t, "placing")
        /\ UNCHANGED switching
     \/ /\ file[want[t]] # "whole"
        /\ Returned(t, FALSE)
  /\ UNCHANGED <<diskVars, status, modelVars, configured>>

PlaceModel(t) ==
  /\ pc[t] = "placing"
  /\ ModelIsWritable(t)
  /\ context' = want[t]
  /\ Goes(t, "naming")
  /\ UNCHANGED <<diskVars, status, name, configured, switching>>

NameModel(t) ==
  /\ pc[t] = "naming"
  /\ NameIsWritable
  /\ name' = want[t]
  /\ Returned(t, TRUE)
  /\ UNCHANGED <<diskVars, status, context, configured>>

\* unload_model: the model goes first, then the name.
UnloadModel(t) ==
  /\ pc[t] = "dropping"
  /\ ModelIsWritable(t)
  /\ context' = Nobody
  /\ Goes(t, "forgetting")
  /\ UNCHANGED <<diskVars, status, name, configured, switching>>

ForgetName(t) ==
  /\ pc[t] = "forgetting"
  /\ NameIsWritable
  /\ name' = Nobody
  /\ CASE switching[t] ->
            /\ switching' = [switching EXCEPT ![t] = FALSE]
            /\ Goes(t, "opening")
       [] ~ switching[t] /\ stage[t] = "worker" ->
            /\ pc' = [pc EXCEPT ![t] = "looking"]
            /\ stage' = [stage EXCEPT ![t] = "reload"]
            /\ UNCHANGED <<want, switching, lock, recording>>
       [] ~ switching[t] /\ stage[t] # "worker" -> Returned(t, TRUE)
  /\ UNCHANGED <<diskVars, status, context, configured>>

-----------------------------------------------------------------------------
(* Choosing a model *)

Loads(t, m) ==
  /\ want' = [want EXCEPT ![t] = m]
  /\ pc' = [pc EXCEPT ![t] = "loading"]
  /\ UNCHANGED <<stage, switching, lock, recording>>

\* discover_models, then the configured model if it is available, else the
\* first that is.
LoadsConfiguredOrFirst(t) ==
  /\ CatalogIsWritable(t)
  /\ status' \in Discovered
  /\ LET ready == {m \in Models : status'[m] = "available"} IN
       IF ready = {} THEN Returned(t, FALSE)
       ELSE \E m \in ready : /\ configured \in ready => m = configured
                             /\ Loads(t, m)

WhisperValidate(t) ==
  IF IsModelLoaded(t) /\ name # Nobody
    THEN Returned(t, TRUE) /\ UNCHANGED status
    ELSE LoadsConfiguredOrFirst(t)

\* The same lines for the other engine, except that among several models the
\* quantized one comes first.
ParakeetValidate(t) ==
  IF IsModelLoaded(t) /\ name # Nobody
    THEN Returned(t, TRUE) /\ UNCHANGED status
    ELSE LoadsConfiguredOrFirst(t)

\* The command of the settings page asks for no configuration.
LoadsFirst(t) ==
  /\ CatalogIsWritable(t)
  /\ status' \in Discovered
  /\ \/ \E m \in Models : status'[m] = "available" /\ Loads(t, m)
     \/ /\ \A m \in Models : status'[m] # "available"
        /\ Returned(t, FALSE)

WhisperValidateCommand(t) ==
  IF IsModelLoaded(t) /\ name # Nobody
    THEN Returned(t, TRUE) /\ UNCHANGED status
    ELSE LoadsFirst(t)

ParakeetValidateCommand(t) ==
  IF IsModelLoaded(t) /\ name # Nobody
    THEN Returned(t, TRUE) /\ UNCHANGED status
    ELSE LoadsFirst(t)

LoadsConfigured(t) ==
  IF configured = Nobody
    THEN Returned(t, FALSE) /\ UNCHANGED status
    ELSE /\ CatalogIsWritable(t)
         /\ status' \in Discovered
         /\ IF status'[configured] = "available" THEN Loads(t, configured)
                                                 ELSE Returned(t, FALSE)

\* The worker of a Whisper recording replaces a model that is not the
\* configured one; without a configuration it keeps what is there.
WorkerGetsWhisper(t) ==
  IF IsModelLoaded(t)
    THEN /\ IF configured \in {name, Nobody}
              THEN Returned(t, TRUE)
              ELSE Goes(t, "dropping") /\ UNCHANGED switching
         /\ UNCHANGED status
    ELSE LoadsConfigured(t)

\* "Parakeet engine initialized but no model loaded. This should not happen
\* after validation."
WorkerGetsParakeet(t) ==
  /\ Returned(t, IsModelLoaded(t))
  /\ UNCHANGED status

\* The model a batch job uses: the one it was asked for, else the configured
\* one; with another provider configured Whisper has none.
ConfiguredWhisper == configured
ConfiguredParakeet == IF configured = Nobody THEN Default ELSE configured

\* The batch job compares names only.
BatchLoads(t, m) ==
  IF name = m
    THEN Returned(t, TRUE) /\ UNCHANGED status
    ELSE /\ CatalogIsWritable(t)
         /\ status' \in Discovered
         /\ Loads(t, m)

BatchGetsWhisper(t) ==
  LET m == IF want[t] = Nobody THEN ConfiguredWhisper ELSE want[t] IN
    IF m = Nobody THEN Returned(t, FALSE) /\ UNCHANGED status
                  ELSE BatchLoads(t, m)

BatchGetsParakeet(t) ==
  BatchLoads(t, IF want[t] = Nobody THEN ConfiguredParakeet ELSE want[t])

Look(t) ==
  /\ pc[t] = "looking"
  /\ ModelIsReadable(t)
  /\ CASE stage[t] = "validate" ->
            IF engine = "whisper" THEN WhisperValidate(t)
                                  ELSE ParakeetValidate(t)
       [] stage[t] = "worker" ->
            IF engine = "whisper" THEN WorkerGetsWhisper(t)
                                  ELSE WorkerGetsParakeet(t)
       [] stage[t] = "reload" -> LoadsConfigured(t)
       [] stage[t] = "batch" ->
            IF engine = "whisper" THEN BatchGetsWhisper(t)
                                  ELSE BatchGetsParakeet(t)
       [] stage[t] = "command" ->
            IF engine = "whisper" THEN WhisperValidateCommand(t)
                                  ELSE ParakeetValidateCommand(t)
  /\ UNCHANGED <<diskVars, modelVars, configured>>

-----------------------------------------------------------------------------
(* The recording, the batch job and the commands *)

StartRecording ==
  /\ pc[Live] = "idle"
  /\ lock = Nobody
  /\ ~ recording
  /\ configured # Nobody
  /\ lock' = Live
  /\ pc' = [pc EXCEPT ![Live] = "looking"]
  /\ stage' = [stage EXCEPT ![Live] = "validate"]
  /\ UNCHANGED <<diskVars, status, modelVars, configured, recording, want,
                 switching>>

\* One segment, for whoever has an engine; without a model it fails, and that
\* ends a batch job but not a recording.
BeginTranscription(t) ==
  /\ pc[t] = "serving"
  /\ IF engine = "whisper" THEN WhisperCanTranscribe(t)
                           ELSE ParakeetCanTranscribe(t)
  /\ context # Nobody \/ t = Batch
  /\ pc' = [pc EXCEPT ![t] =
              IF context # Nobody THEN "transcribing" ELSE "leaving"]
  /\ UNCHANGED <<diskVars, status, modelVars, configured, lock, recording,
                 stage, want, switching>>

EndTranscription(t) ==
  /\ pc[t] = "transcribing"
  /\ \/ Goes(t, "serving")
     \/ t = Batch /\ Goes(t, "leaving")
  /\ UNCHANGED <<diskVars, status, modelVars, configured, switching>>

\* stop_recording unloads the engine of the provider configured by then.
StopRecording ==
  /\ pc[Live] \in {"serving", "deaf"}
  /\ LET here == configured # Nobody IN
       /\ stage' = [stage EXCEPT ![Live] = IF here THEN "stop" ELSE "none"]
       /\ pc' = [pc EXCEPT ![Live] = IF here THEN "dropping" ELSE "idle"]
  /\ recording' = (configured # Nobody)
  /\ UNCHANGED <<diskVars, status, modelVars, configured, lock, want,
                 switching>>

StartBatch(m) ==
  /\ pc[Batch] = "idle"
  /\ pc' = [pc EXCEPT ![Batch] = "looking"]
  /\ stage' = [stage EXCEPT ![Batch] = "batch"]
  /\ want' = [want EXCEPT ![Batch] = m]
  /\ UNCHANGED <<diskVars, status, modelVars, configured, lock, recording,
                 switching>>

\* unload_transcription_engine, unless a recording is on.
ReleaseEngine ==
  /\ pc[Batch] = "leaving"
  /\ lock = Nobody
  /\ IF recording
       THEN /\ pc' = [pc EXCEPT ![Batch] = "idle"]
            /\ stage' = [stage EXCEPT ![Batch] = "none"]
            /\ UNCHANGED lock
       ELSE /\ pc' = [pc EXCEPT ![Batch] = "dropping"]
            /\ stage' = [stage EXCEPT ![Batch] = "release"]
            /\ lock' = Batch
  /\ UNCHANGED <<diskVars, status, modelVars, configured, recording, want,
                 switching>>

\* The page knows the models of a list it has asked for.
LoadCommand(m) ==
  /\ pc[Command] = "idle"
  /\ status[m] # "unlisted"
  /\ stage' = [stage EXCEPT ![Command] = "command"]
  /\ want' = [want EXCEPT ![Command] = m]
  /\ pc' = [pc EXCEPT ![Command] = "loading"]
  /\ UNCHANGED <<diskVars, status, modelVars, configured, lock, recording,
                 switching>>

WhisperLoadCommand(m) == engine = "whisper" /\ LoadCommand(m)
ParakeetLoadCommand(m) == engine = "parakeet" /\ LoadCommand(m)

ListModels ==
  /\ pc[Command] = "idle"
  /\ CatalogIsWritable(Command)
  /\ status' \in Discovered
  /\ UNCHANGED <<diskVars, modelVars, configured, lock, recording, taskVars>>

ValidateCommand ==
  /\ pc[Command] = "idle"
  /\ stage' = [stage EXCEPT ![Command] = "command"]
  /\ pc' = [pc EXCEPT ![Command] = "looking"]
  /\ UNCHANGED <<diskVars, status, modelVars, configured, lock, recording,
                 want, switching>>

SaveTranscriptConfig(m) ==
  /\ configured # m
  /\ configured' = m
  /\ UNCHANGED <<diskVars, status, modelVars, lock, recording, taskVars>>

-----------------------------------------------------------------------------

\* What a task does once it is called; only using the engine is its choice.
Step(t) ==
  \/ WhisperLoad(t) \/ ParakeetLoad(t) \/ OpenModel(t) \/ PlaceModel(t)
  \/ NameModel(t) \/ UnloadModel(t) \/ ForgetName(t) \/ Look(t)
  \/ EndTranscription(t)

Choice ==
  \/ StartRecording \/ StopRecording \/ ReleaseEngine
  \/ ListModels \/ ValidateCommand
  \/ \E t \in {Live, Batch} : BeginTranscription(t)
  \/ \E m \in Requested : StartBatch(m)
  \/ \E m \in Models : WhisperLoadCommand(m) \/ ParakeetLoadCommand(m)
  \/ \E m \in Configurations : SaveTranscriptConfig(m)

Next == Choice \/ \E t \in Tasks : Step(t)

\* A spawned task runs; tokio grants its locks in the order of the requests,
\* so a writer is not overtaken for ever.
Fairness == \A t \in Tasks : SF_vars(Step(t))

Spec == Init /\ [][Next]_vars
FairSpec == Spec /\ Fairness

-----------------------------------------------------------------------------
(* Properties *)

\* A load that has begun comes back, with the model or with an error: nobody
\* waits on a lock for ever (load_model and unload_model of both engines).
EveryLoadReturns == \A t \in Tasks : pc[t] \in LoadPCs ~> pc[t] \notin LoadPCs

\* A load comes back unless some load found another model in place: that one
\* alone is what the others may wait for.
LoadsReturnUnlessOneSwitches ==
  \A t \in Tasks : pc[t] \in LoadPCs
    ~> pc[t] \notin LoadPCs \/ \E u \in Tasks : switching[u]

=============================================================================
