----------------------- MODULE RecordingSessionProofs -----------------------
(***************************************************************************)
(* Proofs about RecordingSession: for any number of start commands, any    *)
(* audio of the devices and any number of segments, a manager that was     *)
(* stored is never lost, a recording called completed has everything, a    *)
(* segment is filed with its own session and the batch job spares what     *)
(* captures.                                                               *)
(***************************************************************************)
EXTENDS RecordingSession, TLAPS

\* While a start is still to store its manager, there is no other one.
LEMMA NoOtherManager ==
  ASSUME TypeOK, LockInv, GateInv, ManagerInv,
         NEW s \in Sessions, start[s] = "ready"
  PROVE  slot = Nobody /\ held = Nobody /\ ~flag /\ stop = "idle" /\ lock = s
  <1>1. lock = s /\ lock # Nobody /\ ~flag
    BY ConstantsAssumption DEF LockInv
  <1>2. \A r \in Sessions : r \notin {slot, held}
    BY <1>1 DEF LockInv, ManagerInv, Pending, Handed
  <1>3. slot \in Managers /\ held \in Managers
    BY DEF TypeOK, CommandTypes, StopTypes, TaskTypes, CaptureTypes, AudioTypes, SpeechTypes, FileTypes, EngineTypes
  <1> QED
    BY <1>1, <1>2, <1>3 DEF Managers, GateInv

\* The lock follows the start commands and the batch job.
LEMMA LockStep ==
  ASSUME TypeOK, LockInv, GateInv, [Next]_vars
  PROVE  LockInv'
  <1> USE DEF vars, commandVars, stopVars, taskVars, captureVars, audioVars,
    speechVars, fileVars, engineVars
  <1>0. /\ start \in [Sessions -> StartPCs]
        /\ Batch # Nobody
        /\ \A s \in Sessions : s \notin {Nobody, Batch}
    BY ConstantsAssumption DEF TypeOK, CommandTypes
  <1>1. CASE UNCHANGED <<start, lock, flag, batch>>
    BY <1>1 DEF LockInv
  <1>2. ASSUME NEW s \in Sessions, NEW chosen \in SUBSET Origins,
    BeginStart(s, chosen) PROVE LockInv'
    BY <1>2, <1>0 DEF BeginStart, Goto, LockInv
  <1>3. ASSUME NEW s \in Sessions, NEW opened \in SUBSET Origins,
    OpenCapture(s, opened) PROVE LockInv'
    BY <1>3, <1>0 DEF OpenCapture, Goto, LockInv
  <1>4. ASSUME NEW s \in Sessions, FailToOpen(s) PROVE LockInv'
    BY <1>4, <1>0 DEF FailToOpen, Goto, LockInv
  <1>5. ASSUME NEW s \in Sessions, ConfirmStart(s) PROVE LockInv'
    BY <1>5, <1>0 DEF ConfirmStart, Goto, LockInv
  <1>6. ASSUME NEW s \in Sessions, AbandonStart(s) PROVE LockInv'
    BY <1>6, <1>0 DEF AbandonStart, Goto, LockInv
  <1>7. ASSUME NEW s \in Sessions, EndAbandon(s) PROVE LockInv'
    BY <1>7, <1>0 DEF EndAbandon, Goto, LockInv
  <1>8. ASSUME NEW s \in Sessions, StoreManager(s) PROVE LockInv'
    BY <1>8, <1>0 DEF StoreManager, Goto, LockInv
  <1>9. ASSUME NEW s \in Sessions, RaiseFlag(s) PROVE LockInv'
    BY <1>9, <1>0 DEF RaiseFlag, Goto, LockInv
  <1>10. ASSUME NEW s \in Sessions, SpawnTask(s) PROVE LockInv'
    BY <1>10, <1>0 DEF SpawnTask, Goto, LockInv
  <1>11. ASSUME NEW s \in Sessions, Listen(s) PROVE LockInv'
    BY <1>11, <1>0 DEF Listen, Goto, LockInv
  <1>12. ASSUME NEW finalized \in SUBSET Origins, SaveRecording(finalized)
    PROVE LockInv'
    BY <1>12, <1>0 DEF SaveRecording, Return, LockInv
  <1>13. ASSUME SaveFails PROVE LockInv'
    BY <1>13, <1>0 DEF SaveFails, Return, LockInv
  <1>14. ASSUME BatchLoads PROVE LockInv'
    BY <1>14, <1>0 DEF BatchLoads, LockInv
  <1>15. ASSUME BatchChecks PROVE LockInv'
    BY <1>15, <1>0 DEF BatchChecks, LockInv
  <1>16. ASSUME BatchUnloads PROVE LockInv'
    BY <1>16, <1>0 DEF BatchUnloads, LockInv
  <1> QED
    BY <1>1, <1>2, <1>3, <1>4, <1>5, <1>6, <1>7, <1>8, <1>9, <1>10, <1>11,
      <1>12, <1>13, <1>14, <1>15, <1>16 DEF Next, StartStep, StopStep,
      PipelineStepOf, SaverStep, WorkerStep, Pause, SourceDies,
      BeginReconnect, RestartStreams, BeginStop, StopCapture, CaptureStopped,
      Unlisten, AwaitTask, Drained, DrainTimesOut, UnloadModel, Capture,
      PipelineStep, PipelineEnds, Persist, EngineReady, EngineFails, Publish,
      Skip, WorkerEnds

\* The gate goes with the manager that was taken out.
LEMMA GateStep ==
  ASSUME TypeOK, LockInv, GateInv, ManagerInv, [Next]_vars
  PROVE  GateInv'
  <1> USE DEF vars, commandVars, stopVars, taskVars, captureVars, audioVars,
    speechVars, fileVars, engineVars
  <1>1. CASE UNCHANGED <<gate, held, slot, stop, flag>>
    BY <1>1 DEF GateInv
  <1>2. ASSUME NEW s \in Sessions, StoreManager(s) PROVE GateInv'
    BY <1>2, NoOtherManager DEF StoreManager, Goto, GateInv
  <1>3. ASSUME NEW s \in Sessions, RaiseFlag(s) PROVE GateInv'
    BY <1>3 DEF RaiseFlag, Goto, GateInv
  <1>4. ASSUME BeginReconnect PROVE GateInv'
    BY <1>4 DEF BeginReconnect, GateInv
  <1>5. ASSUME NEW back \in SUBSET Origins, RestartStreams(back) PROVE
    GateInv'
    BY <1>5 DEF RestartStreams, GateInv
  <1>6. ASSUME BeginStop PROVE GateInv'
    BY <1>6 DEF BeginStop, GateInv
  <1>7. ASSUME StopCapture PROVE GateInv'
    BY <1>7 DEF StopCapture, GateInv
  <1>8. ASSUME CaptureStopped PROVE GateInv'
    BY <1>8 DEF CaptureStopped, GateInv
  <1>9. ASSUME Unlisten PROVE GateInv'
    BY <1>9 DEF Unlisten, GateInv
  <1>10. ASSUME AwaitTask PROVE GateInv'
    BY <1>10 DEF AwaitTask, GateInv
  <1>11. ASSUME Drained PROVE GateInv'
    BY <1>11 DEF Drained, GateInv
  <1>12. ASSUME DrainTimesOut PROVE GateInv'
    BY <1>12 DEF DrainTimesOut, GateInv
  <1>13. ASSUME UnloadModel PROVE GateInv'
    BY <1>13 DEF UnloadModel, GateInv
  <1>14. ASSUME NEW finalized \in SUBSET Origins, SaveRecording(finalized)
    PROVE GateInv'
    BY <1>14 DEF SaveRecording, Return, GateInv
  <1>15. ASSUME SaveFails PROVE GateInv'
    BY <1>15 DEF SaveFails, Return, GateInv
  <1> QED
    BY <1>1, <1>2, <1>3, <1>4, <1>5, <1>6, <1>7, <1>8, <1>9, <1>10, <1>11,
      <1>12, <1>13, <1>14, <1>15 DEF Next, StartStep, StopStep,
      PipelineStepOf, SaverStep, WorkerStep, BeginStart, OpenCapture,
      FailToOpen, ConfirmStart, AbandonStart, EndAbandon, SpawnTask, Listen,
      Pause, SourceDies, Capture, PipelineStep, PipelineEnds, Persist,
      EngineReady, EngineFails, Publish, Skip, WorkerEnds, BatchLoads,
      BatchChecks, BatchUnloads, Goto

\* Whose manager it is stays known.
LEMMA ManagerStep ==
  ASSUME TypeOK, LockInv, GateInv, ManagerInv, NoRecordingVanishes,
    [Next]_vars
  PROVE  ManagerInv'
  <1> USE DEF vars, commandVars, stopVars, taskVars, captureVars, audioVars,
    speechVars, fileVars, engineVars
  <1>0. /\ start \in [Sessions -> StartPCs]
        /\ slot \in Managers
        /\ held \in Managers
        /\ told \in [Sessions -> {"nothing", "stopped", "save_failed"}]
        /\ \A s \in Sessions : s # Nobody
    BY ConstantsAssumption DEF TypeOK, CommandTypes, StopTypes, TaskTypes,
      CaptureTypes, AudioTypes, SpeechTypes, FileTypes, EngineTypes
  <1>1. CASE UNCHANGED <<start, told, slot, held, flag>>
    BY <1>1 DEF ManagerInv, Pending, Handed
  <1>2. ASSUME NEW s \in Sessions, NEW chosen \in SUBSET Origins,
    BeginStart(s, chosen) PROVE ManagerInv'
    BY <1>2, <1>0 DEF BeginStart, Goto, ManagerInv, Pending, Handed, LockInv
  <1>3. ASSUME NEW s \in Sessions, NEW opened \in SUBSET Origins,
    OpenCapture(s, opened) PROVE ManagerInv'
    BY <1>3, <1>0 DEF OpenCapture, Goto, ManagerInv, Pending, Handed, LockInv
  <1>4. ASSUME NEW s \in Sessions, FailToOpen(s) PROVE ManagerInv'
    BY <1>4, <1>0 DEF FailToOpen, Goto, ManagerInv, Pending, Handed, LockInv
  <1>5. ASSUME NEW s \in Sessions, ConfirmStart(s) PROVE ManagerInv'
    BY <1>5, <1>0 DEF ConfirmStart, Goto, ManagerInv, Pending, Handed,
      LockInv
  <1>6. ASSUME NEW s \in Sessions, AbandonStart(s) PROVE ManagerInv'
    BY <1>6, <1>0 DEF AbandonStart, Goto, ManagerInv, Pending, Handed,
      LockInv
  <1>7. ASSUME NEW s \in Sessions, EndAbandon(s) PROVE ManagerInv'
    BY <1>7, <1>0 DEF EndAbandon, Goto, ManagerInv, Pending, Handed, LockInv
  <1>8. ASSUME NEW s \in Sessions, StoreManager(s) PROVE ManagerInv'
    BY <1>8, <1>0, NoOtherManager DEF StoreManager, Goto, ManagerInv,
      Pending, Handed, LockInv
  <1>9. ASSUME NEW s \in Sessions, RaiseFlag(s) PROVE ManagerInv'
    BY <1>9, <1>0 DEF RaiseFlag, Goto, ManagerInv, Pending, Handed, LockInv
  <1>10. ASSUME NEW s \in Sessions, SpawnTask(s) PROVE ManagerInv'
    BY <1>10, <1>0 DEF SpawnTask, Goto, ManagerInv, Pending, Handed, LockInv
  <1>11. ASSUME NEW s \in Sessions, Listen(s) PROVE ManagerInv'
    BY <1>11, <1>0 DEF Listen, Goto, ManagerInv, Pending, Handed, LockInv
  <1>12. ASSUME BeginReconnect PROVE ManagerInv'
    BY <1>12, <1>0 DEF BeginReconnect, ManagerInv, Pending, Handed, GateInv,
      NoRecordingVanishes
  <1>13. ASSUME NEW back \in SUBSET Origins, RestartStreams(back) PROVE
    ManagerInv'
    BY <1>13, <1>0 DEF RestartStreams, ManagerInv, Pending, Handed, GateInv,
      NoRecordingVanishes
  <1>14. ASSUME BeginStop PROVE ManagerInv'
    BY <1>14, <1>0 DEF BeginStop, ManagerInv, Pending, Handed, GateInv,
      NoRecordingVanishes
  <1>15. ASSUME NEW finalized \in SUBSET Origins, SaveRecording(finalized)
    PROVE ManagerInv'
    BY <1>15, <1>0 DEF SaveRecording, Return, ManagerInv, Pending, Handed,
      GateInv, NoRecordingVanishes
  <1>16. ASSUME SaveFails PROVE ManagerInv'
    BY <1>16, <1>0 DEF SaveFails, Return, ManagerInv, Pending, Handed,
      GateInv, NoRecordingVanishes
  <1> QED
    BY <1>1, <1>2, <1>3, <1>4, <1>5, <1>6, <1>7, <1>8, <1>9, <1>10, <1>11,
      <1>12, <1>13, <1>14, <1>15, <1>16 DEF Next, StartStep, StopStep,
      PipelineStepOf, SaverStep, WorkerStep, Pause, SourceDies, StopCapture,
      CaptureStopped, Unlisten, AwaitTask, Drained, DrainTimesOut,
      UnloadModel, Capture, PipelineStep, PipelineEnds, Persist, EngineReady,
      EngineFails, Publish, Skip, WorkerEnds, BatchLoads, BatchChecks,
      BatchUnloads

\* A manager leaves the slot for the hands of a stop or a reconnection only,
\* and leaves those for the slot or with the report of the stop.
LEMMA VanishStep ==
  ASSUME TypeOK, LockInv, GateInv, ManagerInv, NoRecordingVanishes,
    [Next]_vars
  PROVE  NoRecordingVanishes'
  <1> USE DEF vars, commandVars, stopVars, taskVars, captureVars, audioVars,
    speechVars, fileVars, engineVars
  <1>0. /\ start \in [Sessions -> StartPCs]
        /\ slot \in Managers
        /\ held \in Managers
        /\ told \in [Sessions -> {"nothing", "stopped", "save_failed"}]
        /\ \A s \in Sessions : s # Nobody
    BY ConstantsAssumption DEF TypeOK, CommandTypes, StopTypes, TaskTypes,
      CaptureTypes, AudioTypes, SpeechTypes, FileTypes, EngineTypes
  <1>1. CASE UNCHANGED <<start, told, slot, held>>
    BY <1>1 DEF NoRecordingVanishes, Handed
  <1>2. ASSUME NEW s \in Sessions, NEW chosen \in SUBSET Origins,
    BeginStart(s, chosen) PROVE NoRecordingVanishes'
    BY <1>2, <1>0 DEF BeginStart, Goto, NoRecordingVanishes, Handed
  <1>3. ASSUME NEW s \in Sessions, NEW opened \in SUBSET Origins,
    OpenCapture(s, opened) PROVE NoRecordingVanishes'
    BY <1>3, <1>0 DEF OpenCapture, Goto, NoRecordingVanishes, Handed
  <1>4. ASSUME NEW s \in Sessions, FailToOpen(s) PROVE NoRecordingVanishes'
    BY <1>4, <1>0 DEF FailToOpen, Goto, NoRecordingVanishes, Handed
  <1>5. ASSUME NEW s \in Sessions, ConfirmStart(s) PROVE NoRecordingVanishes'
    BY <1>5, <1>0 DEF ConfirmStart, Goto, NoRecordingVanishes, Handed
  <1>6. ASSUME NEW s \in Sessions, AbandonStart(s) PROVE NoRecordingVanishes'
    BY <1>6, <1>0 DEF AbandonStart, Goto, NoRecordingVanishes, Handed
  <1>7. ASSUME NEW s \in Sessions, EndAbandon(s) PROVE NoRecordingVanishes'
    BY <1>7, <1>0 DEF EndAbandon, Goto, NoRecordingVanishes, Handed
  <1>8. ASSUME NEW s \in Sessions, StoreManager(s) PROVE NoRecordingVanishes'
    BY <1>8, <1>0, NoOtherManager DEF StoreManager, Goto,
      NoRecordingVanishes, Handed
  <1>9. ASSUME NEW s \in Sessions, RaiseFlag(s) PROVE NoRecordingVanishes'
    BY <1>9, <1>0 DEF RaiseFlag, Goto, NoRecordingVanishes, Handed
  <1>10. ASSUME NEW s \in Sessions, SpawnTask(s) PROVE NoRecordingVanishes'
    BY <1>10, <1>0 DEF SpawnTask, Goto, NoRecordingVanishes, Handed
  <1>11. ASSUME NEW s \in Sessions, Listen(s) PROVE NoRecordingVanishes'
    BY <1>11, <1>0 DEF Listen, Goto, NoRecordingVanishes, Handed
  <1>12. ASSUME BeginReconnect PROVE NoRecordingVanishes'
    BY <1>12, <1>0 DEF BeginReconnect, NoRecordingVanishes, Handed, GateInv
  <1>13. ASSUME NEW back \in SUBSET Origins, RestartStreams(back) PROVE
    NoRecordingVanishes'
    BY <1>13, <1>0 DEF RestartStreams, NoRecordingVanishes, Handed, GateInv
  <1>14. ASSUME BeginStop PROVE NoRecordingVanishes'
    BY <1>14, <1>0 DEF BeginStop, NoRecordingVanishes, Handed, GateInv
  <1>15. ASSUME NEW finalized \in SUBSET Origins, SaveRecording(finalized)
    PROVE NoRecordingVanishes'
    BY <1>15, <1>0 DEF SaveRecording, Return, NoRecordingVanishes, Handed,
      GateInv
  <1>16. ASSUME SaveFails PROVE NoRecordingVanishes'
    BY <1>16, <1>0 DEF SaveFails, Return, NoRecordingVanishes, Handed,
      GateInv
  <1> QED
    BY <1>1, <1>2, <1>3, <1>4, <1>5, <1>6, <1>7, <1>8, <1>9, <1>10, <1>11,
      <1>12, <1>13, <1>14, <1>15, <1>16 DEF Next, StartStep, StopStep,
      PipelineStepOf, SaverStep, WorkerStep, Pause, SourceDies, StopCapture,
      CaptureStopped, Unlisten, AwaitTask, Drained, DrainTimesOut,
      UnloadModel, Capture, PipelineStep, PipelineEnds, Persist, EngineReady,
      EngineFails, Publish, Skip, WorkerEnds, BatchLoads, BatchChecks,
      BatchUnloads

\* A state is switched on by its start and off by its stop.
LEMMA LiveStep ==
  ASSUME TypeOK, LockInv, GateInv, ManagerInv, LiveInv, [Next]_vars
  PROVE  LiveInv'
  <1> USE DEF vars, commandVars, stopVars, taskVars, captureVars, audioVars,
    speechVars, fileVars, engineVars
  <1>0. /\ live \in [Sessions -> {"off", "on", "paused"}]
        /\ start \in [Sessions -> StartPCs]
        /\ told \in [Sessions -> {"nothing", "stopped", "save_failed"}]
        /\ slot \in Managers
        /\ held \in Managers
        /\ \A s \in Sessions : s # Nobody
    BY ConstantsAssumption DEF TypeOK, CommandTypes, StopTypes, TaskTypes,
      CaptureTypes, AudioTypes, SpeechTypes, FileTypes, EngineTypes
  <1>1. CASE UNCHANGED <<start, told, live, stop, held>>
    BY <1>1 DEF LiveInv, Pending, Handed
  <1>2. ASSUME NEW s \in Sessions, NEW chosen \in SUBSET Origins,
    BeginStart(s, chosen) PROVE LiveInv'
    BY <1>2, <1>0 DEF BeginStart, Goto, LiveInv, Pending, Handed
  <1>3. ASSUME NEW s \in Sessions, NEW opened \in SUBSET Origins,
    OpenCapture(s, opened) PROVE LiveInv'
    BY <1>3, <1>0 DEF OpenCapture, Goto, LiveInv, Pending, Handed,
      ManagerInv, Managers
  <1>4. ASSUME NEW s \in Sessions, FailToOpen(s) PROVE LiveInv'
    BY <1>4, <1>0 DEF FailToOpen, Goto, LiveInv, Pending, Handed
  <1>5. ASSUME NEW s \in Sessions, ConfirmStart(s) PROVE LiveInv'
    BY <1>5, <1>0 DEF ConfirmStart, Goto, LiveInv, Pending, Handed
  <1>6. ASSUME NEW s \in Sessions, AbandonStart(s) PROVE LiveInv'
    BY <1>6, <1>0 DEF AbandonStart, Goto, LiveInv, Pending, Handed
  <1>7. ASSUME NEW s \in Sessions, EndAbandon(s) PROVE LiveInv'
    BY <1>7, <1>0 DEF EndAbandon, Goto, LiveInv, Pending, Handed
  <1>8. ASSUME NEW s \in Sessions, StoreManager(s) PROVE LiveInv'
    BY <1>8, <1>0 DEF StoreManager, Goto, LiveInv, Pending, Handed,
      ManagerInv
  <1>9. ASSUME NEW s \in Sessions, RaiseFlag(s) PROVE LiveInv'
    BY <1>9, <1>0 DEF RaiseFlag, Goto, LiveInv, Pending, Handed
  <1>10. ASSUME NEW s \in Sessions, SpawnTask(s) PROVE LiveInv'
    BY <1>10, <1>0 DEF SpawnTask, Goto, LiveInv, Pending, Handed
  <1>11. ASSUME NEW s \in Sessions, Listen(s) PROVE LiveInv'
    BY <1>11, <1>0 DEF Listen, Goto, LiveInv, Pending, Handed
  <1>12. ASSUME NEW from \in {"on", "paused"}, NEW to \in {"on", "paused"},
    Pause(from, to) PROVE LiveInv'
    BY <1>12, <1>0 DEF Pause, LiveInv, Pending, Handed, ManagerInv, Managers,
      GateInv
  <1>13. ASSUME BeginReconnect PROVE LiveInv'
    BY <1>13, <1>0 DEF BeginReconnect, LiveInv, Pending, Handed, GateInv
  <1>14. ASSUME NEW back \in SUBSET Origins, RestartStreams(back) PROVE
    LiveInv'
    BY <1>14, <1>0 DEF RestartStreams, LiveInv, Pending, Handed, GateInv
  <1>15. ASSUME BeginStop PROVE LiveInv'
    BY <1>15, <1>0 DEF BeginStop, LiveInv, Pending, Handed, GateInv
  <1>16. ASSUME StopCapture PROVE LiveInv'
    BY <1>16, <1>0 DEF StopCapture, LiveInv, Pending, Handed, Managers
  <1>17. ASSUME CaptureStopped PROVE LiveInv'
    BY <1>17, <1>0 DEF CaptureStopped, LiveInv, Pending, Handed
  <1>18. ASSUME Unlisten PROVE LiveInv'
    BY <1>18, <1>0 DEF Unlisten, LiveInv, Pending, Handed
  <1>19. ASSUME AwaitTask PROVE LiveInv'
    BY <1>19, <1>0 DEF AwaitTask, LiveInv, Pending, Handed
  <1>20. ASSUME Drained PROVE LiveInv'
    BY <1>20, <1>0 DEF Drained, LiveInv, Pending, Handed
  <1>21. ASSUME DrainTimesOut PROVE LiveInv'
    BY <1>21, <1>0 DEF DrainTimesOut, LiveInv, Pending, Handed
  <1>22. ASSUME UnloadModel PROVE LiveInv'
    BY <1>22, <1>0 DEF UnloadModel, LiveInv, Pending, Handed
  <1>23. ASSUME NEW finalized \in SUBSET Origins, SaveRecording(finalized)
    PROVE LiveInv'
    BY <1>23, <1>0 DEF SaveRecording, Return, LiveInv, Pending, Handed,
      GateInv
  <1>24. ASSUME SaveFails PROVE LiveInv'
    BY <1>24, <1>0 DEF SaveFails, Return, LiveInv, Pending, Handed, GateInv
  <1> QED
    BY <1>1, <1>2, <1>3, <1>4, <1>5, <1>6, <1>7, <1>8, <1>9, <1>10, <1>11,
      <1>12, <1>13, <1>14, <1>15, <1>16, <1>17, <1>18, <1>19, <1>20, <1>21,
      <1>22, <1>23, <1>24 DEF Next, StartStep, StopStep, PipelineStepOf,
      SaverStep, WorkerStep, SourceDies, Capture, PipelineStep, PipelineEnds,
      Persist, EngineReady, EngineFails, Publish, Skip, WorkerEnds,
      BatchLoads, BatchChecks, BatchUnloads

\* What the devices deliver is numbered and of one of the two origins.
LEMMA ChunkType == \A c \in Chunks : c[1] \in Origins /\ c[2] \in Nat
  BY ConstantsAssumption DEF Chunks, Origins

\* A chunk is lost with the mark on its origin.
LEMMA LossStep ==
  ASSUME TypeOK, LossInv, [Next]_vars
  PROVE  LossInv'
  <1> USE DEF vars, commandVars, stopVars, taskVars, captureVars, audioVars,
    speechVars, fileVars, engineVars
  <1>0. /\ place \in [Sessions -> [Chunks -> {"none", "pipeline", "saver", "stored", "lost"}]]
        /\ broken \in [Sessions -> SUBSET Origins]
        /\ \A c \in Chunks : c[1] \in Origins
    BY ChunkType DEF TypeOK, CommandTypes, StopTypes, TaskTypes,
      CaptureTypes, AudioTypes, SpeechTypes, FileTypes, EngineTypes
  <1>1. CASE UNCHANGED <<place, broken>>
    BY <1>1 DEF LossInv, In
  <1>2. ASSUME NEW s \in Sessions, NEW c \in Chunks, Capture(s, c) PROVE
    LossInv'
    BY <1>2, <1>0 DEF Capture, LossInv, In
  <1>3. ASSUME NEW s \in Sessions, NEW c \in Chunks, PipelineStep(s, c) PROVE
    LossInv'
    BY <1>3, <1>0 DEF PipelineStep, LossInv, In
  <1>4. ASSUME NEW s \in Sessions, NEW c \in Chunks, NEW result \in
    {"stored", "lost"}, Persist(s, c, result) PROVE LossInv'
    BY <1>4, <1>0 DEF Persist, LossInv, In
  <1> QED
    BY <1>1, <1>2, <1>3, <1>4 DEF Next, StartStep, StopStep, PipelineStepOf,
      SaverStep, WorkerStep, BeginStart, OpenCapture, FailToOpen,
      ConfirmStart, AbandonStart, EndAbandon, StoreManager, RaiseFlag,
      SpawnTask, Listen, Pause, SourceDies, BeginReconnect, RestartStreams,
      BeginStop, StopCapture, CaptureStopped, Unlisten, AwaitTask, Drained,
      DrainTimesOut, UnloadModel, SaveRecording, SaveFails, PipelineEnds,
      EngineReady, EngineFails, Publish, Skip, WorkerEnds, BatchLoads,
      BatchChecks, BatchUnloads, Goto, Return

\* The metadata says completed with the report of the stop.
LEMMA StatusStep ==
  ASSUME TypeOK, StatusInv, [Next]_vars
  PROVE  StatusInv'
  <1> USE DEF vars, commandVars, stopVars, taskVars, captureVars, audioVars,
    speechVars, fileVars, engineVars
  <1>0. /\ status \in [Sessions -> {"absent", "starting", "recording", "error", "completed", "partial"}]
        /\ told \in [Sessions -> {"nothing", "stopped", "save_failed"}]
        /\ held \in Managers
    BY DEF TypeOK, CommandTypes, StopTypes, TaskTypes, CaptureTypes,
      AudioTypes, SpeechTypes, FileTypes, EngineTypes
  <1>1. CASE UNCHANGED <<status, told>>
    BY <1>1 DEF StatusInv
  <1>2. ASSUME NEW s \in Sessions, NEW chosen \in SUBSET Origins,
    BeginStart(s, chosen) PROVE StatusInv'
    BY <1>2, <1>0 DEF BeginStart, Goto, StatusInv
  <1>3. ASSUME NEW s \in Sessions, ConfirmStart(s) PROVE StatusInv'
    BY <1>3, <1>0 DEF ConfirmStart, Goto, StatusInv
  <1>4. ASSUME NEW s \in Sessions, AbandonStart(s) PROVE StatusInv'
    BY <1>4, <1>0 DEF AbandonStart, Goto, StatusInv
  <1>5. ASSUME NEW finalized \in SUBSET Origins, SaveRecording(finalized)
    PROVE StatusInv'
    BY <1>5, <1>0 DEF SaveRecording, Return, StatusInv
  <1>6. ASSUME SaveFails PROVE StatusInv'
    BY <1>6, <1>0 DEF SaveFails, Return, StatusInv
  <1> QED
    BY <1>1, <1>2, <1>3, <1>4, <1>5, <1>6 DEF Next, StartStep, StopStep,
      PipelineStepOf, SaverStep, WorkerStep, OpenCapture, FailToOpen,
      EndAbandon, StoreManager, RaiseFlag, SpawnTask, Listen, Pause,
      SourceDies, BeginReconnect, RestartStreams, BeginStop, StopCapture,
      CaptureStopped, Unlisten, AwaitTask, Drained, DrainTimesOut,
      UnloadModel, Capture, PipelineStep, PipelineEnds, Persist, EngineReady,
      EngineFails, Publish, Skip, WorkerEnds, BatchLoads, BatchChecks,
      BatchUnloads, Goto

\* What completes a recording has looked at every chunk, and none comes after
\* it.
LEMMA CompletedStep ==
  ASSUME TypeOK, ManagerInv, LiveInv, LossInv, StatusInv,
    CompletedHasEverything, [Next]_vars
  PROVE  CompletedHasEverything'
  <1> USE DEF vars, commandVars, stopVars, taskVars, captureVars, audioVars,
    speechVars, fileVars, engineVars
  <1>0. /\ status \in [Sessions -> {"absent", "starting", "recording", "error", "completed", "partial"}]
        /\ held \in Managers
        /\ sources \in [Sessions -> SUBSET Origins]
        /\ track \in [Sessions -> [Origins -> {"waiting", "stored", "partial", "unavailable"}]]
        /\ place \in [Sessions -> [Chunks -> {"none", "pipeline", "saver", "stored", "lost"}]]
        /\ \A c \in Chunks : c[1] \in Origins
    BY ChunkType DEF TypeOK, CommandTypes, StopTypes, TaskTypes,
      CaptureTypes, AudioTypes, SpeechTypes, FileTypes, EngineTypes
  <1>1. CASE UNCHANGED <<status, place, sources, track>>
    BY <1>1 DEF CompletedHasEverything, In
  <1>2. ASSUME NEW s \in Sessions, NEW chosen \in SUBSET Origins,
    BeginStart(s, chosen) PROVE CompletedHasEverything'
    BY <1>2, <1>0 DEF BeginStart, Goto, CompletedHasEverything, In,
      StatusInv, ManagerInv, Handed
  <1>3. ASSUME NEW s \in Sessions, ConfirmStart(s) PROVE
    CompletedHasEverything'
    BY <1>3, <1>0 DEF ConfirmStart, Goto, CompletedHasEverything, In
  <1>4. ASSUME NEW s \in Sessions, AbandonStart(s) PROVE
    CompletedHasEverything'
    BY <1>4, <1>0 DEF AbandonStart, Goto, CompletedHasEverything, In
  <1>5. ASSUME NEW finalized \in SUBSET Origins, SaveRecording(finalized)
    PROVE CompletedHasEverything'
    BY <1>5, <1>0 DEF SaveRecording, Return, CompletedHasEverything, In,
      LossInv, Verdict
  <1>6. ASSUME NEW s \in Sessions, NEW c \in Chunks, Capture(s, c) PROVE
    CompletedHasEverything'
    BY <1>6, <1>0 DEF Capture, CompletedHasEverything, In, Accepts,
      StatusInv, ManagerInv, LiveInv, Pending, Handed
  <1>7. ASSUME NEW s \in Sessions, NEW c \in Chunks, PipelineStep(s, c) PROVE
    CompletedHasEverything'
    BY <1>7, <1>0 DEF PipelineStep, CompletedHasEverything, In
  <1>8. ASSUME NEW s \in Sessions, NEW c \in Chunks, NEW result \in
    {"stored", "lost"}, Persist(s, c, result) PROVE CompletedHasEverything'
    BY <1>8, <1>0 DEF Persist, CompletedHasEverything, In
  <1> QED
    BY <1>1, <1>2, <1>3, <1>4, <1>5, <1>6, <1>7, <1>8 DEF Next, StartStep,
      StopStep, PipelineStepOf, SaverStep, WorkerStep, OpenCapture,
      FailToOpen, EndAbandon, StoreManager, RaiseFlag, SpawnTask, Listen,
      Pause, SourceDies, BeginReconnect, RestartStreams, BeginStop,
      StopCapture, CaptureStopped, Unlisten, AwaitTask, Drained,
      DrainTimesOut, UnloadModel, SaveFails, PipelineEnds, EngineReady,
      EngineFails, Publish, Skip, WorkerEnds, BatchLoads, BatchChecks,
      BatchUnloads, Goto, Return

\* A stop reports once it has waited for the task or has given it up.
LEMMA DrainStep ==
  ASSUME TypeOK, GateInv, ManagerInv, DrainInv, [Next]_vars
  PROVE  DrainInv'
  <1> USE DEF vars, commandVars, stopVars, taskVars, captureVars, audioVars,
    speechVars, fileVars, engineVars
  <1>0. /\ worker \in [Sessions -> {"none", "starting", "ready", "ended", "gone"}]
        /\ start \in [Sessions -> StartPCs]
        /\ told \in [Sessions -> {"nothing", "stopped", "save_failed"}]
        /\ held \in Managers
        /\ awaited \in Managers
        /\ task \in Managers
        /\ \A s \in Sessions : s # Nobody
    BY ConstantsAssumption DEF TypeOK, CommandTypes, StopTypes, TaskTypes,
      CaptureTypes, AudioTypes, SpeechTypes, FileTypes, EngineTypes
  <1>1. CASE UNCHANGED <<start, told, stop, held, awaited, undrained,
    worker>>
    BY <1>1 DEF DrainInv
  <1>2. ASSUME NEW s \in Sessions, NEW chosen \in SUBSET Origins,
    BeginStart(s, chosen) PROVE DrainInv'
    BY <1>2, <1>0 DEF BeginStart, Goto, DrainInv
  <1>3. ASSUME NEW s \in Sessions, NEW opened \in SUBSET Origins,
    OpenCapture(s, opened) PROVE DrainInv'
    BY <1>3, <1>0 DEF OpenCapture, Goto, DrainInv
  <1>4. ASSUME NEW s \in Sessions, FailToOpen(s) PROVE DrainInv'
    BY <1>4, <1>0 DEF FailToOpen, Goto, DrainInv
  <1>5. ASSUME NEW s \in Sessions, ConfirmStart(s) PROVE DrainInv'
    BY <1>5, <1>0 DEF ConfirmStart, Goto, DrainInv
  <1>6. ASSUME NEW s \in Sessions, AbandonStart(s) PROVE DrainInv'
    BY <1>6, <1>0 DEF AbandonStart, Goto, DrainInv
  <1>7. ASSUME NEW s \in Sessions, EndAbandon(s) PROVE DrainInv'
    BY <1>7, <1>0 DEF EndAbandon, Goto, DrainInv
  <1>8. ASSUME NEW s \in Sessions, StoreManager(s) PROVE DrainInv'
    BY <1>8, <1>0 DEF StoreManager, Goto, DrainInv
  <1>9. ASSUME NEW s \in Sessions, RaiseFlag(s) PROVE DrainInv'
    BY <1>9, <1>0 DEF RaiseFlag, Goto, DrainInv
  <1>10. ASSUME NEW s \in Sessions, SpawnTask(s) PROVE DrainInv'
    BY <1>10, <1>0 DEF SpawnTask, Goto, DrainInv
  <1>11. ASSUME NEW s \in Sessions, Listen(s) PROVE DrainInv'
    BY <1>11, <1>0 DEF Listen, Goto, DrainInv
  <1>12. ASSUME BeginReconnect PROVE DrainInv'
    BY <1>12, <1>0 DEF BeginReconnect, DrainInv, GateInv, Managers
  <1>13. ASSUME NEW back \in SUBSET Origins, RestartStreams(back) PROVE
    DrainInv'
    BY <1>13, <1>0 DEF RestartStreams, DrainInv, GateInv, Managers
  <1>14. ASSUME BeginStop PROVE DrainInv'
    BY <1>14, <1>0 DEF BeginStop, DrainInv, GateInv, Managers
  <1>15. ASSUME StopCapture PROVE DrainInv'
    BY <1>15, <1>0 DEF StopCapture, DrainInv
  <1>16. ASSUME CaptureStopped PROVE DrainInv'
    BY <1>16, <1>0 DEF CaptureStopped, DrainInv
  <1>17. ASSUME Unlisten PROVE DrainInv'
    BY <1>17, <1>0 DEF Unlisten, DrainInv
  <1>18. ASSUME AwaitTask PROVE DrainInv'
    BY <1>18, <1>0 DEF AwaitTask, DrainInv, GateInv, Managers
  <1>19. ASSUME Drained PROVE DrainInv'
    BY <1>19, <1>0 DEF Drained, DrainInv
  <1>20. ASSUME DrainTimesOut PROVE DrainInv'
    BY <1>20, <1>0 DEF DrainTimesOut, DrainInv
  <1>21. ASSUME UnloadModel PROVE DrainInv'
    BY <1>21, <1>0 DEF UnloadModel, DrainInv
  <1>22. ASSUME NEW finalized \in SUBSET Origins, SaveRecording(finalized)
    PROVE DrainInv'
    BY <1>22, <1>0 DEF SaveRecording, Return, DrainInv, GateInv, Managers
  <1>23. ASSUME SaveFails PROVE DrainInv'
    BY <1>23, <1>0 DEF SaveFails, Return, DrainInv, GateInv, Managers
  <1>24. ASSUME NEW s \in Sessions, EngineReady(s) PROVE DrainInv'
    BY <1>24, <1>0 DEF EngineReady, DrainInv
  <1>25. ASSUME NEW s \in Sessions, EngineFails(s) PROVE DrainInv'
    BY <1>25, <1>0 DEF EngineFails, DrainInv
  <1>26. ASSUME NEW s \in Sessions, WorkerEnds(s) PROVE DrainInv'
    BY <1>26, <1>0 DEF WorkerEnds, DrainInv
  <1> QED
    BY <1>1, <1>2, <1>3, <1>4, <1>5, <1>6, <1>7, <1>8, <1>9, <1>10, <1>11,
      <1>12, <1>13, <1>14, <1>15, <1>16, <1>17, <1>18, <1>19, <1>20, <1>21,
      <1>22, <1>23, <1>24, <1>25, <1>26 DEF Next, StartStep, StopStep,
      PipelineStepOf, SaverStep, WorkerStep, Pause, SourceDies, Capture,
      PipelineStep, PipelineEnds, Persist, Publish, Skip, BatchLoads,
      BatchChecks, BatchUnloads

\* Whose worker still speaks has its manager in the slot, if there is one, or
\* was given up.
LEMMA SegmentsStep ==
  ASSUME TypeOK, GateInv, ManagerInv, DrainInv, NoRecordingVanishes,
    SegmentsStayWithTheirSession, [Next]_vars
  PROVE  SegmentsStayWithTheirSession'
  <1> USE DEF vars, commandVars, stopVars, taskVars, captureVars, audioVars,
    speechVars, fileVars, engineVars
  <1>0. /\ history \in [Sessions -> SUBSET (Sessions \X (1..MaxSpeech))]
        /\ start \in [Sessions -> StartPCs]
        /\ slot \in Managers
        /\ held \in Managers
        /\ \A s \in Sessions : s # Nobody
    BY ConstantsAssumption DEF TypeOK, CommandTypes, StopTypes, TaskTypes,
      CaptureTypes, AudioTypes, SpeechTypes, FileTypes, EngineTypes
  <1>1. CASE UNCHANGED <<history, undrained>>
    BY <1>1 DEF SegmentsStayWithTheirSession
  <1>2. ASSUME AwaitTask PROVE SegmentsStayWithTheirSession'
    BY <1>2, <1>0 DEF AwaitTask, SegmentsStayWithTheirSession
  <1>3. ASSUME DrainTimesOut PROVE SegmentsStayWithTheirSession'
    BY <1>3, <1>0 DEF DrainTimesOut, SegmentsStayWithTheirSession
  <1>4. ASSUME NEW s \in Sessions, NEW k \in 1..MaxSpeech, Publish(s, k)
    PROVE SegmentsStayWithTheirSession'
    BY <1>4, <1>0 DEF Publish, SegmentsStayWithTheirSession, Filed, DrainInv,
      ManagerInv, GateInv, NoRecordingVanishes, Handed, Managers
  <1> QED
    BY <1>1, <1>2, <1>3, <1>4 DEF Next, StartStep, StopStep, PipelineStepOf,
      SaverStep, WorkerStep, BeginStart, OpenCapture, FailToOpen,
      ConfirmStart, AbandonStart, EndAbandon, StoreManager, RaiseFlag,
      SpawnTask, Listen, Pause, SourceDies, BeginReconnect, RestartStreams,
      BeginStop, StopCapture, CaptureStopped, Unlisten, Drained, UnloadModel,
      SaveRecording, SaveFails, Capture, PipelineStep, PipelineEnds, Persist,
      EngineReady, EngineFails, Skip, WorkerEnds, BatchLoads, BatchChecks,
      BatchUnloads, Goto, Return

\* Wherever the detection takes a segment is a place of segments.
LEMMA HearsType ==
  ASSUME SpeechTypes, NEW s \in Sessions
  PROVE  Hears(s) \subseteq
           [1..MaxSpeech -> {"none", "vad", "queued", "published", "dropped"}]
  <1>1. said[s] \in
          [1..MaxSpeech -> {"none", "vad", "queued", "published", "dropped"}]
    BY DEF SpeechTypes
  <1>2. Outlet(s) \in {"dropped", "queued"}
    BY DEF Outlet
  <1>3. SUFFICES ASSUME NEW heard \in Hears(s)
                 PROVE heard \in [1..MaxSpeech ->
                         {"none", "vad", "queued", "published", "dropped"}]
    OBVIOUS
  <1>4. \/ heard = said[s]
        \/ \E k \in 1..MaxSpeech : heard = [said[s] EXCEPT ![k] = "vad"]
        \/ \E k \in 1..MaxSpeech, to \in {"dropped", Outlet(s)} :
             heard = [said[s] EXCEPT ![k] = to]
    BY DEF Hears, Speaking
  <1> QED
    BY <1>1, <1>2, <1>4

\* The types of commandVars.
LEMMA CommandTypeStep ==
  ASSUME TypeOK, [Next]_vars
  PROVE  CommandTypes'
  <1> USE DEF vars, commandVars, stopVars, taskVars, captureVars, audioVars,
    speechVars, fileVars, engineVars, TypeOK
  <1>1. CASE UNCHANGED <<supply, start, lock, flag, slot, told>>
    BY <1>1 DEF CommandTypes
  <1>2. ASSUME NEW s \in Sessions, NEW chosen \in SUBSET Origins,
    BeginStart(s, chosen) PROVE CommandTypes'
    BY <1>2 DEF BeginStart, Goto, CommandTypes, StartPCs, Managers
  <1>3. ASSUME NEW s \in Sessions, NEW opened \in SUBSET Origins,
    OpenCapture(s, opened) PROVE CommandTypes'
    BY <1>3 DEF OpenCapture, Goto, CommandTypes, StartPCs, Managers
  <1>4. ASSUME NEW s \in Sessions, FailToOpen(s) PROVE CommandTypes'
    BY <1>4 DEF FailToOpen, Goto, CommandTypes, StartPCs, Managers
  <1>5. ASSUME NEW s \in Sessions, ConfirmStart(s) PROVE CommandTypes'
    BY <1>5 DEF ConfirmStart, Goto, CommandTypes, StartPCs, Managers
  <1>6. ASSUME NEW s \in Sessions, AbandonStart(s) PROVE CommandTypes'
    BY <1>6 DEF AbandonStart, Goto, CommandTypes, StartPCs, Managers
  <1>7. ASSUME NEW s \in Sessions, EndAbandon(s) PROVE CommandTypes'
    BY <1>7 DEF EndAbandon, Goto, CommandTypes, StartPCs, Managers
  <1>8. ASSUME NEW s \in Sessions, StoreManager(s) PROVE CommandTypes'
    BY <1>8 DEF StoreManager, Goto, CommandTypes, StartPCs, Managers
  <1>9. ASSUME NEW s \in Sessions, RaiseFlag(s) PROVE CommandTypes'
    BY <1>9 DEF RaiseFlag, Goto, CommandTypes, StartPCs, Managers
  <1>10. ASSUME NEW s \in Sessions, SpawnTask(s) PROVE CommandTypes'
    BY <1>10 DEF SpawnTask, Goto, CommandTypes, StartPCs, Managers
  <1>11. ASSUME NEW s \in Sessions, Listen(s) PROVE CommandTypes'
    BY <1>11 DEF Listen, Goto, CommandTypes, StartPCs, Managers
  <1>12. ASSUME BeginReconnect PROVE CommandTypes'
    BY <1>12 DEF BeginReconnect, CommandTypes, Managers, StopTypes
  <1>13. ASSUME NEW back \in SUBSET Origins, RestartStreams(back) PROVE
    CommandTypes'
    BY <1>13 DEF RestartStreams, CommandTypes, Managers, StopTypes
  <1>14. ASSUME BeginStop PROVE CommandTypes'
    BY <1>14 DEF BeginStop, CommandTypes, Managers, StopTypes
  <1>15. ASSUME NEW finalized \in SUBSET Origins, SaveRecording(finalized)
    PROVE CommandTypes'
    BY <1>15 DEF SaveRecording, Return, CommandTypes, Managers, StopTypes
  <1>16. ASSUME SaveFails PROVE CommandTypes'
    BY <1>16 DEF SaveFails, Return, CommandTypes, Managers, StopTypes
  <1>17. ASSUME BatchChecks PROVE CommandTypes'
    BY <1>17 DEF BatchChecks, CommandTypes, Managers
  <1>18. ASSUME BatchUnloads PROVE CommandTypes'
    BY <1>18 DEF BatchUnloads, CommandTypes, Managers
  <1> QED
    BY <1>1, <1>2, <1>3, <1>4, <1>5, <1>6, <1>7, <1>8, <1>9, <1>10, <1>11,
      <1>12, <1>13, <1>14, <1>15, <1>16, <1>17, <1>18 DEF Next, StartStep,
      StopStep, PipelineStepOf, SaverStep, WorkerStep, Pause, SourceDies,
      StopCapture, CaptureStopped, Unlisten, AwaitTask, Drained,
      DrainTimesOut, UnloadModel, Capture, PipelineStep, PipelineEnds,
      Persist, EngineReady, EngineFails, Publish, Skip, WorkerEnds,
      BatchLoads

\* The types of stopVars.
LEMMA StopTypeStep ==
  ASSUME TypeOK, [Next]_vars
  PROVE  StopTypes'
  <1> USE DEF vars, commandVars, stopVars, taskVars, captureVars, audioVars,
    speechVars, fileVars, engineVars, TypeOK
  <1>1. CASE UNCHANGED <<gate, stop, held, awaited>>
    BY <1>1 DEF StopTypes
  <1>2. ASSUME BeginReconnect PROVE StopTypes'
    BY <1>2 DEF BeginReconnect, StopTypes, StopPCs, Managers, CommandTypes,
      TaskTypes
  <1>3. ASSUME NEW back \in SUBSET Origins, RestartStreams(back) PROVE
    StopTypes'
    BY <1>3 DEF RestartStreams, StopTypes, StopPCs, Managers, CommandTypes,
      TaskTypes
  <1>4. ASSUME BeginStop PROVE StopTypes'
    BY <1>4 DEF BeginStop, StopTypes, StopPCs, Managers, CommandTypes,
      TaskTypes
  <1>5. ASSUME NEW finalized \in SUBSET Origins, SaveRecording(finalized)
    PROVE StopTypes'
    BY <1>5 DEF SaveRecording, Return, StopTypes, StopPCs, Managers,
      CommandTypes, TaskTypes
  <1>6. ASSUME SaveFails PROVE StopTypes'
    BY <1>6 DEF SaveFails, Return, StopTypes, StopPCs, Managers,
      CommandTypes, TaskTypes
  <1>7. ASSUME StopCapture PROVE StopTypes'
    BY <1>7 DEF StopCapture, StopTypes, StopPCs, Managers, CommandTypes,
      TaskTypes
  <1>8. ASSUME CaptureStopped PROVE StopTypes'
    BY <1>8 DEF CaptureStopped, StopTypes, StopPCs, Managers, CommandTypes,
      TaskTypes
  <1>9. ASSUME Unlisten PROVE StopTypes'
    BY <1>9 DEF Unlisten, StopTypes, StopPCs, Managers, CommandTypes,
      TaskTypes
  <1>10. ASSUME AwaitTask PROVE StopTypes'
    BY <1>10 DEF AwaitTask, StopTypes, StopPCs, Managers, CommandTypes,
      TaskTypes
  <1>11. ASSUME Drained PROVE StopTypes'
    BY <1>11 DEF Drained, StopTypes, StopPCs, Managers, CommandTypes,
      TaskTypes
  <1>12. ASSUME DrainTimesOut PROVE StopTypes'
    BY <1>12 DEF DrainTimesOut, StopTypes, StopPCs, Managers, CommandTypes,
      TaskTypes
  <1>13. ASSUME UnloadModel PROVE StopTypes'
    BY <1>13 DEF UnloadModel, StopTypes, StopPCs, Managers, CommandTypes,
      TaskTypes
  <1> QED
    BY <1>1, <1>2, <1>3, <1>4, <1>5, <1>6, <1>7, <1>8, <1>9, <1>10, <1>11,
      <1>12, <1>13 DEF Next, StartStep, StopStep, PipelineStepOf, SaverStep,
      WorkerStep, BeginStart, OpenCapture, FailToOpen, ConfirmStart,
      AbandonStart, EndAbandon, StoreManager, RaiseFlag, SpawnTask, Listen,
      Pause, SourceDies, Capture, PipelineStep, PipelineEnds, Persist,
      EngineReady, EngineFails, Publish, Skip, WorkerEnds, BatchLoads,
      BatchChecks, BatchUnloads, Goto

\* The types of taskVars.
LEMMA TaskTypeStep ==
  ASSUME TypeOK, [Next]_vars
  PROVE  TaskTypes'
  <1> USE DEF vars, commandVars, stopVars, taskVars, captureVars, audioVars,
    speechVars, fileVars, engineVars, TypeOK
  <1>1. CASE UNCHANGED <<task, listener, registered>>
    BY <1>1 DEF TaskTypes
  <1>2. ASSUME NEW s \in Sessions, SpawnTask(s) PROVE TaskTypes'
    BY <1>2 DEF SpawnTask, Goto, TaskTypes, Managers
  <1>3. ASSUME NEW s \in Sessions, Listen(s) PROVE TaskTypes'
    BY <1>3 DEF Listen, Goto, TaskTypes, Managers
  <1>4. ASSUME Unlisten PROVE TaskTypes'
    BY <1>4 DEF Unlisten, TaskTypes, Managers
  <1>5. ASSUME AwaitTask PROVE TaskTypes'
    BY <1>5 DEF AwaitTask, TaskTypes, Managers
  <1> QED
    BY <1>1, <1>2, <1>3, <1>4, <1>5 DEF Next, StartStep, StopStep,
      PipelineStepOf, SaverStep, WorkerStep, BeginStart, OpenCapture,
      FailToOpen, ConfirmStart, AbandonStart, EndAbandon, StoreManager,
      RaiseFlag, Pause, SourceDies, BeginReconnect, RestartStreams,
      BeginStop, StopCapture, CaptureStopped, Drained, DrainTimesOut,
      UnloadModel, SaveRecording, SaveFails, Capture, PipelineStep,
      PipelineEnds, Persist, EngineReady, EngineFails, Publish, Skip,
      WorkerEnds, BatchLoads, BatchChecks, BatchUnloads, Goto, Return

\* The types of captureVars.
LEMMA CaptureTypeStep ==
  ASSUME TypeOK, [Next]_vars
  PROVE  CaptureTypes'
  <1> USE DEF vars, commandVars, stopVars, taskVars, captureVars, audioVars,
    speechVars, fileVars, engineVars, TypeOK
  <1>1. CASE UNCHANGED <<sources, streams, live>>
    BY <1>1 DEF CaptureTypes
  <1>2. ASSUME NEW s \in Sessions, NEW chosen \in SUBSET Origins,
    BeginStart(s, chosen) PROVE CaptureTypes'
    BY <1>2 DEF BeginStart, Goto, CaptureTypes
  <1>3. ASSUME NEW s \in Sessions, NEW opened \in SUBSET Origins,
    OpenCapture(s, opened) PROVE CaptureTypes'
    BY <1>3 DEF OpenCapture, Goto, CaptureTypes
  <1>4. ASSUME NEW s \in Sessions, AbandonStart(s) PROVE CaptureTypes'
    BY <1>4 DEF AbandonStart, Goto, CaptureTypes
  <1>5. ASSUME NEW from \in {"on", "paused"}, NEW to \in {"on", "paused"},
    Pause(from, to) PROVE CaptureTypes'
    BY <1>5 DEF Pause, CaptureTypes, CommandTypes, Managers
  <1>6. ASSUME NEW s \in Sessions, NEW o \in Origins, SourceDies(s, o) PROVE
    CaptureTypes'
    BY <1>6 DEF SourceDies, CaptureTypes
  <1>7. ASSUME NEW back \in SUBSET Origins, RestartStreams(back) PROVE
    CaptureTypes'
    BY <1>7 DEF RestartStreams, CaptureTypes, StopTypes, Managers
  <1>8. ASSUME StopCapture PROVE CaptureTypes'
    BY <1>8 DEF StopCapture, CaptureTypes, StopTypes, Managers
  <1> QED
    BY <1>1, <1>2, <1>3, <1>4, <1>5, <1>6, <1>7, <1>8 DEF Next, StartStep,
      StopStep, PipelineStepOf, SaverStep, WorkerStep, FailToOpen,
      ConfirmStart, EndAbandon, StoreManager, RaiseFlag, SpawnTask, Listen,
      BeginReconnect, BeginStop, CaptureStopped, Unlisten, AwaitTask,
      Drained, DrainTimesOut, UnloadModel, SaveRecording, SaveFails, Capture,
      PipelineStep, PipelineEnds, Persist, EngineReady, EngineFails, Publish,
      Skip, WorkerEnds, BatchLoads, BatchChecks, BatchUnloads, Goto, Return

\* The types of audioVars.
LEMMA AudioTypeStep ==
  ASSUME TypeOK, [Next]_vars
  PROVE  AudioTypes'
  <1> USE DEF vars, commandVars, stopVars, taskVars, captureVars, audioVars,
    speechVars, fileVars, engineVars, TypeOK
  <1>1. CASE UNCHANGED <<pipeline, place, broken>>
    BY <1>1 DEF AudioTypes
  <1>2. ASSUME NEW s \in Sessions, NEW opened \in SUBSET Origins,
    OpenCapture(s, opened) PROVE AudioTypes'
    BY <1>2 DEF OpenCapture, Goto, AudioTypes
  <1>3. ASSUME NEW s \in Sessions, FailToOpen(s) PROVE AudioTypes'
    BY <1>3 DEF FailToOpen, Goto, AudioTypes
  <1>4. ASSUME NEW s \in Sessions, NEW c \in Chunks, Capture(s, c) PROVE
    AudioTypes'
    BY <1>4 DEF Capture, AudioTypes
  <1>5. ASSUME NEW s \in Sessions, NEW c \in Chunks, PipelineStep(s, c) PROVE
    AudioTypes'
    BY <1>5 DEF PipelineStep, AudioTypes
  <1>6. ASSUME NEW s \in Sessions, PipelineEnds(s) PROVE AudioTypes'
    BY <1>6 DEF PipelineEnds, AudioTypes
  <1>7. ASSUME NEW s \in Sessions, NEW c \in Chunks, NEW result \in
    {"stored", "lost"}, Persist(s, c, result) PROVE AudioTypes'
    BY <1>7, ChunkType DEF Persist, AudioTypes
  <1> QED
    BY <1>1, <1>2, <1>3, <1>4, <1>5, <1>6, <1>7 DEF Next, StartStep,
      StopStep, PipelineStepOf, SaverStep, WorkerStep, BeginStart,
      ConfirmStart, AbandonStart, EndAbandon, StoreManager, RaiseFlag,
      SpawnTask, Listen, Pause, SourceDies, BeginReconnect, RestartStreams,
      BeginStop, StopCapture, CaptureStopped, Unlisten, AwaitTask, Drained,
      DrainTimesOut, UnloadModel, SaveRecording, SaveFails, EngineReady,
      EngineFails, Publish, Skip, WorkerEnds, BatchLoads, BatchChecks,
      BatchUnloads, Goto, Return

\* The types of speechVars.
LEMMA SpeechTypeStep ==
  ASSUME TypeOK, [Next]_vars
  PROVE  SpeechTypes'
  <1> USE DEF vars, commandVars, stopVars, taskVars, captureVars, audioVars,
    speechVars, fileVars, engineVars, TypeOK
  <1>1. CASE UNCHANGED <<said, worker, history, undrained>>
    BY <1>1 DEF SpeechTypes
  <1>2. ASSUME NEW s \in Sessions, SpawnTask(s) PROVE SpeechTypes'
    BY <1>2 DEF SpawnTask, Goto, SpeechTypes
  <1>3. ASSUME AwaitTask PROVE SpeechTypes'
    BY <1>3 DEF AwaitTask, SpeechTypes, StopTypes, Managers
  <1>4. ASSUME DrainTimesOut PROVE SpeechTypes'
    BY <1>4 DEF DrainTimesOut, SpeechTypes, StopTypes, Managers
  <1>5. ASSUME NEW s \in Sessions, NEW c \in Chunks, PipelineStep(s, c) PROVE
    SpeechTypes'
    <2>1. PICK heard \in Hears(s) : said' = [said EXCEPT ![s] = heard]
      BY <1>5 DEF PipelineStep
    <2>2. heard \in
            [1..MaxSpeech -> {"none", "vad", "queued", "published", "dropped"}]
      BY HearsType
    <2> QED
      BY <1>5, <2>1, <2>2 DEF PipelineStep, SpeechTypes
  <1>6. ASSUME NEW s \in Sessions, PipelineEnds(s) PROVE SpeechTypes'
    <2>1. PICK to \in {"dropped", "queued"} :
            said' = [said EXCEPT ![s] =
              [k \in 1..MaxSpeech |-> IF k \in Speaking(s) THEN to ELSE @[k]]]
      BY <1>6 DEF PipelineEnds, Outlet
    <2> QED
      BY <1>6, <2>1 DEF PipelineEnds, SpeechTypes
  <1>7. ASSUME NEW s \in Sessions, EngineReady(s) PROVE SpeechTypes'
    BY <1>7 DEF EngineReady, SpeechTypes
  <1>8. ASSUME NEW s \in Sessions, EngineFails(s) PROVE SpeechTypes'
    BY <1>8 DEF EngineFails, SpeechTypes
  <1>9. ASSUME NEW s \in Sessions, NEW k \in 1..MaxSpeech, Publish(s, k)
    PROVE SpeechTypes'
    BY <1>9 DEF Publish, SpeechTypes, Filed, CommandTypes, Managers
  <1>10. ASSUME NEW s \in Sessions, NEW k \in 1..MaxSpeech, Skip(s, k) PROVE
    SpeechTypes'
    BY <1>10 DEF Skip, SpeechTypes
  <1>11. ASSUME NEW s \in Sessions, WorkerEnds(s) PROVE SpeechTypes'
    BY <1>11 DEF WorkerEnds, SpeechTypes
  <1> QED
    BY <1>1, <1>2, <1>3, <1>4, <1>5, <1>6, <1>7, <1>8, <1>9, <1>10, <1>11 DEF
      Next, StartStep, StopStep, PipelineStepOf, SaverStep, WorkerStep,
      BeginStart, OpenCapture, FailToOpen, ConfirmStart, AbandonStart,
      EndAbandon, StoreManager, RaiseFlag, Listen, Pause, SourceDies,
      BeginReconnect, RestartStreams, BeginStop, StopCapture, CaptureStopped,
      Unlisten, Drained, UnloadModel, SaveRecording, SaveFails, Capture,
      Persist, BatchLoads, BatchChecks, BatchUnloads, Goto, Return

\* The types of fileVars.
LEMMA FileTypeStep ==
  ASSUME TypeOK, [Next]_vars
  PROVE  FileTypes'
  <1> USE DEF vars, commandVars, stopVars, taskVars, captureVars, audioVars,
    speechVars, fileVars, engineVars, TypeOK
  <1>1. CASE UNCHANGED <<status, track>>
    BY <1>1 DEF FileTypes
  <1>2. ASSUME NEW s \in Sessions, NEW chosen \in SUBSET Origins,
    BeginStart(s, chosen) PROVE FileTypes'
    BY <1>2 DEF BeginStart, Goto, FileTypes
  <1>3. ASSUME NEW s \in Sessions, ConfirmStart(s) PROVE FileTypes'
    BY <1>3 DEF ConfirmStart, Goto, FileTypes
  <1>4. ASSUME NEW s \in Sessions, AbandonStart(s) PROVE FileTypes'
    BY <1>4 DEF AbandonStart, Goto, FileTypes
  <1>5. ASSUME NEW finalized \in SUBSET Origins, SaveRecording(finalized)
    PROVE FileTypes'
    BY <1>5 DEF SaveRecording, Return, FileTypes, Verdict, StopTypes,
      Managers
  <1> QED
    BY <1>1, <1>2, <1>3, <1>4, <1>5 DEF Next, StartStep, StopStep,
      PipelineStepOf, SaverStep, WorkerStep, OpenCapture, FailToOpen,
      EndAbandon, StoreManager, RaiseFlag, SpawnTask, Listen, Pause,
      SourceDies, BeginReconnect, RestartStreams, BeginStop, StopCapture,
      CaptureStopped, Unlisten, AwaitTask, Drained, DrainTimesOut,
      UnloadModel, SaveFails, Capture, PipelineStep, PipelineEnds, Persist,
      EngineReady, EngineFails, Publish, Skip, WorkerEnds, BatchLoads,
      BatchChecks, BatchUnloads, Goto, Return

\* The types of engineVars.
LEMMA EngineTypeStep ==
  ASSUME TypeOK, [Next]_vars
  PROVE  EngineTypes'
  <1> USE DEF vars, commandVars, stopVars, taskVars, captureVars, audioVars,
    speechVars, fileVars, engineVars, TypeOK
  <1>1. CASE UNCHANGED <<model, batch>>
    BY <1>1 DEF EngineTypes
  <1>2. ASSUME UnloadModel PROVE EngineTypes'
    BY <1>2 DEF UnloadModel, EngineTypes
  <1>3. ASSUME NEW s \in Sessions, EngineReady(s) PROVE EngineTypes'
    BY <1>3 DEF EngineReady, EngineTypes
  <1>4. ASSUME BatchLoads PROVE EngineTypes'
    BY <1>4 DEF BatchLoads, EngineTypes
  <1>5. ASSUME BatchChecks PROVE EngineTypes'
    BY <1>5 DEF BatchChecks, EngineTypes
  <1>6. ASSUME BatchUnloads PROVE EngineTypes'
    BY <1>6 DEF BatchUnloads, EngineTypes
  <1> QED
    BY <1>1, <1>2, <1>3, <1>4, <1>5, <1>6 DEF Next, StartStep, StopStep,
      PipelineStepOf, SaverStep, WorkerStep, BeginStart, OpenCapture,
      FailToOpen, ConfirmStart, AbandonStart, EndAbandon, StoreManager,
      RaiseFlag, SpawnTask, Listen, Pause, SourceDies, BeginReconnect,
      RestartStreams, BeginStop, StopCapture, CaptureStopped, Unlisten,
      AwaitTask, Drained, DrainTimesOut, SaveRecording, SaveFails, Capture,
      PipelineStep, PipelineEnds, Persist, EngineFails, Publish, Skip,
      WorkerEnds, Goto, Return

LEMMA InitType == Init => TypeOK
  <1> SUFFICES ASSUME Init PROVE TypeOK
    OBVIOUS
  <1>1. CommandTypes
    BY DEF Init, CommandTypes, StartPCs, Managers
  <1>2. StopTypes
    BY DEF Init, StopTypes, StopPCs, Managers
  <1>3. TaskTypes
    BY DEF Init, TaskTypes, Managers
  <1>4. CaptureTypes
    BY DEF Init, CaptureTypes
  <1>5. AudioTypes
    BY DEF Init, AudioTypes
  <1>6. SpeechTypes
    BY DEF Init, SpeechTypes
  <1>7. FileTypes
    BY DEF Init, FileTypes
  <1>8. EngineTypes
    BY DEF Init, EngineTypes
  <1> QED
    BY <1>1, <1>2, <1>3, <1>4, <1>5, <1>6, <1>7, <1>8 DEF TypeOK

LEMMA InitInv == Init => IInv
  <1> SUFFICES ASSUME Init PROVE IInv
    OBVIOUS
  <1>1. Batch # Nobody /\ \A s \in Sessions : s # Nobody
    BY ConstantsAssumption
  <1>2. LockInv /\ GateInv /\ ManagerInv
    BY <1>1 DEF Init, LockInv, GateInv, ManagerInv, Pending, Handed
  <1>3. LiveInv /\ LossInv /\ StatusInv /\ DrainInv
    BY DEF Init, LiveInv, LossInv, StatusInv, DrainInv, In
  <1>4. /\ NoRecordingVanishes
        /\ CompletedHasEverything
        /\ SegmentsStayWithTheirSession
    BY DEF Init, NoRecordingVanishes, CompletedHasEverything, Handed,
      SegmentsStayWithTheirSession
  <1> QED
    BY <1>2, <1>3, <1>4, InitType DEF IInv

LEMMA TypeStep == TypeOK /\ [Next]_vars => TypeOK'
  BY CommandTypeStep, StopTypeStep, TaskTypeStep, CaptureTypeStep,
    AudioTypeStep, SpeechTypeStep, FileTypeStep, EngineTypeStep
  DEF TypeOK

LEMMA StepInv == IInv /\ [Next]_vars => IInv'
  BY TypeStep, LockStep, GateStep, ManagerStep, LiveStep, LossStep,
    StatusStep, DrainStep, VanishStep, CompletedStep, SegmentsStep
  DEF IInv

-----------------------------------------------------------------------------
\* Every variable keeps its type, whatever the commands, the devices and the
\* engine do (RecordingState, RecordingManager, the globals of
\* recording_commands.rs).
THEOREM TypeCorrect == Spec => []TypeOK
  BY InitType, TypeStep, PTL DEF Spec

\* The lock, the gate, the manager, the state and the task agree in every
\* reachable state.
THEOREM Invariance == Spec => []IInv
  BY InitInv, StepInv, PTL DEF Spec

\* A recording whose manager was stored is in the slot or in the hands of a
\* stop or a reconnection until a stop has reported its end
\* (start_recording, stop_recording, attempt_device_reconnect).
THEOREM NothingVanishes == Spec => []NoRecordingVanishes
  <1>1. IInv => NoRecordingVanishes
    BY DEF IInv
  <1> QED
    BY <1>1, Invariance, PTL

\* What the metadata calls completed has every chunk that was captured and a
\* track for every origin (stop_and_save, completed_origin_status).
THEOREM CompletedIsComplete == Spec => []CompletedHasEverything
  <1>1. IInv => CompletedHasEverything
    BY DEF IInv
  <1> QED
    BY <1>1, Invariance, PTL

\* No segment is filed with another session than its own, unless a stop gave
\* up on its task (stop_recording, the listener of start_recording).
THEOREM SegmentsAreFiled == Spec => []SegmentsStayWithTheirSession
  <1>1. IInv => SegmentsStayWithTheirSession
    BY DEF IInv
  <1> QED
    BY <1>1, Invariance, PTL

\* While the batch job has the lock to unload the model, no start is under way
\* and the flag is down, so that nothing captures.
LEMMA NothingIsLive ==
  ASSUME IInv, batch = "checked"
  PROVE  \A s \in Sessions : live[s] = "off"
  <1>1. lock = Batch /\ ~flag /\ Batch # Nobody /\ Batch \notin Sessions
    BY ConstantsAssumption DEF IInv, LockInv
  <1>2. \A s \in Sessions : start[s] \notin {"opened", "ready", "stored"}
    BY <1>1 DEF IInv, LockInv
  <1>3. \A s \in Sessions : ~Pending(s)
    BY <1>1, <1>2 DEF IInv, ManagerInv
  <1> QED
    BY <1>2, <1>3 DEF IInv, LiveInv

\* The batch job never unloads the model under a recording
\* (unload_transcription_engine).
THEOREM BatchSpares == Spec => BatchSparesRecordings
  <1>1. IInv /\ [Next]_vars =>
          (batch = "checked" /\ batch' = "idle" =>
             \A s \in Sessions : live[s] = "off")
    BY NothingIsLive
  <1> QED
    BY <1>1, Invariance, PTL DEF Spec, BatchSparesRecordings
=============================================================================
