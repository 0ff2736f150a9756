----------------------------- MODULE MCServices -----------------------------
(* The engine that loads the speech models, the monitor of the devices and  *)
(* the processing jobs on small instances, with what each of them does in   *)
(* the end. A behaviour is one of one of them.                              *)
EXTENDS ProcessingJobs, TLC

CONSTANTS
    j1, j2, m1, m2, mic, sys,
    big, small, Live, Batch, Command, Nobody,
    Mic, Sys, Unused

VARIABLE component  \* the one that a behaviour is about

VARIABLES
    engine, file, eStatus, context, name, configured, lock, recording, ePc,
    stage, want, switching

engineVars ==
    <<engine, file, eStatus, context, name, configured, lock, recording, ePc,
      stage, want, switching>>

VARIABLES
    dPresent, missing, listed, events, last, monitor, manager, changes, faults

devicesVars ==
    <<dPresent, missing, listed, events, last, monitor, manager, changes,
      faults>>

OneMeeting == {m1}
TwoJobs == {j1, j2}
OneOrigin == {mic}

\* Two whole models, or one that is damaged although it is listed.
Disk(second, shown) ==
    [file |-> [m \in {big, small} |-> IF m = big THEN "whole" ELSE second],
     status |-> [m \in {big, small} |->
                    IF m = big THEN "unlisted" ELSE shown]]
TwoDisks == {Disk("whole", "unlisted"), Disk("damaged", "available")}

Engine == INSTANCE SpeechEngine WITH
    Models <- {big, small}, Configurations <- {big, Nobody},
    Requested <- {Nobody}, Default <- small, Disks <- TwoDisks,
    status <- eStatus, pc <- ePc

Devices == INSTANCE DeviceMonitor WITH
    Watched <- <<Mic, Sys>>, Wireless <- {Mic}, MaxChanges <- 3,
    MaxFaults <- 1, present <- dPresent

-----------------------------------------------------------------------------
(* A behaviour is one of one component; the variables of the others are    *)
(* not used.                                                               *)

NoJobs ==
    /\ up = Unused /\ gate = Unused /\ pc = Unused /\ session = Unused
    /\ hash = Unused /\ status = Unused /\ code = Unused /\ warning = Unused
    /\ todo = Unused /\ heard = Unused /\ failed = Unused /\ labelled = Unused
    /\ problem = Unused /\ exists = Unused /\ author = Unused
    /\ content = Unused /\ revision = Unused /\ present = Unused
    /\ take = Unused /\ cancelled = Unused /\ stranded = Unused

NoEngine ==
    /\ engine = Unused /\ file = Unused /\ eStatus = Unused
    /\ context = Unused /\ name = Unused /\ configured = Unused
    /\ lock = Unused /\ recording = Unused /\ ePc = Unused /\ stage = Unused
    /\ want = Unused /\ switching = Unused

NoDevices ==
    /\ dPresent = Unused /\ missing = Unused /\ listed = Unused
    /\ events = Unused /\ last = Unused /\ monitor = Unused
    /\ manager = Unused /\ changes = Unused /\ faults = Unused

everything == <<component, vars, engineVars, devicesVars>>

JobsInit ==
    /\ component = "jobs"
    /\ Init
    /\ NoEngine /\ NoDevices

JobsNext ==
    /\ component = "jobs"
    /\ Next
    /\ UNCHANGED <<component, engineVars, devicesVars>>

EngineInit ==
    /\ component = "engine"
    /\ Engine!Init
    /\ NoJobs /\ NoDevices

EngineNext ==
    /\ component = "engine"
    /\ Engine!Next
    /\ UNCHANGED <<component, vars, devicesVars>>

DevicesInit ==
    /\ component = "devices"
    /\ Devices!Init
    /\ NoJobs /\ NoEngine

DevicesNext ==
    /\ component = "devices"
    /\ Devices!Next
    /\ UNCHANGED <<component, vars, engineVars>>

ServicesInit ==
    \/ JobsInit \/ EngineInit \/ DevicesInit

ServicesNext ==
    \/ JobsNext \/ EngineNext \/ DevicesNext

ServicesSpec == ServicesInit /\ [][ServicesNext]_everything

-----------------------------------------------------------------------------
(* Fairness: what each component states for itself, while it is the one. *)

JobsFair == \A j \in Jobs : WF_vars(component = "jobs" /\ Step(j))

EngineFair ==
    \A t \in {Live, Batch, Command} :
        SF_engineVars(component = "engine" /\ Engine!Step(t))

DevicesFair ==
    /\ WF_devicesVars(component = "devices" /\ Devices!Check)
    /\ WF_devicesVars(component = "devices" /\ Devices!Ends)

ServicesFairSpec == ServicesSpec /\ JobsFair /\ EngineFair /\ DevicesFair

-----------------------------------------------------------------------------
(* Properties: those of the components. *)

(* Every row that is running gets a verdict, unless it is stranded or the  *)
(* process ends, and an accepted cancellation gives the gate back          *)
(* (execute_reserved_retranscription, RetranscriptionGuard).               *)
JobsEnd ==
    /\ \A j \in Jobs :
        component = "jobs" /\ Running(j)
            ~> component = "jobs" /\ (~Running(j) \/ j \in stranded \/ ~up)
    /\ component = "jobs" /\ gate = "cancel_requested"
            ~> component = "jobs" /\ gate = "idle"

(* A load of a model comes back, unless some load found another model in   *)
(* place: that one alone is what the others may wait for (load_model).     *)
LoadsReturnUnlessOneSwitches ==
    \A t \in {Live, Batch, Command} :
        component = "engine" /\ ePc[t] \in Engine!LoadPCs
            ~> /\ component = "engine"
               /\ \/ ePc[t] \notin Engine!LoadPCs
                  \/ \E u \in {Live, Batch, Command} : switching[u]

(* A device that stays away is in the end reported as gone, and one that   *)
(* stays is not, unless the recording stops before (monitor_loop).         *)
LastReportIsTrue ==
    \A d \in {Mic, Sys} :
        /\ <>[](component = "devices" /\ d \notin dPresent)
              => <>(component = "devices"
                    /\ (monitor /= "running" \/ last[d] = "gone"))
        /\ <>[](component = "devices" /\ d \in dPresent)
              => <>[](component = "devices"
                      /\ (monitor /= "running" \/ last[d] /= "gone"))
=============================================================================
