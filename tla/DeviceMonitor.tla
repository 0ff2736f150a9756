--------------------------- MODULE DeviceMonitor ---------------------------
(***************************************************************************)
(* The task that watches the devices of a recording: it lists the devices  *)
(* every two seconds, counts how often in a row each of the devices of the *)
(* recording was missing, and reports a device that is gone or back on a   *)
(* channel that the commands poll while the recording has its manager.     *)
(*                                                                         *)
(* Sources: audio/device_monitor.rs, audio/recording_manager.rs,           *)
(* audio/recording_commands.rs of src/frontend/src-tauri/src.              *)
(***************************************************************************)
EXTENDS Naturals, Sequences, FiniteSets

CONSTANTS
    Watched,     \* the devices of the recording, the microphone first
    Wireless,    \* those whose name says they are
    MaxChanges,  \* bound: devices plugged and unplugged
    MaxFaults    \* bound: lists of the devices that fail

VARIABLES
    present,     \* the devices the system lists
    missing,     \* consecutive_missing
    listed,      \* how many devices the last list had
    events,      \* the channel of the events
    last,        \* history: the last event about each device
    monitor,     \* the task: it runs, was told to stop, is over
    manager,     \* the manager is in its slot
    changes,
    faults

watch == <<missing, listed, last>>
vars == <<present, watch, events, monitor, manager, changes, faults>>

-----------------------------------------------------------------------------
(* Types *)

Devices == {Watched[i] : i \in DOMAIN Watched}

\* disconnect_threshold
Threshold(d) == IF d \in Wireless THEN 3 ELSE 2

Event == [kind : {"gone", "back"}, device : Devices]
ListChanged == [kind |-> "list"]

TypeOK ==
    /\ present \in SUBSET Devices
    /\ missing \in [Devices -> 0..4]
    /\ listed \in 0..Cardinality(Devices)
    /\ events \in Seq(Event \cup {ListChanged})
    /\ last \in [Devices -> {"none", "gone", "back"}]
    /\ monitor \in {"running", "told", "over"}
    /\ manager \in BOOLEAN
    /\ changes \in 0..MaxChanges
    /\ faults \in 0..MaxFaults

\* The recording has started with devices that were there.
Init ==
    /\ present = Devices
    /\ missing = [d \in Devices |-> 0]
    /\ listed = 0
    /\ events = <<>>
    /\ last = [d \in Devices |-> "none"]
    /\ monitor = "running"
    /\ manager = TRUE
    /\ changes = 0
    /\ faults = 0

-----------------------------------------------------------------------------
(* The task *)

\* A device is reported once, when its count reaches the threshold.
IsGone(d, n) == n = Threshold(d)

\* The count beyond the threshold makes no difference.
Counted(d) ==
    IF d \in present THEN 0
    ELSE IF missing[d] > Threshold(d) THEN missing[d] ELSE missing[d] + 1

\* Mutation of IsBack: a device is back when it was away beyond the threshold.
IsBackFromBeyond(d) == missing[d] > Threshold(d)

\* A device is said to be back even when it was never said to be gone.
IsBack(d) == missing[d] > 0

Report(d) ==
    IF d \in present
    THEN IF IsBack(d) THEN "back" ELSE "nothing"
    ELSE IF missing[d] <= Threshold(d) /\ IsGone(d, missing[d] + 1)
         THEN "gone" ELSE "nothing"

Reports ==
    LET of[i \in 0..Len(Watched)] ==
            IF i = 0 THEN <<>>
            ELSE IF Report(Watched[i]) = "nothing" THEN of[i - 1]
            ELSE Append(of[i - 1], [kind |-> Report(Watched[i]),
                                    device |-> Watched[i]])
    IN  of[Len(Watched)]

\* One turn of monitor_loop.
Check ==
    /\ monitor = "running"
    /\ events' = events
                 \o (IF Cardinality(present) /= listed
                     THEN <<ListChanged>> ELSE <<>>)
                 \o Reports
    /\ listed' = Cardinality(present)
    /\ missing' = [d \in Devices |-> Counted(d)]
    /\ last' = [d \in Devices |->
                  IF Report(d) = "nothing" THEN last[d] ELSE Report(d)]
    /\ UNCHANGED <<present, monitor, manager, changes, faults>>

\* The list of the devices could not be had: the turn counts nothing.
ListFails ==
    /\ monitor = "running"
    /\ faults < MaxFaults
    /\ faults' = faults + 1
    /\ UNCHANGED <<present, watch, events, monitor, manager, changes>>

\* The signal to stop is seen while the task sleeps.
Ends ==
    /\ monitor = "told"
    /\ monitor' = "over"
    /\ UNCHANGED <<present, watch, events, manager, changes, faults>>

-----------------------------------------------------------------------------
(* The rest of the recording *)

\* poll_audio_device_events: nothing while the manager is out of its slot.
Poll ==
    /\ manager
    /\ events /= <<>>
    /\ events' = Tail(events)
    /\ UNCHANGED <<present, watch, monitor, manager, changes, faults>>

\* attempt_device_reconnect takes the manager out, and puts it back.
TakeManager ==
    /\ manager
    /\ monitor = "running"
    /\ manager' = FALSE
    /\ UNCHANGED <<present, watch, events, monitor, changes, faults>>

ReturnManager ==
    /\ ~manager
    /\ monitor = "running"
    /\ manager' = TRUE
    /\ UNCHANGED <<present, watch, events, monitor, changes, faults>>

\* stop_monitoring, at the end of the recording.
StopMonitoring ==
    /\ monitor = "running"
    /\ manager
    /\ manager' = FALSE
    /\ monitor' = "told"
    /\ UNCHANGED <<present, watch, events, changes, faults>>

\* A device is unplugged or plugged in.
Change(d) ==
    /\ changes < MaxChanges
    /\ changes' = changes + 1
    /\ present' = IF d \in present THEN present \ {d} ELSE present \cup {d}
    /\ UNCHANGED <<watch, events, monitor, manager, faults>>

Next ==
    \/ Check \/ ListFails \/ Ends \/ Poll
    \/ TakeManager \/ ReturnManager \/ StopMonitoring
    \/ \E d \in Devices : Change(d)

Spec == Init /\ [][Next]_vars

\* The task takes its turns.
Fairness == WF_vars(Check) /\ WF_vars(Ends)

-----------------------------------------------------------------------------
(* Properties *)

\* A device that stays away is in the end reported as gone, and one that
\* stays is not, unless the recording stops before.
LastReportIsTrue ==
    \A d \in Devices :
        /\ <>[](d \notin present)
              => <>(monitor /= "running" \/ last[d] = "gone")
        /\ <>[](d \in present)
              => <>[](monitor /= "running" \/ last[d] /= "gone")
=============================================================================
