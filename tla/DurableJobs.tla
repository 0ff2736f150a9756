----------------------------- MODULE DurableJobs -----------------------------
(***************************************************************************)
(* What the job table promises to the rest of the application, whatever    *)
(* the workers, their gate, the cancellations and the crashes do: a job    *)
(* runs once, ends with one verdict, and touches the principal transcript  *)
(* of its Session in one step, the step that completes it.                 *)
(***************************************************************************)
EXTENDS Naturals

CONSTANTS Jobs, Meetings, Original, None

VARIABLES
  status,    \* verdict of each job
  session,   \* the Session of each job that has a row
  exists,    \* Sessions that are stored
  author,    \* who wrote the principal transcript of each Session
  revision   \* how often it changed

vars == <<status, session, exists, author, revision>>

Init ==
  /\ status = [j \in Jobs |-> "absent"]
  /\ session = [j \in Jobs |-> None]
  /\ exists = Meetings
  /\ author \in [Meetings -> {Original, None}]
  /\ revision = [m \in Meetings |-> 0]

\* A Session has at most one running job.
Reserve(j, m) ==
  /\ status[j] = "absent"
  /\ m \in exists
  /\ \A k \in Jobs : ~(status[k] = "running" /\ session[k] = m)
  /\ status' = [status EXCEPT ![j] = "running"]
  /\ session' = [session EXCEPT ![j] = m]
  /\ UNCHANGED <<exists, author, revision>>

Complete(j) ==
  /\ status[j] = "running"
  /\ status' = [status EXCEPT ![j] = "completed"]
  /\ author' = [author EXCEPT ![session[j]] = j]
  /\ revision' = [revision EXCEPT ![session[j]] = @ + 1]
  /\ UNCHANGED <<session, exists>>

Reject(j) ==
  /\ status[j] = "running"
  /\ status' = [status EXCEPT ![j] = "failed"]
  /\ UNCHANGED <<session, exists, author, revision>>

\* A restart interrupts every running job at once.
Interrupt ==
  /\ status' = [j \in Jobs |-> IF status[j] = "running" THEN "interrupted"
                                                         ELSE status[j]]
  /\ UNCHANGED <<session, exists, author, revision>>

\* A user correction changes the transcript without changing its author.
Correct(m) ==
  /\ m \in exists
  /\ author[m] # None
  /\ revision' = [revision EXCEPT ![m] = @ + 1]
  /\ UNCHANGED <<status, session, exists, author>>

\* A Session takes its jobs with it.
Forget(m) ==
  /\ m \in exists
  /\ exists' = exists \ {m}
  /\ author' = [author EXCEPT ![m] = None]
  /\ status' = [j \in Jobs |-> IF session[j] = m THEN "absent" ELSE status[j]]
  /\ session' = [j \in Jobs |-> IF session[j] = m THEN None ELSE session[j]]
  /\ UNCHANGED revision

Next ==
  \/ \E j \in Jobs : Complete(j) \/ Reject(j)
  \/ \E j \in Jobs, m \in Meetings : Reserve(j, m)
  \/ Interrupt
  \/ \E m \in Meetings : Correct(m) \/ Forget(m)

Spec == Init /\ [][Next]_vars
=============================================================================
