------------------------- MODULE ProviderTransfers -------------------------
(***************************************************************************)
(* External transfers of one Session to one provider: the page that        *)
(* previews and confirms, the gate its commands wait at, the rows of       *)
(* provider_transfers, and the provider that receives the POST.            *)
(*                                                                         *)
(* A preview reads the record of the Session and stores a transfer bound   *)
(* to that snapshot and to the provider's configuration; its digest goes   *)
(* to the page.  A confirmation checks that nothing has changed, reserves  *)
(* the transfer, posts the payload and records the outcome.  All commands  *)
(* run one at a time behind a fair mutex; edits and the deletion of the    *)
(* Session do not take it.  The page can be left while its command waits,  *)
(* storage calls fail, the process ends, and an answer can be lost after   *)
(* the provider has accepted the request.                                  *)
(*                                                                         *)
(* Sources: providers/commands.rs, providers/repository.rs, the HTTP       *)
(* adapter of summary/llm_client.rs, hooks/meeting-details/                *)
(* useExternalProvider.ts and its dialog.                                  *)
(***************************************************************************)
EXTENDS Naturals, Sequences

CONSTANTS
  Transfers,     \* transfer ids; a preview draws one that nobody has drawn
  Contents,      \* what a record can say; equal contents have equal digests
  None,
  MaxVersion,    \* bound: the Session changes until this snapshot version
  MaxGeneration  \* bound: credentials are replaced until this generation

ASSUME ConstantsAssumption ==
  /\ None \notin Transfers \cup Contents
  /\ MaxVersion \in Nat
  /\ MaxGeneration \in Nat

VARIABLES
  up,          \* the application is running
  exists,      \* the Session is stored
  content,     \* its record
  version,     \* meetings.canonical_snapshot_version
  generation,  \* provider_authorizations.generation
  enabled,     \* provider_authorizations.enabled
  secret,      \* the Keychain holds the credential of that generation
  status,      \* provider_transfers.status, "none" before the row exists
  shown,       \* snapshot_digest of each transfer
  snapshot,    \* its snapshot_version
  bound,       \* its configuration_generation
  queue,       \* commands at the gate in order of arrival, the first is served
  step,        \* where the served command stands, "free" when none is
  payload,     \* the record it has read
  seen,        \* the snapshot version it has read
  outcome,     \* what the provider answered it
  held,        \* the transfer the mounted page can confirm
  busy,        \* the mounted page waits for a command
  drawn,       \* history: ids drawn so far
  accepted     \* history: transfers the provider has processed

session == <<exists, content, version>>
authorization == <<generation, enabled, secret>>
rows == <<status, shown, snapshot, bound>>
locals == <<payload, seen, outcome>>
page == <<held, busy>>

vars == <<up, session, authorization, rows, queue, step, locals, page, drawn,
          accepted>>

-----------------------------------------------------------------------------
(* Types *)

\* "deleted" is a row the deletion of the Session has cascaded to.
Statuses == {"none", "confirmed", "sending", "completed", "failed",
             "outcome_unknown", "deleted"}

\* The provider may have processed such a transfer, and nobody knows.
Unsettled == {"sending", "outcome_unknown"}

Jobs == [kind : {"preview", "confirm"}, transfer : Transfers, awaited : BOOLEAN]

PreviewSteps == {"record", "version", "insert"}
ConfirmSteps == {"transfer", "first", "second", "unchanged", "credential",
                 "reserve", "post", "answered"}

TypeOK ==
  /\ up \in BOOLEAN /\ exists \in BOOLEAN
  /\ content \in Contents
  /\ version \in Nat
  /\ generation \in Nat /\ enabled \in BOOLEAN /\ secret \in BOOLEAN
  /\ status \in [Transfers -> Statuses]
  /\ shown \in [Transfers -> Contents \cup {None}]
  /\ snapshot \in [Transfers -> Nat]
  /\ bound \in [Transfers -> Nat]
  /\ queue \in Seq(Jobs)
  /\ step \in {"free"} \cup PreviewSteps \cup ConfirmSteps
  /\ step # "free" => queue # <<>>
  /\ step \in PreviewSteps => Head(queue).kind = "preview"
  /\ step \in ConfirmSteps => Head(queue).kind = "confirm"
  /\ payload \in Contents \cup {None}
  /\ seen \in Nat
  /\ outcome \in {"none", "completed", "failed", "unknown"}
  /\ held \in Transfers \cup {None}
  /\ busy \in BOOLEAN
  /\ drawn \subseteq Transfers
  /\ accepted \subseteq Transfers

-----------------------------------------------------------------------------
(* Helpers *)

Job(k, t) == [kind |-> k, transfer |-> t, awaited |-> TRUE]

\* Mutation of Enter: an unfair mutex serves the command that came last.
EnterFirst(job) == queue' = IF step = "free" THEN <<job>> \o queue
                                             ELSE Append(queue, job)

\* PROVIDER_AUTHORIZATION_GATE serves its waiters in order of arrival.
Enter(job) == queue' = Append(queue, job)

\* The transfer of the served command.
Served == Head(queue).transfer

\* Mutation of Return: the page stays busy when its command has failed.
ReturnOnSuccess(h) ==
  /\ queue' = Tail(queue)
  /\ step' = "free"
  /\ IF Head(queue).awaited /\ h # None THEN held' = h /\ busy' = FALSE
                                        ELSE UNCHANGED page

\* The served command returns; the page that waits for it, if it is still
\* there, keeps h to confirm.
Return(h) ==
  /\ queue' = Tail(queue)
  /\ step' = "free"
  /\ IF Head(queue).awaited THEN held' = h /\ busy' = FALSE
                            ELSE UNCHANGED page

SetStatus(t, s) == status' = [status EXCEPT ![t] = s]

Init ==
  /\ up = TRUE /\ exists = TRUE
  /\ content \in Contents
  /\ version = 0
  /\ generation = 1 /\ enabled \in BOOLEAN /\ secret = TRUE
  /\ status = [t \in Transfers |-> "none"]
  /\ shown = [t \in Transfers |-> None]
  /\ snapshot = [t \in Transfers |-> 0]
  /\ bound = [t \in Transfers |-> 0]
  /\ queue = <<>>
  /\ step = "free"
  /\ payload = None /\ seen = 0 /\ outcome = "none"
  /\ held = None /\ busy = FALSE
  /\ drawn = {} /\ accepted = {}

-----------------------------------------------------------------------------
(* The page *)

\* loadPreview: the page drops what it shows and asks for a fresh preview.
LoadPreview(t) ==
  /\ up /\ ~busy
  /\ t \notin drawn
  /\ Enter(Job("preview", t))
  /\ drawn' = drawn \cup {t}
  /\ held' = None /\ busy' = TRUE
  /\ UNCHANGED <<up, session, authorization, rows, step, locals, accepted>>

\* confirmTransfer, for the preview on screen.
ConfirmTransfer ==
  /\ up /\ ~busy
  /\ held # None
  /\ Enter(Job("confirm", held))
  /\ busy' = TRUE
  /\ UNCHANGED <<up, session, authorization, rows, step, locals, held, drawn,
                 accepted>>

\* The user cancels: the preview is dropped and nothing is sent.
ClosePreview ==
  /\ up /\ ~busy
  /\ held # None
  /\ held' = None
  /\ UNCHANGED <<up, session, authorization, rows, queue, step, locals, busy,
                 drawn, accepted>>

\* The page is left and mounted anew; its commands go on without it.
Remount ==
  /\ up
  /\ busy \/ held # None
  /\ held' = None /\ busy' = FALSE
  /\ queue' = [i \in DOMAIN queue |-> [queue[i] EXCEPT !.awaited = FALSE]]
  /\ UNCHANGED <<up, session, authorization, rows, step, locals, drawn,
                 accepted>>

-----------------------------------------------------------------------------
(* The gate *)

\* The first command in line is served.
Acquire ==
  /\ up /\ step = "free"
  /\ queue # <<>>
  /\ step' = IF Head(queue).kind = "preview" THEN "record" ELSE "transfer"
  /\ UNCHANGED <<up, session, authorization, rows, queue, locals, page, drawn,
                 accepted>>

\* The served command ends before anything is stored or sent: a check fails,
\* or a storage or Keychain call does.
Refuse ==
  /\ up
  /\ step \in PreviewSteps \cup (ConfirmSteps \ {"post", "answered"})
  /\ Return(None)
  /\ UNCHANGED <<up, session, authorization, rows, locals, drawn, accepted>>

\* The served command reads or checks something and goes on.
Proceed(from, to) ==
  /\ up /\ step = from
  /\ step' = to
  /\ UNCHANGED <<up, session, authorization, rows, queue, outcome, page, drawn,
                 accepted>>

-----------------------------------------------------------------------------
(* The preview command *)

\* The record is read in a transaction of its own, ...
ReadRecord ==
  /\ Proceed("record", "version")
  /\ exists
  /\ payload' = content
  /\ UNCHANGED seen

\* ... its snapshot version after it.
ReadVersion ==
  /\ Proceed("version", "insert")
  /\ exists
  /\ seen' = version
  /\ UNCHANGED payload

\* create_preview refuses while such a transfer of the Session exists.
Blocking == {"sending", "outcome_unknown"}

\* The transfer is stored as one the user can confirm, and shown.
CreatePreview ==
  /\ up /\ step = "insert"
  /\ exists
  /\ \A u \in Transfers : status[u] \notin Blocking
  /\ SetStatus(Served, "confirmed")
  /\ shown' = [shown EXCEPT ![Served] = payload]
  /\ snapshot' = [snapshot EXCEPT ![Served] = seen]
  /\ bound' = [bound EXCEPT ![Served] = generation]
  /\ Return(Served)
  /\ UNCHANGED <<up, session, authorization, locals, drawn, accepted>>

-----------------------------------------------------------------------------
(* The confirm command *)

\* The transfer is unused and the task is enabled.
ReadTransfer ==
  /\ Proceed("transfer", "first")
  /\ status[Served] = "confirmed"
  /\ enabled
  /\ UNCHANGED <<payload, seen>>

\* The record still has the previewed digest; what was read is let go.
FirstRead ==
  /\ Proceed("first", "second")
  /\ exists
  /\ content = shown[Served]
  /\ UNCHANGED <<payload, seen>>

\* The payload to send is read again.
SecondRead ==
  /\ Proceed("second", "unchanged")
  /\ exists
  /\ payload' = content
  /\ UNCHANGED seen

CheckSnapshot ==
  /\ Proceed("unchanged", "credential")
  /\ exists
  /\ payload = shown[Served]
  /\ version = snapshot[Served]
  /\ UNCHANGED <<payload, seen>>

ReadCredential ==
  /\ Proceed("credential", "reserve")
  /\ generation = bound[Served]
  /\ secret
  /\ UNCHANGED <<payload, seen>>

\* Mutation of Reservable: the snapshot is not compared again.
ReservableAnyVersion(t) ==
  /\ status[t] = "confirmed"
  /\ exists
  /\ enabled /\ generation = bound[t]

\* The WHERE clause of begin_send.
Reservable(t) ==
  /\ status[t] = "confirmed"
  /\ exists /\ version = snapshot[t]
  /\ enabled /\ generation = bound[t]

BeginSend ==
  /\ up /\ step = "reserve"
  /\ Reservable(Served)
  /\ SetStatus(Served, "sending")
  /\ step' = "post"
  /\ UNCHANGED <<up, session, authorization, shown, snapshot, bound, queue,
                 locals, page, drawn, accepted>>

\* Mutation of Answer: an answer that does not arrive counts as a failure.
AnswerLostIsFailure(processed) ==
  IF processed THEN {"completed", "failed"} ELSE {"failed"}

\* What the adapter makes of a POST the provider has processed or not.  A
\* refused connection and a 4xx are failures; a timeout, a 5xx, a broken or
\* oversized body and one that reflects the credential leave it unknown.
Answer(processed) ==
  IF processed THEN {"completed", "unknown"} ELSE {"failed", "unknown"}

\* adapter.send: one POST, no redirect, no retry.
Send ==
  /\ up /\ step = "post"
  /\ \E processed \in BOOLEAN :
       /\ outcome' \in Answer(processed)
       /\ accepted' = IF processed THEN accepted \cup {Served} ELSE accepted
  /\ step' = "answered"
  /\ UNCHANGED <<up, session, authorization, rows, queue, payload, seen, page,
                 drawn>>

\* The outcome is recorded when the row is still sending: a result that
\* cannot be stored leaves it unknown, and a refused update leaves it sending.
Record ==
  /\ up /\ step = "answered"
  /\ LET recorded == CASE outcome = "completed" ->
                            {"completed", "outcome_unknown", "sending"}
                       [] outcome = "failed" -> {"failed", "sending"}
                       [] OTHER -> {"outcome_unknown", "sending"}
     IN IF status[Served] = "sending"
        THEN \E s \in recorded : SetStatus(Served, s)
        ELSE UNCHANGED status
  /\ outcome' = "none"
  /\ Return(None)
  /\ UNCHANGED <<up, session, authorization, shown, snapshot, bound, payload,
                 seen, drawn, accepted>>

-----------------------------------------------------------------------------
(* The rest of the application *)

\* A title, a participant, a block, a revision or the findings change, and
\* the triggers count the change.
ChangeSession ==
  /\ up /\ exists
  /\ version < MaxVersion
  /\ content' \in Contents
  /\ version' = version + 1
  /\ UNCHANGED <<up, exists, authorization, rows, queue, step, locals, page,
                 drawn, accepted>>

\* The transfers go with their Session.
DeleteSession ==
  /\ up /\ exists
  /\ exists' = FALSE
  /\ status' = [t \in Transfers |->
                  IF status[t] = "none" THEN "none" ELSE "deleted"]
  /\ UNCHANGED <<up, content, version, authorization, shown, snapshot, bound,
                 queue, step, locals, page, drawn, accepted>>

\* The commands of the settings page take the gate, too.
Settings(gen, on, cred) ==
  /\ up /\ step = "free"
  /\ generation' = gen /\ enabled' = on /\ secret' = cred
  /\ UNCHANGED <<up, session, rows, queue, step, locals, page, drawn, accepted>>

\* api_save_provider_credential: a new generation, disabled.
SaveCredential ==
  /\ generation < MaxGeneration
  /\ Settings(generation + 1, FALSE, TRUE)

\* Its rollback: the former generation, disabled.
SaveFails == enabled /\ Settings(generation, FALSE, secret)

\* api_set_provider_task_enabled
SetEnabled == Settings(generation, ~enabled, secret)

\* api_remove_provider_credential; the row may keep its flag when the update
\* after the removal is refused.
RemoveCredential == \E on \in {FALSE, enabled} :
  secret /\ Settings(generation, on, FALSE)

Crash ==
  /\ up
  /\ up' = FALSE
  /\ queue' = <<>> /\ step' = "free"
  /\ payload' = None /\ seen' = 0 /\ outcome' = "none"
  /\ held' = None /\ busy' = FALSE
  /\ UNCHANGED <<session, authorization, rows, drawn, accepted>>

\* recover_unresolved_transfers, unless storage refuses it.
Restart ==
  /\ ~up
  /\ up' = TRUE
  /\ \/ status' = [t \in Transfers |-> IF status[t] = "sending"
                                       THEN "outcome_unknown" ELSE status[t]]
     \/ UNCHANGED status
  /\ UNCHANGED <<session, authorization, shown, snapshot, bound, queue, step,
                 locals, page, drawn, accepted>>

-----------------------------------------------------------------------------
(* Specification *)

Preview == ReadRecord \/ ReadVersion \/ CreatePreview

Confirm ==
  \/ ReadTransfer \/ FirstRead \/ SecondRead \/ CheckSnapshot
  \/ ReadCredential \/ BeginSend \/ Send \/ Record

\* The steps of the served command.
Serve == Acquire \/ Refuse \/ Preview \/ Confirm

Page ==
  \/ \E t \in Transfers : LoadPreview(t)
  \/ ConfirmTransfer \/ ClosePreview \/ Remount

Others ==
  \/ ChangeSession \/ DeleteSession
  \/ SaveCredential \/ SaveFails \/ SetEnabled \/ RemoveCredential
  \/ Crash \/ Restart

Next == Serve \/ Page \/ Others

Spec == Init /\ [][Next]_vars

\* A served command makes its next step: the gate is released by whoever has
\* it, and the HTTP client gives up after its timeout.
FairSpec == Spec /\ WF_vars(Serve)

-----------------------------------------------------------------------------
(* Properties *)

\* While the outcome of a transfer is not known, no other transfer of the
\* Session is sent, whatever previews were made before it, pages left or
\* processes restarted: a retry cannot duplicate what may have arrived.
UnsettledIsAlone ==
  \A t, u \in Transfers :
    status[t] \in Unsettled /\ status[u] \in Unsettled => t = u

\* A transfer the provider has processed is never recorded as failed or left
\* to be confirmed: the row shows it sent, of unknown outcome, or completed.
AcceptedIsRemembered ==
  \A t \in accepted :
    status[t] \in {"sending", "outcome_unknown", "completed", "deleted"}

\* A transfer is sent only while the Session says what was previewed, with
\* the configuration it was previewed for, enabled and with its credential.
SendsMatch ==
  \A t \in Transfers :
    status[t] # "sending" /\ status'[t] = "sending" =>
      /\ payload = shown[t] /\ content = shown[t]
      /\ generation = bound[t] /\ enabled /\ secret
SendsWhatWasConfirmed == [][SendsMatch]_vars

\* The inductive invariant: what makes the properties above hold.
\* A page that holds a transfer has seen the line empty, so it confirms first
\* in line, and only the last command in line is awaited.
LineInv ==
  /\ ~up => queue = <<>> /\ held = None
  /\ held # None => status[held] # "none"
  /\ held # None /\ ~busy => queue = <<>>
  /\ held # None /\ busy =>
       /\ queue # <<>>
       /\ Head(queue).kind = "confirm" /\ Head(queue).transfer = held
       /\ Head(queue).awaited
  /\ \A i \in DOMAIN queue :
       /\ i > 1 => queue[i].kind = "preview"
       /\ queue[i].awaited => busy /\ i = Len(queue)

\* Each preview in line has an id of its own that no row has yet.
FreshInv ==
  /\ \A t \in Transfers \ drawn : status[t] = "none"
  /\ \A i \in DOMAIN queue :
       /\ queue[i].transfer \in drawn
       /\ queue[i].kind = "confirm" => status[queue[i].transfer] # "none"
       /\ queue[i].kind = "preview" => status[queue[i].transfer] = "none"
       /\ \A j \in DOMAIN queue : queue[i].kind = "preview" /\ i # j =>
            queue[j].transfer # queue[i].transfer

\* While a transfer is unsettled nothing else can be confirmed.
BlockedInv ==
  \A u \in Transfers : status[u] \in Unsettled =>
    /\ \A v \in Transfers : status[v] \in Unsettled => v = u
    /\ held # None => busy
    /\ queue # <<>> /\ Head(queue).kind = "confirm" =>
         step \in {"post", "answered"} /\ Served = u

\* What the confirmation that is served has established so far.
ServedInv ==
  /\ \A t \in Transfers : snapshot[t] <= version
  /\ step = "insert" => seen <= version
  /\ step \in ConfirmSteps \ {"transfer", "first"} /\ version = snapshot[Served]
       => content = shown[Served]
  /\ step \in {"credential", "reserve"} => payload = shown[Served]
  /\ step = "reserve" => generation = bound[Served] /\ secret
  /\ step \in {"post", "answered"} => status[Served] \in {"sending", "deleted"}
  /\ step = "post" => Served \notin accepted
  /\ step = "answered" => outcome # "none"
  /\ step = "answered" /\ outcome = "failed" => Served \notin accepted
  /\ \A t \in accepted : status[t] \notin {"none", "confirmed", "failed"}

IInv == TypeOK /\ LineInv /\ FreshInv /\ BlockedInv /\ ServedInv

\* A page that waits for a command gets its answer, unless the process ends.
PageIsAnswered == busy ~> ~busy
=============================================================================
