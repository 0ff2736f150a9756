----------------------------- MODULE Summaries -----------------------------
(***************************************************************************)
(* The generation of the summary of one meeting: the row the page polls,   *)
(* the background tasks that write it, the registry of their cancellation  *)
(* tokens, the calls of the language model, and a process that may end at  *)
(* any step.  Nothing keeps a second generation from being asked for while *)
(* the first one runs.  The title that the meeting takes from the heading  *)
(* of the summary is left out.                                             *)
(*                                                                         *)
(* A text stands for all that SummaryCacheSource tells apart: transcript,  *)
(* prompt, template, model.  A summary is the text it is of, the text its  *)
(* cached English form claims to be of, and its language.                  *)
(*                                                                         *)
(* Sources: summary/commands.rs, summary/service.rs, summary/processor.rs, *)
(* summary/llm_client.rs, database/repositories/summary.rs.                *)
(***************************************************************************)
EXTENDS Naturals, FiniteSets

CONSTANTS
  Tasks,       \* generations that may run at once
  Texts,       \* what can be summarised
  English, Others, \* the languages a summary may be asked in
  Edited,      \* the text of a summary the user has edited
  None,        \* NULL, no token
  Stale,       \* the token of a task that is over
  MaxAsks,     \* bound: generations asked for
  MaxTroubles  \* bound: edits of the summary, calls and writes that fail,
               \* wrong settings, ends of the process

VARIABLES
  status,     \* summary_processes.status
  result,     \* summary_processes.result
  backup,     \* summary_processes.result_backup
  registry,   \* CANCELLATION_REGISTRY: the task whose token is in it
  cancelled,  \* the tasks whose token is cancelled
  pc,         \* where each task stands
  pass,       \* which call of the model it makes
  text,       \* what it summarises
  lang,       \* in which language
  english,    \* the text its English markdown is of
  good,       \* chunks that were summarised (2: two or more)
  outcome,    \* how the generation went
  canceller,  \* where api_cancel_summary stands
  lapsed,     \* history: a write failed or the process ended
  edited,     \* history: an edit came after the backup was made
  last,       \* history: the last summary that was stored
  asks,       \* generations asked for
  troubles    \* edits, failures, ends of the process

row == <<status, result, backup>>
tokens == <<registry, cancelled>>
work == <<pass, text, lang, english, good, outcome>>
history == <<lapsed, edited, last>>
bounds == <<asks, troubles>>
vars == <<row, tokens, pc, work, canceller, history, bounds>>

-----------------------------------------------------------------------------
(* Types *)

Languages == {English} \cup Others
Summary == [text : Texts \cup {Edited}, source : Texts \cup {None},
            lang : Languages]
TaskPCs == {"idle", "reset", "spawned", "registered", "awaiting", "leaving",
            "writing"}
Passes == {"chunk", "combine", "final", "translate", "normalize"}

TypeOK ==
  /\ status \in {"none", "PENDING", "completed", "failed", "cancelled"}
  /\ result \in Summary \cup {None}
  /\ backup \in Summary \cup {None}
  /\ registry \in Tasks \cup {Stale, None}
  /\ cancelled \subseteq Tasks
  /\ pc \in [Tasks -> TaskPCs]
  /\ pass \in [Tasks -> Passes]
  /\ text \in [Tasks -> Texts \cup {None}]
  /\ lang \in [Tasks -> Languages]
  /\ english \in [Tasks -> Texts \cup {None}]
  /\ good \in [Tasks -> 0..2]
  /\ outcome \in [Tasks -> {"none", "ok", "failed", "cancelled"}]
  /\ canceller \in {"idle", "flagged"}
  /\ lapsed \in BOOLEAN /\ edited \in BOOLEAN
  /\ last \in Summary \cup {None}
  /\ asks \in 0..MaxAsks /\ troubles \in 0..MaxTroubles

Of(v, l) == [text |-> v, source |-> v, lang |-> l]

\* A meeting that has no summary yet, or one of an earlier day.
Init ==
  /\ result \in {Of(v, l) : v \in Texts, l \in Languages} \cup {None}
  /\ status = IF result = None THEN "none" ELSE "completed"
  /\ backup = None
  /\ registry = None /\ cancelled = {}
  /\ pc = [t \in Tasks |-> "idle"]
  /\ pass = [t \in Tasks |-> "final"]
  /\ text = [t \in Tasks |-> None]
  /\ lang = [t \in Tasks |-> English]
  /\ english = [t \in Tasks |-> None]
  /\ good = [t \in Tasks |-> 0]
  /\ outcome = [t \in Tasks |-> "none"]
  /\ canceller = "idle"
  /\ lapsed = FALSE /\ edited = FALSE /\ last = result
  /\ asks = 0 /\ troubles = 0

Trouble == troubles < MaxTroubles /\ troubles' = troubles + 1
At(t, place) == pc' = [pc EXCEPT ![t] = place]

\* The task ends; what it worked with goes with it.
Over(t) ==
  /\ At(t, "idle")
  /\ pass' = [pass EXCEPT ![t] = "final"]
  /\ text' = [text EXCEPT ![t] = None]
  /\ lang' = [lang EXCEPT ![t] = English]
  /\ english' = [english EXCEPT ![t] = None]
  /\ good' = [good EXCEPT ![t] = 0]
  /\ outcome' = [outcome EXCEPT ![t] = "none"]
  /\ cancelled' = cancelled \ {t}

-----------------------------------------------------------------------------
(* The row *)

\* COALESCE(result_backup, result)
Restore ==
  /\ result' = IF backup = None THEN result ELSE backup
  /\ backup' = None

Settle(s) == status' = s /\ Restore

\* Mutation of Completed: the backup is kept.
CompletedKeepingBackup(s) ==
  /\ status' = "completed"
  /\ result' = s
  /\ UNCHANGED backup

Completed(s) ==
  /\ status' = "completed"
  /\ result' = s
  /\ backup' = None

-----------------------------------------------------------------------------
(* api_process_transcript *)

ResetProcess(t, v, l) ==
  /\ pc[t] = "idle"
  /\ asks < MaxAsks
  /\ asks' = asks + 1
  /\ status' = "PENDING"
  /\ backup' = result
  /\ edited' = (result # last)
  /\ text' = [text EXCEPT ![t] = v]
  /\ lang' = [lang EXCEPT ![t] = l]
  /\ At(t, "reset")
  /\ UNCHANGED <<result, tokens, pass, english, good, outcome,
                 canceller, lapsed, last, troubles>>

\* The transcript is stored beside the row; if that fails no task is spawned,
\* and the row keeps saying that one is pending.
SaveTranscriptData(t) ==
  /\ pc[t] = "reset"
  /\ \/ At(t, "spawned") /\ UNCHANGED <<work, cancelled, troubles, lapsed>>
     \/ Over(t) /\ Trouble /\ lapsed' = TRUE
  /\ UNCHANGED <<row, registry, canceller, edited, last, asks>>

-----------------------------------------------------------------------------
(* process_transcript_background *)

\* It takes the place of the token of a generation that is still running.
RegisterToken(t) ==
  /\ pc[t] = "spawned"
  /\ registry' = t
  /\ At(t, "registered")
  /\ UNCHANGED <<row, cancelled, work, canceller, history, bounds>>

\* The token of a task that is over: to cancel it succeeds and stops nothing.
LeavesToken(t) == registry' = IF registry = t THEN Stale ELSE registry

\* No such provider, no key, no configuration, no template: the token stays.
RefuseSettings(t) ==
  /\ pc[t] = "registered"
  /\ Trouble
  /\ Settle("failed")
  /\ Over(t)
  /\ LeavesToken(t)
  /\ UNCHANGED <<canceller, history, asks>>

\* Mutation of CachedEnglish: whatever is cached will do.
AnyCachedEnglish(t) ==
  IF lang[t] # English /\ result # None /\ result.lang # lang[t]
    THEN IF result.source = None THEN None ELSE result.text
    ELSE None

\* The English form of the summary there is, if it is of the same text and
\* another language than its own is asked for.
CachedEnglish(t) ==
  IF lang[t] # English /\ result # None
     /\ result.source = text[t] /\ result.lang # lang[t]
    THEN result.text ELSE None

\* How far it came no longer matters then.
Ends(t, how) ==
  /\ outcome' = [outcome EXCEPT ![t] = how]
  /\ pass' = [pass EXCEPT ![t] = "final"]
  /\ good' = [good EXCEPT ![t] = 0]
  /\ At(t, "leaving")

\* The token is looked at before every call of the model; n chunks are
\* summarised then.
Calls(t, p, n) ==
  IF t \in cancelled
    THEN Ends(t, "cancelled")
    ELSE /\ At(t, "awaiting")
         /\ pass' = [pass EXCEPT ![t] = p]
         /\ good' = [good EXCEPT ![t] = n]
         /\ UNCHANGED outcome

\* A transcript that is too long for a local model is cut into chunks.
Prepare(t) ==
  /\ pc[t] = "registered"
  /\ english' = [english EXCEPT ![t] = CachedEnglish(t)]
  /\ IF CachedEnglish(t) # None THEN Calls(t, "translate", 0)
     ELSE Calls(t, "final", 0) \/ Calls(t, "chunk", 0)
  /\ UNCHANGED <<row, tokens, text, lang, canceller, history, bounds>>

\* A chunk that fails is left out, unless every chunk does; how many chunks
\* there are is left open, and two that succeeded are combined.
AnswerChunk(t, n) ==
  LET all == good[t] + n IN
  /\ pass[t] = "chunk"
  /\ \/ Calls(t, "chunk", IF all > 2 THEN 2 ELSE all)
     \/ IF all = 0 THEN Ends(t, "failed")
        ELSE Calls(t, IF all = 1 THEN "final" ELSE "combine", 0)
  /\ UNCHANGED english

\* The final report is English; another language is a call of its own, and so
\* is the English of a transcript that is not known to be English.
AnswerFinal(t) ==
  /\ pass[t] = "final"
  /\ english' = [english EXCEPT ![t] = text[t]]
  /\ \/ Calls(t, IF lang[t] # English THEN "translate" ELSE "normalize", 0)
     \/ lang[t] = English /\ Ends(t, "ok")

Answer(t) ==
  /\ pc[t] = "awaiting"
  /\ \/ AnswerChunk(t, 1)
     \/ pass[t] = "combine" /\ Calls(t, "final", 0) /\ UNCHANGED english
     \/ AnswerFinal(t)
     \/ /\ pass[t] \in {"translate", "normalize"}
        /\ Ends(t, "ok") /\ UNCHANGED english
  /\ UNCHANGED <<row, tokens, text, lang, canceller, history, bounds>>

\* An error or a timeout; one of the normalization is forgiven.
AnswerFails(t) ==
  /\ pc[t] = "awaiting"
  /\ Trouble
  /\ \/ AnswerChunk(t, 0)
     \/ /\ pass[t] # "chunk"
        /\ Ends(t, IF pass[t] = "normalize" THEN "ok" ELSE "failed")
        /\ UNCHANGED english
  /\ UNCHANGED <<row, tokens, text, lang, canceller, history, asks>>

\* The cancellation is seen while the request is out; an answer that had begun
\* to arrive is taken nevertheless.
AnswerCancelled(t) ==
  /\ pc[t] = "awaiting"
  /\ t \in cancelled
  /\ Ends(t, "cancelled")
  /\ UNCHANGED <<row, tokens, text, lang, english, canceller, history, bounds>>

\* Whichever token is registered is removed.
CleanupToken(t) ==
  /\ pc[t] = "leaving"
  /\ registry' = None
  /\ At(t, "writing")
  /\ UNCHANGED <<row, cancelled, work, canceller, history, bounds>>

\* A write that fails is only logged.
Write(t) ==
  /\ pc[t] = "writing"
  /\ LET s == [text |-> english[t], source |-> text[t], lang |-> lang[t]] IN
     \/ /\ outcome[t] = "ok"
        /\ Completed(s)
        /\ edited' = FALSE
        /\ last' = s
        /\ UNCHANGED <<troubles, lapsed>>
     \/ /\ outcome[t] # "ok"
        /\ Settle(outcome[t])
        /\ UNCHANGED <<edited, last, troubles, lapsed>>
     \/ Trouble /\ lapsed' = TRUE /\ UNCHANGED <<status, result, backup, edited, last>>
  /\ Over(t)
  /\ UNCHANGED <<registry, canceller, asks>>

-----------------------------------------------------------------------------
(* api_cancel_summary, api_save_meeting_summary, the end of the process *)

CancelToken ==
  /\ canceller = "idle"
  /\ registry # None
  /\ cancelled' = cancelled \cup ({registry} \ {Stale})
  /\ canceller' = "flagged"
  /\ UNCHANGED <<row, registry, pc, work, history, bounds>>

CancelRow ==
  /\ canceller = "flagged"
  /\ canceller' = "idle"
  /\ \/ Settle("cancelled") /\ UNCHANGED troubles
     \/ Trouble /\ UNCHANGED <<status, result, backup>>
  /\ UNCHANGED <<tokens, pc, work, history, asks>>

\* The edit replaces the whole result, its cached English form included.
SaveMeetingSummary ==
  /\ status # "none" /\ result # None
  /\ Trouble
  /\ result' = [text |-> Edited, source |-> None, lang |-> English]
  /\ last' = result'
  /\ edited' = (backup # None)
  /\ UNCHANGED <<status, backup, tokens, pc, work, canceller, lapsed, asks>>

\* Nothing looks for pending rows when the process starts again.
Restart ==
  /\ Trouble
  /\ registry' = None /\ cancelled' = {}
  /\ pc' = [t \in Tasks |-> "idle"]
  /\ pass' = [t \in Tasks |-> "final"]
  /\ text' = [t \in Tasks |-> None]
  /\ lang' = [t \in Tasks |-> English]
  /\ english' = [t \in Tasks |-> None]
  /\ good' = [t \in Tasks |-> 0]
  /\ outcome' = [t \in Tasks |-> "none"]
  /\ canceller' = "idle"
  /\ lapsed' = TRUE
  /\ UNCHANGED <<row, edited, last, asks>>

-----------------------------------------------------------------------------

TaskStep(t) ==
  \/ SaveTranscriptData(t) \/ RegisterToken(t) \/ RefuseSettings(t) \/ Prepare(t)
  \/ Answer(t) \/ AnswerFails(t) \/ AnswerCancelled(t)
  \/ CleanupToken(t) \/ Write(t)

Next ==
  \/ \E t \in Tasks : \/ TaskStep(t)
                      \/ \E v \in Texts, l \in Languages : ResetProcess(t, v, l)
  \/ CancelToken \/ CancelRow \/ SaveMeetingSummary \/ Restart

Spec == Init /\ [][Next]_vars

-----------------------------------------------------------------------------
(* Properties *)

\* A summary is of the text it claims to be of, whether it was generated or
\* translated from the English form of an earlier one, and whatever other
\* generations and edits came between (extract_cached_english_markdown).
SummaryIsOfItsText == result # None /\ result.source # None =>
                        result.text = result.source

\* A generation that fails, is cancelled, or is cut off by the end of the
\* process leaves the last summary that was stored, by the generation that
\* finished last or by the user; only an edit made after the generation began
\* can be lost (create_or_reset_process, update_process_failed).
LastSummaryIsKept == ~ edited => result = last

\* As long as no write fails and the process goes on, a row that the page
\* finds pending is one some task is going to settle
\* (process_transcript_background).
PendingIsBeingWorkedOn ==
  status = "PENDING" /\ ~ lapsed => \E t \in Tasks : pc[t] # "idle"

-----------------------------------------------------------------------------
(* What makes the properties inductive *)

\* The parts of the type invariant that the others rest on.
Shape ==
  /\ pc \in [Tasks -> TaskPCs]
  /\ pass \in [Tasks -> Passes]
  /\ text \in [Tasks -> Texts \cup {None}]
  /\ english \in [Tasks -> Texts \cup {None}]
  /\ outcome \in [Tasks -> {"none", "ok", "failed", "cancelled"}]

\* A summary, or none, that is of the text it claims to be of.
IsOfItsText(summary) ==
  summary # None /\ summary.source # None => summary.text = summary.source

\* The backup is as sound as the summary, and is the last summary unless an
\* edit came after it was made.
BackupIsSound ==
  /\ IsOfItsText(backup)
  /\ ~ edited /\ backup # None => backup = last

\* The English form that a task translates, or writes, is of its text.
EnglishIsOfItsText ==
  \A t \in Tasks :
    /\ pc[t] # "idle" => text[t] \in Texts
    /\ \/ pc[t] = "awaiting" /\ pass[t] \in {"translate", "normalize"}
       \/ pc[t] \in {"leaving", "writing"} /\ outcome[t] = "ok"
       => english[t] = text[t]

IInv ==
  /\ Shape /\ BackupIsSound /\ EnglishIsOfItsText
  /\ SummaryIsOfItsText /\ LastSummaryIsKept /\ PendingIsBeingWorkedOn
=============================================================================
