---------------------------- MODULE MeetingPages ----------------------------
(***************************************************************************)
(* The pages of a Session's transcript.  The hook of the details page      *)
(* reads the row of the Session and then its passages, a page at a time,   *)
(* by commands that count and read in two queries.  Its loads outlive a    *)
(* change of Session or a refetch, and their answers are applied whenever  *)
(* they arrive.  Meanwhile a recording may be saved as a Session, a        *)
(* transcription may replace the passages, and the Session may be deleted. *)
(*                                                                         *)
(* Sources: src/frontend/src/hooks/usePaginatedTranscripts.ts              *)
(*          src/frontend/src/app/meeting-details/page.tsx                  *)
(*          src/frontend/src-tauri/src/api/api.rs                          *)
(*          src/frontend/src-tauri/src/database/repositories/              *)
(*              meeting.rs, transcript.rs, processing_job.rs               *)
(***************************************************************************)
EXTENDS Naturals, Sequences, FiniteSets

CONSTANTS
    Meetings,
    Lengths,      \* how many passages a transcript may have
    PageSize,     \* DEFAULT_PAGE_SIZE
    None,
    MaxLoads,     \* loads of one run of the application
    MaxEditions,  \* transcripts a Session may have, one after the other
    MaxFaults

VARIABLES
    stored,       \* the passages of each Session, in their order
    edition,      \* how many transcripts it has had
    (* The hook *)
    meetingId,
    metadata,     \* the Session whose row it shows
    transcripts,  \* the passages it shows
    hasMore,
    offset,       \* offsetRef
    isLoading,
    loadingMore,  \* isLoadingRef
    error,
    loads,        \* the loads under way and those that have ended
    undisturbed,  \* since the last reset the passages have not changed, and
                  \* no answer to an earlier question has been applied
    faults

library == <<stored, edition>>
shownState == <<metadata, transcripts, hasMore, offset, error>>
hook == <<meetingId, shownState, isLoading, loadingMore>>
vars == <<library, hook, loads, undisturbed, faults>>

-----------------------------------------------------------------------------
(* Types *)

Passages == Meetings \X (1..MaxEditions) \X Nat
Loads == [meeting : Meetings, kind : {"first", "more"}, epoch : Nat,
          step : {"metadata", "count", "rows", "answer", "ended"},
          offset : Nat, total : Nat, rows : Seq(Passages)]

TypeOK ==
    /\ \A m \in Meetings : stored[m] # None =>
        \A i \in DOMAIN stored[m] : stored[m][i] \in Passages
    /\ edition \in [Meetings -> 0..MaxEditions]
    /\ meetingId \in Meetings \cup {None}
    /\ metadata \in Meetings \cup {None}
    /\ transcripts \subseteq Passages
    /\ hasMore \in BOOLEAN
    /\ offset \in Nat
    /\ isLoading \in BOOLEAN
    /\ loadingMore \in BOOLEAN
    /\ error \in BOOLEAN
    /\ Len(loads) <= MaxLoads
    /\ \A k \in DOMAIN loads :
        /\ loads[k].meeting \in Meetings
        /\ loads[k].step \in
            {"metadata", "count", "rows", "answer", "ended"}
    /\ undisturbed \in BOOLEAN
    /\ faults \in 0..MaxFaults

-----------------------------------------------------------------------------
(* The library *)

HasRow(m) == stored[m] # None

Rows(m) == IF HasRow(m) THEN stored[m] ELSE <<>>

Transcribed(m, n) == [i \in 1..n |-> <<m, edition[m] + 1, i>>]

(* The transaction that writes a Session with its passages, or replaces    *)
(* the passages of one: no state is between the two.                       *)
Store(m, n) ==
    /\ edition[m] < MaxEditions
    /\ edition' = [edition EXCEPT ![m] = @ + 1]
    /\ stored' = [stored EXCEPT ![m] = Transcribed(m, n)]
    /\ undisturbed' = (undisturbed /\ m # meetingId)

SaveTranscript(m, n) ==
    /\ edition[m] = 0
    /\ Store(m, n)
    /\ UNCHANGED <<hook, loads, faults>>

Retranscribe(m, n) ==
    /\ HasRow(m)
    /\ n > 0
    /\ Store(m, n)
    /\ UNCHANGED <<hook, loads, faults>>

DeleteMeeting(m) ==
    /\ HasRow(m)
    /\ stored' = [stored EXCEPT ![m] = None]
    /\ undisturbed' = (undisturbed /\ m # meetingId)
    /\ UNCHANGED <<edition, hook, loads, faults>>

-----------------------------------------------------------------------------
(* Resets and the loads they begin *)

Epoch == Cardinality({k \in DOMAIN loads : loads[k].kind = "first"})

Load(m, kind, step, at) ==
    [meeting |-> m, kind |-> kind, epoch |-> Epoch, step |-> step,
     offset |-> at, total |-> 0, rows |-> <<>>]

(* A reset and the load of the row and of the first page. *)
LoadFromStart(m) ==
    /\ Len(loads) < MaxLoads
    /\ loads' = Append(loads, [Load(m, "first", "metadata", 0)
                                 EXCEPT !.epoch = Epoch + 1])
    /\ metadata' = None
    /\ transcripts' = {}
    /\ hasMore' = FALSE
    /\ offset' = 0
    /\ error' = FALSE
    /\ isLoading' = TRUE
    /\ undisturbed' = TRUE

(* The user opens a Session; the same one again is not loaded again. *)
OpenMeeting(m) ==
    /\ HasRow(m)
    /\ meetingId # m
    /\ meetingId' = m
    /\ LoadFromStart(m)
    /\ UNCHANGED <<library, loadingMore, faults>>

(* A transcription that the page has asked for is over. *)
Refetch ==
    /\ meetingId # None
    /\ ~isLoading
    /\ LoadFromStart(meetingId)
    /\ UNCHANGED <<library, meetingId, loadingMore, faults>>

LoadMore ==
    /\ Len(loads) < MaxLoads
    /\ ~loadingMore
    /\ hasMore
    /\ meetingId # None
    /\ ~isLoading
    /\ loadingMore' = TRUE
    /\ loads' = Append(loads, Load(meetingId, "more", "count", offset))
    /\ UNCHANGED <<library, meetingId, shownState, isLoading, undisturbed,
                   faults>>

-----------------------------------------------------------------------------
(* The steps of a load *)

At(k, step) == loads[k].step = step
StillAsked(k) == loads[k].epoch = Epoch

(* The row of the Session: it is shown, or the page has an error, and in   *)
(* either case the first page of passages is asked for.                    *)
LoadMetadata(k) ==
    /\ At(k, "metadata")
    /\ loads' = [loads EXCEPT ![k].step = "count"]
    /\ undisturbed' = (undisturbed /\ StillAsked(k))
    /\ \/ /\ HasRow(loads[k].meeting)
          /\ metadata' = loads[k].meeting
          /\ UNCHANGED <<error, faults>>
       \/ /\ ~HasRow(loads[k].meeting)
          /\ error' = TRUE
          /\ UNCHANGED <<metadata, faults>>
       \/ /\ faults < MaxFaults
          /\ faults' = faults + 1
          /\ error' = TRUE
          /\ UNCHANGED metadata
    /\ UNCHANGED <<library, meetingId, transcripts, hasMore, offset,
                   isLoading, loadingMore>>

CountRows(k) ==
    /\ At(k, "count")
    /\ loads' = [loads EXCEPT ![k].step = "rows",
                              ![k].total = Len(Rows(loads[k].meeting))]
    /\ UNCHANGED <<library, hook, undisturbed, faults>>

(* LIMIT and OFFSET. *)
Page(rows, from) ==
    SubSeq(rows, from + 1,
           IF from + PageSize < Len(rows) THEN from + PageSize ELSE Len(rows))

ReadRows(k) ==
    /\ At(k, "rows")
    /\ loads' = [loads EXCEPT
        ![k].step = "answer",
        ![k].rows = Page(Rows(loads[k].meeting), loads[k].offset)]
    /\ UNCHANGED <<library, hook, undisturbed, faults>>

Ended(k) ==
    /\ loads' = [loads EXCEPT ![k].step = "ended", ![k].total = 0,
                              ![k].rows = <<>>]
    /\ IF loads[k].kind = "more"
       THEN loadingMore' = FALSE /\ UNCHANGED isLoading
       ELSE isLoading' = FALSE /\ UNCHANGED loadingMore

(* Mutation of NextOffset: where the next page begins forgets where this   *)
(* one began.                                                              *)
LengthOfPage(load) == Len(load.rows)

NextOffset(load) == load.offset + Len(load.rows)

(* mergePaginatedTranscripts, or what was shown is replaced. *)
Applied(load) ==
    LET new == {load.rows[i] : i \in DOMAIN load.rows}
    IN  IF load.kind = "more" THEN transcripts \cup new ELSE new

(* Whatever the page shows by now, an answer is applied. *)
Answered(k) ==
    /\ At(k, "answer")
    /\ transcripts' = Applied(loads[k])
    /\ hasMore' = (loads[k].offset + Len(loads[k].rows) < loads[k].total)
    /\ offset' = NextOffset(loads[k])
    /\ undisturbed' = (undisturbed /\ StillAsked(k))
    /\ Ended(k)
    /\ UNCHANGED <<library, meetingId, metadata, error, faults>>

LoadFails(k) ==
    /\ loads[k].step \in {"count", "rows"}
    /\ faults < MaxFaults
    /\ faults' = faults + 1
    /\ error' = TRUE
    /\ undisturbed' = (undisturbed /\ StillAsked(k))
    /\ Ended(k)
    /\ UNCHANGED <<library, meetingId, metadata, transcripts, hasMore, offset>>

-----------------------------------------------------------------------------
(* The specification *)

Init ==
    /\ stored \in [Meetings -> {None}]
    /\ edition = [m \in Meetings |-> 0]
    /\ meetingId = None
    /\ metadata = None
    /\ transcripts = {}
    /\ hasMore = FALSE
    /\ offset = 0
    /\ isLoading = TRUE
    /\ loadingMore = FALSE
    /\ error = FALSE
    /\ loads = <<>>
    /\ undisturbed = TRUE
    /\ faults = 0

Next ==
    \/ \E m \in Meetings : \E n \in Lengths :
        SaveTranscript(m, n) \/ Retranscribe(m, n)
    \/ \E m \in Meetings : DeleteMeeting(m) \/ OpenMeeting(m)
    \/ Refetch \/ LoadMore
    \/ \E k \in DOMAIN loads :
        \/ LoadMetadata(k) \/ CountRows(k) \/ ReadRows(k)
        \/ Answered(k) \/ LoadFails(k)

Spec == Init /\ [][Next]_vars

-----------------------------------------------------------------------------
(* Properties *)

(* While nothing disturbs it, what the page shows is where its offset      *)
(* says: every passage up to it and none beyond, and when no more are      *)
(* offered and nothing has failed, all of them.  Failures, the torn count  *)
(* of a page and the order of loads cannot make it skip a passage.         *)
PagesAreWhole ==
    meetingId # None /\ undisturbed =>
        LET rows == Rows(meetingId)
        IN  /\ transcripts = {rows[i] : i \in 1..offset}
            /\ ~isLoading /\ ~error /\ ~hasMore => offset = Len(rows)

-----------------------------------------------------------------------------
(* What makes the property inductive *)

(* The parts of the type invariant that the others rest on.                *)
Shape ==
    /\ stored \in [Meetings -> Seq(Passages) \cup {None}]
    /\ edition \in [Meetings -> Nat]
    /\ meetingId \in Meetings \cup {None}
    /\ offset \in Nat
    /\ loads \in Seq(Loads)

(* The loads are of the resets there were, ...                             *)
EpochsAreReached == \A k \in DOMAIN loads : loads[k].epoch <= Epoch

(* ... those of the last one are of the Session that is open, ...          *)
LoadsAreOfTheirMeeting ==
    \A k \in DOMAIN loads : StillAsked(k) => loads[k].meeting = meetingId

(* ... and while nothing disturbs them there is one at a time: the first   *)
(* page, and then one page after the other.                                *)
Live(k) == StillAsked(k) /\ loads[k].step # "ended"
OneLoad ==
    meetingId # None /\ undisturbed =>
        \A k \in DOMAIN loads : Live(k) =>
            /\ IF loads[k].kind = "first" THEN isLoading /\ offset = 0
                                          ELSE loadingMore
            /\ loads[k].offset = offset
            /\ \A l \in DOMAIN loads : Live(l) => l = k

(* What it has read is what there is.                                      *)
ReadsAreWhole ==
    meetingId # None /\ undisturbed =>
        \A k \in DOMAIN loads : StillAsked(k) =>
            /\ loads[k].step \in {"rows", "answer"} =>
                   loads[k].total = Len(Rows(meetingId))
            /\ loads[k].step = "answer" =>
                   loads[k].rows = Page(Rows(meetingId), loads[k].offset)

(* The offset is not beyond the transcript.                                *)
OffsetIsReached ==
    meetingId # None /\ undisturbed => offset <= Len(Rows(meetingId))

IInv ==
    /\ Shape
    /\ EpochsAreReached /\ LoadsAreOfTheirMeeting
    /\ OneLoad /\ ReadsAreWhole /\ OffsetIsReached
    /\ PagesAreWhole
=============================================================================
