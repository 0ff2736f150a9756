-------------------------- MODULE OriginTimelines --------------------------
(***************************************************************************)
(* How the transcripts of the origins of a Session become one: the         *)
(* segments of each are given a speaker, by the name of the participant at *)
(* the microphone or by diarization, and the timelines are then merged,    *)
(* kept in full, with the passages marked that two origins both have.  Who *)
(* sits at the microphone is written beside the recording at the first     *)
(* transcription, and later ones read it there.                            *)
(*                                                                         *)
(* Sources: src/frontend/src-tauri/src/audio/retranscription.rs            *)
(*          src/frontend/src-tauri/src/audio/diarization.rs                *)
(*          src/frontend/src-tauri/src/audio/common.rs                     *)
(*          src/frontend/src-tauri/src/audio/recording_preferences.rs      *)
(***************************************************************************)
EXTENDS Naturals, Sequences, FiniteSets

CONSTANTS
    Microphone,   \* the origin one participant may have to themself
    System,       \* the origin of everybody else
    Texts,        \* what a segment may say, up to case and punctuation
    Results,      \* what diarization may return: sets of turns
    None,
    MaxTime,      \* the length of the recording
    MaxRuns       \* transcriptions of the same recording

VARIABLES
    timelines,    \* the segments of each origin
    labels,       \* how its speakers came out
    merged,       \* the timeline of the Session
    order,        \* the order in which the origins were merged
    shared,       \* the setting: several people share the microphone
    snapshot,     \* microphone_participants of metadata.json
    runs

vars == <<timelines, labels, merged, order, shared, snapshot, runs>>

-----------------------------------------------------------------------------
(* Types *)

Sources == {Microphone, System}
Times == 0..MaxTime
Segments == [text : Texts, from : Times, to : Times, origin : Sources,
             speakers : SUBSET STRING]

(* The transcripts an origin may have: nothing, or up to two passages, one *)
(* after the other, with no speaker yet.                                   *)
Passage(origin, text, from, to) ==
    [text |-> text, from |-> from, to |-> to, origin |-> origin,
     speakers |-> {}]
Passages(origin) ==
    {Passage(origin, text, from, to) :
        text \in Texts, from \in Times, to \in Times}
Transcripts(origin) ==
    LET spoken == {p \in Passages(origin) : p.from < p.to} IN
    {<<p>> : p \in spoken}
       \cup {pair \in spoken \X spoken : pair[1].to <= pair[2].from}

TypeOK ==
    /\ DOMAIN timelines = Sources
    /\ \A o \in Sources : timelines[o] \in Seq(Segments)
    /\ labels \in [Sources -> {"none", "named", "diarized", "failed"}]
    /\ order \in {<<Microphone, System>>, <<System, Microphone>>}
    /\ shared \in BOOLEAN
    /\ snapshot \in BOOLEAN \cup {None}
    /\ runs \in 0..MaxRuns

NoPassages == [o \in Sources |-> <<>>]
Unlabelled == [o \in Sources |-> "none"]

Init ==
    /\ timelines = NoPassages
    /\ labels = Unlabelled
    /\ merged = None
    /\ order = <<Microphone, System>>
    /\ shared \in BOOLEAN
    /\ snapshot = None
    /\ runs = 0

-----------------------------------------------------------------------------
(* Speakers *)

(* load_or_snapshot_microphone_participants: the first transcription says  *)
(* who is at the microphone.                                               *)
BeginRun ==
    /\ runs < MaxRuns
    /\ \/ runs = 0
       \/ merged # None
    /\ runs' = runs + 1
    /\ snapshot' = IF snapshot = None THEN shared ELSE snapshot
    /\ timelines' = NoPassages
    /\ labels' = Unlabelled
    /\ merged' = None
    /\ UNCHANGED <<order, shared>>

ChangePreference ==
    /\ runs = 1
    /\ merged # None
    /\ shared' = ~shared
    /\ UNCHANGED <<timelines, labels, merged, order, snapshot, runs>>

(* Whose turns overlap a passage.                                          *)
SpeakersIn(turns, passage) ==
    {t.speaker : t \in
        {u \in turns : u.from < passage.to /\ passage.from < u.to}}

Malformed(turns) == \E t \in turns : t.to <= t.from

(* Every passage of the transcript has a speaker.                          *)
Aligned(turns, passages) ==
    \A i \in 1..Len(passages) : SpeakersIn(turns, passages[i]) # {}

(* apply_diarization_result: all the passages get their speakers, or the   *)
(* transcript stays as it was.                                             *)
Diarized(turns, passages) ==
    IF turns = {} \/ Malformed(turns) \/ ~Aligned(turns, passages)
    THEN passages
    ELSE [i \in 1..Len(passages) |->
            [passages[i] EXCEPT !.speakers = SpeakersIn(turns, passages[i])]]

Named(passages) ==
    [i \in 1..Len(passages) |-> [passages[i] EXCEPT !.speakers = {"You"}]]

(* The origins are processed one after the other.                          *)
Ready(o) ==
    /\ runs > 0
    /\ merged = None
    /\ labels[o] = "none"
    /\ o = System => labels[Microphone] # "none"

NameMicrophone ==
    /\ Ready(Microphone)
    /\ ~snapshot
    /\ \E passages \in Transcripts(Microphone) :
          timelines' = [timelines EXCEPT ![Microphone] = Named(passages)]
    /\ labels' = [labels EXCEPT ![Microphone] = "named"]
    /\ UNCHANGED <<merged, order, shared, snapshot, runs>>

Diarize(o) ==
    /\ Ready(o)
    /\ o = Microphone => snapshot
    /\ \E passages \in Transcripts(o), turns \in Results :
          /\ timelines' = [timelines EXCEPT ![o] = Diarized(turns, passages)]
          /\ labels' = [labels EXCEPT
                ![o] = IF turns = {} \/ Malformed(turns)
                          \/ ~Aligned(turns, passages)
                       THEN "failed" ELSE "diarized"]
    /\ UNCHANGED <<merged, order, shared, snapshot, runs>>

-----------------------------------------------------------------------------
(* The merge *)

(* Mutation of Precedes: the origin does not break a tie.                  *)
PrecedesByTime(p, q) ==
    \/ p.from < q.from
    \/ p.from = q.from /\ p.to < q.to

Rank(o) == IF o = Microphone THEN 0 ELSE 1

(* By beginning, then by end, then by the name of the origin.              *)
Precedes(p, q) ==
    \/ p.from < q.from
    \/ p.from = q.from /\ p.to < q.to
    \/ p.from = q.from /\ p.to = q.to /\ Rank(p.origin) < Rank(q.origin)

(* The sort is stable: what ties keeps its order.                          *)
Sorted(s) ==
    LET Before(i, j) == \/ Precedes(s[i], s[j])
                        \/ ~Precedes(s[j], s[i]) /\ i < j
        At(k) == CHOOSE i \in 1..Len(s) :
                    Cardinality({j \in 1..Len(s) : Before(j, i)}) = k - 1
    IN [k \in 1..Len(s) |-> s[At(k)]]

Overlapping(p, q) == p.from <= q.to /\ q.from <= p.to

Twins(p, q) ==
    /\ p.origin # q.origin
    /\ p.text = q.text
    /\ Overlapping(p, q)

Lower(a, b) == IF a < b THEN a ELSE b
Upper(a, b) == IF a < b THEN b ELSE a

(* What the identity of a group is computed from.                          *)
Group(p, q) == <<p.text, Lower(p.from, q.from), Upper(p.to, q.to)>>

(* The pairs are visited with the earlier passage outermost, and each one  *)
(* overwrites the group of both, so that a passage keeps the group of its  *)
(* last twin.                                                              *)
Marked(s) ==
    LET twinsOf(i) == {j \in 1..Len(s) : Twins(s[i], s[j])}
        last(i) == CHOOSE j \in twinsOf(i) : \A k \in twinsOf(i) : k <= j
    IN [i \in 1..Len(s) |->
          [passage |-> s[i],
           group |-> IF twinsOf(i) = {} THEN None
                     ELSE Group(s[i], s[last(i)])]]

MergeIn(o) == Marked(Sorted(timelines[o[1]] \o timelines[o[2]]))

Merge ==
    /\ runs > 0
    /\ merged = None
    /\ \A o \in Sources : labels[o] # "none"
    /\ \E o \in {<<Microphone, System>>, <<System, Microphone>>} :
          /\ order' = o
          /\ merged' = MergeIn(o)
    /\ UNCHANGED <<timelines, labels, shared, snapshot, runs>>

Next ==
    \/ BeginRun
    \/ ChangePreference
    \/ NameMicrophone
    \/ \E o \in Sources : Diarize(o)
    \/ Merge

Spec == Init /\ [][Next]_vars

-----------------------------------------------------------------------------
(* Properties *)

(* The timeline of the Session does not depend on the order in which its   *)
(* origins come (merge_origin_timelines).                                  *)
MergeIgnoresTheOrder ==
    merged # None =>
        MergeIn(order) = MergeIn(<<order[2], order[1]>>)

(* The merge keeps every passage of every origin, and marks a passage as   *)
(* an ambiguous duplicate exactly when the other origin says the same      *)
(* during, or next to, the same time (mark_ambiguous_duplicates).          *)
DuplicatesAreKeptAndMarked ==
    merged # None =>
        /\ Len(merged) = Len(timelines[Microphone]) + Len(timelines[System])
        /\ \A i \in 1..Len(merged) :
              LET p == merged[i].passage IN
              merged[i].group # None <=>
                 \E o \in Sources \ {p.origin} :
                    \E k \in 1..Len(timelines[o]) :
                       /\ timelines[o][k].text = p.text
                       /\ timelines[o][k].to >= p.from
                       /\ timelines[o][k].from <= p.to

(* The speakers of an origin are complete or absent, and say so: a         *)
(* transcript whose labels are complete has a speaker for each passage,    *)
(* any other has none (apply_diarization_result).                          *)
SpeakersAreCompleteOrAbsent ==
    \A o \in Sources : \A i \in 1..Len(timelines[o]) :
        (timelines[o][i].speakers # {}) <=> labels[o] \in {"named", "diarized"}
=============================================================================
