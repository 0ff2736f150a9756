-------------------------- MODULE RepetitionFilter --------------------------
(***************************************************************************)
(* What the Whisper engine does to the words of a segment before anyone    *)
(* sees them: an output that means nothing is dropped, a word said several *)
(* times in a row is kept once, so is a phrase of two to five words said   *)
(* twice, and a text that still repeats itself too much is dropped.        *)
(*                                                                         *)
(* Sources: src/frontend/src-tauri/src/whisper_engine/whisper_engine.rs    *)
(***************************************************************************)
EXTENDS Integers, Sequences, FiniteSets, FiniteSetsExt

CONSTANTS
    Words,
    MaxWords

VARIABLES
    words,        \* the words of the segment
    meaningless,  \* it holds one of the known patterns
    phase,
    i,            \* where the loop stands, from 1
    input,        \* what this phase reads
    output        \* what it has kept

vars == <<words, meaningless, phase, i, input, output>>

-----------------------------------------------------------------------------
(* Types *)

TypeOK ==
    /\ \A k \in DOMAIN words : words[k] \in Words
    /\ meaningless \in BOOLEAN
    /\ phase \in {"text", "words", "phrases", "ratio", "done"}
    /\ i \in 1..(MaxWords + 1)
    /\ \A k \in DOMAIN input : input[k] \in Words
    /\ \A k \in DOMAIN output : output[k] \in Words

-----------------------------------------------------------------------------
(* The segment is dropped, kept as it is, or looked at. *)

Drop == phase' = "done" /\ output' = <<>>

Look ==
    /\ phase = "text"
    /\ \/ meaningless /\ Drop
       \/ /\ ~meaningless
          /\ Len(words) < 3
          /\ phase' = "done"
          /\ output' = words
       \/ /\ ~meaningless
          /\ Len(words) >= 3
          /\ phase' = "words"
          /\ UNCHANGED output
    /\ UNCHANGED <<words, meaningless, i, input>>

-----------------------------------------------------------------------------
(* remove_word_repetitions *)

(* Mutation of Repeats: the last repetition is not counted. *)
RepeatsButOne(k) ==
    LET same == {n \in 1..(Len(input) - k + 1) :
                    \A j \in k..(k + n - 1) : input[j] = input[k]}
    IN  IF Max(same) > 2 THEN Max(same) - 1 ELSE Max(same)

(* How many times in a row the word at a place is said. *)
Repeats(k) ==
    Max({n \in 1..(Len(input) - k + 1) :
            \A j \in k..(k + n - 1) : input[j] = input[k]})

NextWord ==
    /\ phase = "words"
    /\ i <= Len(input)
    /\ output' = Append(output, input[i])
    /\ i' = i + Repeats(i)
    /\ UNCHANGED <<words, meaningless, phase, input>>

EndOfWords ==
    /\ phase = "words"
    /\ i > Len(input)
    /\ i' = 1
    /\ IF Len(output) < 4
       THEN phase' = "ratio" /\ UNCHANGED <<input, output>>
       ELSE phase' = "phrases" /\ input' = output /\ output' = <<>>
    /\ UNCHANGED <<words, meaningless>>

-----------------------------------------------------------------------------
(* remove_phrase_repetitions *)

(* The lengths of the phrases that begin at a place and are said twice. *)
SaidTwice(k) ==
    {n \in 2..5 :
        /\ k + 2 * n - 1 <= Len(input)
        /\ SubSeq(input, k, k + n - 1) = SubSeq(input, k + n, k + 2 * n - 1)}

NextPhrase ==
    /\ phase = "phrases"
    /\ i <= Len(input)
    /\ IF SaidTwice(i) = {}
       THEN /\ output' = Append(output, input[i])
            /\ i' = i + 1
       ELSE LET n == Min(SaidTwice(i))
            IN  /\ output' = output \o SubSeq(input, i, i + n - 1)
                /\ i' = i + 2 * n
    /\ UNCHANGED <<words, meaningless, phase, input>>

EndOfPhrases ==
    /\ phase = "phrases"
    /\ i > Len(input)
    /\ phase' = "ratio"
    /\ UNCHANGED <<words, meaningless, i, input, output>>

-----------------------------------------------------------------------------
(* calculate_repetition_ratio: how many words are said again, of all. *)

TooRepetitive(said) ==
    LET again == Len(said) - Cardinality({said[k] : k \in DOMAIN said})
    IN  Len(said) >= 4 /\ 10 * again > 7 * Len(said)

Judge ==
    /\ phase = "ratio"
    /\ phase' = "done"
    /\ output' = IF TooRepetitive(output) THEN <<>> ELSE output
    /\ UNCHANGED <<words, meaningless, i, input>>

-----------------------------------------------------------------------------
(* The specification *)

Init ==
    /\ \E n \in 1..MaxWords : words \in [1..n -> Words]
    /\ meaningless \in BOOLEAN
    /\ phase = "text"
    /\ i = 1
    /\ input = words
    /\ output = <<>>

Next == Look \/ NextWord \/ EndOfWords \/ NextPhrase \/ EndOfPhrases \/ Judge

Spec == Init /\ [][Next]_vars

-----------------------------------------------------------------------------
(* Properties *)

Heard(said, word) == {k \in DOMAIN said : said[k] = word}

(* A segment of three words or more that is not dropped says no word twice *)
(* in a row, although taking a phrase out brings words together that were  *)
(* apart; and taking repetitions out never takes a word out altogether.    *)
RepetitionsAreGone ==
    phase = "done" /\ Len(words) > 2 /\ output # <<>> =>
        /\ \A k \in 2..Len(output) : output[k] # output[k - 1]
        /\ \A k \in DOMAIN words : Heard(output, words[k]) # {}

=============================================================================
