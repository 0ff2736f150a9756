----------------------------- MODULE TextChunks -----------------------------
(***************************************************************************)
(* How a transcript that is too long for a local model is cut into chunks, *)
(* each of which is summarised by itself.  A window of fixed size moves    *)
(* over the text by a fixed step; a chunk begins where its window does and *)
(* ends after the last sentence of it, or else after its last word.        *)
(*                                                                         *)
(* Sources: src/frontend/src-tauri/src/summary/processor.rs                *)
(***************************************************************************)
EXTENDS Integers, Sequences, FiniteSetsExt

CONSTANTS
    MaxLength,    \* of a text
    Size,         \* chunk_size_chars
    Overlap       \* overlap_chars

VARIABLES
    text,         \* what each character is
    start,        \* start_char
    chunks,       \* the chunks so far
    done

vars == <<text, start, chunks, done>>

-----------------------------------------------------------------------------
(* Types: a character, a blank, or a blank that follows a full stop.  A    *)
(* chunk is where it begins and how many characters lie before its end.    *)

Kinds == {"char", "blank", "stop"}
Chunks == [from : 0..MaxLength, to : 0..MaxLength]

TypeOK ==
    /\ \A i \in DOMAIN text : text[i] \in Kinds
    /\ start \in 0..(MaxLength + Size)
    /\ \A k \in DOMAIN chunks : chunks[k] \in Chunks
    /\ done \in BOOLEAN

-----------------------------------------------------------------------------
(* The window and where its chunk ends *)

Total == Len(text)
End(from) == IF from + Size < Total THEN from + Size ELSE Total

Step == IF Size > Overlap THEN Size - Overlap ELSE 1

(* The end of the last chunk is the end of the text, whatever precedes it; *)
(* the blank of a full stop is a blank where no sentence ends.  Both       *)
(* characters of the full stop lie in the window.                          *)
Cut(from) ==
    LET sentence == {i \in (from + 2)..End(from) : text[i] = "stop"}
        word == {i \in (from + 1)..End(from) : text[i] # "char"}
    IN  IF End(from) = Total THEN Total
        ELSE IF sentence # {} THEN Max(sentence)
        ELSE IF word # {} THEN Max(word)
        ELSE End(from)

(* A text no longer than a chunk is one. *)
OneChunk ==
    /\ ~done
    /\ Total <= Size
    /\ chunks' = <<[from |-> 0, to |-> Total]>>
    /\ done' = TRUE
    /\ UNCHANGED <<text, start>>

NextChunk ==
    /\ ~done
    /\ Total > Size
    /\ chunks' = Append(chunks, [from |-> start, to |-> Cut(start)])
    /\ IF End(start) = Total
       THEN done' = TRUE /\ UNCHANGED start
       ELSE start' = start + Step /\ UNCHANGED done
    /\ UNCHANGED text

-----------------------------------------------------------------------------
(* The specification *)

Init ==
    /\ \E n \in 1..MaxLength :
        text \in {t \in [1..n -> Kinds] :
            \A i \in 1..n : t[i] = "stop" => i > 1 /\ t[i - 1] = "char"}
    /\ start = 0
    /\ chunks = <<>>
    /\ done = FALSE

Next == OneChunk \/ NextChunk

Spec == Init /\ [][Next]_vars

-----------------------------------------------------------------------------
(* Properties *)

Covered(i) == \E k \in DOMAIN chunks : chunks[k].from < i /\ i <= chunks[k].to

(* Every chunk ends in the overlap: its window has a place to break there. *)
BreaksAreNear ==
    \A k \in DOMAIN chunks : chunks[k].to >= End(chunks[k].from) - Overlap

(* When every chunk ends among the characters that the next one repeats,   *)
(* no part of the transcript is missing from what is summarised, and no    *)
(* chunk is larger than the model was asked to take.                       *)
NothingIsLeftOut ==
    done =>
        /\ \A k \in DOMAIN chunks : chunks[k].to - chunks[k].from <= Size
        /\ BreaksAreNear => \A i \in 1..Total : Covered(i)

(* chunk_text, processor.rs line 183: "Chunks text into overlapping        *)
(* segments based on token count".                                         *)
ChunksOverlap ==
    \A k \in 2..Len(chunks) : chunks[k].from <= chunks[k - 1].to

=============================================================================
