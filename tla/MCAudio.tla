------------------------------ MODULE MCAudio -------------------------------
(* Small instances of Audio: one or two of whatever may interleave, and    *)
(* lengths at which a window, a chunk, a piece and its overlap differ.     *)
(* Jobs, imports and summaries are the same two values, which no component *)
(* tells apart; nor does one the texts that are summarised.                *)
EXTENDS Audio, TLC

CONSTANTS j1, j2, v1, v2

Windows == [capture |-> 1, origin |-> 1]
Times == [track |-> 3, timelines |-> 2, clock |-> 7]
Faults == [track |-> 1, import |-> 1, origin |-> 1, models |-> 1, clock |-> 1]
Crashes == [track |-> 1, import |-> 1, models |-> 1]

Turn(s, f, t) == [speaker |-> s, from |-> f, to |-> t]
SomeResults ==
    {{}, {Turn("A", 0, 2)}, {Turn("A", 0, 1)},
     {Turn("A", 1, 1), Turn("A", 0, 2)}, {Turn("A", 0, 2), Turn("B", 1, 2)}}

ValueSymmetry == Permutations({j1, j2}) \cup Permutations({v1, v2})
=============================================================================
