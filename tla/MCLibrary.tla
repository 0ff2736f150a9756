------------------------------ MODULE MCLibrary ------------------------------
(* Small instances of Library: two of whatever may interleave.  Destinations *)
(* and Sessions, exports and calls are the same two values, which no       *)
(* component tells apart.  One language suffices: it differs from none.    *)
EXTENDS Library, TLC

Passages == <<{1}, {2}>>

Loads == [review |-> 2, pages |-> 3]
Faults ==
    [database |-> 2, review |-> 1, pages |-> 1, handoff |-> 2, setup |-> 1,
     languages |-> 1]
Crashes == [database |-> 2, handoff |-> 1, setup |-> 1, languages |-> 1]

ValueSymmetry == Permutations(Meetings)
=============================================================================
