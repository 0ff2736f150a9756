---------------------------- MODULE OriginAudio ----------------------------
(***************************************************************************)
(* What becomes of the file of one audio origin until the speech model has *)
(* heard it: FFmpeg converts it to the rate of the model, it is decoded    *)
(* packet by packet, searched for speech, long stretches of speech are cut *)
(* where they are quiet, and the pieces are transcribed one by one, those  *)
(* that are too short excepted.  A sample is known by its place among the  *)
(* decoded ones, so that the model can tell whether it is left out or      *)
(* heard twice; its value is left out.  What the detector takes for speech *)
(* is any stretch of the audio.                                            *)
(*                                                                         *)
(* Sources: src/frontend/src-tauri/src/audio/decoder.rs                    *)
(*          src/frontend/src-tauri/src/audio/vad.rs                        *)
(*          src/frontend/src-tauri/src/audio/common.rs                     *)
(*          src/frontend/src-tauri/src/audio/retranscription.rs            *)
(***************************************************************************)
EXTENDS Integers, Sequences

CONSTANTS
    MaxPackets,   \* bound: packets of a file, one sample each
    MaxStretches, \* bound: stretches of speech
    MaxPiece,     \* MAX_SEGMENT_SAMPLES (25 s)
    Radius,       \* SEARCH_RADIUS (3 s)
    Second,       \* SAMPLE_RATE and FALLBACK_OVERLAP (1 s)
    Window,       \* ENERGY_WINDOW (100 ms)
    Minimum,      \* samples of the shortest piece that is heard (100 ms)
    MaxFaults     \* bound: packets that do not decode, calls that fail

VARIABLES
    stage,        \* where the file is
    packets,      \* packets of the track read so far
    samples,      \* samples decoded from them
    stretches,    \* the speech found: first sample, and the one after the last
    position,     \* where the next piece of the stretch being cut begins
    cut,          \* stretches that are cut
    pieces,       \* the pieces of all stretches, in their order
    passed,       \* pieces that were heard or passed over
    heard,        \* the pieces the speech model was given
    faults

vars == <<stage, packets, samples, stretches, position, cut, pieces, passed,
          heard, faults>>

-----------------------------------------------------------------------------
(* Types *)

Stages == {"converting", "decoding", "detecting", "splitting", "loading",
           "transcribing", "done", "failed", "cancelled"}
Stretches == [from : 0..MaxPackets, to : 0..MaxPackets]
Pieces == [stretch : 1..MaxStretches, from : 0..MaxPackets, to : 0..MaxPackets]

TypeOK ==
    /\ stage \in Stages
    /\ packets \in 0..MaxPackets
    /\ samples \in 0..MaxPackets
    /\ stretches \in Seq(Stretches)
    /\ position \in 0..MaxPackets
    /\ cut \in 0..MaxStretches
    /\ pieces \in Seq(Pieces)
    /\ passed \in Nat
    /\ heard \subseteq Pieces
    /\ faults \in 0..MaxFaults

Init ==
    /\ stage = "converting"
    /\ packets = 0
    /\ samples = 0
    /\ stretches = <<>>
    /\ position = 0
    /\ cut = 0
    /\ pieces = <<>>
    /\ passed = 0
    /\ heard = {}
    /\ faults = 0

Least(a, b) == IF a < b THEN a ELSE b
Most(a, b) == IF a < b THEN b ELSE a
Fault == faults < MaxFaults /\ faults' = faults + 1

-----------------------------------------------------------------------------
(* Decoding *)

(* FFmpeg ends with an error or an empty file, or leaves a WAV file.       *)
Convert ==
    /\ stage = "converting"
    /\ \/ stage' = "decoding" /\ UNCHANGED faults
       \/ stage' = "failed" /\ Fault
    /\ UNCHANGED <<packets, samples, stretches, position, cut, pieces, passed,
                   heard>>

(* A packet that does not decode is passed over: what follows moves up.    *)
NextPacket ==
    /\ stage = "decoding"
    /\ packets < MaxPackets
    /\ packets' = packets + 1
    /\ \/ samples' = samples + 1 /\ UNCHANGED faults
       \/ UNCHANGED samples /\ Fault
    /\ UNCHANGED <<stage, stretches, position, cut, pieces, passed, heard>>

(* The end of the file, and a packet that cannot be read, end the loop.    *)
EndOfFile ==
    /\ stage = "decoding"
    /\ stage' = IF samples = 0 THEN "failed" ELSE "detecting"
    /\ UNCHANGED <<packets, samples, stretches, position, cut, pieces, passed,
                   heard, faults>>

-----------------------------------------------------------------------------
(* Detection *)

(* The stretches come in the order in which they end.                      *)
FindSpeech ==
    /\ stage = "detecting"
    /\ Len(stretches) < MaxStretches
    /\ \E from, to \in 0..samples :
          /\ from < to
          /\ stretches # <<>> => to > stretches[Len(stretches)].to
          /\ stretches' = Append(stretches, [from |-> from, to |-> to])
    /\ UNCHANGED <<stage, packets, samples, position, cut, pieces, passed,
                   heard, faults>>

EndDetection ==
    /\ stage = "detecting"
    /\ IF stretches = <<>>
          THEN stage' = "failed" /\ UNCHANGED position
          ELSE stage' = "splitting" /\ position' = stretches[1].from
    /\ UNCHANGED <<packets, samples, stretches, cut, pieces, passed, heard,
                   faults>>

-----------------------------------------------------------------------------
(* Cutting long speech *)

Current == cut + 1
End == stretches[Current].to

Piece(to) == [stretch |-> Current, from |-> position, to |-> to]

(* The stretch being cut ends with this piece: the next one begins.        *)
LeaveStretch ==
    /\ cut' = Current
    /\ IF Current = Len(stretches)
          THEN stage' = "loading" /\ UNCHANGED position
          ELSE position' = stretches[Current + 1].from /\ UNCHANGED stage

CutLast ==
    /\ stage = "splitting"
    /\ End - position <= MaxPiece
    /\ pieces' = Append(pieces, Piece(End))
    /\ LeaveStretch
    /\ UNCHANGED <<packets, samples, stretches, passed, heard, faults>>

(* Where a window of the search range may stand, none if it has no room.   *)
(* Before Second samples of the piece there is none.                       *)
Target == position + MaxPiece
Windows ==
    {i \in Most(Target - Radius, position + Second)..End :
        i + Window <= Least(Target + Radius, End - Window)}
Splits ==
    IF Windows = {} THEN {Target} ELSE {i + Window \div 2 : i \in Windows}

(* Mutation of CutOnce: the next piece starts before the overlap.          *)
CutTwice ==
    /\ stage = "splitting"
    /\ End - position > MaxPiece
    /\ \E split \in Splits, silent \in BOOLEAN :
          /\ silent => Windows # {}
          /\ pieces' = Append(pieces,
                              Piece(IF silent THEN split
                                    ELSE Least(split + Second, End)))
          /\ position' = split
    /\ UNCHANGED <<stage, packets, samples, stretches, cut, passed, heard,
                   faults>>

(* The piece ends in the middle of the quietest window; if that is not     *)
(* silence, or there is none, it goes on for a second.                     *)
CutOnce ==
    /\ stage = "splitting"
    /\ End - position > MaxPiece
    /\ \E split \in Splits, silent \in BOOLEAN :
          LET to == IF silent THEN split ELSE Least(split + Second, End) IN
          /\ silent => Windows # {}
          /\ pieces' = Append(pieces, Piece(to))
          /\ IF to = End THEN LeaveStretch
                         ELSE position' = to /\ UNCHANGED <<stage, cut>>
    /\ UNCHANGED <<packets, samples, stretches, passed, heard, faults>>

-----------------------------------------------------------------------------
(* Transcription *)

(* The model is there, or it can be loaded.                                *)
LoadEngine ==
    /\ stage = "loading"
    /\ \/ stage' = "transcribing" /\ UNCHANGED faults
       \/ stage' = "failed" /\ Fault
    /\ UNCHANGED <<packets, samples, stretches, position, cut, pieces, passed,
                   heard>>

(* A piece that is too short is passed over; a failure ends it all.        *)
Transcribe ==
    /\ stage = "transcribing"
    /\ passed < Len(pieces)
    /\ LET piece == pieces[passed + 1] IN
       \/ /\ piece.to - piece.from < Minimum
          /\ UNCHANGED <<stage, heard, faults>>
       \/ /\ piece.to - piece.from >= Minimum
          /\ heard' = heard \cup {piece}
          /\ UNCHANGED <<stage, faults>>
       \/ /\ piece.to - piece.from >= Minimum
          /\ stage' = "failed"
          /\ Fault
          /\ UNCHANGED heard
    /\ passed' = passed + 1
    /\ UNCHANGED <<packets, samples, stretches, position, cut, pieces>>

(* Pieces without any text are a failure of the origin.                    *)
EndTranscription ==
    /\ stage = "transcribing"
    /\ passed = Len(pieces)
    /\ \/ stage' = "failed"
       \/ stage' = "done" /\ heard # {}
    /\ UNCHANGED <<packets, samples, stretches, position, cut, pieces, passed,
                   heard, faults>>

(* ensure_not_cancelled, and the question of the detector, at every        *)
(* twentieth of a long file, whether to go on.                             *)
Cancel ==
    /\ stage \in {"converting", "detecting", "transcribing"}
    /\ stage' = "cancelled"
    /\ UNCHANGED <<packets, samples, stretches, position, cut, pieces, passed,
                   heard, faults>>

Next ==
    \/ Convert
    \/ NextPacket
    \/ EndOfFile
    \/ FindSpeech
    \/ EndDetection
    \/ CutLast
    \/ CutOnce
    \/ LoadEngine
    \/ Transcribe
    \/ EndTranscription
    \/ Cancel

Spec == Init /\ [][Next]_vars

-----------------------------------------------------------------------------
(* Properties *)

(* No sample of a stretch of speech is in two pieces that are heard, and   *)
(* no piece is longer than what the search for silence may add to its      *)
(* length, so that the window of the model holds it                        *)
(* (split_segment_at_silence).                                             *)
NothingIsHeardTwice ==
    /\ \A p, q \in heard :
          p # q /\ p.stretch = q.stretch => p.to <= q.from \/ q.to <= p.from
    /\ \A p \in heard :
          /\ p.from < p.to
          /\ p.to - p.from <= MaxPiece + Radius + Second

(* Of the speech nothing is left out but what is too short at the end of a *)
(* stretch, where the cuts may leave less than a piece                     *)
(* (process_audio_origin, split_segment_at_silence).                       *)
OnlyTailsAreLeftOut ==
    stage = "done" =>
        \A s \in 1..Len(stretches) :
            \A sample \in stretches[s].from..(stretches[s].to - Minimum) :
                \E p \in heard :
                    p.stretch = s /\ p.from <= sample /\ sample < p.to
=============================================================================
