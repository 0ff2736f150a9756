--------------------------- MODULE MCSpeechEngine ---------------------------
(* A small instance of SpeechEngine for TLC: two whole models. *)
EXTENDS SpeechEngine

CONSTANTS big, small

TwoModels == {big, small}
BigOrNone == {big, Nobody}
SmallOrNone == {small, Nobody}

\* Both models are whole, and not yet in the list.
TwoWhole ==
  {[file |-> [m \in TwoModels |-> "whole"],
    status |-> [m \in TwoModels |-> "unlisted"]]}
=============================================================================
