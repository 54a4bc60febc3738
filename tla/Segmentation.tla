---------------------------- MODULE Segmentation ----------------------------
(***************************************************************************)
(* What a TokenExtractorIterator promises its caller: the ends of the      *)
(* tokens of a text, each after the one before, the last one the end of    *)
(* the text, and only then that there are no more                          *)
(* (src/src/inflection/tokenizer/iterator/TokenExtractorIterator.hpp).     *)
(***************************************************************************)
EXTENDS Integers

CONSTANTS Lengths
VARIABLES length, cut, ended

Init == length \in Lengths /\ cut = 0 /\ ended = (length = 0)

Advance == ~ended /\ cut' \in (cut + 1)..length /\ UNCHANGED <<length, ended>>

End == ~ended /\ cut = length /\ ended' = TRUE /\ UNCHANGED <<length, cut>>

Next == Advance \/ End
Spec == Init /\ [][Next]_<<length, cut, ended>>
=============================================================================
