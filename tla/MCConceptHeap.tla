---------------------------- MODULE MCConceptHeap ----------------------------
(***************************************************************************)
(* Strings of two words, one of which has a plural that ends like the      *)
(* suffix of a list and one that shows nothing, and lists of up to three   *)
(* of them.  A category that is counted and a feature that is known of     *)
(* words only.  Objects get the lowest free addresses.                     *)
(***************************************************************************)
EXTENDS ConceptHeap, FiniteSets, TLC

Symmetry == Permutations(Handles)

MCTokens == {"cat", "s", "singular", "plural", "dual", "vowel", "2", "3", ",", "and", "(", ")",
             "or", "the"}
MCConstraints == [{"count", "sound"} -> {"singular", "plural", NoValue}]

MCInflected == [wc \in {"cat", "nothing"} \X MCConstraints |->
  IF wc[1] = "nothing" THEN << >>
  ELSE IF wc[2]["count"] = "plural" THEN <<"cat", "s">> ELSE <<"cat">>]

MCKnown == [wfc \in {"cat", "nothing"} \X {"count", "sound"} \X MCConstraints |->
  IF wfc[1] = "nothing" \/ wfc[2] = "count" THEN NoText ELSE <<"vowel">>]

MCFresh(S, n) ==
  IF Cardinality(S) <= n THEN {}
  ELSE {[i \in 0..n |-> CHOOSE x \in S : Cardinality({y \in S : y < x}) = i]}

MCNumbers == [n \in {"two", "three"} |-> IF n = "two" THEN <<"2">> ELSE <<"3">>]
MCCountOf == [n \in {"two", "three"} |-> IF n = "two" THEN "dual" ELSE "plural"]
MCConjunctions == {[two |-> <<"and">>, first |-> <<",">>, second |-> <<",", "and">>]}
MCSettings ==
  { <<"beforeFirst", <<"(">> >>, <<"afterFirst", <<"or">> >>, <<"itemDelimiter", << >> >>,
    <<"beforeLast", << >> >>, <<"afterLast", <<")">> >>, <<"itemPrefix", <<"the">> >>,
    <<"itemSuffix", <<"s">> >> }
=============================================================================
