------------------------------ MODULE Concepts ------------------------------
(***************************************************************************)
(* What the operations on concepts promise a caller: concepts are values.  *)
(* A list has values of its own, a clone is another value, and to show or  *)
(* to quantify a concept leaves all of them as they are                    *)
(* (src/src/inflection/dialog/SemanticFeatureConceptBase.hpp).             *)
(***************************************************************************)
EXTENDS ListText

CONSTANTS Handles,       \* the concepts a caller can have
          CountForms,    \* bounded values of the count feature
          Counting,      \* does a factory's language tell counts apart?
          Numbers,       \* numbers: what is shown of each
          CountOf,       \* and the count it selects
          Thrown         \* an exception instead of a result

VARIABLES value,         \* the concept of a handle, if it has one
          quantifying,   \* the handle that is being quantified, or Nothing
          result         \* what was shown last

vars == <<value, quantifying, result>>

Nothing == [concept |-> FALSE]
Held(h) == value[h] # Nothing

\* c with v as the constraint for the features F; Set does so for its items as well.
PutOn(c, F, v) ==
  [c EXCEPT !.constraints = [f \in Features |-> IF f \in F THEN v ELSE @[f]]]
Set(c, F, v) ==
  [PutOn(c, F, v) EXCEPT !.items = [i \in DOMAIN c.items |-> PutOn(c.items[i], F, v)]]

\* A clone is the same but for avoidAffixRedundancy, which it does not take over.
Copy(c) == [c EXCEPT !.format.avoidAffixRedundancy = TRUE]

\* What is shown of a number of something: the form for its count, if the
\* language has one, else the concept as it is.
ForCount(c, n) == IF CountOf[n] \in CountForms THEN Set(Copy(c), {"count"}, CountOf[n]) ELSE Copy(c)
NounPhrase(c, n, counts) ==
  IF counts /\ Shown(ForCount(c, n)) # NoText THEN Shown(ForCount(c, n)) ELSE Shown(c)
Quantified(c, n, counts) ==
  IF NounPhrase(c, n, counts) = NoText THEN Thrown ELSE Numbers[n] \o NounPhrase(c, n, counts)

-----------------------------------------------------------------------------
Init ==
  /\ value = [h \in Handles |-> Nothing]
  /\ quantifying = Nothing /\ result = NoText

\* No concept changes while one is being quantified.
Becomes(h, c) ==
  /\ quantifying = Nothing
  /\ value' = [value EXCEPT ![h] = c] /\ UNCHANGED <<quantifying, result>>

Create(h) ==
  ~Held(h) /\ \E w \in Words : Becomes(h, StringConcept(w))

\* A list of strings, with whatever separators its creator gives it.
CreateList(h) ==
  LET Strings == {value[g] : g \in {g \in Handles : Held(g) /\ ~IsList(value[g])}}
  IN  /\ ~Held(h)
      /\ Becomes(h, value'[h])
      /\ value'[h] \in [word : {NoWord}, items : Seq(Strings), format : Format,
                        constraints : {NoConstraints}]

Constrain(h) ==
  /\ Held(h)
  /\ \/ \E f \in Features, v \in Values \cup {NoValue} : Becomes(h, Set(value[h], {f}, v))
     \/ Becomes(h, Set(value[h], Features, NoValue))

SetFormat(h) ==
  /\ Held(h) /\ IsList(value[h])
  /\ value'[h] # Nothing /\ value'[h].format \in Format
  /\ Becomes(h, [value[h] EXCEPT !.format = value'[h].format])

Clone(h) ==
  /\ ~Held(h)
  /\ \E g \in Handles : Held(g) /\ Becomes(h, Copy(value[g]))

Delete(h) == Held(h) /\ Becomes(h, Nothing)

\* Nothing that only reads changes a value.
Observe(h) ==
  /\ quantifying = Nothing /\ Held(h)
  /\ \/ result' = Shown(value[h])
     \/ \E f \in Features : result' = FeatureOf(value[h], f)
  /\ UNCHANGED <<value, quantifying>>

QuantifyStart(h) ==
  /\ quantifying = Nothing /\ Held(h)
  /\ quantifying' = h /\ UNCHANGED <<value, result>>

QuantifyEnd(h) ==
  /\ quantifying = h
  /\ \E n \in DOMAIN Numbers, counts \in Counting :
       result' \in {Quantified(value[h], n, counts), Thrown}
  /\ quantifying' = Nothing /\ UNCHANGED value

Next == \E h \in Handles :
  \/ Create(h) \/ CreateList(h) \/ Constrain(h) \/ SetFormat(h) \/ Clone(h) \/ Delete(h)
  \/ Observe(h) \/ QuantifyStart(h) \/ QuantifyEnd(h)

Spec == Init /\ [][Next]_vars
=============================================================================
