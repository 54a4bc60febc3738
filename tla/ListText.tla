------------------------------ MODULE ListText ------------------------------
(***************************************************************************)
(* What a concept shows (src/src/inflection/dialog): an                    *)
(* InflectableStringConcept the form its constraints ask for, a            *)
(* SemanticConceptList what its items show, one after the other, between   *)
(* its separators and affixes.                                             *)
(*                                                                         *)
(* A text is a sequence of tokens; that what is printed and what is spoken *)
(* may differ is left out.  A string and a list are records of the same    *)
(* fields: a string has no items, a list no word.  The lists are of        *)
(* strings: a list of lists, which the code allows, is left out.           *)
(***************************************************************************)
EXTENDS Integers, SequencesExt

CONSTANTS Words,       \* what an InflectableStringConcept is created from
          NoWord,
          Features,    \* the features that can be constrained
          Categories,  \* those of them that are grammatical categories
          Values,      \* what a constraint can ask for
          NoValue,
          Tokens,      \* what texts are made of
          NoText,      \* nullptr instead of a SpeakableString
          Inflected,   \* the form of a word under constraints, by the default
                       \* display function or, without one, the word itself
          Known        \* what the default feature function knows of it

Text        == Seq(Tokens)
Constraints == [Features -> Values \cup {NoValue}]
Separators  == {"beforeFirst", "afterFirst", "itemDelimiter", "beforeLast",
                "afterLast", "itemPrefix", "itemSuffix"}

ASSUME TextAssumption ==
  /\ NoWord \notin Words /\ NoValue \notin Values /\ NoText \notin Text
  /\ Categories \subseteq Features /\ "count" \in Features
  /\ Values \subseteq Tokens
  /\ Inflected \in [Words \X Constraints -> Text]
  /\ Known \in [Words \X Features \X Constraints -> Text \cup {NoText}]

Format == [text : [Separators -> Text], avoidAffixRedundancy : BOOLEAN]
Plain  == [text |-> [s \in Separators |-> << >>], avoidAffixRedundancy |-> TRUE]
NoConstraints == [f \in Features |-> NoValue]

StringConcept(word) ==
  [word |-> word, items |-> << >>, format |-> Plain, constraints |-> NoConstraints]
IsList(c) == c.word = NoWord

-----------------------------------------------------------------------------
StringText(c) == Inflected[c.word, c.constraints]

\* getFeatureValue of a string: its constraint, or what is known of its form.
StringFeature(c, f) ==
  IF c.constraints[f] # NoValue THEN <<c.constraints[f]>>
                                ELSE Known[c.word, f, c.constraints]

Shows(t) == t \notin {NoText, << >>}

\* Mutant of Delimiter: what goes behind the first item replaces what goes before
\* the last.
Delimiter_NotLast(text, n, i, p) ==
  IF p = 1 /\ text["afterFirst"] # << >> THEN text["afterFirst"]
  ELSE IF i = n THEN text["beforeLast"] ELSE text["itemDelimiter"]

\* What is shown before item i of n when item p was the last one shown.
Delimiter(text, n, i, p) ==
  LET special == (IF p = 1 THEN text["afterFirst"] ELSE << >>)
                   \o (IF i = n THEN text["beforeLast"] ELSE << >>)
  IN  IF special = << >> THEN text["itemDelimiter"] ELSE special

WithAffixes(format, t) ==
  LET prefix == format.text["itemPrefix"]
      suffix == format.text["itemSuffix"]
      Avoid(has) == format.avoidAffixRedundancy /\ has
  IN  (IF Avoid(IsPrefix(prefix, t)) THEN << >> ELSE prefix) \o t
        \o (IF Avoid(IsSuffix(suffix, t)) THEN << >> ELSE suffix)

\* The text of items 1 to i of those with the texts r, after the text `before'
\* of the earlier ones; item p was the last one shown.
WithItem(format, r, i, before, p) ==
  LET text == format.text
      n    == Len(r)
  IN  before \o (IF i = 1 THEN text["beforeFirst"] ELSE << >>)
             \o (IF i > 1 /\ p > 0 THEN Delimiter(text, n, i, p) ELSE << >>)
             \o WithAffixes(format, r[i])
             \o (IF i = n THEN text["afterLast"] ELSE << >>)

\* SemanticConceptList::toSpeakableString of items that have the texts r.
Joined(format, r) ==
  LET upTo[i \in 0..Len(r)] ==
        IF i = 0 THEN [text |-> << >>, previous |-> 0]
        ELSE IF ~Shows(r[i]) THEN upTo[i - 1]
        ELSE [text |-> WithItem(format, r, i, upTo[i - 1].text, upTo[i - 1].previous),
              previous |-> i]
  IN  upTo[Len(r)].text

TextsOf(c)       == [i \in DOMAIN c.items |-> StringText(c.items[i])]
FeaturesOf(c, f) == [i \in DOMAIN c.items |-> StringFeature(c.items[i], f)]
ListOf(format, r) == IF r = << >> THEN NoText ELSE Joined(format, r)

\* toSpeakableString and getFeatureValue of a concept.
Shown(c) == IF IsList(c) THEN ListOf(c.format, TextsOf(c)) ELSE StringText(c)

FeatureOf(c, f) ==
  IF ~IsList(c) THEN StringFeature(c, f)
  ELSE IF f \in Categories /\ c.items # << >> THEN StringFeature(c.items[1], f)
  ELSE ListOf(c.format, FeaturesOf(c, f))

-----------------------------------------------------------------------------
\* What the comments of SemanticConceptList.hpp say of a list whose items all
\* show something: beforeFirst "before the entire list", afterFirst "after the
\* first value and before the second", beforeLast before the last of at least
\* two, itemDelimiter "the default", afterLast "after the entire list".
Documented(format, r) ==
  LET text == format.text
      Between(i) == IF 2 = i /\ i = Len(r) THEN text["afterFirst"] \o text["beforeLast"]
                    ELSE IF i = 2 THEN text["afterFirst"]
                    ELSE IF i = Len(r) THEN text["beforeLast"] ELSE << >>
      Before(i) == IF i = 1 THEN << >>
                   ELSE IF Between(i) = << >> THEN text["itemDelimiter"] ELSE Between(i)
  IN  text["beforeFirst"]
        \o FlattenSeq([i \in DOMAIN r |-> Before(i) \o WithAffixes(format, r[i])])
        \o text["afterLast"]
=============================================================================
