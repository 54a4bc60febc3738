-------------------------- MODULE SemanticConcepts --------------------------
(***************************************************************************)
(* The concepts that are shown as words (src/src/inflection/dialog): an    *)
(* InflectableStringConcept is of a string, a SemanticConcept of a         *)
(* semantic value, for which a SemanticFeatureModel may have the values to *)
(* display, and a PronounConcept of the pronouns it is chosen from (module *)
(* Pronouns).  All are asked for features and shown under the constraints  *)
(* that were put on them.                                                  *)
(*                                                                         *)
(* A text is a sequence of pieces; a display value has a text and what is  *)
(* known of it, "speak" among that.  The display and feature functions of  *)
(* the languages are parameters here; the modules of the languages say     *)
(* what they are.                                                          *)
(***************************************************************************)
EXTENDS Integers, Sequences, FiniteSets, SequencesExt, TLC

CONSTANTS NoString,         \* nullptr instead of a string
          NoValue,        \* nullptr instead of the value of a feature
          Thrown,         \* an exception
          CommonGrammar,  \* what grammar.xml says of all languages: categories and features, with their values
          Grammars,       \* and of each language
          Generated(_, _, _), \* the display value a language makes of some under constraints, or NoString
          Known(_, _, _, _),  \* what a language knows of a feature of a display value under constraints
          PronounOf(_)    \* the display value of a pronoun under its constraints, or NoString

----------------------------------------------------------------------------
(* SemanticFeatureModel *)

\* A category declared again adds its values to the one that was there, and is
\* aliasable if that was.
AddCategory(categories, c) ==
    IF c.name \in DOMAIN categories
    THEN [categories EXCEPT ![c.name].values = @ \cup c.values]
    ELSE categories @@ (c.name :> c)
CategoriesOf(grammar) == FoldLeft(AddCategory, << >>, CommonGrammar.categories \o grammar.categories)

\* The values of a feature, except of one that is also common to all languages.
FeaturesOf(grammar) == [f \in CommonGrammar.features |-> {}] @@ grammar.features

\* A feature is bounded to the values of its category, or to its own if it has any.
FeatureMap(categories, features) ==
    [f \in DOMAIN categories |->
       [bounded |-> TRUE, values |-> categories[f].values, aliased |-> categories[f].aliasable]]
    @@ [f \in DOMAIN features |->
       [bounded |-> features[f] # {}, values |-> features[f], aliased |-> FALSE]]

\* getLanguageGrammarFeatures: the root has what is common and nothing else.
GrammarOf(language) == IF language = "" THEN [categories |-> << >>, features |-> << >>] ELSE Grammars[language]
ModelOf ==
    [language \in {""} \cup DOMAIN Grammars |->
       FeatureMap(CategoriesOf(GrammarOf(language)), FeaturesOf(GrammarOf(language)))]

HasFeature(language, f) == f \in DOMAIN ModelOf[language]
IsBounded(language, f) == ModelOf[language][f].bounded
BoundedValues(language, f) == ModelOf[language][f].values

\* The feature that a value alone stands for.
FeatureAlias(language, v) ==
    LET of == {f \in DOMAIN ModelOf[language] : ModelOf[language][f].aliased /\ v \in BoundedValues(language, f)}
    IN  IF of = {} THEN NoValue ELSE CHOOSE f \in of : TRUE

----------------------------------------------------------------------------

DisplayValue(text) == [text |-> text, known |-> <<>>]

StringConcept(language, text) ==
    [kind |-> "string", language |-> language, values |-> <<DisplayValue(text)>>, name |-> text,
     defaults |-> TRUE, constraints |-> <<>>]

\* Without a value to display, a concept has to be shown as its own name.
SemanticConcept(language, name, values, byName) ==
    IF ~byName /\ values = <<>> THEN Thrown
    ELSE [kind |-> "semantic", language |-> language, values |-> values, name |-> name,
          defaults |-> byName, constraints |-> <<>>]

\* putConstraint: nothing is asked of the value.
WithConstraint(c, f, v) == [c EXCEPT !.constraints = (f :> v) @@ @]
WithConstraints(c, asked) == [c EXCEPT !.constraints = asked @@ @]
ResetConstraints(c) == [c EXCEPT !.constraints = <<>>]
ConstraintOf(c, f) == IF f \in DOMAIN c.constraints THEN c.constraints[f] ELSE NoValue

----------------------------------------------------------------------------
(* SemanticConcept *)

FullyMatches(value, asked) ==
    \A f \in DOMAIN asked : f \in DOMAIN value.known /\ value.known[f] = asked[f]

\* The first value that is known to be all that is asked for, or one that is
\* made of all of them; of the name where there is none.
FirstPossibleValue(c) ==
    LET full == {i \in DOMAIN c.values : FullyMatches(c.values[i], c.constraints)}
    IN  IF full # {} THEN c.values[CHOOSE i \in full : \A j \in full : i <= j]
        ELSE Generated(c.language, IF c.values = <<>> THEN <<DisplayValue(c.name)>> ELSE c.values, c.constraints)

CurrentValue(c) ==
    LET possible == FirstPossibleValue(c)
    IN  IF possible # NoString /\ possible.text # <<>> THEN possible
        ELSE IF c.defaults /\ c.name # <<>> THEN DisplayValue(c.name) ELSE NoString

\* What the current value says, what the language knows of it, or what the
\* first possible value says.
SemanticFeature(c, f) ==
    LET current == CurrentValue(c)
        possible == FirstPossibleValue(c)
    IN  IF current = NoString THEN NoValue
        ELSE IF f \in DOMAIN current.known THEN current.known[f]
        ELSE IF HasFeature(c.language, f) /\ Known(c.language, current, f, c.constraints) # Thrown
             THEN Known(c.language, current, f, c.constraints)
        ELSE IF possible # NoString /\ f \in DOMAIN possible.known THEN possible.known[f]
        ELSE NoValue

----------------------------------------------------------------------------
(* InflectableStringConcept *)

StringValue(c) ==
    LET generated == IF c.constraints = <<>> THEN NoString ELSE Generated(c.language, c.values, c.constraints)
    IN  IF generated # NoString THEN generated ELSE c.values[1]

\* A constraint is answered with itself, whether the word can be that or not.
StringFeature(c, f) ==
    IF ConstraintOf(c, f) # NoValue THEN ConstraintOf(c, f)
    ELSE LET known == Known(c.language, StringValue(c), f, c.constraints)
         IN  IF ~HasFeature(c.language, f) \/ known = Thrown THEN NoValue ELSE known

----------------------------------------------------------------------------
(* PronounConcept *)

\* What is said of a pronoun, "" if it is that of every value.
PronounFeature(c, f) ==
    LET current == PronounOf(c)
    IN  IF current # NoString /\ f \in DOMAIN current.known THEN current.known[f] ELSE NoValue

----------------------------------------------------------------------------
(* Any of them *)

FeatureOf(c, f) ==
    CASE c.kind = "string" -> StringFeature(c, f)
      [] c.kind = "semantic" -> SemanticFeature(c, f)
      [] c.kind = "pronoun" -> PronounFeature(c, f)

\* A speakable string: what is printed, and what is spoken.
Speakable(text) == [print |-> text, speak |-> text]
Joined(a, b) == [print |-> a.print \o b.print, speak |-> a.speak \o b.speak]

ShownOf(c) ==
    LET value == CASE c.kind = "string" -> StringValue(c)
                   [] c.kind = "semantic" -> CurrentValue(c)
                   [] c.kind = "pronoun" -> PronounOf(c)
    IN  IF value = NoString THEN IF c.defaults /\ c.name # <<>> THEN Speakable(c.name) ELSE NoString
        ELSE [print |-> value.text,
              speak |-> IF "speak" \in DOMAIN value.known THEN <<value.known["speak"]>> ELSE value.text]
============================================================================
