------------------------------ MODULE Lexicon ------------------------------
(***************************************************************************)
(* The dictionary of a language: its words with what they may be, and the  *)
(* patterns by which they inflect (src/src/inflection/dictionary).         *)
(*                                                                         *)
(* A text is a sequence of pieces: a letter where an ending matters, a     *)
(* whole stem where it does not, a space, a mark.  A set of grammemes is   *)
(* the set of the bits of an int64_t.                                      *)
(***************************************************************************)
EXTENDS Integers, Sequences, FiniteSets, SequencesExt

CONSTANTS
    Grammemes,  \* the grammemes the dictionary knows, in the order of their bits
    Words,      \* a function from its words to [types, patterns]
    Patterns,   \* a function from names to [partsOfSpeech, inflections]
    LowerOf,    \* a function from pieces with a capital to those without
    UpperOf,    \* a function from pieces to what they are in capitals
    TitleOf,    \* a function from pieces to those with a capital in front
    NoText,     \* what an empty optional, or a null pointer, is
    Thrown      \* what a call that leaves with an exception is

\* A lexicon in certain letters.
LexiconOver(letters) ==
    LET inflections == [suffix : Seq(letters), grammemes : SUBSET Range(Grammemes)]
    IN  /\ IsFiniteSet(Range(Grammemes))
        /\ \A p \in DOMAIN Patterns :
              /\ Patterns[p].partsOfSpeech \subseteq Range(Grammemes)
              /\ Patterns[p].inflections \in Seq(inflections)
        /\ \A w \in DOMAIN Words :
              /\ Words[w].types \subseteq Range(Grammemes)
              /\ Words[w].patterns \in Seq(DOMAIN Patterns)

----------------------------------------------------------------------------
(* Case *)

At(f, x) == IF x \in DOMAIN f THEN f[x] ELSE x

Lowercase(text) == [i \in DOMAIN text |-> At(LowerOf, text[i])]
Uppercase(text) == [i \in DOMAIN text |-> At(UpperOf, text[i])]

IsAllUpperCase(text) == text # <<>> /\ Uppercase(text) = text
IsAllLowerCase(text) == text # <<>> /\ Lowercase(text) = text

\* A piece with a capital in front is one that lower case changes.
StartsUpper(text) == text # <<>> /\ At(LowerOf, text[1]) # text[1]

CapitalizeFirst(text) ==
    IF text = <<>> \/ StartsUpper(text) THEN text
    ELSE <<At(TitleOf, text[1])>> \o Tail(text)

----------------------------------------------------------------------------
(* What a word may be *)

GetWordType(word) == IF word \in DOMAIN Words THEN Words[word].types ELSE {}

\* The grammemes of a word, or else of the word in lower case.
GetCombinedBinaryType(word) ==
    IF GetWordType(word) # {} THEN GetWordType(word)
    ELSE GetWordType(Lowercase(word))

IsKnownWord(word) == GetCombinedBinaryType(word) # {}

HasAllProperties(word, S) ==
    IsKnownWord(word) /\ S \subseteq GetCombinedBinaryType(word)

HasAnyProperty(word, S) == GetCombinedBinaryType(word) \cap S # {}

\* The names in a set, from the lowest bit up.
GetPropertyNames(S) == SelectSeq(Grammemes, LAMBDA g : g \in S)

\* The name of a set of one bit; of no bit or several it is the empty string.
GetPropertyName(S) == IF Cardinality(S) = 1 THEN CHOOSE g \in S : TRUE ELSE ""

\* The bits of names; unknown ones are skipped, and none known is an exception.
GetValuesOfTypes(names) == Range(names) \cap Range(Grammemes)
Recognized(names) == names # <<>> => GetValuesOfTypes(names) # {}

----------------------------------------------------------------------------
(* The values a word has for a property, such as the names of its patterns *)

GetPropertyValues(word) ==
    IF word \in DOMAIN Words /\ Words[word].patterns # <<>>
    THEN Words[word].patterns
    ELSE IF ~IsAllLowerCase(word) /\ GetWordType(word) = {} /\ Lowercase(word) \in DOMAIN Words
         THEN Words[Lowercase(word)].patterns
         ELSE <<>>

\* The patterns of a word: those of its lower case too, if it is unknown.
GetInflectionPatternsForWord(word) ==
    IF word \in DOMAIN Words THEN Words[word].patterns
    ELSE IF Lowercase(word) \in DOMAIN Words THEN Words[Lowercase(word)].patterns
    ELSE <<>>
============================================================================
