--------------------------- MODULE Agglutinative ---------------------------
(***************************************************************************)
(* The grammars of Turkish, Finnish and Korean, that put suffixes or       *)
(* particles one behind the other (grammar/synthesis/TrGrammarSynthesizer, *)
(* FiGrammarSynthesizer and KoGrammarSynthesizer).  A Turkish letter that  *)
(* ASCII has not is written as a capital: "I" without its dot, "U", "O",   *)
(* "C", "G" and "S"; a Finnish one as "ae" and "oe".                       *)
(***************************************************************************)
EXTENDS Grammar

CONSTANTS NumberWords,      \* how a number, or an ordinal with its period, is said in Turkish
          SuffixToExemplar, \* the Finnish words that words with an ending are inflected like
          KoreanEnds        \* how a Hangul syllable ends: "vowel", "rieul" or "consonant"

Digits == {"0", "1", "2", "3", "4", "5", "6", "7", "8", "9"}

----------------------------------------------------------------------------
(* Turkish: how a word ends.  A vowel group is named by its affix.         *)

TrVowels == {"a", "e", "i", "o", "u", "I", "O", "U"}
Has(word, grammeme) == HasAllProperties(word, {grammeme})

TrimEnd(word) ==
    IF Usable(word) = {} THEN <<>> ELSE SubSeq(word, 1, LastIn(Usable(word)))

EndsWithNumber(word) == TrimEnd(word) # <<>> /\ TrimEnd(word)[Len(TrimEnd(word))] \in Digits

\* A number is what it is said as.
NormalizeString(word) ==
    LET trimmed == TrimEnd(word)
        digit == trimmed[Len(trimmed)]
    IN  IF trimmed = <<>> \/ Has(trimmed, "foreign") \/ digit \notin Digits THEN trimmed
        ELSE NumberWords[IF word[Len(word)] = "." THEN <<digit, ".">> ELSE <<digit>>]

GetLastWord(text) ==
    LET trimmed == Trim(text)
        spaces == {i \in DOMAIN trimmed : trimmed[i] = " "}
    IN  IF spaces = {} THEN trimmed ELSE DropFirst(trimmed, LastIn(spaces))

TrEndsWithVowel(word) == IsEndsWithVowel(word, TrVowels)
TrStartsWithVowel(word) == IsStartsWithVowel(word, TrVowels)

GetLastVowel(word) ==
    LET stems == {n \in 1..(Len(word) - 1) :
                    LET usable == Usable(SubSeq(word, 1, n)) IN usable # {} /\ word[LastIn(usable)] \in TrVowels}
        letter(s) == NormalizeString(s)[Len(NormalizeString(s))]
    IN  IF TrEndsWithVowel(word) THEN letter(word)
        ELSE IF stems = {} THEN "i" ELSE letter(SubSeq(word, 1, LastIn(stems)))

GetVowelGroup(text) ==
    LET types == GetCombinedBinaryType(text)
        vowel == GetLastVowel(Lowercase(text))
    IN  IF "front-round" \in types THEN "U"
        ELSE IF "front-unround" \in types THEN "i"
        ELSE IF "back-round" \in types THEN "u"
        ELSE IF "back-unround" \in types THEN "I"
        ELSE CASE vowel \in {"O", "U"} -> "U"
               [] vowel \in {"a", "I"} -> "I"
               [] vowel \in {"o", "u"} -> "u"
               [] OTHER -> "i"

IsFront(group) == group \in {"i", "U"}

HardConsonants == {"C", "k", "p", "t"}
EndsWithHardConsonant(word, discontinuous) ==
    word # <<>> /\ word[Len(word)] \in HardConsonants \cup (IF discontinuous THEN {} ELSE {"f", "h", "s", "S", "q", "x"})

DoesEndWithHardConsonant(word) ==
    ~Has(word, "soft-consonant") /\ (EndsWithHardConsonant(word, FALSE) \/ Has(word, "hard-consonant"))

IsOneVowelWord(word) == Cardinality({n \in 1..Len(word) : TrEndsWithVowel(SubSeq(word, 1, n))}) <= 1

WithLast(word, f) == IF word = <<>> THEN word ELSE [word EXCEPT ![Len(word)] = At(f, @)]

AssimilateLastConsonant(word, oneWord) ==
    LET soft == IF oneWord THEN "g" ELSE "G"
    IN  WithLast(word, ("C" :> "c") @@ ("k" :> soft) @@ ("g" :> soft) @@ ("p" :> "b") @@ ("t" :> "d"))

RevertLastConsonantAssimilation(word) == WithLast(word, ("b" :> "p") @@ ("c" :> "C") @@ ("d" :> "t") @@ ("G" :> "k"))

AssimilateFirstConsonant(word) ==
    IF word = <<>> THEN word ELSE [word EXCEPT ![1] = At(("b" :> "p") @@ ("c" :> "C") @@ ("d" :> "t") @@ ("g" :> "k"), @)]

PossessiveCompoundSuffixes ==
    << Letters("larI"), Letters("leri"), Letters("sI"), Letters("si"), Letters("su"), Letters("sU"), <<"I">>, <<"i">>, <<"u">>, <<"U">> >>

\* The possessive a compound of several words ends with.
GetPossessiveCompoundSuffix(isMultiWord, word) ==
    LET oneToken(w) == Len(GetSignificantWords(w)) = 1
        isWord(w) == (oneToken(w) \/ Has(w, "exception") \/ Has(w, "compound")) /\ IsKnownWord(w)
        fits(s) == LET stem == DropLast(word, Len(s))
                       lemma == RevertLastConsonantAssimilation(stem)
                   IN  /\ Len(s) > 2 \/ ~oneToken(word)
                       /\ (isWord(stem) /\ ~Has(word, "exception")) \/ (lemma # stem /\ isWord(lemma))
        ending == {i \in DOMAIN PossessiveCompoundSuffixes : EndsWith(word, PossessiveCompoundSuffixes[i])}
        stops == {i \in ending : \/ EndsWithNumber(DropLast(word, Len(PossessiveCompoundSuffixes[i])))
                                 \/ fits(PossessiveCompoundSuffixes[i])}
        first == PossessiveCompoundSuffixes[FirstIn(stops)]
    IN  IF ~isMultiWord \/ stops = {} \/ EndsWithNumber(DropLast(word, Len(first))) THEN <<>> ELSE first

----------------------------------------------------------------------------
(* Turkish: the suffixes.  Each is a record [text, group] of what is added *)
(* and the vowel group that what follows it must have.                     *)

AddPlural(plural, isCompound, group) ==
    IF ~plural THEN [text |-> <<>>, group |-> group]
    ELSE IF IsFront(group)
    THEN [text |-> IF isCompound THEN Letters("leri") ELSE Letters("ler"), group |-> "i"]
    ELSE [text |-> IF isCompound THEN Letters("larI") ELSE Letters("lar"), group |-> "I"]

\* Of a third person plural, a plural that is a compound has it already.
AddPossessiveSuffixes(plural, person, pronoun, isCompound, group, lastPart) ==
    LET owners == pronoun = "plural"
        vowel == TrEndsWithVowel(lastPart)
    IN  CASE person = "third" /\ ~owners -> [text |-> (IF vowel THEN <<"s">> ELSE <<>>) \o <<group>>, group |-> group]
          [] person = "third" /\ owners /\ plural /\ isCompound -> [text |-> <<>>, group |-> group]
          [] person = "third" /\ owners /\ plural /\ ~isCompound ->
               [text |-> IF group = "I" THEN <<"I">> ELSE <<"i">>, group |-> IF group = "I" THEN "I" ELSE "i"]
          [] person = "third" /\ owners /\ ~plural ->
               IF IsFront(group) THEN [text |-> Letters("leri"), group |-> "i"] ELSE [text |-> Letters("larI"), group |-> "I"]
          [] OTHER -> [text |-> (IF vowel THEN <<>> ELSE <<group>>) \o (IF person = "first" THEN <<"m">> ELSE <<"n">>)
                                    \o (IF owners THEN <<group, "z">> ELSE <<>>),
                       group |-> group]

TrCases == {"ablative", "accusative", "dative", "genitive", "instrumental", "locative"}

\* What comes between a vowel and the suffix of a case.
BufferOf(case, isPossessive) ==
    IF case = "instrumental" THEN <<"y">>
    ELSE IF isPossessive \/ case = "genitive" THEN <<"n">>
    ELSE IF case \in {"accusative", "dative"} THEN <<"y">> ELSE <<>>

AddCaseSuffixes(case, isPossessive, group, lastPart) ==
    LET front == IsFront(group)
        open == IF front THEN "e" ELSE "a"
        buffer == IF TrEndsWithVowel(lastPart) THEN BufferOf(case, isPossessive) ELSE <<>>
        ending == CASE case = "accusative" -> <<group>>
                    [] case = "genitive" -> <<group, "n">>
                    [] case = "dative" -> <<open>>
                    [] case = "locative" -> <<"d", open>>
                    [] case = "ablative" -> <<"d", open, "n">>
                    [] OTHER -> <<"l", open>>
    IN  IF case \notin TrCases THEN [text |-> <<>>, group |-> group]
        ELSE [text |-> buffer \o ending,
              group |-> IF case \in {"accusative", "genitive"} THEN group ELSE IF front THEN "i" ELSE "I"]

AddCopulaSuffixes(copula, tense, group, lastPart) ==
    LET who == IF copula = "" THEN "third" ELSE copula
        past == tense = "past"
        buffer == IF TrEndsWithVowel(lastPart) /\ (past \/ who = "first") THEN <<"y">> ELSE <<>>
        before == IF past \/ who = "third" THEN <<"d">> ELSE IF who = "second" THEN <<"s">> ELSE <<>>
        after == CASE who = "first" -> <<"m">> [] who = "second" -> <<"n">> [] OTHER -> IF past THEN <<>> ELSE <<"r">>
    IN  IF copula = "" /\ tense = "" THEN <<>> ELSE buffer \o before \o <<group>> \o after

\* All suffixes, behind the stem that they follow.
TrSuffixes(stem, constraints, isCompound) ==
    LET value(f) == FeatureValue(constraints, f)
        pronoun == IF value("pronounNumber") # "" THEN value("pronounNumber") ELSE value("pronoun")
        owned == value("person") # "" \/ pronoun # ""
        plural == AddPlural(value("number") = "plural", isCompound, GetVowelGroup(stem))
        afterPlural == IF value("number") = "plural" THEN plural.text ELSE stem
        possessive == IF owned THEN AddPossessiveSuffixes(value("number") = "plural", value("person"), pronoun, isCompound,
                                                          plural.group, afterPlural)
                      ELSE [text |-> <<>>, group |-> plural.group]
        case == AddCaseSuffixes(value("case"), isCompound \/ owned, possessive.group,
                                IF owned THEN possessive.text ELSE afterPlural)
        soFar == plural.text \o possessive.text \o case.text
    IN  soFar \o AddCopulaSuffixes(value("copula"), value("tense"), case.group,
                                   IF soFar = <<>> THEN stem ELSE IF case.text = <<>> THEN soFar ELSE case.text)

\* Mutant of GenerateDisplayValue: what follows a hard consonant stays soft.
GenerateDisplayValue_Soft(text, stem, suffixes, endsWithNumber) ==
    IF suffixes # <<>> /\ (Has(stem, "foreign") \/ endsWithNumber) THEN text \o <<"'">> \o suffixes ELSE text \o suffixes

\* The last consonant of a word, or the first of the suffixes, is changed to
\* go with the other; a name or a number is parted from them.
GenerateDisplayValue(text, stem, suffixes, endsWithNumber) ==
    LET isForeign == Has(stem, "foreign")
        isException == Has(stem, "exception")
        vowelFollows == suffixes # <<>> /\ TrStartsWithVowel(suffixes)
        ordinary == GetLastWord(text) = stem /\ ~isForeign /\ ~isException
        softened == IF text = <<>> \/ ~vowelFollows THEN text
                    ELSE IF ordinary /\ EndsWithHardConsonant(text, TRUE) /\ ~IsOneVowelWord(stem)
                    THEN AssimilateLastConsonant(text, FALSE)
                    ELSE IF ~ordinary /\ isException /\ Has(stem, "hard-consonant")
                    THEN AssimilateLastConsonant(text, IsOneVowelWord(stem))
                    ELSE text
        hardened == IF text # <<>> /\ DoesEndWithHardConsonant(stem) THEN AssimilateFirstConsonant(suffixes) ELSE suffixes
        parts == suffixes # <<>> /\ (isForeign \/ endsWithNumber) /\ softened # <<>> /\ softened[Len(softened)] # "\""
    IN  IF ~parts THEN softened \o hardened
        ELSE (IF softened[Len(softened)] = "'" THEN DropLast(softened, 1) ELSE softened) \o <<"'">> \o hardened

TrNormalized(text) ==
    LET word == GetLastWord(text)
    IN  IF Has(word, "foreign") THEN word
        ELSE IF TrimEnd(word) # word /\ Has(TrimEnd(word), "foreign") THEN TrimEnd(word)
        ELSE NormalizeString(word)

\* The possessive of a compound gives way to what takes its place.
TrDisplay(displayData, constraints, guess) ==
    LET text == IF displayData = <<>> THEN <<>> ELSE displayData[1].text
        word == TrNormalized(text)
        suffix == GetPossessiveCompoundSuffix(" " \in Range(text), word)
        isCompound == ~Has(word, "foreign") /\ (Has(word, "compound") \/ (~EndsWithNumber(text) /\ suffix # <<>>))
        givesWay == /\ isCompound
                    /\ GetLastWord(text) = word
                    /\ \/ Is(constraints, "number", "plural")
                       \/ HasAnyFeatures(constraints, {"person", "pronoun", "pronounNumber"})
        bare == DropLast(word, Len(suffix))
        lemma == RevertLastConsonantAssimilation(bare)
        stem == IF givesWay THEN lemma ELSE word
        shown == IF ~givesWay THEN text
                 ELSE IF lemma # bare THEN RevertLastConsonantAssimilation(DropLast(text, Len(suffix)))
                 ELSE DropLast(text, Len(suffix))
    IN  IF text = <<>> THEN DisplayValue(<<>>, constraints)
        ELSE DisplayValue(GenerateDisplayValue(shown, stem, TrSuffixes(stem, constraints, isCompound), EndsWithNumber(text)),
                          constraints)

\* The question and the conjunction are words of their own, in harmony.
TrFeature(value, feature) ==
    LET group == GetVowelGroup(value.text)
    IN  CASE feature = "interrogativeArticle" -> Plain(value.text \o <<" ", "m", group>>)
          [] feature = "deConjunction" -> Plain(value.text \o <<" ", "d", IF IsFront(group) THEN "e" ELSE "a">>)
          [] OTHER -> NoText

----------------------------------------------------------------------------
(* Finnish *)

FiVowels == {"a", "e", "i", "o", "u", "y", "ae", "oe"}

\* A vowel in front of what is no letter does not count.
HasBackVowels(lemma) ==
    \E i \in DOMAIN lemma : /\ Lowercase(<<lemma[i]>>)[1] \in {"a", "o", "u"}
                            /\ i = Len(lemma) \/ lemma[i + 1] \notin Marks

FiWho ==
    [priorities |-> << <<"numeral", "noun", "proper-noun", "adjective", "verb">>,
                       <<"nominative", "genitive", "partitive", "inessive", "elative", "illative", "adessive", "ablative",
                         "allative", "essive", "translative">>,
                       <<"singular", "plural">>, <<"present", "past">>, <<"infinitive">> >>,
     ignored |-> {{"verb", "passive"}}, fallback |-> TRUE]

\* The exemplar of the longest ending that has one.
GetExemplar(word) ==
    LET lengths == {n \in 1..8 : n <= Len(word) - 2 /\ DropFirst(word, Len(word) - n) \in DOMAIN SuffixToExemplar}
    IN  IF lengths = {} THEN NoText ELSE SuffixToExemplar[DropFirst(word, Len(word) - LastIn(lengths))]

GetFallBackLemma(lemma) ==
    LET last == lemma[Len(lemma)]
    IN  IF IsEndsWithVowel(lemma, FiVowels)
        THEN IF HasBackVowels(lemma) THEN <<"Abreu">>
             ELSE CASE last = "y" -> <<"rehentely">> [] last = "i" -> <<"kylkirivi">> [] last = "e" -> <<"perhe">>
                    [] OTHER -> <<"Abreu">>
        ELSE IF HasBackVowels(lemma) THEN <<"Sund">> ELSE <<"kennel">>

FiInflectable == {"adjective", "noun", "numeral", "proper-noun", "verb"}
FiCases == Range(FiWho.priorities[2])

\* The word the lemma is inflected like: itself, its last word, or with
\* guessing one with its ending.
FiExemplarOf(lemma, guess) ==
    LET words == GetSignificantWords(lemma)
        last == words[Len(words)]
        exemplar == GetExemplar(lemma)
        ofLast == IF GetCombinedBinaryType(lemma) = {} /\ words # <<>> /\ GetInflectionPatternsForWord(last) # <<>> THEN last ELSE lemma
    IN  IF ~guess \/ GetCombinedBinaryType(ofLast) # {} THEN ofLast
        ELSE IF exemplar # NoText /\ GetCombinedBinaryType(exemplar) # {} THEN exemplar
        ELSE GetFallBackLemma(lemma)

FiInflect(lemma, pos, case, number, guess) ==
    LET exemplar == FiExemplarOf(lemma, guess)
        types == GetCombinedBinaryType(exemplar)
        form(asked) == InflectExemplar(FiWho, lemma, exemplar, types, asked, SelectSeq(<<pos>>, LAMBDA p : p # ""))
        full == form(SelectSeq(<<case, number>>, LAMBDA c : c # ""))
        byCase == IF guess /\ case # "" /\ number # "" THEN form(<<case>>) ELSE NoText
        own == GetCombinedBinaryType(lemma)
    IN  IF own # {} /\ own \cap FiInflectable = {} THEN lemma
        ELSE IF types = {} THEN lemma
        ELSE IF full # NoText THEN full
        ELSE OrElse(byCase, lemma)

\* There is no possessive for a first person.
GetPossessiveSuffix(person, backVowels) ==
    CASE person = "second" -> Letters("si")
      [] person = "third" -> IF backVowels THEN Letters("nsa") ELSE Letters("ns") \o <<"ae">>
      [] OTHER -> <<>>

InflectString(lemma, pos, case, number, person, guess) ==
    LET own == GetCombinedBinaryType(lemma)
        suffix == GetPossessiveSuffix(person, HasBackVowels(lemma))
        inflected == FiInflect(lemma, pos, case, number, guess)
        essive == FiInflect(lemma, pos, "essive", "singular", guess)
    IN  IF person = "" \/ (own # {} /\ own \cap FiInflectable = {}) THEN inflected
        ELSE IF case = "nominative" \/ (case = "genitive" /\ number = "singular") THEN DropLast(essive, 2) \o suffix
        ELSE IF case = "illative" \/ (case = "genitive" /\ number = "plural") THEN DropLast(inflected, 1) \o suffix
        ELSE IF case = "translative" THEN DropLast(inflected, 1) \o <<"e">> \o suffix
        ELSE inflected \o suffix

\* Of two words, a number stays as it is, and an adjective agrees.
FiDisplay(displayData, constraints, guess) ==
    LET text == IF displayData = <<>> THEN <<>> ELSE displayData[1].text
        value(f) == FeatureValue(constraints, f)
        case == IF value("case") \in FiCases THEN value("case") ELSE "nominative"
        number == IF value("number") = "" THEN "singular" ELSE value("number")
        inflect(word, person) == InflectString(word, value("pos"), case, number, person, guess)
        words == IF " " \in Range(text) THEN SelectSeq(SplitAt(text, " "), LAMBDA w : w # <<>>) ELSE <<text>>
        types(i) == GetCombinedBinaryType(words[i])
        inflected == IF Len(words) = 2 /\ Range(words[1]) \subseteq Digits
                     THEN words[1] \o <<" ">> \o inflect(words[2], value("person"))
                     ELSE IF Len(words) = 2 /\ (types(2) = {} \/ types(2) \cap FiInflectable # {}) /\ "adjective" \in types(1)
                     THEN inflect(words[1], "") \o <<" ">> \o inflect(words[2], value("person"))
                     ELSE inflect(text, value("person"))
    IN  IF text = <<>> \/ (value("case") \notin FiCases /\ value("number") = "") THEN DisplayValue(text, constraints)
        ELSE DisplayValue(IF inflected = <<>> THEN text ELSE inflected, constraints)

FiCount(text) ==
    LET lookup == Lookup({"singular", "plural"}, <<"noun", "adjective">>)
        exemplar == GetExemplar(text)
        byExemplar == IF exemplar = NoText THEN "" ELSE Determine(lookup, exemplar)
    IN  IF Determine(lookup, text) # "" THEN Determine(lookup, text)
        ELSE IF byExemplar # "" THEN byExemplar ELSE "singular"

Nouns == {"noun", "proper-noun"}
Adjectives == {"adjective", "participle"}

\* A place that is outdoors has other cases than one indoors.
GetLocativeString(attribute, head, caseForInner, caseForOuter) ==
    InflectString(attribute, "noun", IF Has(head, "outer") THEN caseForOuter ELSE caseForInner,
                  IF Has(head, "plural") THEN "plural" ELSE "singular", "", TRUE)

\* The words of a phrase, put together so that the fewest are known words:
\* a set of places where to part them.
PossibleCuts(words) ==
    LET groups(cuts) == {<<i, j>> \in (1..Len(words)) \X (1..Len(words)) :
                           /\ i <= j /\ i \in cuts \cup {1} /\ (j + 1) \in cuts \cup {Len(words) + 1}
                           /\ \A k \in (i + 1)..j : k \notin cuts}
        known(cuts) == \A g \in groups(cuts) : IsKnownWord(JoinWith(SubSeq(words, g[1], g[2]), <<" ">>))
    IN  {cuts \in SUBSET (2..Len(words)) : known(cuts)}

FewestCuts(words) ==
    LET possible == PossibleCuts(words)
        before(C, D) == \/ Cardinality(C) < Cardinality(D)
                        \/ /\ Cardinality(C) = Cardinality(D) /\ C # D
                           /\ FirstIn((C \ D) \cup (D \ C)) \in C
    IN  IF possible = {} THEN {} ELSE CHOOSE C \in possible : \A D \in possible \ {C} : before(C, D)

Combination(words) ==
    LET cuts == FewestCuts(words)
    IN  FoldLeft(LAMBDA done, i : IF i \in cuts \cup {1} THEN Append(done, words[i])
                                  ELSE [done EXCEPT ![Len(done)] = @ \o <<" ">> \o words[i]],
                 <<>>, [i \in DOMAIN words |-> i])

\* Of two words a noun in front of an adjective stays as it is, and an
\* adjective goes with its noun.
LocativeBased(value, caseForInner, caseForOuter) ==
    LET text == value.text
        commas == "," \in Range(text)
        words == SplitAt(Trim(text), " ")
        parts == IF commas THEN LET p == SplitAt(text, ",") IN [i \in DOMAIN p |-> Trim(p[i])]
                 ELSE IF Len(words) > 1 THEN Combination(words) ELSE <<text>>
        locative(attribute, head) == GetLocativeString(attribute, head, caseForInner, caseForOuter)
        pair == commas \/ Len(words) > 1
        first == IF HasAnyProperty(parts[1], Nouns) /\ HasAnyProperty(parts[2], Adjectives) THEN parts[1]
                 ELSE locative(parts[1], IF HasAnyProperty(parts[1], Adjectives) /\ HasAnyProperty(parts[2], Nouns)
                                         THEN parts[2] ELSE parts[1])
        shown == IF pair /\ Len(parts) = 2 THEN <<first, locative(parts[2], parts[2])>>
                 ELSE [i \in DOMAIN parts |-> locative(parts[i], parts[i])]
        located == JoinWith(shown, IF commas THEN <<",", " ">> ELSE <<" ">>)
    IN  Plain(IF Trim(located) = <<>> THEN text ELSE located)

FiFeature(value, feature) ==
    CASE feature = "residing" -> LocativeBased(value, "inessive", "adessive")
      [] feature = "exiting" -> LocativeBased(value, "elative", "ablative")
      [] feature = "entering" -> LocativeBased(value, "illative", "allative")
      [] feature = "withHyphenSuffix" -> Plain(IF " " \in Range(value.text) THEN value.text \o <<" ">> ELSE value.text)
      [] feature = "number" -> AnswerOf(FiCount(value.text))
      [] OTHER -> NoText

----------------------------------------------------------------------------
(* Korean: particles.  A Hangul syllable is a piece of which it is known   *)
(* how it ends.                                                            *)

KoVowels == {"a", "e", "i", "o", "u", "y"}
IsHangul(piece) == piece \in DOMAIN KoreanEnds
IsLatin(piece) == ~IsHangul(piece) /\ piece \notin Digits \cup Marks \cup {"(", ")"}

\* What is behind a vowel (or a rieul), and behind a consonant.
Particle(vowel, consonant, rieul) == [vowel |-> vowel, consonant |-> consonant, rieul |-> rieul]
Particles ==
    [ablative |-> Particle(<<"ro", "bu", "teo">>, <<"eu", "ro", "bu", "teo">>, TRUE), accusative |-> Particle(<<"reul">>, <<"eul">>, FALSE),
     comitative |-> Particle(<<"wa">>, <<"gwa">>, FALSE), exclusive |-> Particle(<<"neun">>, <<"eun">>, FALSE),
     genitive |-> Particle(<<>>, <<"ui">>, FALSE), inclusive |-> Particle(<<"ga">>, <<"yi">>, FALSE),
     instrumental |-> Particle(<<"ro">>, <<"eu", "ro">>, TRUE), predicative |-> Particle(<<"ra">>, <<"yi", "ra">>, FALSE),
     vocative |-> Particle(<<"ya">>, <<"ah">>, FALSE)]

\* What is in front of a bracket that is closed, or opened again; of what
\* does not end in Hangul, the last word with a letter or a digit.
GetRelevantString(text) ==
    LET brackets == {i \in DOMAIN text : text[i] \in {"(", ")"}}
        opening == {i \in brackets : text[i] = "("}
        start == FirstIn(opening)
        open == IF opening # {} /\ \E i \in brackets : i > start THEN SubSeq(text, 1, start - 1) ELSE text
        tokens == SelectSeq(Tokens(open), Significant)
        spoken == {i \in DOMAIN tokens : tokens[i][Len(tokens[i])] \notin Marks \cup {"(", ")"}}
    IN  IF open = <<>> \/ IsHangul(open[Len(open)]) \/ spoken = {} THEN open ELSE tokens[LastIn(spoken)]

IsEndsWithRieul(text) == Has(SelectSeq(text, LAMBDA x : x \notin Marks), "rieul-end") \/ text[LastIn(Usable(text))] = "l"

\* Without guessing, nothing is put behind a digit or a mark.
GetParticleValue(particle, text, guess) ==
    LET relevant == GetRelevantString(text)
        last == relevant[LastIn(Usable(relevant))]
        afterLatin == (particle.rieul /\ IsEndsWithRieul(Lowercase(relevant))) \/ IsEndsWithVowel(Lowercase(relevant), KoVowels)
        afterHangul == KoreanEnds[last] = "vowel" \/ (particle.rieul /\ KoreanEnds[last] = "rieul")
        isAlpha == relevant # <<>> /\ (IsHangul(relevant[Len(relevant)]) \/ IsLatin(relevant[Len(relevant)]))
    IN  IF text = <<>> THEN <<>>
        ELSE IF particle.vowel = <<>> THEN particle.consonant
        ELSE IF ~guess /\ ~isAlpha THEN <<>>
        ELSE IF Usable(relevant) = {} THEN particle.consonant
        ELSE IF IF IsLatin(last) THEN afterLatin ELSE IsHangul(last) /\ afterHangul THEN particle.vowel
        ELSE particle.consonant

\* Mutant of SwitchParticleValue: a particle that is there is not looked for.
SwitchParticleValue_Twice(particle, text, guess) ==
    LET value == GetParticleValue(particle, text, guess) IN IF value = <<>> THEN NoText ELSE text \o value

\* A particle that is there makes way.
SwitchParticleValue(particle, text, guess) ==
    LET stem == IF EndsWith(text, particle.consonant) THEN DropLast(text, Len(particle.consonant))
                ELSE IF particle.vowel # <<>> /\ EndsWith(text, particle.vowel) THEN DropLast(text, Len(particle.vowel))
                ELSE text
        value == GetParticleValue(particle, stem, guess)
    IN  IF value = <<>> THEN NoText ELSE stem \o value

KoDisplay(displayData, constraints, guess) ==
    LET value == GetTheBestDisplayValue(displayData, constraints)
        case == FeatureValue(constraints, "case")
        clusivity == FeatureValue(constraints, "clusivity")
        key == CASE case = "" -> FeatureValue(constraints, "adjectival")
                 [] case = "nominative" -> IF clusivity = "" THEN "exclusive" ELSE clusivity
                 [] OTHER -> case
        switched == SwitchParticleValue(Particles[key], value.text, guess)
    IN  IF value = NoText THEN NoText
        ELSE IF key \in DOMAIN Particles /\ value.text # <<>>
        THEN IF switched = NoText THEN NoText ELSE DisplayValue(switched, constraints)
        ELSE IF guess THEN DisplayValue(value.text, constraints) ELSE NoText
============================================================================
