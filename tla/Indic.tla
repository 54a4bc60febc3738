------------------------------- MODULE Indic -------------------------------
(***************************************************************************)
(* The grammars of the languages of India and Pakistan: Bangla, Gujarati,  *)
(* Hindi, Kannada, Malayalam, Marathi, Punjabi, Tamil, Telugu and Urdu     *)
(* (grammar/synthesis).  Signs are named by Latin letters: in Hindi "A"    *)
(* and "E" are vowels of their own, "a", "e", "i", "ii", "u", "uu" signs   *)
(* behind a consonant, "N" and "M" the anusvara and the candrabindu.       *)
(***************************************************************************)
EXTENDS Grammar

CONSTANT MalayalamPieces \* the pieces of Malayalam script

Numbers == {"singular", "plural"}
NounNumber(text) == DetermineGrammeme(Lookup(Numbers, <<"noun">>), text, "")

----------------------------------------------------------------------------
(* Languages with a phrase, that is inflected word by word, and no more    *)

TwoGenders == <<"masculine", "feminine">>
ThreeGenders == <<"masculine", "feminine", "neuter">>

Language(pos, cases, genders, default) ==
    [who |-> [priorities |-> <<pos, cases, <<"singular", "plural">>, genders>>, ignored |-> {}, fallback |-> TRUE],
     genders |-> Range(genders), default |-> default]

GuLanguage == Language(<<"noun", "adjective">>, <<"nominative", "vocative">>, ThreeGenders, "masculine")
KnLanguage == Language(<<"noun">>, <<"nominative", "genitive", "vocative">>, ThreeGenders, "neuter")
MrLanguage == Language(<<"noun", "adjective">>, <<"direct", "oblique">>, ThreeGenders, "masculine")
PaLanguage == Language(<<"noun", "adjective">>, <<"direct", "oblique", "vocative">>, TwoGenders, "masculine")
TeLanguage == Language(<<"noun">>, <<"direct", "oblique">>, ThreeGenders, "neuter")
UrLanguage == Language(<<"noun", "adjective">>, <<"direct", "oblique">>, TwoGenders, "masculine")
PhraseLanguages ==
    [gu |-> GuLanguage, kn |-> KnLanguage, mr |-> MrLanguage, pa |-> PaLanguage, te |-> TeLanguage, ur |-> UrLanguage]

IndicDisplay(language, displayData, constraints, guess) ==
    PhraseDisplay(PhraseLanguages[language].who, displayData, constraints, guess)

IndicFeature(language, value, feature) ==
    LET l == PhraseLanguages[language]
    IN  CASE feature = "number" -> AnswerOf(NounNumber(value.text))
          [] feature = "gender" -> AnswerOf(DetermineGrammeme(DefaultLookup(l.genders, l.default, TRUE), value.text, ""))
          [] OTHER -> NoText

TaWho ==
    [priorities |-> << <<"noun">>, <<"animate", "inanimate">>,
                       <<"nominative", "accusative", "dative", "genitive", "instrumental", "ablative", "locative", "sociative",
                         "benefactive", "vocative">>, <<"singular", "plural">> >>,
     ignored |-> {}, fallback |-> TRUE]
TaDisplay(displayData, constraints, guess) == WordwiseDisplay(TaWho, displayData, constraints, guess, <<"case", "number">>)

BnWho == [priorities |-> << <<"noun", "adjective">>, <<"singular", "plural">> >>, ignored |-> {}, fallback |-> TRUE]
BnDisplay(displayData, constraints, guess) == WordwiseDisplay(BnWho, displayData, constraints, guess, <<"number">>)

\* Tamil and Bangla.
NumberFeature(value, feature) == IF feature = "number" THEN AnswerOf(NounNumber(value.text)) ELSE NoText

----------------------------------------------------------------------------
(* Hindi *)

HiGender(text) ==
    LET first == FirstToken(text)
    IN  DetermineGrammeme([Lookup({"masculine", "feminine"}, <<"noun", "adposition", "adjective", "verb">>)
                              EXCEPT !.firstWord = TRUE, !.default = "masculine"],
                          text, IF EndsWithAny(first, {<<"a">>, <<"e">>}) THEN "masculine"
                                ELSE IF EndsWith(first, <<"ii">>) THEN "feminine" ELSE "")

HiFeature(value, feature) ==
    CASE feature = "number" -> AnswerOf(DetermineGrammeme(Lookup(Numbers, <<"noun", "verb">>), value.text, ""))
      [] feature = "gender" -> AnswerOf(HiGender(value.text))
      [] OTHER -> NoText

HiWho ==
    [priorities |-> << <<"noun", "adposition", "adjective", "verb">>, <<"participle">>, <<"third", "second", "first">>,
                       <<"direct", "oblique">>, <<"singular", "plural">>, <<"masculine", "feminine">> >>,
     ignored |-> {}, fallback |-> TRUE]

\* The first of the endings that a word has gives way to what goes with it.
ReplaceEnding(word, endings) ==
    LET at == {i \in DOMAIN endings : EndsWith(word, endings[i][1])}
    IN  IF at = {} THEN word ELSE DropLast(word, Len(endings[FirstIn(at)][1])) \o endings[FirstIn(at)][2]

GuessSingularInflection(word) ==
    ReplaceEnding(word, << << <<"E">>, <<"A">> >>, << <<"e">>, <<"a">> >>, << <<"e", "N">>, <<"e">> >> >>)

GuessPluralInflection(word) ==
    LET long == <<"i", "y", "a", "M">>
        short == <<"u", "E", "M">>
    IN  ReplaceEnding(word, << << <<"ii">>, long>>, << <<"i">>, long>>, << <<"uu">>, short>>, << <<"u">>, short>>,
                               << <<"y", "a">>, <<"y", "a", "M">> >>, << <<"A">>, <<"E">> >>, << <<"a">>, <<"e">> >> >>)

GuessMasculineInflection(word) == ReplaceEnding(word, << << <<"ii">>, <<"a">> >> >>)
GuessFeminineInflection(word) == ReplaceEnding(word, << << <<"a">>, <<"ii">> >> >>)

\* In front of an adposition, a word is in the oblique case.
HiInflectWord(word, constraints, guess, makeOblique) ==
    LET types == GetCombinedBinaryType(word)
        gender == FeatureValue(constraints, "gender")
        number == FeatureValue(constraints, "number")
        case == FeatureValue(constraints, "case")
        asked == << number, IF types \cap {"masculine", "feminine"} # {} /\ ~makeOblique THEN gender ELSE "",
                    IF case = "" /\ makeOblique THEN "oblique" ELSE case >>
        inflected == Inflect(HiWho, word, types, SelectSeq(asked, LAMBDA v : v # ""),
                             ConvertToStringConstraints(constraints, <<"pos">>))
        gendered == IF gender = "feminine" THEN GuessFeminineInflection(word)
                    ELSE IF gender = "masculine" THEN GuessMasculineInflection(word) ELSE word
    IN  IF inflected # NoText THEN inflected
        ELSE IF ~guess THEN NoText
        ELSE IF number = "plural" THEN GuessPluralInflection(gendered)
        ELSE IF number = "singular" THEN GuessSingularInflection(gendered)
        ELSE gendered

\* Of a plural verb the feminine words in front are put in the singular.
HiInflectSignificantWords(words, constraints, guess) ==
    LET adpositions == {i \in DOMAIN words : "adposition" \in GetCombinedBinaryType(words[i])}
        adposition == IF adpositions = {} THEN 0 ELSE FirstIn(adpositions)
        inflected(i) == IF i = adposition /\ words[i] \notin {<<"k", "a">>, <<"k", "e">>, <<"k", "ii">>} THEN words[i]
                        ELSE HiInflectWord(words[i], constraints, guess, i < adposition)
        first == [i \in DOMAIN words |-> inflected(i)]
        last == first[Len(first)]
        isPluralFeminine(w) == {"plural", "feminine"} \subseteq GetCombinedBinaryType(w)
        singular(w) == Inflect(HiWho, w, GetCombinedBinaryType(w), <<"singular">>, <<>>)
        second == [i \in DOMAIN first |->
                      IF i = Len(first) \/ ~isPluralFeminine(first[i]) THEN first[i]
                      ELSE IF singular(first[i]) = NoText /\ guess THEN GuessSingularInflection(first[i])
                      ELSE singular(first[i])]
    IN  IF \E i \in DOMAIN words : first[i] = NoText THEN NoText
        ELSE IF Len(words) <= 1 \/ ~{"plural", "verb"} \subseteq GetCombinedBinaryType(last) THEN first
        ELSE IF \E i \in DOMAIN second : second[i] = NoText THEN NoText
        ELSE second

HiDisplay(displayData, constraints, guess) ==
    LET value == GetTheBestDisplayValue(displayData, constraints)
        words == HiInflectSignificantWords(GetSignificantWords(value.text), constraints, guess)
        inflected == IF IsKnownWord(value.text) THEN HiInflectWord(value.text, constraints, guess, FALSE)
                     ELSE IF words = NoText THEN NoText
                     ELSE GetStringFromInflectedSignificantWords(value.text, words)
    IN  IF value = NoText \/ value.text = <<>> THEN NoText
        ELSE IF constraints = NoConstraints THEN value
        ELSE IF inflected = NoText /\ ~guess THEN NoText
        ELSE DisplayValue(OrElse(inflected, value.text), MergeConstraints(value, constraints))

----------------------------------------------------------------------------
(* Malayalam *)

MlNumber(text) ==
    LET lookup == Lookup(Numbers, <<"noun", "verb">>)
        tokens == GetSignificantWords(text)
        telling == {i \in DOMAIN tokens : HasAllProperties(tokens[i], {"noun"}) /\ Determine(lookup, tokens[i]) # ""}
    IN  IF text = <<>> THEN ""
        ELSE IF Determine(lookup, text) # "" THEN Determine(lookup, text)
        ELSE IF telling # {} THEN Determine(lookup, tokens[FirstIn(telling)])
        ELSE IF EndsWithAny(LastToken(text), {<<"kal">>, <<"ngal">>, <<"maar">>, <<"var">>, <<"kal", "ude">>, <<"ngal", "kku">>})
        THEN "plural" ELSE "singular"

\* By the dictionary, or by how the first token ends.
MlGender(text) ==
    LET lookup == Lookup({"masculine", "feminine", "neuter"}, <<"noun", "pronoun">>)
        tokens == GetSignificantWords(text)
        told(i) == Determine(lookup, tokens[i])
        telling == {i \in DOMAIN tokens : told(i) # ""}
        nouns == {i \in telling : HasAllProperties(tokens[i], {"noun"})}
        first == FirstToken(text)
    IN  IF text = <<>> THEN ""
        ELSE IF Determine(lookup, text) # "" THEN Determine(lookup, text)
        ELSE IF nouns # {} THEN told(FirstIn(nouns))
        ELSE IF telling # {} THEN told(FirstIn(telling))
        ELSE IF EndsWithAny(first, {<<"n">>, <<"r">>}) THEN "masculine"
        ELSE IF EndsWithAny(first, {<<"i">>, <<"aali">>}) THEN "feminine"
        ELSE IF EndsWithAny(first, {<<"th">>, <<"m">>, <<"yam">>}) THEN "neuter"
        ELSE "masculine"

MlCaseSuffixes ==
    << << <<"nte">>, "genitive">>, << <<"y", "ude">>, "genitive">>, << <<"ude">>, "genitive">>, << <<"udethu">>, "genitive">>,
       << <<"ne">>, "accusative">>, << <<"kku">>, "dative">>, << <<"y", "il">>, "locative">>, << <<"il">>, "locative">>,
       << <<"aal">>, "instrumental">>, << <<"vazhi">>, "instrumental">>, << <<"oode">>, "sociative">> >>

MlCase(text) ==
    LET at == {i \in DOMAIN MlCaseSuffixes : EndsWith(text, MlCaseSuffixes[i][1])}
    IN  IF at = {} THEN "" ELSE MlCaseSuffixes[FirstIn(at)][2]

MlFeature(value, feature) ==
    CASE feature = "number" -> AnswerOf(MlNumber(value.text))
      [] feature = "gender" -> AnswerOf(MlGender(value.text))
      [] feature = "case" -> AnswerOf(MlCase(value.text))
      [] OTHER -> NoText

MlWho ==
    [priorities |-> << <<"noun", "verb", "pronoun">>,
                       <<"nominative", "accusative", "dative", "genitive", "locative", "instrumental", "sociative">>,
                       <<"singular", "plural">>, <<"masculine", "feminine", "neuter">>, <<"formal", "informal">>,
                       <<"inclusive", "exclusive">>, <<"first", "second", "third">>, <<"past", "present", "future">>,
                       <<"indicative", "imperative", "subjunctive">> >>,
     ignored |-> {}, fallback |-> TRUE]

MlConstraints(constraints) == ConvertToStringConstraints(constraints, <<"case", "number", "gender", "pos">>)

ValueIn(values, S) == LET at == {i \in DOMAIN values : values[i] \in S} IN IF at = {} THEN "" ELSE values[FirstIn(at)]

MlSuffixes ==
    (<<"singular", "dative">> :> <<"kku">>) @@ (<<"singular", "genitive">> :> <<"y", "ude">>)
      @@ (<<"plural", "nominative">> :> <<"kal">>) @@ (<<"plural", "dative">> :> <<"kal", "kku">>)
      @@ (<<"plural", "genitive">> :> <<"kal", "ude">>)

\* Only an accusative that is no plural takes a suffix: the table has none.
MlWithSuffix(word, values) ==
    LET case == ValueIn(values, {"nominative", "accusative", "dative", "genitive", "instrumental", "locative"})
        key == <<ValueIn(values, Numbers), case>>
    IN  IF case = "accusative" /\ ~EndsWith(word, <<"kal">>) /\ key \in DOMAIN MlSuffixes THEN word \o MlSuffixes[key] ELSE word

\* Only of a person, a number, a tense and a mood that are all asked for.
MlVerbSuffix(values) ==
    LET person == ValueIn(values, {"first", "second", "third"})
        number == ValueIn(values, Numbers)
        tense == ValueIn(values, {"past", "present", "future"})
    IN  IF person = "" \/ number = "" \/ ValueIn(values, {"indicative", "imperative", "subjunctive"}) # "indicative" THEN <<>>
        ELSE CASE tense = "past" -> IF number = "singular" THEN <<"cchu">> ELSE IF person = "first" THEN <<"nju">> ELSE <<"nnu">>
               [] tense = "present" -> <<"ikkunnu">>
               [] tense = "future" -> <<" ", "cheyyum">>
               [] OTHER -> <<>>

\* The last word in Malayalam script is inflected.
GuessFallbackNounInflection(phrase, values) ==
    LET tokens == Tokens(phrase)
        candidates == {i \in DOMAIN tokens : Significant(tokens[i]) /\ Range(tokens[i]) \cap MalayalamPieces # {}}
        last == tokens[LastIn(candidates)]
        inflected == Inflect(MlWho, last, GetCombinedBinaryType(last), values, <<>>)
    IN  IF GetSignificantWords(phrase) = <<>> THEN NoText
        ELSE IF candidates = {} THEN phrase
        ELSE FlattenSeq([tokens EXCEPT ![LastIn(candidates)] = IF inflected = NoText THEN MlWithSuffix(last, values) ELSE inflected])

\* The last word is inflected, and a space is put in front of every word
\* but the first, to the one that the tokens have.
MlInflectPhrase(phrase, values, guess) ==
    LET tokens == Tokens(phrase)
        last == LastIn({i \in DOMAIN tokens : Significant(tokens[i])})
        pos == ValueIn(values, {"noun", "pronoun", "verb"})
        byDictionary == Inflect(MlWho, tokens[last], GetCombinedBinaryType(tokens[last]), values, <<>>)
        inflected == IF byDictionary # NoText \/ ~guess THEN byDictionary
                     ELSE CASE pos \in {"noun", "pronoun"} -> GuessFallbackNounInflection(phrase, values)
                            [] pos = "verb" -> tokens[last] \o MlVerbSuffix(values)
                            [] OTHER -> NoText
        shown(i) == IF i # last THEN tokens[i]
                    ELSE IF inflected # NoText THEN inflected ELSE MlWithSuffix(tokens[i], values)
    IN  IF GetSignificantWords(phrase) = <<>> THEN phrase
        ELSE FoldLeft(LAMBDA result, i :
                         result \o (IF result # <<>> /\ Significant(tokens[i]) THEN <<" ">> ELSE <<>>) \o shown(i),
                      <<>>, [i \in DOMAIN tokens |-> i])

\* What is the same as before is no answer.
MlDisplay(displayData, constraints, guess) ==
    LET value == GetTheBestDisplayValue(displayData, constraints)
        inflected == MlInflectPhrase(value.text, MlConstraints(constraints), guess)
        foreign == \/ Range(value.text) \cap MalayalamPieces = {}
                   \/ \E x \in Range(value.text) : x \notin MalayalamPieces \cup {" "}
    IN  IF value = NoText \/ value.text = <<>> THEN NoText
        ELSE IF constraints = NoConstraints \/ foreign THEN DisplayValue(value.text, constraints)
        ELSE IF inflected = <<>> \/ inflected = value.text THEN NoText
        ELSE DisplayValue(inflected, constraints)
============================================================================
