------------------------------- MODULE Slavic -------------------------------
(***************************************************************************)
(* The grammars of Russian, Polish, Serbian, Czech, Ukrainian and Romanian *)
(* (grammar/synthesis/RuGrammarSynthesizer and so on).  A Cyrillic letter  *)
(* is named by a Latin one, with "q" for ya, "c" for che and tse, "w" for  *)
(* sha, "x" for shcha and "j" for zhe and je; a Polish one with a mark by  *)
(* the letter and the mark, as "a,".                                       *)
(***************************************************************************)
EXTENDS Grammar

CONSTANTS
    Exemplars,   \* a function from endings to the words that end so
    Inflectable, \* the pieces that Russian is written with
    Foreign      \* the Cyrillic pieces that it is not written with

SlavicVowels == {"a", "e", "i", "o", "u", "y", "q", "o'", "e,", "a,"}

\* The exemplar of the last n pieces of a word.
ExemplarOf(word, n) == At(Exemplars, DropFirst(word, Len(word) - n))
HasExemplar(word, n) == DropFirst(word, Len(word) - n) \in DOMAIN Exemplars

Given(values) == SelectSeq(values, LAMBDA v : v # "")

SlavicGenders == {"masculine", "feminine", "neuter"}
SlavicCases == {"nominative", "genitive", "dative", "accusative", "instrumental", "locative", "vocative"}

----------------------------------------------------------------------------
(* Russian *)

StartsWith2Consonant(word, firsts) ==
    Len(word) > 1 /\ At(LowerOf, word[1]) \in firsts /\ word[2] \notin SlavicVowels

RuToWords ==
    {Letters("vsemu"), Letters("vsqkomu"), Letters("vsqceskomu"), Letters("vtorniku"), Letters("vtoromu"),
     Letters("mne"), Letters("mnogim"), Letters("mnogomu")}

RuWithWords ==
    {Letters(w) : w \in {"vsem", "vsemi", "vseh", "vsqkim", "vsqkimi", "vsqkih", "vsqceskim", "vsqceskimi",
                         "vtornik", "vtornika", "vtorogo", "vtoryh", "mnogih", "mnoj", "mnoju"}}

RuStarts(text, prefixes) == \E p \in prefixes : StartsWith(text, Letters(p))

\* The preposition before a text, with the vowel that makes it pronounceable.
RuPreposition(name, text) ==
    LET lower == Lowercase(text)
    IN  CASE name = "aboutPrep" ->
               IF RuStarts(lower, {"vs", "rt", "mn"}) THEN Letters("obo")
               ELSE IF IsStartsWithVowel(text, SlavicVowels) THEN Letters("ob") ELSE Letters("o")
          [] name = "inPrep" ->
               IF \/ text \in {Letters("mne"), Letters("cto")} \/ RuStarts(text, {"mnog", "mnoj"})
                  \/ StartsWith2Consonant(text, {"v", "f", "r"})
               THEN Letters("vo") ELSE Letters("v")
          [] name = "withPrep" ->
               IF text # <<>> /\ ( \/ lower \in RuWithWords \/ RuStarts(lower, {"x", "vc"})
                                   \/ StartsWith2Consonant(lower, {"s", "j", "z", "w"}) )
               THEN Letters("so") ELSE Letters("s")
          [] name = "toPrep" -> IF lower \in RuToWords THEN Letters("ko") ELSE Letters("k")

\* The features that answer with their value too.
RuWithValue ==
    ("withAboutPrep" :> "aboutPrep") @@ ("withInPrep" :> "inPrep")
      @@ ("withWithPrep" :> "withPrep") @@ ("withToPrep" :> "toPrep")

RuArticle(value, name, includes) ==
    CreatePreposition([includes |-> includes, spaces |-> TRUE], value,
        Plain(IF includes /\ HasFeature(value.constraints, name) THEN value.constraints[name]
              ELSE RuPreposition(name, value.text)))

RuFeature(value, feature) ==
    CASE feature \in {"aboutPrep", "inPrep", "withPrep", "toPrep"} -> RuArticle(value, feature, FALSE)
      [] feature \in DOMAIN RuWithValue -> RuArticle(value, RuWithValue[feature], TRUE)
      [] feature = "gender" -> AnswerOf(Determine(PlainLookup(SlavicGenders), value.text))
      [] feature = "animacy" -> AnswerOf(Determine(PlainLookup({"animate", "inanimate"}), value.text))
      [] OTHER -> NoText

RuWho ==
    [priorities |-> << <<"proper-noun", "noun", "adjective", "verb">>,
                       <<"nominative", "genitive", "dative", "accusative", "instrumental", "prepositional">>,
                       <<"masculine", "feminine", "neuter">>, <<"singular", "plural">>,
                       <<"inanimate", "animate">>, <<"informal">> >>,
     ignored |-> {{"proper-noun", "plural"}}, fallback |-> TRUE]

\* The names of the months in dates, and of minutes.
RuDoNotInflect ==
    {Letters(w) : w \in {"avgusta", "aprelq", "dekabrq", "iulq", "iunq", "marta", "maq", "min", "noqbrq", "oktqbrq",
                         "sentqbrq", "fevralq", "qnvarq"}}

RuIsInflectable(word) == Range(word) \subseteq Inflectable /\ word \notin RuDoNotInflect

RuRemapCase(case) ==
    IF case = "ablative" THEN "instrumental" ELSE IF case = "locative" THEN "prepositional" ELSE case

RuInflectUsingDictionary(word, types, constraints, disambiguation) ==
    LET lower == Lowercase(word)
        asWritten == InflectWord(RuWho, word, types, constraints, disambiguation)
        inLower == InflectWord(RuWho, lower, types, constraints, disambiguation)
    IN  IF ~RuIsInflectable(word) THEN word
        ELSE IF types = {} THEN NoText
        ELSE IF asWritten # NoText \/ lower = word THEN asWritten
        ELSE IF inLower = NoText THEN NoText
        ELSE IF IsAllUpperCase(word) THEN Uppercase(inLower)
        ELSE <<word[1]>> \o Tail(inLower)

\* A word as the exemplar with the longest ending it shares is inflected.
RuGuessInflection(word, constraints) ==
    LET of(n) == RuInflectUsingDictionary(ExemplarOf(word, n), GetCombinedBinaryType(ExemplarOf(word, n)), constraints, <<>>)
        usable == {n \in 1..5 : n <= Len(word) /\ HasExemplar(word, n) /\ of(n) # NoText}
        exemplar == ExemplarOf(word, LastIn(usable))
        inflection == of(LastIn(usable))
        shared == LastIn({k \in 0..Len(exemplar) : k <= Len(inflection) /\ SubSeq(inflection, 1, k) = SubSeq(exemplar, 1, k)})
    IN  IF Len(word) <= 2 \/ ~RuIsInflectable(word) \/ usable = {} THEN NoText
        ELSE DropLast(word, Len(exemplar) - shared) \o DropFirst(inflection, shared)

\* Nothing, if a word is unknown and must not be guessed.
RuInflectPhraseWord(word, constraints, guess) ==
    LET types == GetCombinedBinaryType(word)
        inflected == RuInflectUsingDictionary(word, types, constraints, <<>>)
    IN  IF inflected # NoText THEN inflected
        ELSE IF types # {} THEN word
        ELSE IF guess THEN OrElse(RuGuessInflection(word, constraints), word)
        ELSE NoText

\* From the last word to the first; two words with a hyphen between that
\* are known together are one.  The empty text if a word is nothing.
RuInflectPhrase(text, constraints, guess) ==
    LET tokens == Tokens(text)
        joined(i) == tokens[i - 2] \o tokens[i - 1] \o tokens[i]
        joins(i) == i > 2 /\ tokens[i - 1] = <<"-">> /\ IsKnownWord(joined(i))
        step(done, i) ==
            LET word == IF joins(i) THEN joined(i) ELSE tokens[i]
                inflected == RuInflectPhraseWord(word, constraints, guess)
            IN  IF done.text = NoText \/ i > done.next THEN done
                ELSE IF ~Significant(tokens[i]) THEN [text |-> tokens[i] \o done.text, next |-> i - 1]
                ELSE IF inflected = NoText THEN [done EXCEPT !.text = NoText]
                ELSE [text |-> inflected \o done.text, next |-> IF joins(i) THEN i - 3 ELSE i - 1]
        whole == FoldLeft(step, [text |-> <<>>, next |-> Len(tokens)], Reverse([i \in DOMAIN tokens |-> i]))
    IN  OrElse(whole.text, <<>>)

\* The first of the words that is one of these only.
RuTelling(words, mask) ==
    LET telling == {i \in DOMAIN words : Cardinality(GetCombinedBinaryType(words[i]) \cap mask) = 1}
    IN  IF telling = {} THEN "" ELSE GetPropertyName(GetCombinedBinaryType(words[FirstIn(telling)]) \cap mask)

\* What is not asked for the words of a phrase tell, the last of them how
\* animate it is.
RuDeducedConstraints(text, case, number, gender, animacy) ==
    LET words == GetSignificantWords(text)
        head == IF words = <<>> THEN {} ELSE GetCombinedBinaryType(words[Len(words)])
    IN  Given(<< case,
                 IF number # "" THEN number ELSE RuTelling(words, {"singular", "plural"}),
                 IF gender # "" THEN gender ELSE RuTelling(words, SlavicGenders),
                 IF animacy # "" \/ case # "accusative" THEN animacy
                 ELSE GetPropertyName(head \cap {"animate", "inanimate"}) >>)

RuInflectKnown(text, asked, disambiguation) ==
    IF ~IsKnownWord(text) THEN <<>>
    ELSE OrElse(RuInflectUsingDictionary(text, GetCombinedBinaryType(text), asked, disambiguation), <<>>)

\* In the prepositional case, what is behind a comma stays.
RuDisplay(displayData, constraints, guess) ==
    LET value == displayData[1]
        text == value.text
        case == RuRemapCase(FeatureValue(constraints, "case"))
        number == FeatureValue(constraints, "number")
        gender == FeatureValue(constraints, "gender")
        animacy == FeatureValue(constraints, "animacy")
        asked == Given(<<case, number, gender, animacy>>)
        known == RuInflectKnown(text, asked, ConvertToStringConstraints(constraints, <<"pos">>))
        commas == {i \in DOMAIN text : text[i] = ","}
        suffix == IF known = <<>> /\ case = "prepositional" /\ commas # {} THEN DropFirst(text, FirstIn(commas) - 1) ELSE <<>>
        body == DropLast(text, Len(suffix))
        whole == IF known # <<>> THEN known
                 ELSE IF suffix # <<>> /\ RuInflectKnown(body, asked, <<>>) # <<>>
                 THEN RuInflectKnown(body, asked, <<>>) \o suffix
                 ELSE LET phrase == RuInflectPhrase(body, RuDeducedConstraints(body, case, number, gender, animacy), guess)
                      IN  IF phrase = <<>> THEN <<>> ELSE phrase \o suffix
    IN  IF displayData = <<>> THEN NoText
        ELSE IF asked = <<>> \/ Range(text) \cap Inflectable = {} \/ Range(text) \cap Foreign # {} THEN value
        ELSE IF whole = <<>> THEN value
        ELSE DisplayValue(whole, constraints)

----------------------------------------------------------------------------
(* Polish *)

\* Before which letters, when a consonant follows, and before which starts
\* of words a preposition has an e.
PlPrepositions ==
    LET me == Letters("mnie")
        mine == <<"m", "n", "a,">>
        before(letters, starts) == [letters |-> letters, starts |-> starts]
    IN  ("bez" :> before({}, {me})) @@ ("nad" :> before({}, {mine, me, Letters("wszystko")}))
          @@ ("od" :> before({}, {me})) @@ ("pod" :> before({}, {mine, me}))
          @@ ("przed" :> before({}, {mine, me, Letters("wszystkim")})) @@ ("przez" :> before({}, {me}))
          @@ ("w" :> before({"f", "w"}, {me}))
          @@ ("z" :> before({"z", "z'", "s'", "s"}, {Letters("ws"), Letters("wz"), mine, Letters("dwoje")}))

PlGetPreposition(preposition, word) ==
    LET names == {p \in DOMAIN PlPrepositions : Letters(p) = preposition}
        lower == Lowercase(word)
        longer(p) == /\ Len(lower) > 1
                     /\ \/ lower[1] \in PlPrepositions[p].letters /\ lower[2] \notin SlavicVowels
                        \/ \E s \in PlPrepositions[p].starts : StartsWith(lower, s)
    IN  IF \E p \in names : longer(p) THEN preposition \o <<"e">> ELSE preposition

\* A preposition of a phrase before the word that follows it.
PlTokenPreposition(tokens, i) ==
    LET following == {j \in DOMAIN tokens : j > i /\ Significant(tokens[j])}
    IN  IF following = {} THEN tokens[i]
        ELSE PlGetPreposition(Lowercase(tokens[i]), Lowercase(tokens[FirstIn(following)]))

PlAnimacies == {"animate", "inanimate", "human"}

PlDetermine(mask, text) == Determine(PlainLookup(mask), text)

PlFeature(value, feature) ==
    CASE feature = "gender" -> AnswerOf(PlDetermine(SlavicGenders, value.text))
      [] feature = "number" -> AnswerOf(PlDetermine({"singular", "plural"}, value.text))
      [] feature = "case" -> AnswerOf(PlDetermine(SlavicCases, value.text))
      [] feature = "animacy" -> AnswerOf(PlDetermine(PlAnimacies, value.text))
      [] OTHER -> NoText

PlWho ==
    [priorities |-> << <<"numeral", "noun", "pronoun", "adjective", "verb">>,
                       <<"nominative", "genitive", "dative", "accusative", "instrumental", "locative", "vocative">>,
                       <<"singular", "plural">>, <<"masculine", "feminine", "neuter">>,
                       <<"human", "nonhuman", "animate", "inanimate">> >>,
     ignored |-> {}, fallback |-> FALSE]

\* The prefixes of a negation and of a superlative.
PlIsPrefixed(word) == StartsWith(Lowercase(word), Letters("nie")) \/ StartsWith(Lowercase(word), Letters("naj"))

\* Once the rest of a prefixed word was looked up, the word is what it is.
PlTypes(word) == GetCombinedBinaryType(IF PlIsPrefixed(word) THEN DropFirst(word, 3) ELSE word)

PlGuessInflection(word, constraints, disambiguation) ==
    LET of(n) == InflectExemplar(PlWho, word, ExemplarOf(word, n), GetCombinedBinaryType(ExemplarOf(word, n)),
                                 constraints, disambiguation)
        usable == {n \in 1..7 : /\ n <= Len(word) - 2 /\ HasExemplar(word, n)
                                /\ IsKnownWord(ExemplarOf(word, n)) /\ of(n) # NoText}
    IN  IF usable = {} THEN NoText ELSE of(LastIn(usable))

PlInflectWord(word, constraints, disambiguation, guess) ==
    LET inflected(w) == Inflect(PlWho, w, GetCombinedBinaryType(w), constraints, disambiguation)
        rest == DropFirst(word, 3)
    IN  IF IsKnownWord(word) /\ inflected(word) # NoText THEN inflected(word)
        ELSE IF PlIsPrefixed(word) /\ IsKnownWord(rest) /\ inflected(rest) # NoText
        THEN SubSeq(word, 1, 3) \o inflected(rest)
        ELSE IF guess /\ PlTypes(word) = {} THEN PlGuessInflection(word, constraints, disambiguation)
        ELSE NoText

\* Mutant of PlInflectAttribute: a word that cannot be inflected is left out.
PlInflectAttribute_Lost(tokens, i, number, gender, case, animacy, guess) ==
    OrElse(PlInflectWord(tokens[i], Given(<<number, gender, case, animacy>>), <<"adjective">>, guess), <<>>)

\* A word in front of the head, that agrees with it.
PlInflectAttribute(tokens, i, number, gender, case, animacy, guess) ==
    LET word == tokens[i]
        tried(a) == PlInflectWord(word, Given(<<number, gender, case, a>>), <<"adjective">>, guess)
    IN  IF "adposition" \in GetCombinedBinaryType(word) THEN PlTokenPreposition(tokens, i)
        ELSE IF tried(animacy) # NoText THEN tried(animacy)
        ELSE IF animacy # "" /\ tried("") # NoText THEN tried("")
        ELSE IF "pronoun" \in PlTypes(word) THEN word
        ELSE IF PlTypes(word) # {} /\ GetInflectionPatternsForWord(word) = <<>> THEN word
        ELSE IF animacy = "human" THEN tried("animate")
        ELSE NoText

PlInflectTokenChain(text, constraints, guess) ==
    LET tokens == Tokens(text)
        heads == {i \in DOMAIN tokens : Significant(tokens[i])}
        h == LastIn(heads)
        head == tokens[h]
        inflectedHead == PlInflectWord(head, ConvertToStringConstraints(constraints, <<"number", "gender", "case">>),
                                       ConvertToStringConstraints(constraints, <<"pos">>), guess)
        orTold(feature, mask) == IF FeatureValue(constraints, feature) # "" THEN constraints[feature] ELSE PlDetermine(mask, head)
        number == orTold("number", {"singular", "plural"})
        case == orTold("case", SlavicCases)
        gender == IF number = "singular" THEN orTold("gender", SlavicGenders) ELSE FeatureValue(constraints, "gender")
        told == IF gender = "masculine" \/ number = "plural" THEN orTold("animacy", PlAnimacies)
                ELSE FeatureValue(constraints, "animacy")
        animacy == IF number # "plural" THEN told ELSE IF told = "human" THEN "human" ELSE "nonhuman"
        attribute(i) == PlInflectAttribute(tokens, i, number, gender, case, animacy, guess)
    IN  IF heads = {} THEN NoText
        ELSE IF inflectedHead = NoText /\ PlTypes(head) = {} THEN NoText
        ELSE IF \E i \in heads \ {h} : attribute(i) = NoText THEN NoText
        ELSE FlattenSeq([i \in DOMAIN tokens |-> IF i = h THEN OrElse(inflectedHead, head)
                                                 ELSE IF i \in heads THEN attribute(i) ELSE tokens[i]])

\* An adjective or a pronoun in the plural has one form for all that is not
\* a man, where the cases do not tell it by its genders.
PlInflectKnown(text, constraints, guess) ==
    LET merged == /\ Is(constraints, "number", "plural")
                  /\ GetCombinedBinaryType(text) \cap {"adjective", "pronoun"} # {}
                  /\ FeatureValue(constraints, "animacy") \in {"animate", "inanimate"}
                  /\ FeatureValue(constraints, "case") \in {"nominative", "accusative", "vocative"}
    IN  PlInflectWord(text,
            Given(<< FeatureValue(constraints, "number"), IF merged THEN "" ELSE FeatureValue(constraints, "gender"),
                     FeatureValue(constraints, "case"), IF merged THEN "nonhuman" ELSE FeatureValue(constraints, "animacy") >>),
            ConvertToStringConstraints(constraints, <<"pos">>), guess)

\* The preposition that is asked for, unless it is there.
PlWithPreposition(text, preposition) ==
    LET first == Lowercase(FirstWord(text))
    IN  IF preposition = <<>> \/ GetSignificantWords(text) = <<>> \/ first = preposition THEN text
        ELSE PlGetPreposition(preposition, first) \o <<" ">> \o text

PlDisplay(displayData, constraints, guess) ==
    LET value == GetTheBestDisplayValue(displayData, constraints)
        inflected == IF IsKnownWord(value.text) THEN PlInflectKnown(value.text, constraints, guess)
                     ELSE PlInflectTokenChain(value.text, constraints, guess)
    IN  IF value = NoText \/ value.text = <<>> THEN NoText
        ELSE DisplayValue(IF constraints = NoConstraints THEN value.text
                          ELSE PlWithPreposition(OrElse(inflected, value.text), Letters(FeatureValue(constraints, "withPreposition"))),
                          MergeConstraints(value, constraints))

----------------------------------------------------------------------------
(* Serbian *)

SrFeature(value, feature) ==
    CASE feature = "gender" -> AnswerOf(Determine(PlainLookup(SlavicGenders), value.text))
      [] feature = "animacy" -> AnswerOf(Determine(PlainLookup({"animate", "inanimate"}), value.text))
      [] feature = "number" -> AnswerOf(Determine(PlainLookup({"singular", "plural"}), value.text))
      [] OTHER -> NoText

SrWho ==
    [priorities |-> << <<"noun", "adjective">>, <<"singular", "plural">>, <<"masculine", "feminine", "neuter">> >>,
     ignored |-> {}, fallback |-> TRUE]

SrInflectFromDictionary(lemma, constraints) ==
    LET case == FeatureValue(constraints, "case")
        inflected == Inflect(SrWho, lemma, GetCombinedBinaryType(lemma),
                        Given(<< FeatureValue(constraints, "number"), IF case = "nominative" THEN "" ELSE case,
                                 FeatureValue(constraints, "gender") >>), <<>>)
    IN  IF inflected \in {NoText, <<>>} THEN lemma ELSE inflected

SrIsVowel(piece) == At(LowerOf, piece) \in {"a", "e", "i", "o", "u"}
SrIsConsonant(piece) == piece \notin Marks /\ ~SrIsVowel(piece)

\* Its vowels, and each r that is a syllable of its own.
SrSyllables(lemma) ==
    Cardinality({i \in DOMAIN lemma :
        \/ SrIsVowel(lemma[i])
        \/ /\ At(LowerOf, lemma[i]) = "r" /\ i < Len(lemma)
           /\ SrIsConsonant(lemma[i + 1])
           /\ i > 1 => SrIsConsonant(lemma[i - 1]) })

SrSuffixes ==
    [singular |-> ("nominative" :> "a") @@ ("genitive" :> "e") @@ ("dative" :> "i") @@ ("accusative" :> "u")
                    @@ ("vocative" :> "a") @@ ("instrumental" :> "om") @@ ("locative" :> "i"),
     plural |-> ("nominative" :> "e") @@ ("genitive" :> "a") @@ ("dative" :> "ama") @@ ("accusative" :> "e")
                    @@ ("vocative" :> "e") @@ ("instrumental" :> "ama") @@ ("locative" :> "ama")]

SrApplySuffix(base, number, case) == base \o Letters(SrSuffixes[number][case])

\* A noun with the ending a, by its ending only.
SrInflectByRuleA(lemma, number, case) ==
    LET form == SrApplySuffix(DropLast(lemma, 1), number, case)
        stem == DropLast(form, 1)
        isProper == StartsUpper(lemma)
    IN  IF number = "singular" /\ case = "vocative"
        THEN IF isProper /\ SrSyllables(lemma) = 2 THEN stem \o <<"o">>
             ELSE IF EndsWith(lemma, Letters("ica")) /\ SrSyllables(lemma) \notin {1, 2} THEN stem \o <<"e">>
             ELSE form
        ELSE IF number = "plural" /\ case = "genitive"
        THEN IF EndsWithAny(lemma, {<<"t", "nj", "a">>, <<"d", "nj", "a">>, Letters("pta"), Letters("lba"), Letters("rva")})
             THEN stem \o <<"i">>
             ELSE IF EndsWithAny(form, {Letters("jka"), <<"m", "lj", "a">>, Letters("vca"), Letters("tka"), Letters("pka")})
             THEN DropLast(form, 2) \o <<"a">> \o DropFirst(form, Len(form) - 2)
             ELSE form
        ELSE form

\* The rules for the other endings give the word itself.
SrInflectWithRule(lemma, constraints) ==
    LET case == FeatureValue(constraints, "case")
        number == IF FeatureValue(constraints, "number") = "" THEN "singular" ELSE constraints["number"]
    IN  IF case = "" \/ (number = "singular" /\ case = "nominative") \/ ~EndsWith(lemma, <<"a">>) THEN lemma
        ELSE SrInflectByRuleA(lemma, number, case)

SrDisplay(displayData, constraints, guess) ==
    LET text == displayData[1].text
    IN  IF displayData = <<>> \/ text = <<>> THEN NoText
        ELSE DisplayValue(IF IsKnownWord(text) THEN SrInflectFromDictionary(text, constraints)
                          ELSE IF guess THEN SrInflectWithRule(text, constraints)
                          ELSE text,
                          constraints)

----------------------------------------------------------------------------
(* Czech, Ukrainian and Romanian: a prefix in front of an adjective need   *)
(* not be known                                                            *)

SlavicWho(others) ==
    [priorities |-> << <<"noun", "adjective">>,
                       <<"nominative", "genitive", "dative", "accusative", "instrumental", "locative", "vocative">>,
                       <<"singular", "plural">>, <<"masculine", "feminine", "neuter">>,
                       <<"inanimate", "animate">> >> \o others,
     ignored |-> {}, fallback |-> FALSE]

AdjectivePrefix(prefix) == <<[text |-> Letters(prefix), matched |-> {"adjective"}]>>

CsDisplay(displayData, constraints, guess) ==
    PrefixedDisplay(SlavicWho(<<>>), displayData, constraints, "animacy", AdjectivePrefix("nej"))

UkDisplay(displayData, constraints, guess) ==
    PrefixedDisplay(SlavicWho(<< <<"positive", "comparative">> >>), displayData, constraints, "animacy", AdjectivePrefix("naj"))

RoDisplay(displayData, constraints, guess) ==
    PrefixedDisplay([priorities |-> << <<"noun", "adjective">>, <<"nominative", "genitive">>, <<"singular", "plural">>,
                                       <<"masculine", "feminine", "neuter">> >>,
                     ignored |-> {}, fallback |-> FALSE],
                    displayData, constraints, "definiteness", <<>>)

\* extra is the feature that a language has besides the common three.
SlavicFeature(value, feature, extra, values) ==
    CASE feature = "gender" -> AnswerOf(Determine(PlainLookup(SlavicGenders), value.text))
      [] feature = "number" -> AnswerOf(Determine(PlainLookup({"singular", "plural"}), value.text))
      [] feature = "case" -> AnswerOf(Determine(PlainLookup(SlavicCases), value.text))
      [] feature = extra -> AnswerOf(Determine(PlainLookup(values), value.text))
      [] OTHER -> NoText

CsFeature(value, feature) == SlavicFeature(value, feature, "animacy", {"animate", "inanimate", "human"})
UkFeature(value, feature) == SlavicFeature(value, feature, "animacy", {"animate", "inanimate"})
RoFeature(value, feature) == SlavicFeature(value, feature, "definiteness", {"definite", "indefinite"})
============================================================================
