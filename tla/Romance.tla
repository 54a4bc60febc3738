------------------------------ MODULE Romance ------------------------------
(***************************************************************************)
(* The grammars of Spanish, French, Italian and Portuguese                 *)
(* (grammar/synthesis/EsGrammarSynthesizer and so on).  Letters with an    *)
(* accent are named by the letter and a mark, as "o'".                     *)
(***************************************************************************)
EXTENDS Grammar

RomanceVowels ==
    {"a", "e", "i", "o", "u", "a'", "e'", "i'", "o'", "u'", "a/", "e/", "i/", "o/", "u/", "e^", "o^", "a~", "o~"}

RomanceNumbers == {"singular", "plural"}
RomanceGenders == {"masculine", "feminine"}

\* What an article agrees with: what its value says, else what is told of
\* its text.
AgreementOf(value, number, gender) ==
    LET said(feature, values, told) ==
          IF FeatureValue(value.constraints, feature) \in values THEN value.constraints[feature] ELSE told
    IN  [number |-> said("number", RomanceNumbers, number), gender |-> said("gender", RomanceGenders, gender)]

RomanceForms(singularM, singularF, pluralM, pluralF) ==
    [singular |-> [masculine |-> Letters(singularM), feminine |-> Letters(singularF)],
     plural |-> [masculine |-> Letters(pluralM), feminine |-> Letters(pluralF)]]

\* The word, and behind a value that brings it that one.
RomanceArticle(lookup, value, name, word) ==
    CreatePreposition(lookup, value,
        Plain(IF lookup.includes /\ HasFeature(value.constraints, name) THEN value.constraints[name] ELSE word))

RomanceWho(partsOfSpeech) ==
    [priorities |-> <<partsOfSpeech, <<"third", "first", "second">>, <<"singular", "plural">>,
                      <<"masculine", "feminine">> >>,
     ignored |-> {}, fallback |-> TRUE]

\* A display function that inflects the words of a phrase one by one: those
\* that stay are given by stays, the others are what inflect makes of them;
\* nothing if one of them cannot be inflected.
InflectTokens(tokens, stays, inflected, guess) ==
    IF ~guess /\ \E i \in DOMAIN tokens : i \notin stays /\ inflected[i] = NoText THEN NoText
    ELSE FlattenSeq([i \in DOMAIN tokens |-> IF i \in stays THEN tokens[i] ELSE OrElse(inflected[i], tokens[i])])

\* The tokens that stay: all but words, and the first adposition and what
\* comes behind it.
StayBehindAdposition(tokens) ==
    {i \in DOMAIN tokens :
       \/ ~Significant(tokens[i])
       \/ \E j \in 1..i : Significant(tokens[j]) /\ "adposition" \in GetCombinedBinaryType(tokens[j])}

----------------------------------------------------------------------------
(* Spanish *)

EsWords ==
    ("defArticle" :> RomanceForms("el", "la", "los", "las")) @@ ("indefArticle" :> RomanceForms("un", "una", "unos", "unas"))
      @@ ("dePrepArticle" :> RomanceForms("del", "de la", "de los", "de las"))
      @@ ("aPrepArticle" :> RomanceForms("al", "a la", "a los", "a las"))
      @@ ("demAdj" :> RomanceForms("este", "esta", "estos", "estas"))

\* The features that answer with their value too.
EsWithValue ==
    ("withDePrepArticle" :> "dePrepArticle") @@ ("withAPrepArticle" :> "aPrepArticle") @@ ("withDemAdj" :> "demAdj")

EsLookup(mask) == Lookup(mask, <<"noun", "adjective">>)

EsGuessGender(word, isKnown) ==
    IF EndsWithAny(word, {<<"i", "s">>, Letters("iones"), <<"i", "e">>, <<"c", "i", "o'", "n">>,
                          <<"s", "i", "o'", "n">>, Letters("umbre")})
    THEN "feminine"
    ELSE IF ~isKnown /\ EndsWithAny(word, {<<"a", "s">>, <<"a">>}) THEN "feminine"
    ELSE "masculine"

EsGuessCount(word) ==
    IF EndsWith(word, <<"s">>) /\ ~EndsWithAny(word, {<<"i'", "s">>, <<"e'", "s">>, <<"a'", "s">>})
    THEN "plural" ELSE "singular"

\* Of a phrase that is known, but as no noun of a gender, nothing is said;
\* of one that does not tell, its first word is guessed.
EsNumber(text) ==
    LET told == DeterminePhrase(EsLookup(RomanceNumbers), text, TRUE)
    IN  IF told # "" \/ text = <<>> THEN told ELSE EsGuessCount(Lowercase(FirstWord(text)))

EsGender(text) ==
    LET told == DeterminePhrase(EsLookup(RomanceGenders), text, TRUE)
        first == Lowercase(FirstWord(text))
    IN  IF told # "" \/ text = <<>> THEN told
        ELSE IF IsKnownWord(text) /\ GetCombinedBinaryType(text) \cap RomanceGenders = {} THEN ""
        ELSE EsGuessGender(first, IsKnownWord(first))

\* A feminine noun that begins with a stressed a has the masculine article.
EsArticle(value, name, includes) ==
    LET agreement == AgreementOf(value, EsNumber(value.text), EsGender(value.text))
        stressed == name # "demAdj"
                      /\ Determine(PlainLookup({"stressed"}), FirstWord(value.text)) = "stressed"
        gender == IF agreement.number = "singular" /\ agreement.gender = "feminine" /\ stressed
                  THEN "masculine" ELSE agreement.gender
    IN  RomanceArticle([includes |-> includes, spaces |-> TRUE], value, name,
                       IF agreement.number = "" \/ gender = "" THEN <<>> ELSE EsWords[name][agreement.number][gender])

\* The forms of a word with a space behind, as they are looked for.
RomanceArticlesOf(words, names) ==
    {words[name][n][g] \o <<" ">> : name \in names, n \in RomanceNumbers, g \in RomanceGenders}

EsArticles == [definite |-> RomanceArticlesOf(EsWords, {"defArticle"}),
               indefinite |-> RomanceArticlesOf(EsWords, {"indefArticle"})]

EsFeature(value, feature) ==
    CASE feature \in DOMAIN EsWords -> EsArticle(value, feature, FALSE)
      [] feature \in DOMAIN EsWithValue -> EsArticle(value, EsWithValue[feature], TRUE)
      [] feature = "number" -> AnswerOf(EsNumber(value.text))
      [] feature = "gender" -> AnswerOf(EsGender(value.text))
      [] feature = "definiteness" ->
           DetectArticle([EsArticles EXCEPT !.definite = @ \cup RomanceArticlesOf(EsWords, {"dePrepArticle", "aPrepArticle"})],
                         value.text)
      [] OTHER -> NoText

EsWho == RomanceWho(<<"noun", "adjective", "verb">>)

EsGuessGenderedInflection(word, gender) ==
    IF gender = "masculine" /\ EndsWith(word, <<"a">>) THEN DropLast(word, 1) \o <<"o">>
    ELSE IF gender = "masculine" /\ EndsWith(word, <<"a", "s">>) THEN DropLast(word, 2) \o <<"o", "s">>
    ELSE IF gender = "feminine" /\ EndsWith(word, <<"o">>) THEN DropLast(word, 1) \o <<"a">>
    ELSE IF gender = "feminine" /\ EndsWith(word, <<"o", "s">>) THEN DropLast(word, 2) \o <<"a", "s">>
    ELSE word

EsGuessPluralInflection(word) ==
    IF EndsWithAny(word, {<<"s">>, <<"x">>}) THEN word
    ELSE IF IsEndsWithVowel(word, RomanceVowels \cup {"y"}) THEN word \o <<"s">>
    ELSE IF EndsWith(word, <<"z">>) THEN DropLast(word, 1) \o Letters("ces")
    ELSE IF EndsWith(word, <<"i", "o'", "n">>) THEN DropLast(word, 2) \o Letters("ones")
    ELSE IF EndsWith(word, <<"c">>) THEN DropLast(word, 1) \o Letters("ques")
    ELSE IF EndsWith(word, <<"g">>) THEN DropLast(word, 1) \o Letters("gues")
    ELSE word \o Letters("es")

\* A word that is known, and yet has no such form, stays.
EsInflectWord(word, constraints, guess) ==
    LET inflected == Inflect(EsWho, word, GetCombinedBinaryType(word),
                             ConvertToStringConstraints(constraints, <<"number", "gender">>),
                             ConvertToStringConstraints(constraints, <<"pos">>))
        gendered == EsGuessGenderedInflection(word, FeatureValue(constraints, "gender"))
    IN  IF inflected # NoText \/ ~guess THEN inflected
        ELSE IF IsKnownWord(word) THEN word
        ELSE IF Is(constraints, "number", "plural") THEN EsGuessPluralInflection(gendered)
        ELSE gendered

EsInflectCompoundWord(text, constraints, guess) ==
    LET tokens == Tokens(text)
    IN  InflectTokens(tokens, StayBehindAdposition(tokens),
                      [i \in DOMAIN tokens |-> EsInflectWord(tokens[i], constraints, guess)], guess)

\* The prepositions with an article that a text is looked at for.
EsPrefixes ==
    LET prefixes(name) ==
          [i \in 1..4 |->
             LET n == IF i <= 2 THEN "singular" ELSE "plural"
                 g == IF i % 2 = 1 THEN "masculine" ELSE "feminine"
             IN  [text |-> EsWords[name][n][g], constraints |-> ("number" :> n) @@ ("gender" :> g),
                  spaces |-> TRUE, name |-> name]]
    IN  prefixes("dePrepArticle") \o prefixes("aPrepArticle")

\* One that was there is put back, as it goes with what the text is now.
EsAppendArticlePrefix(found, text, constraints) ==
    IF found.prefix = NoText THEN text
    ELSE EsArticle(DisplayValue(text, constraints @@ found.prefix.constraints), found.prefix.name, TRUE).print

EsDisplay(displayData, constraints, guess) ==
    LET value == GetTheBestDisplayValue(displayData, constraints)
        merged == MergeConstraints(value, constraints)
        found == DetectAndStripArticlePrefix(EsPrefixes, value.text)
        inflected == IF ~HasAnyFeatures(constraints, {"number", "gender"}) THEN found.text
                     ELSE IF IsKnownWord(found.text) \/ Len(GetSignificantWords(found.text)) = 1
                     THEN EsInflectWord(found.text, constraints, guess)
                     ELSE EsInflectCompoundWord(found.text, constraints, guess)
        shown == DisplayValue(EsAppendArticlePrefix(found, OrElse(inflected, found.text), merged), merged)
        base == WithoutArticle(EsArticles, shown)
    IN  IF value = NoText \/ value.text = <<>> \/ (inflected = NoText /\ ~guess) THEN NoText
        ELSE AddDefiniteness(EsArticles, shown, constraints,
                             EsArticle(base, "defArticle", TRUE), EsArticle(base, "indefArticle", TRUE))

----------------------------------------------------------------------------
(* French.  "|" is the apostrophe of an elision.                           *)

FrVowels == RomanceVowels \cup {"h"}

FrGuessGender(word) ==
    IF EndsWithAny(word, {Letters(s) : s \in {"an", "ans", "en", "ens", "ge", "ges", "in", "ins", "ire", "ires", "lon",
                                              "lons", "me", "mes", "ste", "stes", "ton", "tre", "tres"}})
    THEN "masculine"
    ELSE IF EndsWithAny(word, {<<"a">>, <<"e">>, <<"e", "s">>, <<"n">>, <<"n", "s">>, <<"e'">>, <<"e'", "s">>})
    THEN "feminine" ELSE ""

FrGender(text) ==
    DetermineGrammeme([Lookup(RomanceGenders, <<"noun", "adjective", "determiner", "verb">>)
                         EXCEPT !.default = "masculine", !.firstWord = TRUE],
                      text, FrGuessGender(Lowercase(FirstToken(text))))

\* A word that is the same in the singular and the plural, by some pattern.
FrIsInvariant(word) ==
    LET types == GetCombinedBinaryType(word)
        same(pattern) ==
          LET forms == Range(InflectionsForSurfaceForm(pattern, word, types))
          IN  Cardinality(forms) <= 1 \/ RomanceNumbers \subseteq UNION {i.grammemes : i \in forms}
    IN  RomanceNumbers \subseteq types /\ \E p \in Range(GetInflectionPatternsForWord(word)) : same(p)

\* A proper noun has no number, which is an answer; NoText is none.
FrDetermineWord(word) ==
    LET told == Determine(Lookup(RomanceNumbers, <<"noun", "adjective">>), word)
    IN  IF told # "" THEN told
        ELSE IF "proper-noun" \in GetCombinedBinaryType(word) THEN ""
        ELSE IF FrIsInvariant(word) THEN "singular"
        ELSE NoText

FrNumber(text) ==
    LET first == FirstToken(text)
    IN  IF FrDetermineWord(text) # NoText THEN FrDetermineWord(text)
        ELSE IF Len(first) # Len(text) /\ FrDetermineWord(first) # NoText THEN FrDetermineWord(first)
        ELSE IF ~HasAllProperties(first, {"noun"}) THEN ""
        ELSE IF EndsWithAny(first, {<<"s">>, <<"x">>}) THEN "plural" ELSE "singular"

FrForms(default, defaultVowel, masculine, feminine, vowel, plural) ==
    [default |-> default, defaultVowel |-> defaultVowel, masculine |-> masculine, feminine |-> feminine,
     vowel |-> vowel, plural |-> plural]

\* The words, which have a space behind them where one belongs.
FrWords ==
    LET a == <<"a/">>
        la == Letters("la ")
        lElided == <<"l", "|">>
    IN  ("defArticle" :> FrForms(<<>>, <<>>, Letters("le "), la, lElided, Letters("les ")))
          @@ ("indefArticle" :> FrForms(<<>>, <<>>, Letters("un"), Letters("une"), <<>>, Letters("des")))
          @@ ("aPrepArticle" :> FrForms(a \o <<" ">>, <<>>, Letters("au "), a \o <<" ">> \o la,
                                        a \o <<" ">> \o lElided, Letters("aux ")))
          @@ ("dePrepArticle" :> FrForms(Letters("de "), <<"d", "|">>, Letters("du "), Letters("de ") \o la,
                                         Letters("de ") \o lElided, Letters("des ")))
          @@ ("demonArticle" :> FrForms(Letters("ce"), <<>>, Letters("ce"), Letters("cette"), Letters("cet"),
                                        Letters("ces")))
          @@ ("genitiveArticle" :> FrForms(Letters("de "), <<>>, Letters("de "), Letters("de ") \o la,
                                           Letters("de ") \o lElided, Letters("des ")))

FrElisions ==
    ("dePrep" :> [consonant |-> Letters("de "), vowel |-> <<"d", "|">>])
      @@ ("que" :> [consonant |-> Letters("que "), vowel |-> <<"q", "u", "|">>])

FrWithValue ==
    ("withDePrepArticle" :> "dePrepArticle") @@ ("withAPrepArticle" :> "aPrepArticle")
      @@ ("withDemonArticle" :> "demonArticle") @@ ("withGenitiveArticle" :> "genitiveArticle")
      @@ ("withDePrep" :> "dePrep") @@ ("withQue" :> "que")

FrElided(value, name, includes) ==
    CreatePreposition([includes |-> includes, spaces |-> FALSE], value,
        Plain(IF value.text = <<>> THEN <<>>
              ELSE IF IsStartsWithVowel(value.text, FrVowels) THEN FrElisions[name].vowel
              ELSE FrElisions[name].consonant))

FrArticleWord(value, name) ==
    LET agreement == AgreementOf(value, FrNumber(value.text), FrGender(value.text))
        forms == FrWords[name]
        startsWithVowel == value.text # <<>> /\ IsStartsWithVowel(value.text, FrVowels)
        elides == name # "demonArticle" \/ agreement.gender = "masculine"
    IN  IF agreement.number = "plural" THEN forms.plural
        ELSE IF agreement.number = "singular" /\ forms.vowel # <<>> /\ elides /\ startsWithVowel THEN forms.vowel
        ELSE IF agreement.number = "singular" /\ agreement.gender = "masculine" THEN forms.masculine
        ELSE IF agreement.number = "singular" /\ agreement.gender = "feminine" THEN forms.feminine
        ELSE IF forms.defaultVowel # <<>> /\ startsWithVowel THEN forms.defaultVowel
        ELSE forms.default

\* With its value, a preposition contracts with the article le or les that
\* the value begins with.
FrArticle(value, name, lookup) ==
    LET contracts == lookup.includes /\ name \in {"aPrepArticle", "dePrepArticle", "genitiveArticle"}
        first == Lowercase(FirstToken(value.text))
        rest == DropFirst(value.text, Len(first) + 1)
        contraction(word) == Plain(Trim(word \o rest))
    IN  IF lookup.includes /\ HasFeature(value.constraints, name)
        THEN CreatePreposition(lookup, value, Plain(value.constraints[name]))
        ELSE IF contracts /\ first = Letters("le") THEN contraction(FrWords[name].masculine)
        ELSE IF contracts /\ first = Letters("les") THEN contraction(FrWords[name].plural)
        ELSE CreatePreposition(lookup, value, Plain(FrArticleWord(value, name)))

FrArticles ==
    [definite |-> GetArticles({<<"l", "|">>, Letters("le "), Letters("la "), Letters("les "), <<>>}),
     indefinite |-> GetArticles({Letters("un"), Letters("une"), Letters("des")})]

\* Definite are also those of a preposition and an article.
FrDetected ==
    [FrArticles EXCEPT !.definite = @ \cup ({FrWords[name][f] : name \in {"dePrepArticle", "aPrepArticle"},
                                               f \in {"default", "masculine", "feminine", "vowel", "plural"}}
                                            \ {Letters("de ")})]

FrFeature(value, feature) ==
    CASE feature \in DOMAIN FrWords -> FrArticle(value, feature, [includes |-> FALSE, spaces |-> FALSE])
      [] feature \in DOMAIN FrElisions -> FrElided(value, feature, FALSE)
      [] feature \in DOMAIN FrWithValue ->
           IF FrWithValue[feature] \in DOMAIN FrElisions THEN FrElided(value, FrWithValue[feature], TRUE)
           ELSE FrArticle(value, FrWithValue[feature], [includes |-> TRUE, spaces |-> feature = "withDemonArticle"])
      [] feature = "number" -> AnswerOf(FrNumber(value.text))
      [] feature = "gender" -> AnswerOf(FrGender(value.text))
      [] feature = "definiteness" -> DetectArticle(FrDetected, value.text)
      [] OTHER -> NoText

FrWho == RomanceWho(<<"noun", "adjective", "verb">>)

FrCanBeInflectedToPlural(word) ==
    LET types == GetCombinedBinaryType(word)
    IN  /\ Len(word) > 2
        /\ types \cap {"article", "pronoun", "proper-noun", "adposition"} = {}
        /\ types \cap {"noun", "adjective"} = {}
             => /\ "adverb" \notin types
                /\ "verb" \in types => EndsWithAny(word, {<<"e'">>, <<"e'", "e">>})

FrGuessPluralInflection(word) ==
    IF ~FrCanBeInflectedToPlural(word) \/ EndsWithAny(word, {<<"s">>, <<"x">>, <<"z">>}) THEN word
    ELSE IF EndsWithAny(word, {Letters("eau"), Letters("eu")}) THEN word \o <<"x">>
    ELSE IF EndsWith(word, Letters("al")) THEN DropLast(word, 2) \o Letters("aux")
    ELSE IF EndsWith(word, Letters("ail")) THEN DropLast(word, 3) \o Letters("aux")
    ELSE word \o <<"s">>

FrInflectWord(word, constraints, guess) ==
    LET inflected == Inflect(FrWho, word, GetCombinedBinaryType(word),
                             ConvertToStringConstraints(constraints, <<"number", "gender">>),
                             ConvertToStringConstraints(constraints, <<"pos">>))
    IN  IF inflected # NoText \/ ~guess THEN inflected
        ELSE IF Is(constraints, "number", "plural") THEN FrGuessPluralInflection(word)
        ELSE word

FrWordsPreventingInflection ==
    {<<"d">>, Letters("de"), Letters("des"), Letters("du"), Letters("en"), Letters("par"), <<"a/">>}

\* A word that prevents inflection and the word behind it stay.
FrInflectCompoundWord(text, constraints, guess) ==
    LET tokens == Tokens(text)
        words == {i \in DOMAIN tokens : Significant(tokens[i])}
        before(i) == {j \in words : j < i}
        prevents(i) == tokens[i] \in FrWordsPreventingInflection
        stays == {i \in DOMAIN tokens :
                    \/ i \notin words \/ prevents(i)
                    \/ before(i) # {} /\ prevents(LastIn(before(i)))}
    IN  InflectTokens(tokens, stays, [i \in DOMAIN tokens |-> FrInflectWord(tokens[i], constraints, guess)], guess)

FrDisplay(displayData, constraints, guess) ==
    LET value == GetTheBestDisplayValue(displayData, constraints)
        inflected == IF ~HasAnyFeatures(constraints, {"number", "gender"}) THEN value.text
                     ELSE IF IsKnownWord(value.text) \/ Len(GetSignificantWords(value.text)) = 1
                     THEN FrInflectWord(value.text, constraints, guess)
                     ELSE FrInflectCompoundWord(value.text, constraints, guess)
        shown == DisplayValue(OrElse(inflected, value.text), MergeConstraints(value, constraints))
        base == WithoutArticle(FrArticles, shown)
    IN  IF value = NoText \/ value.text = <<>> \/ (inflected = NoText /\ ~guess) THEN NoText
        ELSE AddDefiniteness(FrArticles, shown, constraints,
                             FrArticle(base, "defArticle", [includes |-> TRUE, spaces |-> FALSE]),
                             FrArticle(base, "indefArticle", [includes |-> TRUE, spaces |-> TRUE]))

----------------------------------------------------------------------------
(* Italian.  Words are parted at "|", the apostrophe.                      *)

Digits == <<"0", "1", "2", "3", "4", "5", "6", "7", "8", "9">>
IsDigit(piece) == piece \in Range(Digits)

\* The number that a text begins with, -1 if none.
ItParseLeadingNumber(text) ==
    LET ends == {i \in DOMAIN text : ~IsDigit(text[i])}
        digits == IF ends = {} THEN text ELSE SubSeq(text, 1, FirstIn(ends) - 1)
        valueOf(d) == (CHOOSE i \in DOMAIN Digits : Digits[i] = d) - 1
    IN  IF digits = <<>> THEN -1 ELSE FoldLeft(LAMBDA n, d : 10 * n + valueOf(d), 0, digits)

\* The mark of an ordinal, "o_" or "a_", behind the number: "" if none.
ItOrdinalSuffix(text) ==
    LET ends == {i \in DOMAIN text : ~IsDigit(text[i])}
    IN  IF ends # {} /\ text[FirstIn(ends)] \in {"o_", "a_"} THEN text[FirstIn(ends)] ELSE ""

\* One that is no ordinal, eight, eleven and eighty, also of hundreds,
\* thousands and millions; one hundred and one thousand are words of their own.
ItStartsWithVowelForDigits(text) ==
    LET number == ItParseLeadingNumber(text)
        belowMillion[n \in Nat] == IF n >= 1000000 THEN belowMillion[n \div 1000000] ELSE n
        millions == belowMillion[number]
        thousands == IF millions >= 1000 THEN millions \div 1000 ELSE millions
        hundreds == IF thousands >= 100 THEN thousands \div 100 ELSE thousands
    IN  /\ number >= 0
        /\ millions \notin 1000..1999
        /\ thousands \notin 100..199
        /\ \/ hundreds = 1 /\ ItOrdinalSuffix(text) = ""
           \/ hundreds \in {8, 11} \cup 80..89

\* The consonants that lo and gli go before.
ItStartsWithConsonantSubset(text) ==
    LET lower == Lowercase(text)
    IN  /\ Len(text) >= 2
        /\ IF IsDigit(text[1]) THEN ItParseLeadingNumber(text) = 0
           ELSE \/ SubSeq(lower, 1, 2) \in {<<"p", "n">>, <<"p", "s">>, <<"g", "n">>}
                \/ lower[1] \in {"x", "y", "z"}
                \/ lower[1] = "s" /\ lower[2] \notin RomanceVowels

ItStartsWithVowelForElision(text) ==
    LET first == At(LowerOf, text[1])
    IN  /\ text # <<>>
        /\ IF IsDigit(first) THEN ItStartsWithVowelForDigits(text)
           ELSE /\ Len(text) > 1
                /\ IF first = "i" THEN text[2] \notin RomanceVowels
                   ELSE IF first = "h" THEN text[2] \in RomanceVowels
                   ELSE IsStartsWithVowel(text, RomanceVowels)

ItLookup(mask, order) == [Lookup(mask, order) EXCEPT !.firstWord = TRUE]

ItNumber(text) ==
    LET first == Lowercase(FirstToken(text))
        suggested == IF first # <<>> /\ IsDigit(first[1]) THEN "singular"
                     ELSE IF EndsWithAny(first, {<<"a">>, <<"o">>}) THEN "singular"
                     ELSE IF EndsWith(first, <<"i">>) THEN "plural" ELSE ""
    IN  DetermineGrammeme(ItLookup(RomanceNumbers, <<"noun", "adjective", "article", "verb">>), text, suggested)

ItGuessGender(word) ==
    IF word # <<>> /\ IsDigit(word[1]) THEN IF ItOrdinalSuffix(word) = "a_" THEN "feminine" ELSE "masculine"
    ELSE IF EndsWithAny(word, {Letters(s) : s \in {"zione", "sione", "gione", "si", "trice", "tudine"}}
                                \cup {<<"a/">>, <<"u/">>})
    THEN "feminine"
    ELSE IF EndsWithAny(word, {Letters(s) : s \in {"amma", "ema", "ore", "i", "o"}} \cup {<<"e/">>, <<"i/">>, <<"o/">>})
    THEN "masculine"
    ELSE IF EndsWithAny(word, {<<"a">>, <<"e">>}) THEN "feminine" ELSE ""

ItGender(text) ==
    DetermineGrammeme(ItLookup(RomanceGenders, <<"noun", "adjective">>), text,
                      ItGuessGender(Lowercase(FirstToken(text))))

\* What the articles end in behind a preposition.
ItForms(masculine, masculineConsonant, feminine, vowel, plural, pluralConsonant, pluralFeminine) ==
    [masculine |-> Letters(masculine), masculineConsonant |-> Letters(masculineConsonant),
     feminine |-> Letters(feminine), vowel |-> Letters(vowel), plural |-> Letters(plural),
     pluralConsonant |-> Letters(pluralConsonant), pluralFeminine |-> Letters(pluralFeminine)]

ItWords ==
    ("defArticle" :> ItForms("il ", "lo ", "la ", "l|", "i ", "gli ", "le "))
      @@ ("aPrepArticle" :> ItForms("al ", "allo ", "alla ", "all|", "ai ", "agli ", "alle "))
      @@ ("daPrepArticle" :> ItForms("dal ", "dallo ", "dalla ", "dall|", "dai ", "dagli ", "dalle "))
      @@ ("dePrepArticle" :> ItForms("del ", "dello ", "della ", "dell|", "dei ", "degli ", "delle "))
      @@ ("inPrepArticle" :> ItForms("nel ", "nello ", "nella ", "nell|", "nei ", "negli ", "nelle "))
      @@ ("suPrepArticle" :> ItForms("sul ", "sullo ", "sulla ", "sull|", "sui ", "sugli ", "sulle "))

ItWithValue ==
    ("withAPrepArticle" :> "aPrepArticle") @@ ("withDaPrepArticle" :> "daPrepArticle")
      @@ ("withDePrepArticle" :> "dePrepArticle") @@ ("withInPrepArticle" :> "inPrepArticle")
      @@ ("withSuPrepArticle" :> "suPrepArticle")

\* Without a gender, only how the text sounds may tell.
ItDefiniteWord(text, agreement, forms) ==
    IF agreement.gender = "feminine"
    THEN IF agreement.number = "plural" THEN forms.pluralFeminine
         ELSE IF ItStartsWithVowelForElision(text) THEN forms.vowel ELSE forms.feminine
    ELSE IF agreement.number = "plural"
    THEN IF IsStartsWithVowel(text, RomanceVowels) \/ ItStartsWithConsonantSubset(text)
         THEN forms.pluralConsonant ELSE forms.plural
    ELSE IF ItStartsWithVowelForElision(text) THEN forms.vowel
    ELSE IF ItStartsWithConsonantSubset(text) THEN forms.masculineConsonant
    ELSE IF agreement = [number |-> "singular", gender |-> "masculine"] THEN forms.masculine
    ELSE <<>>

ItIndefiniteWord(text, agreement) ==
    LET vowel == IsStartsWithVowel(text, RomanceVowels)
    IN  IF agreement.gender = "feminine"
        THEN IF agreement.number = "plural" THEN Letters("delle ")
             ELSE IF vowel THEN Letters("un|") ELSE Letters("una ")
        ELSE IF agreement.number = "plural"
        THEN IF vowel \/ ItStartsWithConsonantSubset(text) THEN Letters("degli ") ELSE Letters("dei ")
        ELSE IF ItStartsWithConsonantSubset(text) THEN Letters("uno ")
        ELSE IF agreement = [number |-> "singular", gender |-> "masculine"] THEN Letters("un ")
        ELSE <<>>

ItArticle(value, name, includes) ==
    LET agreement == AgreementOf(value, ItNumber(value.text), ItGender(value.text))
    IN  RomanceArticle([includes |-> includes, spaces |-> FALSE], value, name,
                       IF name = "indefArticle" THEN ItIndefiniteWord(value.text, agreement)
                       ELSE ItDefiniteWord(value.text, agreement, ItWords[name]))

ItArticles ==
    [definite |-> GetArticles(Range(ItWords["defArticle"])),
     indefinite |-> GetArticles({Letters(s) : s \in {"delle ", "degli ", "dei ", "un|", "una ", "uno ", "un "}})]

ItFeature(value, feature) ==
    CASE feature \in DOMAIN ItWords \cup {"indefArticle"} -> ItArticle(value, feature, FALSE)
      [] feature \in DOMAIN ItWithValue -> ItArticle(value, ItWithValue[feature], TRUE)
      [] feature = "number" -> AnswerOf(ItNumber(value.text))
      [] feature = "gender" -> AnswerOf(ItGender(value.text))
      [] feature = "definiteness" ->
           DetectArticle([ItArticles EXCEPT !.definite = UNION {Range(ItWords[name]) : name \in DOMAIN ItWords}],
                         value.text)
      [] OTHER -> NoText

ItWho == RomanceWho(<<"noun", "adjective", "article", "verb">>)

\* A verb is inflected to nothing but a verb of the same kind.
ItIsVerbCompatible(inflected, types) ==
    LET important == {"past", "participle"}
        to == GetCombinedBinaryType(inflected)
    IN  "verb" \in to => types \cap important = to \cap important

ItInflectWord(word, constraints, guess) ==
    LET types == GetCombinedBinaryType(word)
        inflected == Inflect(ItWho, word, types, ConvertToStringConstraints(constraints, <<"number", "gender">>),
                             ConvertToStringConstraints(constraints, <<"pos">>))
    IN  IF inflected # NoText
        THEN IF "verb" \in types /\ ~ItIsVerbCompatible(inflected, types) THEN word ELSE inflected
        ELSE IF guess THEN word ELSE NoText

\* The article l stays, too.
ItInflectCompoundWord(text, constraints, guess) ==
    LET tokens == Tokens(text)
        stays == StayBehindAdposition(tokens)
                   \cup (IF Lowercase(tokens[1]) = <<"l">> THEN {1} ELSE {})
    IN  InflectTokens(tokens, stays, [i \in DOMAIN tokens |-> ItInflectWord(tokens[i], constraints, guess)], guess)

ItDisplay(displayData, constraints, guess) ==
    LET value == GetTheBestDisplayValue(displayData, constraints)
        merged == MergeConstraints(value, constraints)
        inflected == IF ~HasAnyFeatures(constraints, {"number", "gender"}) THEN value.text
                     ELSE IF IsKnownWord(value.text) \/ Len(GetSignificantWords(value.text)) = 1
                     THEN ItInflectWord(value.text, constraints, guess)
                     ELSE ItInflectCompoundWord(value.text, merged, guess)
        shown == DisplayValue(OrElse(inflected, value.text), merged)
        base == WithoutArticle(ItArticles, shown)
    IN  IF value = NoText \/ value.text = <<>> \/ (inflected = NoText /\ ~guess) THEN NoText
        ELSE UpdateDefiniteness(ItArticles, shown, merged,
                                ItArticle(base, "defArticle", TRUE), ItArticle(base, "indefArticle", TRUE))

----------------------------------------------------------------------------
(* Portuguese *)

\* With one form for both genders, as it is written when the gender is not
\* known.
PtForms(singularM, singularF, pluralM, pluralF, singular, plural, default) ==
    [singular |-> [masculine |-> Letters(singularM), feminine |-> Letters(singularF), unknown |-> Letters(singular)],
     plural |-> [masculine |-> Letters(pluralM), feminine |-> Letters(pluralF), unknown |-> Letters(plural)],
     default |-> Letters(default)]

\* Those of este, esse and aquele, with prepositions.
PtDemonstratives ==
    [demAdj |-> "est", inDemAdj |-> "nest", ofDemAdj |-> "dest", thisDemAdj |-> "ess", inThisDemAdj |-> "ness",
     ofThisDemAdj |-> "dess", thatDemAdj |-> "aquel", inThatDemAdj |-> "naquel", ofThatDemAdj |-> "daquel"]

PtWords ==
    ("defArticle" :> PtForms("o", "a", "os", "as", "o(a)", "os(as)", ""))
      @@ ("indefArticle" :> PtForms("um", "uma", "uns", "umas", "um(a)", "uns(umas)", ""))
      @@ ("emPrepIndefArticle" :> PtForms("num", "numa", "nuns", "numas", "num(a)", "nuns(umas)", "em"))
      @@ ("aPrepArticle" :> [singular |-> [masculine |-> Letters("ao"), feminine |-> <<"a/">>,
                                           unknown |-> Letters("ao(") \o <<"a/", ")">>],
                             plural |-> [masculine |-> Letters("aos"), feminine |-> <<"a/", "s">>,
                                         unknown |-> Letters("aos(") \o <<"a/", "s", ")">>],
                             default |-> <<>>])
      @@ ("dePrepArticle" :> PtForms("do", "da", "dos", "das", "do(a)", "dos(as)", "de"))
      @@ ("emPrepArticle" :> PtForms("no", "na", "nos", "nas", "no(a)", "nos(as)", "em"))
      @@ ("porPrepArticle" :> PtForms("pelo", "pela", "pelos", "pelas", "pelo(a)", "pelos(as)", "por"))
      @@ ("possArticle" :> PtForms("seu", "sua", "seus", "suas", "seu(sua)", "seus(suas)", ""))
      @@ [name \in DOMAIN PtDemonstratives |->
            LET stem == PtDemonstratives[name]
            IN  PtForms(stem \o "e", stem \o "a", stem \o "es", stem \o "as", stem \o "e(a)", stem \o "es(as)", "")]

PtWithValue ==
    ("withDePrepArticle" :> "dePrepArticle") @@ ("withEmPrepArticle" :> "emPrepArticle")
      @@ ("withPorPrepArticle" :> "porPrepArticle") @@ ("withEmPrepIndefArticle" :> "emPrepIndefArticle")
      @@ ("withAPrepArticle" :> "aPrepArticle") @@ ("withPossArticle" :> "possArticle")
      @@ ("withDemAdj" :> "demAdj") @@ ("withInDemAdj" :> "inDemAdj") @@ ("withOfDemAdj" :> "ofDemAdj")
      @@ ("withThisDemAdj" :> "thisDemAdj") @@ ("withInThisDemAdj" :> "inThisDemAdj")
      @@ ("withOfThisDemAdj" :> "ofThisDemAdj") @@ ("withThatDemAdj" :> "thatDemAdj")
      @@ ("withInThatDemAdj" :> "inThatDemAdj") @@ ("withOfThatDemAdj" :> "ofThatDemAdj")

PtDetermine(mask, text) == DetermineGrammeme([Lookup(mask, <<>>) EXCEPT !.firstWord = TRUE], text, "")

PtArticle(value, name, includes) ==
    LET agreement == AgreementOf(value, PtDetermine(RomanceNumbers, value.text), PtDetermine(RomanceGenders, value.text))
        forms == PtWords[name]
    IN  RomanceArticle([includes |-> includes, spaces |-> TRUE], value, name,
                       IF agreement.number = "" THEN forms.default
                       ELSE forms[agreement.number][IF agreement.gender = "" THEN "unknown" ELSE agreement.gender])

PtArticlesOf(names) ==
    {PtWords[name][n][g] \o <<" ">> :
        name \in names, n \in RomanceNumbers, g \in RomanceGenders \cup {"unknown"}}

PtArticles == [definite |-> PtArticlesOf({"defArticle"}), indefinite |-> PtArticlesOf({"indefArticle"})]

\* A preposition por is not looked for: the feature that is named has no
\* values.
PtFeature(value, feature) ==
    CASE feature \in DOMAIN PtWords -> PtArticle(value, feature, FALSE)
      [] feature \in DOMAIN PtWithValue -> PtArticle(value, PtWithValue[feature], TRUE)
      [] feature = "number" -> AnswerOf(PtDetermine(RomanceNumbers, value.text))
      [] feature = "gender" -> AnswerOf(PtDetermine(RomanceGenders, value.text))
      [] feature = "definiteness" ->
           DetectArticle([PtArticles EXCEPT !.definite =
                            PtArticlesOf({"defArticle", "dePrepArticle", "aPrepArticle", "emPrepArticle"})], value.text)
      [] OTHER -> NoText

PtWho ==
    [priorities |-> << <<"noun", "adjective">>, <<"singular", "plural">>, <<"masculine", "feminine">> >>,
     ignored |-> {}, fallback |-> FALSE]

PtGuessPluralInflection(word) ==
    LET types == GetCombinedBinaryType(word)
    IN  IF types # {} /\ types \cap {"noun", "adjective", "verb", "adverb"} = {} THEN word
        ELSE IF EndsWith(word, <<"e^", "s">>) THEN DropLast(word, 2) \o Letters("eses")
        ELSE IF EndsWithAny(word, {<<"r">>, <<"z">>, <<"s">>}) THEN word \o Letters("es")
        ELSE IF EndsWith(word, <<"m">>) THEN DropLast(word, 1) \o Letters("ns")
        ELSE IF EndsWithAny(word, {Letters(s) : s \in {"al", "el", "ol", "ul"}}) THEN DropLast(word, 1) \o Letters("is")
        ELSE IF EndsWith(word, <<"a~", "o">>) THEN DropLast(word, 2) \o <<"o~", "e", "s">>
        ELSE IF EndsWith(word, Letters("il")) THEN DropLast(word, 1) \o <<"s">>
        ELSE IF EndsWith(word, <<"x">>) THEN word
        ELSE word \o <<"s">>

PtInflectWord(word, constraints, guess) ==
    LET inflected == Inflect(PtWho, word, GetCombinedBinaryType(word),
                             ConvertToStringConstraints(constraints, <<"number", "gender">>),
                             ConvertToStringConstraints(constraints, <<"pos">>))
    IN  IF inflected # NoText \/ ~guess THEN inflected
        ELSE IF Is(constraints, "number", "plural") THEN PtGuessPluralInflection(word)
        ELSE word

\* Two words: an adjective in front of a noun stays as it is, and so does
\* the noun; a noun and what follows it are both inflected; behind another
\* word it is the last one.
PtInflect2CompoundWord(words, constraints, guess) ==
    LET first == GetCombinedBinaryType(words[1])
        last == GetCombinedBinaryType(words[2])
        otherwise == IF guess THEN words ELSE NoText
        inflectedFirst == PtInflectWord(words[1], constraints, guess)
        inflectedLast == PtInflectWord(words[2], constraints, guess)
        both == IF inflectedFirst = NoText \/ inflectedLast = NoText THEN otherwise
                ELSE <<inflectedFirst, inflectedLast>>
        lastOnly == IF inflectedLast = NoText THEN otherwise ELSE <<words[1], inflectedLast>>
    IN  IF first = {} \/ last = {} THEN otherwise
        ELSE IF "adjective" \in first /\ "noun" \notin first /\ "noun" \in last THEN words
        ELSE IF "adverb" \in first /\ "adjective" \in last THEN lastOnly
        ELSE IF "noun" \in first /\ "verb" \notin first /\ last \cap {"noun", "adjective"} # {} THEN both
        ELSE IF ("verb" \in first /\ "noun" \in last) \/ ("adjective" \in first /\ "adjective" \in last) THEN lastOnly
        ELSE otherwise

\* Three words of which an adposition is the middle: the first of them.
PtInflect3CompoundWord(words, constraints, guess) ==
    LET inflected == PtInflectWord(words[1], constraints, guess)
    IN  IF "adposition" \in GetCombinedBinaryType(words[2]) /\ inflected # NoText
        THEN [words EXCEPT ![1] = inflected] ELSE words

\* More than three: up to the second noun.
PtInflectCompoundWord(words, constraints, guess) ==
    LET isNoun(i) == "noun" \in GetCombinedBinaryType(words[i]) /\ "adjective" \notin GetCombinedBinaryType(words[i])
        stays(i) == Cardinality({j \in 1..i : isNoun(j)}) >= 2
        inflected(i) == PtInflectWord(words[i], constraints, guess)
    IN  IF ~guess /\ \E i \in DOMAIN words : ~stays(i) /\ inflected(i) = NoText THEN NoText
        ELSE [i \in DOMAIN words |-> IF stays(i) THEN words[i] ELSE OrElse(inflected(i), words[i])]

PtInflectSignificantWords(words, constraints, guess) ==
    CASE Len(words) = 0 -> words
      [] Len(words) = 1 -> LET inflected == PtInflectWord(words[1], constraints, guess)
                           IN  IF inflected = NoText THEN NoText ELSE <<inflected>>
      [] Len(words) = 2 -> PtInflect2CompoundWord(words, constraints, guess)
      [] Len(words) = 3 -> PtInflect3CompoundWord(words, constraints, guess)
      [] OTHER -> PtInflectCompoundWord(words, constraints, guess)

PtDisplay(displayData, constraints, guess) ==
    LET value == GetTheBestDisplayValue(displayData, constraints)
        text == value.text
        inflected == IF IsKnownWord(text) THEN PtInflectWord(text, constraints, FALSE) ELSE NoText
        words == PtInflectSignificantWords(GetSignificantWords(text), constraints, guess)
        shownText == IF ~HasAnyFeatures(constraints, {"number", "gender"}) THEN text
                     ELSE IF inflected # NoText THEN inflected
                     ELSE IF words # NoText THEN GetStringFromInflectedSignificantWords(text, words)
                     ELSE IF guess THEN text ELSE NoText
        shown == DisplayValue(shownText, MergeConstraints(value, constraints))
        base == WithoutArticle(PtArticles, shown)
    IN  IF value = NoText \/ text = <<>> \/ shownText = NoText THEN NoText
        ELSE AddDefiniteness(PtArticles, shown, constraints,
                             PtArticle(base, "defArticle", TRUE), PtArticle(base, "indefArticle", TRUE))
============================================================================
