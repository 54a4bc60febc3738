------------------------------ MODULE Nordic ------------------------------
(***************************************************************************)
(* The grammars of Swedish, Norwegian and Danish (grammar/synthesis/       *)
(* SvGrammarSynthesizer, NbGrammarSynthesizer and DaGrammarSynthesizer).   *)
(* The letters that are not in the English alphabet are "aa", "ae", "oe".  *)
(***************************************************************************)
EXTENDS Grammar

NumberLookup == PlainLookup({"singular", "plural"})
DefinitenessLookup == PlainLookup({"definite", "indefinite"})

NordicVowels == {"i", "aa", "e", "a", "u", "o", "y", "oe", "ae"}

\* What an article agrees with: "plural", or the gender of the singular.
\* What a value does not say its text tells, else it is the default.
NordicAgreement(value, genders, told, default) ==
    LET number == FeatureValue(value.constraints, "number")
        gender == FeatureValue(value.constraints, "gender")
        isPlural == \/ number = "plural"
                    \/ number # "singular" /\ Determine(NumberLookup, value.text) = "plural"
    IN  IF isPlural THEN "plural"
        ELSE IF gender \in genders THEN gender
        ELSE IF told # "" THEN told ELSE default

\* The words that agree with a value: of the common gender, of the neuter
\* and in the plural.
Agreeing(common, neuter, plural) ==
    [common |-> Letters(common), neuter |-> Letters(neuter), plural |-> Letters(plural)]

\* A feature answers with such a word; with its value too if its name begins
\* with "with".
WithValue(includes) == [includes |-> includes, spaces |-> TRUE]

----------------------------------------------------------------------------
(* Swedish *)

SvGender(text) ==
    LET types == GetCombinedBinaryType(text)
    IN  IF "neuter" \in types /\ "common" \in types THEN "neuter"
        ELSE Determine(PlainLookup({"neuter", "common"}), text)

SvWords ==
    ("defArticle" :> Agreeing("den", "det", "de")) @@ ("indefArticle" :> Agreeing("en", "ett", "flera"))
      @@ ("indefPron" :> Agreeing("naagon", "naagot", "naagra"))
      @@ ("interrogativeArticle" :> Agreeing("vilken", "vilket", "vilka"))
      @@ ("negArticle" :> Agreeing("ingen", "inget", "inga")) @@ ("newArticle" :> Agreeing("ny", "nytt", "nya"))
      @@ ("otherArticle" :> Agreeing("annan", "annat", "andra")) @@ ("possArticle" :> Agreeing("din", "ditt", "dina"))

SvArticle(value, name, includes) ==
    CreatePreposition(WithValue(includes), value,
        Plain(SvWords[name][NordicAgreement(value, {"common", "neuter"}, SvGender(value.text), "common")]))

\* The definite and the indefinite article are only given without a value.
SvFeature(value, feature, includes) ==
    CASE feature \in DOMAIN SvWords /\ ~(includes /\ feature \in {"defArticle", "indefArticle"}) ->
           SvArticle(value, feature, includes)
      [] feature = "number" -> AnswerOf(Determine(NumberLookup, value.text))
      [] feature = "gender" -> AnswerOf(SvGender(value.text))
      [] feature = "definiteness" -> AnswerOf(Determine(DefinitenessLookup, value.text))
      [] OTHER -> NoText

SvWho == [priorities |-> << <<"noun", "adjective">>, <<"singular", "plural">> >>, ignored |-> {}, fallback |-> TRUE]

SvApplyGenitiveToUnknownPhrase(word) ==
    LET last == word[Len(word)]
    IN  IF At(LowerOf, last) \in {"s", "x", "z"} THEN word
        ELSE IF At(LowerOf, last) # last \/ last \in {"0", "1", "2", "3", "4", "5", "6", "7", "8", "9"}
        THEN word \o <<":", "s">>
        ELSE word \o <<"s">>

\* An adjective is definite in the singular only.
SvInflectString(lemma, number, definiteness, case, gender, isNoun) ==
    LET given(value, counts) == IF counts /\ value # "" THEN <<value>> ELSE <<>>
        inflected == Inflect(SvWho, lemma, GetCombinedBinaryType(lemma),
                        <<number>> \o given(definiteness, isNoun \/ number = "singular")
                          \o given(case, case # "nominative") \o given(gender, TRUE), <<>>)
    IN  IF inflected = NoText \/ inflected = <<>> THEN lemma ELSE inflected

\* A word that goes with a head; a noun goes with itself.
SvInflectWord(constraints, attribute, head, isNoun) ==
    LET number == FeatureValue(constraints, "number")
        case == FeatureValue(constraints, "case")
        gender == IF FeatureValue(constraints, "gender") = "" /\ number = "singular" THEN SvGender(head)
                  ELSE FeatureValue(constraints, "gender")
        inflected == SvInflectString(attribute, number, FeatureValue(constraints, "definiteness"),
                                     IF isNoun THEN case ELSE "", gender, isNoun)
    IN  IF /\ isNoun /\ case = "genitive" /\ Len(inflected) > 1
           /\ inflected[Len(inflected)] \notin {"s", "z", "x"}
        THEN inflected \o <<"s">> ELSE inflected

\* The last word, and the one before it if there are two and it may be an
\* adjective.
SvInflectSignificantTokens(text, constraints) ==
    LET words == GetSignificantWords(text)
        n == Len(words)
        first == GetCombinedBinaryType(words[1])
        withAttribute == \/ first = {}
                         \/ "adjective" \in first /\ "noun" \notin first
                              /\ "noun" \in GetCombinedBinaryType(words[2])
        inflected == [words EXCEPT ![n] = SvInflectWord(constraints, @, @, TRUE)]
    IN  IF n = 0 THEN text
        ELSE IF ~IsKnownWord(words[n])
        THEN IF ~Is(constraints, "case", "genitive") THEN text
             ELSE GetStringFromInflectedSignificantWords(text,
                     [words EXCEPT ![n] = SvApplyGenitiveToUnknownPhrase(@)])
        ELSE GetStringFromInflectedSignificantWords(text,
                IF n = 2 /\ withAttribute
                THEN [inflected EXCEPT ![1] = SvInflectWord(constraints, @, words[2], FALSE)]
                ELSE inflected)

SvDisplay(displayData, constraints, guess) ==
    LET text == displayData[1].text
    IN  IF displayData = <<>> \/ text = <<>> THEN NoText
        ELSE DisplayValue(IF IsKnownWord(text) THEN SvInflectWord(constraints, text, text, TRUE)
                          ELSE SvInflectSignificantTokens(text, constraints),
                          constraints)

----------------------------------------------------------------------------
(* Norwegian *)

NbGenders == {"masculine", "feminine", "neuter"}
NbGender(text) == Determine(PlainLookup(NbGenders), text)

NbAgreeing(masculine, feminine, neuter, plural) ==
    [masculine |-> Letters(masculine), feminine |-> Letters(feminine), neuter |-> Letters(neuter),
     plural |-> Letters(plural)]

NbWords ==
    ("defArticle" :> NbAgreeing("den", "den", "det", "de")) @@ ("indefArticle" :> NbAgreeing("en", "ei", "et", "flere"))
      @@ ("interrogativeArticle" :> NbAgreeing("hvilken", "hvilken", "hvilket", "hvilke"))
      @@ ("possArticle" :> NbAgreeing("din", "di", "ditt", "dine"))
      @@ ("demonArticle" :> NbAgreeing("denne", "denne", "dette", "disse"))

NbArticle(value, name, includes) ==
    CreatePreposition(WithValue(includes), value,
        Plain(NbWords[name][NordicAgreement(value, NbGenders, NbGender(value.text), "masculine")]))

NbFeature(value, feature, includes) ==
    CASE feature \in DOMAIN NbWords /\ ~(includes /\ feature \in {"defArticle", "indefArticle"}) ->
           NbArticle(value, feature, includes)
      [] feature = "number" -> AnswerOf(Determine(NumberLookup, value.text))
      [] feature = "gender" -> AnswerOf(NbGender(value.text))
      [] feature = "definiteness" -> AnswerOf(Determine(DefinitenessLookup, value.text))
      [] OTHER -> NoText

NbWho ==
    [priorities |-> << <<"noun", "adjective">>, <<"singular", "plural">>, <<"comparative", "superlative">>,
                       <<"indefinite", "definite">> >>,
     ignored |-> {}, fallback |-> TRUE]

NbInflectGenitive(word) ==
    word \o (IF word[Len(word)] \in {"s", "z", "x"} THEN <<"'">> ELSE <<"s">>)

NbInflectNoun(word, types, number, definiteness, gender) ==
    OrElse(Inflect(NbWho, word, types,
              SelectSeq(<<number, definiteness, IF number = "plural" THEN "" ELSE gender>>, LAMBDA c : c # ""), <<>>),
           word)

\* What a dictionary has of an adjective; its degrees have no gender.
NbInflectKnownAdjective(lemma, types, definiteness, gender, number) ==
    LET asked == IF types \cap {"comparative", "superlative"} # {} THEN <<definiteness>>
                 ELSE << number, IF number = "plural" THEN "" ELSE definiteness,
                         IF number = "plural" \/ definiteness = "definite" THEN "" ELSE gender >>
    IN  IF "adjective" \notin types THEN NoText
        ELSE Inflect(NbWho, lemma, types, SelectSeq(asked, LAMBDA c : c # ""), <<"adjective">>)

\* An unstressed e between consonants goes when an ending comes.
EndsInUnstressed(lemma) ==
    LET n == Len(lemma)
    IN  n > 3 /\ lemma[n - 1] = "e" /\ lemma[n] \in {"n", "l", "r"}
EndsInDoubledUnstressed(lemma) ==
    LET n == Len(lemma)
    IN  EndsInUnstressed(lemma) /\ lemma[n - 2] = lemma[n - 3] /\ lemma[n - 2] \notin NordicVowels

\* An adjective by how it ends.
NbGuessAdjective(lemma, definiteness, gender, number) ==
    LET n == Len(lemma)
        last == lemma[n]
        beforeIsConsonant == lemma[n - 1] \notin NordicVowels
    IN  IF number = "plural" \/ definiteness = "definite"
        THEN IF EndsInDoubledUnstressed(lemma) THEN DropLast(lemma, 3) \o <<last, "e">>
             ELSE IF EndsInUnstressed(lemma) THEN DropLast(lemma, 2) \o <<last, "e">>
             ELSE IF last \notin NordicVowels THEN lemma \o <<"e">>
             ELSE lemma
        ELSE IF number # "singular" \/ gender # "neuter" \/ last \in NordicVowels THEN lemma
        ELSE IF n > 2 /\ ( \/ EndsWithAny(lemma, {<<"s", "k">>, <<"i", "g">>, <<"e", "t">>})
                           \/ beforeIsConsonant /\ last \in {"t", "d"} )
        THEN lemma
        ELSE IF n > 2 /\ beforeIsConsonant /\ last = lemma[n - 1] THEN DropLast(lemma, 1) \o <<"t">>
        ELSE lemma \o <<"t">>

NbInflectAdjective(lemma, definiteness, gender, number) ==
    LET known == NbInflectKnownAdjective(lemma, GetCombinedBinaryType(lemma), definiteness, gender, number)
    IN  IF known # NoText \/ lemma = <<>> THEN OrElse(known, <<>>)
        ELSE NbGuessAdjective(lemma, definiteness, gender, number)

NbInflectWord(constraints, attribute, types, head, isNoun) ==
    LET number == FeatureValue(constraints, "number")
        definiteness == FeatureValue(constraints, "definiteness")
        headTypes == IF attribute = head THEN types ELSE GetCombinedBinaryType(head)
        isAdjective == Is(constraints, "pos", "adjective") \/ ("adjective" \in headTypes /\ "noun" \notin headTypes)
        gender == FeatureValue(constraints, "gender")
        inflected == IF isAdjective \/ ~isNoun
                     THEN NbInflectAdjective(attribute, definiteness, IF gender = "" THEN NbGender(head) ELSE gender, number)
                     ELSE NbInflectNoun(attribute, types, number, definiteness, gender)
    IN  IF Is(constraints, "case", "genitive") /\ isNoun /\ Len(inflected) > 1
        THEN NbInflectGenitive(inflected) ELSE inflected

NbInflectSignificantTokens(text, constraints) ==
    LET words == GetSignificantWords(text)
        n == Len(words)
        types(i) == GetCombinedBinaryType(words[i])
        inflected == [words EXCEPT ![n] = NbInflectWord(constraints, @, types(n), @, TRUE)]
    IN  IF n = 0 THEN text
        ELSE IF types(n) = {}
        THEN IF ~Is(constraints, "case", "genitive") THEN text
             ELSE GetStringFromInflectedSignificantWords(text, [words EXCEPT ![n] = NbInflectGenitive(@)])
        ELSE GetStringFromInflectedSignificantWords(text,
                IF n = 2 /\ "adjective" \in types(1) /\ "noun" \in types(2)
                THEN [inflected EXCEPT ![1] = NbInflectWord(constraints, @, types(1), words[2], FALSE)]
                ELSE inflected)

NbDisplay(displayData, constraints, guess) ==
    LET text == displayData[1].text
    IN  IF displayData = <<>> \/ text = <<>> THEN NoText
        ELSE DisplayValue(IF constraints = NoConstraints THEN text
                          ELSE IF IsKnownWord(text)
                          THEN NbInflectWord(constraints, text, GetCombinedBinaryType(text), text, TRUE)
                          ELSE NbInflectSignificantTokens(text, constraints),
                          constraints)

----------------------------------------------------------------------------
(* Danish *)

DaGender(text) == Determine(PlainLookup({"common", "neuter"}), text)

DaWords ==
    ("negArticle" :> Agreeing("ingen", "intet", "ingen")) @@ ("defArticle" :> Agreeing("den", "det", "de"))
      @@ ("indefArticle" :> Agreeing("en", "et", "flere")) @@ ("possArticle" :> Agreeing("din", "dit", "dine"))
      @@ ("newArticle" :> Agreeing("ny", "nyt", "nye")) @@ ("otherArticle" :> Agreeing("anden", "andet", "andre"))
      @@ ("interrogativeArticle" :> Agreeing("hvilken", "hvilket", "hvilke"))
      @@ ("indefPron" :> Agreeing("nogen", "noget", "nogle")) @@ ("demonArticle" :> Agreeing("denne", "dette", "disse"))

\* The definite article of the common gender is stressed when it is spoken.
DaArticle(value, name, includes) ==
    LET agreement == NordicAgreement(value, {"common", "neuter"}, DaGender(value.text), "common")
        article == Plain(DaWords[name][agreement])
    IN  CreatePreposition(WithValue(includes), value,
            IF name = "defArticle" /\ agreement = "common" THEN [article EXCEPT !.speak = <<"d", "e'", "n">>] ELSE article)

DaFeature(value, feature, includes) ==
    CASE feature \in DOMAIN DaWords -> DaArticle(value, feature, includes)
      [] feature = "number" -> AnswerOf(Determine(NumberLookup, value.text))
      [] feature = "gender" -> AnswerOf(DaGender(value.text))
      [] feature = "definiteness" -> AnswerOf(Determine(DefinitenessLookup, value.text))
      [] OTHER -> NoText

DaArticles ==
    [definite |-> GetArticles({DaWords["defArticle"][a] : a \in {"common", "neuter", "plural"}}),
     indefinite |-> GetArticles({DaWords["indefArticle"][a] : a \in {"common", "neuter", "plural"}})]

DaWho ==
    [priorities |-> << <<"noun", "adjective", "verb">>, <<"singular", "plural">>, <<"nominative", "genitive">> >>,
     ignored |-> {}, fallback |-> TRUE]

DaMakeGenitiveWhenRequested(constraints, text) ==
    LET last == At(LowerOf, text[Len(text)])
    IN  IF ~Is(constraints, "case", "genitive") \/ Len(text) <= 1 THEN text
        ELSE IF last \in {"s", "z", "x"} THEN text \o <<"'">>
        ELSE IF \/ IsAllUpperCase(text) /\ last \notin Marks
                \/ last \in {"0", "1", "2", "3", "4", "5", "6", "7", "8", "9"}
                \/ EndsWith(text, <<".", "d", "k">>)
        THEN text \o <<"'", "s">>
        ELSE text \o <<"s">>

DaInflectAdjective(lemma, definiteness, gender, number) ==
    LET n == Len(lemma)
        last == lemma[n]
        declined == number = "plural" \/ definiteness = "definite"
    IN  IF n < 1 THEN lemma
        ELSE IF declined /\ n > 4 /\ EndsInDoubledUnstressed(lemma) THEN DropLast(lemma, 3) \o <<last, "e">>
        ELSE IF declined /\ last \notin NordicVowels THEN lemma \o <<"e">>
        ELSE IF number = "singular" /\ gender = "neuter" /\ last \notin (NordicVowels \ {"i", "aa"}) \cup {"t"}
        THEN lemma \o <<"t">>
        ELSE lemma

\* The empty text if a noun is not inflected.
DaInflectString(lemma, types, number, definiteness, case, gender, isNoun) ==
    LET given(value) == IF value = "" THEN <<>> ELSE <<value>>
        inflected == Inflect(DaWho, lemma, types,
                        <<number>> \o given(definiteness) \o given(IF case = "nominative" THEN "" ELSE case)
                          \o given(gender), <<>>)
    IN  IF ~isNoun
        THEN DaInflectAdjective(lemma, IF definiteness = "" THEN "indefinite" ELSE definiteness, gender,
                                IF number = "" THEN "singular" ELSE number)
        ELSE IF inflected = NoText THEN <<>>
        ELSE IF EndsWith(inflected, <<"'", "S">>) THEN DropLast(inflected, 1) \o <<"s">>
        ELSE inflected

\* A noun with an attribute is indefinite: the article makes it definite.
DaInflectWord(constraints, attribute, types, head, headTypes, isNoun, hasAttribute) ==
    LET gender == FeatureValue(constraints, "gender")
        isAdjective == Is(constraints, "pos", "adjective") \/ ("adjective" \in headTypes /\ "noun" \notin headTypes)
        inflected == DaInflectString(attribute, types, FeatureValue(constraints, "number"),
                        IF hasAttribute THEN "indefinite" ELSE FeatureValue(constraints, "definiteness"),
                        FeatureValue(constraints, "case"),
                        IF gender = "" THEN DaGender(head) ELSE gender, ~isAdjective /\ isNoun)
    IN  IF inflected # <<>> THEN inflected
        ELSE IF isNoun THEN DaMakeGenitiveWhenRequested(constraints, attribute)
        ELSE attribute

DaInflectSignificantTokens(text, constraints) ==
    LET words == GetSignificantWords(text)
        n == Len(words)
        last == words[n]
        first == words[1]
        types == GetCombinedBinaryType(last)
        firstTypes == GetCombinedBinaryType(first)
        withAttribute == n = 2 /\ ( \/ firstTypes = {}
                                    \/ "adjective" \in firstTypes /\ "noun" \notin firstTypes /\ "noun" \in types )
    IN  IF n = 0 THEN text
        ELSE GetStringFromInflectedSignificantWords(text,
               IF types = {} THEN [words EXCEPT ![n] = DaMakeGenitiveWhenRequested(constraints, last)]
               ELSE IF withAttribute
               THEN << DaInflectWord(constraints, first, firstTypes, last, types, FALSE, FALSE),
                       DaInflectWord(constraints, last, types, last, types, TRUE, TRUE) >>
               ELSE [words EXCEPT ![n] = DaInflectWord(constraints, last, types, last, types, TRUE, FALSE)])

DaAddDefiniteness(value, constraints) ==
    LET base == WithoutArticle(DaArticles, value)
    IN  AddDefiniteness(DaArticles, value, constraints, DaArticle(base, "defArticle", TRUE),
                        DaArticle(base, "indefArticle", TRUE))

\* An article goes with an indefinite noun in the singular, and with a
\* definite phrase; it agrees with the last word of a gender.
DaDisplay(displayData, constraints, guess) ==
    LET text == displayData[1].text
        abbreviated == EndsWith(text, <<".">>)
        types == IF abbreviated THEN {} ELSE GetCombinedBinaryType(text)
        isMultiWord == ~abbreviated /\ types = {}
        words == GetSignificantWords(text)
        telling == {i \in DOMAIN words : DaGender(words[i]) # ""}
        shown == IF abbreviated THEN DaMakeGenitiveWhenRequested(constraints, text)
                 ELSE IF isMultiWord THEN DaInflectSignificantTokens(text, constraints)
                 ELSE DaInflectWord(constraints, text, types, text, types, TRUE, FALSE)
        isNoun == isMultiWord \/ ("noun" \in types /\ ~Is(constraints, "pos", "adjective"))
        withArticle == \/ /\ Is(constraints, "definiteness", "indefinite")
                          /\ FeatureValue(constraints, "number") \in {"", "singular"}
                       \/ Is(constraints, "definiteness", "definite") /\ isMultiWord
        gendered == IF isMultiWord /\ FeatureValue(constraints, "gender") = "" /\ telling # {}
                    THEN ("gender" :> DaGender(words[LastIn(telling)])) @@ constraints
                    ELSE constraints
    IN  IF displayData = <<>> \/ text = <<>> THEN NoText
        ELSE IF constraints = NoConstraints THEN DisplayValue(text, constraints)
        ELSE IF isNoun /\ withArticle THEN DaAddDefiniteness(DisplayValue(shown, gendered), gendered)
        ELSE DisplayValue(shown, constraints)
============================================================================
