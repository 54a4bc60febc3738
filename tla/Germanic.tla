------------------------------ MODULE Germanic ------------------------------
(***************************************************************************)
(* The grammars of German and Dutch (grammar/synthesis/DeGrammarSynthesizer *)
(* and NlGrammarSynthesizer).                                              *)
(***************************************************************************)
EXTENDS Grammar

DeCases == <<"accusative", "dative", "genitive", "nominative">>
DeGenders == <<"feminine", "masculine", "neuter">>

\* A row of a table: what each case has.
Row(texts) == [c \in Range(DeCases) |-> texts[CHOOSE i \in 1..4 : DeCases[i] = c]]

----------------------------------------------------------------------------
(* German: articles and pronouns by number, gender and case                *)

DePronouns ==
    [plural |-> Row(<<"sie", "ihnen", "ihrer", "sie">>), feminine |-> Row(<<"sie", "ihr", "ihrer", "sie">>),
     masculine |-> Row(<<"ihn", "ihm", "seiner", "er">>), neuter |-> Row(<<"es", "ihm", "seiner", "es">>)]

DeDefiniteArticles ==
    [plural |-> Row(<<"die", "den", "der", "die">>), feminine |-> Row(<<"die", "der", "der", "die">>),
     masculine |-> Row(<<"den", "dem", "des", "der">>), neuter |-> Row(<<"das", "dem", "des", "das">>)]

DeDefiniteArticlesInPreposition ==
    [plural |-> Row(<<"in die", "in den", "in der", "in die">>),
     feminine |-> Row(<<"in die", "in der", "in der", "in die">>),
     masculine |-> Row(<<"in den", "im", "in des", "in der">>), neuter |-> Row(<<"ins", "im", "in des", "ins">>)]

DeIndefiniteArticles ==
    [feminine |-> Row(<<"eine", "einer", "einer", "eine">>),
     masculine |-> Row(<<"einen", "einem", "eines", "ein">>), neuter |-> Row(<<"ein", "einem", "eines", "ein">>)]

DeDemonstrativeArticles ==
    [plural |-> Row(<<"diesen", "diesen", "dieser", "diese">>),
     feminine |-> Row(<<"diese", "dieser", "dieser", "diese">>),
     masculine |-> Row(<<"diesen", "diesem", "dieses", "dieser">>),
     neuter |-> Row(<<"dieses", "diesem", "dieses", "dieses">>)]

\* Those that inflect as kein, dein and welch do.
DeNegatedArticles ==
    [plural |-> Row(<<"keine", "keinen", "keiner", "keine">>),
     feminine |-> Row(<<"keine", "keiner", "keiner", "keine">>),
     masculine |-> Row(<<"keinen", "keinem", "keines", "kein">>), neuter |-> Row(<<"kein", "keinem", "keines", "kein">>)]

DePossessivePronouns ==
    [plural |-> Row(<<"deine", "deinen", "deiner", "deine">>),
     feminine |-> Row(<<"deine", "deiner", "deiner", "deine">>),
     masculine |-> Row(<<"deinen", "deinem", "deines", "dein">>), neuter |-> Row(<<"dein", "deinem", "deines", "dein">>)]

DeInterrogativeArticles ==
    [plural |-> Row(<<"welche", "welchen", "welcher", "welche">>),
     feminine |-> Row(<<"welche", "welcher", "welcher", "welche">>),
     masculine |-> Row(<<"welchen", "welchem", "welches", "welcher">>),
     neuter |-> Row(<<"welches", "welchem", "welches", "welches">>)]

\* An entry is for a number, a gender and a case: none of them is left open.
DeEntry(table, number, gender, case) ==
    LET row == IF number = "plural" THEN number ELSE gender
    IN  IF /\ number \in {"singular", "plural"} /\ gender \in Range(DeGenders) /\ case \in Range(DeCases)
           /\ row \in DOMAIN table
        THEN Letters(table[row][case]) ELSE NoText

\* The gender a word tells, if it is one.
GenderOf(types) == GetPropertyName(types \cap Range(DeGenders))

\* What a value leaves open its text tells, or the last of its words.
DeArticle(value, table, includes) ==
    LET words == GetSignificantWords(value.text)
        types == IF IsKnownWord(value.text) THEN GetCombinedBinaryType(value.text)
                 ELSE IF Len(words) > 1 THEN GetCombinedBinaryType(LastToken(value.text)) ELSE {}
        case == FeatureValue(value.constraints, "case")
        number == FeatureValue(value.constraints, "number")
        gender == FeatureValue(value.constraints, "gender")
        isPlural == types # {} /\ types \cap {"singular", "plural"} = {"plural"}
        entry == DeEntry(table,
                         IF number \in {"singular", "plural"} THEN number
                         ELSE IF isPlural THEN "plural" ELSE "singular",
                         IF gender \in Range(DeGenders) THEN gender ELSE GenderOf(types),
                         IF case \in Range(DeCases) THEN case ELSE "nominative")
    IN  CreatePreposition([includes |-> includes, spaces |-> TRUE], value, Plain(OrElse(entry, <<>>)))

DeArticles ==
    [definite |-> GetArticles({Letters(a) : a \in {"der", "die", "das", "den", "dem", "des"}}),
     indefinite |-> GetArticles({Letters(a) : a \in {"ein", "eine", "einen", "einem", "einer", "eines"}})]

DeFeature(value, feature) ==
    CASE feature \in {"pronoun", "possessivePronoun"} -> DeArticle(value, DePronouns, FALSE)
      [] feature = "defArticle" -> DeArticle(value, DeDefiniteArticles, FALSE)
      [] feature = "defArticleInPreposition" -> DeArticle(value, DeDefiniteArticlesInPreposition, FALSE)
      [] feature = "withDefArticleInPreposition" -> DeArticle(value, DeDefiniteArticlesInPreposition, TRUE)
      [] feature = "indefArticle" -> DeArticle(value, DeIndefiniteArticles, FALSE)
      [] feature = "demonArticle" -> DeArticle(value, DeDemonstrativeArticles, FALSE)
      [] feature = "negArticle" -> DeArticle(value, DeNegatedArticles, FALSE)
      [] feature = "possArticle" -> DeArticle(value, DePossessivePronouns, FALSE)
      [] feature = "interrogativeArticle" -> DeArticle(value, DeInterrogativeArticles, FALSE)
      [] feature = "gender" -> AnswerOf(Determine(PlainLookup(Range(DeGenders)), value.text))
      [] feature = "number" -> AnswerOf(Determine(PlainLookup({"singular", "plural"}), value.text))
      [] OTHER -> NoText

----------------------------------------------------------------------------
(* German: the display function                                            *)

DeWho ==
    [priorities |-> << <<"article", "pronoun", "noun", "proper-noun", "adjective">>,
                       <<"nominative", "accusative", "genitive", "dative">>, <<"singular", "plural">>,
                       <<"strong", "mixed", "weak">>, <<"masculine", "feminine">> >>,
     ignored |-> {}, fallback |-> TRUE]

DeStrongSuffixes ==
    [plural |-> Row(<<"e", "en", "er", "e">>), feminine |-> Row(<<"e", "er", "er", "e">>),
     masculine |-> Row(<<"en", "em", "en", "er">>), neuter |-> Row(<<"es", "em", "en", "es">>)]

DeWeakSuffixes ==
    [plural |-> Row(<<"en", "en", "en", "en">>), feminine |-> Row(<<"e", "en", "en", "e">>),
     masculine |-> Row(<<"en", "en", "en", "e">>), neuter |-> Row(<<"e", "en", "en", "e">>)]

DeMixedSuffixes ==
    [plural |-> Row(<<"en", "en", "en", "en">>), feminine |-> Row(<<"e", "en", "en", "e">>),
     masculine |-> Row(<<"en", "en", "en", "er">>), neuter |-> Row(<<"es", "en", "en", "es">>)]

\* An adjective that is in no dictionary, by its declension.
DeLookupDeclensionAdjective(lemma, constraints, gender) ==
    LET declension == FeatureValue(constraints, "declension")
        table == CASE declension = "strong" -> DeStrongSuffixes
                   [] declension = "weak" -> DeWeakSuffixes
                   [] declension = "mixed" -> DeMixedSuffixes
                   [] OTHER -> NoConstraints
    IN  lemma \o OrElse(DeEntry(table, FeatureValue(constraints, "number"), gender,
                                FeatureValue(constraints, "case")), <<>>)

\* Of values for several forms the first one asked for, or else the one
\* with a stem, declined.
DeInflectByDeclension(displayData, constraints) ==
    LET agrees(v, feature) == LET asked == FeatureValue(constraints, feature)
                              IN  asked = "" \/ asked = FeatureValue(v.constraints, feature)
        matching == {i \in DOMAIN displayData :
                       /\ \A f \in {"case", "number", "gender"} : agrees(displayData[i], f)
                       /\ ~HasFeature(displayData[i].constraints, "declension")}
        stems == {i \in DOMAIN displayData : HasFeature(displayData[i].constraints, "stem")}
        stemmed == displayData[FirstIn(stems)]
        stem == IF stemmed.constraints["stem"] = <<>> THEN stemmed.text ELSE stemmed.constraints["stem"]
    IN  IF FeatureValue(constraints, "declension") \notin {"strong", "weak", "mixed"} THEN NoText
        ELSE IF matching # {} THEN displayData[FirstIn(matching)]
        ELSE IF stems = {} THEN NoText
        ELSE [text |-> DeLookupDeclensionAdjective(stem, constraints, FeatureValue(constraints, "gender")),
              constraints |-> stemmed.constraints @@ constraints]

DeInflectWord(text, constraints, deduced, guess) ==
    LET types == GetCombinedBinaryType(text)
        features == IF "adjective" \in types THEN <<"number", "gender", "case", "declension">>
                    ELSE <<"number", "gender", "case">>
        asked == IF deduced # <<>> THEN deduced ELSE ConvertToStringConstraints(constraints, features)
        inflected == Inflect(DeWho, text, types, asked, ConvertToStringConstraints(constraints, <<"pos">>))
    IN  IF inflected # NoText \/ ~guess THEN inflected
        ELSE DeLookupDeclensionAdjective(text, constraints, FeatureValue(constraints, "gender"))

\* The reading the language prefers, of those with one of some grammemes.
DeBest(word, required) ==
    LET readings == SelectSeq(GetWordGrammemeSets(word), LAMBDA S : S \cap required # {})
        best == {i \in DOMAIN readings : \A j \in DOMAIN readings :
                    CompareGrammemes(DeWho, readings[i], readings[j]) <= 0}
    IN  IF readings = <<>> THEN NoText ELSE readings[FirstIn(best)]

\* What is asked for, or else the first that a reading has; empty if none.
DeFeatureName(constraints, reading, mask, feature) ==
    LET names == GetPropertyNames(reading \cap mask)
    IN  IF FeatureValue(constraints, feature) # "" THEN <<FeatureValue(constraints, feature)>>
        ELSE IF names = <<>> THEN <<>> ELSE <<names[1]>>

\* The case is the determiner's, the number and the gender are the noun's.
DeInflectDeterminerAndNoun(determiner, noun, constraints, guess) ==
    LET dependent == DeBest(determiner, {"article", "pronoun"})
        head == DeBest(noun, {"noun"})
        case == IF dependent = NoText THEN <<>>
                ELSE DeFeatureName(constraints, dependent, Range(DeCases), "case")
        number == IF head = NoText THEN <<>>
                  ELSE DeFeatureName(constraints, head, {"singular", "plural"}, "number")
        gender == IF head = NoText \/ number = <<"plural">> THEN <<>>
                  ELSE DeFeatureName(constraints, head, Range(DeGenders), "gender")
        deduced == case \o number \o gender
    IN  <<DeInflectWord(determiner, constraints, deduced, guess), DeInflectWord(noun, constraints, deduced, guess)>>

DeGetGender(constraints, types) ==
    IF GenderOf(types) # "" THEN GenderOf(types) ELSE FeatureValue(constraints, "gender")

DeInflectAdjectiveNextToNoun(adjective, constraints, noun) ==
    LET isPlural == Is(constraints, "number", "plural")
        gender == IF isPlural THEN "" ELSE DeGetGender(constraints, GetCombinedBinaryType(noun))
        declension == FeatureValue(constraints, "declension")
        inflected == Inflect(DeWho, adjective, GetCombinedBinaryType(adjective),
                        <<FeatureValue(constraints, "case"), IF isPlural THEN "plural" ELSE "singular",
                          gender, IF declension = "" THEN "strong" ELSE declension>>,
                        ConvertToStringConstraints(constraints, <<"pos">>))
    IN  OrElse(inflected, DeLookupDeclensionAdjective(adjective, constraints, gender))

\* A pair of the dependent word and the head, one of them NoText if not.
DeInflect2Words(dependent, head, constraints, guess) ==
    LET headTypes == GetCombinedBinaryType(head)
        types == GetCombinedBinaryType(dependent)
        inflected == DeInflectWord(head, constraints, <<>>, guess)
        beforeNoun(pos) == pos \in types /\ "noun" \notin types /\ "noun" \in headTypes
    IN  IF types \cap {"article", "pronoun"} # {} /\ "noun" \in headTypes
        THEN DeInflectDeterminerAndNoun(dependent, head, constraints, guess)
        ELSE IF inflected = NoText THEN <<dependent, NoText>>
        ELSE IF beforeNoun("adjective")
        THEN <<DeInflectAdjectiveNextToNoun(dependent, constraints, inflected), inflected>>
        ELSE IF beforeNoun("verb")
        THEN <<DeLookupDeclensionAdjective(dependent, constraints, DeGetGender(constraints, headTypes)), inflected>>
        ELSE <<dependent, inflected>>

\* The last word, with the word before the last space.
DeInflectTokenChain(text, constraints, guess) ==
    LET tokens == Tokens(text)
        last == Len(tokens)
        spaces == {i \in DOMAIN tokens : tokens[i] = <<" ">>}
        dependent == IF spaces = {} THEN 0 ELSE LastIn(spaces) - 1
        both == DeInflect2Words(tokens[dependent], tokens[last], constraints, guess)
        alone == DeInflectWord(tokens[last], constraints, <<>>, guess)
    IN  IF dependent > 0 /\ Significant(tokens[dependent])
        THEN IF NoText \in Range(both) THEN NoText
             ELSE FlattenSeq([tokens EXCEPT ![dependent] = both[1], ![last] = both[2]])
        ELSE IF alone = NoText THEN NoText ELSE FlattenSeq([tokens EXCEPT ![last] = alone])

DeInflectGenitiveProperNoun(text) ==
    IF EndsWithAny(Lowercase(text), {<<"s">>, <<"z">>, <<"x">>, <<"ss">>, <<"c", "e">>}) THEN text \o <<"'">>
    ELSE IF EndsWith(text, <<"'">>) THEN text
    ELSE text \o <<"s">>

DeAddDefiniteness(value, constraints) ==
    LET base == WithoutArticle(DeArticles, value)
    IN  AddDefiniteness(DeArticles, value, constraints, DeArticle(base, DeDefiniteArticles, TRUE),
                        DeArticle(base, DeIndefiniteArticles, TRUE))

DeDisplay(displayData, constraints, guess) ==
    LET text == displayData[1].text
        declined == DeInflectByDeclension(displayData, constraints)
        inflected == IF /\ Is(constraints, "case", "genitive") /\ Is(constraints, "pos", "proper-noun")
                        /\ Len(text) > 1
                     THEN DeInflectGenitiveProperNoun(text)
                     ELSE IF IsKnownWord(text) THEN DeInflectWord(text, constraints, <<>>, guess)
                     ELSE DeInflectTokenChain(text, constraints, guess)
    IN  IF displayData = <<>> \/ text = <<>> THEN NoText
        ELSE IF constraints = NoConstraints THEN DisplayValue(text, constraints)
        ELSE IF declined # NoText THEN DeAddDefiniteness(declined, constraints)
        ELSE IF inflected = NoText /\ ~guess THEN NoText
        ELSE DeAddDefiniteness(DisplayValue(OrElse(inflected, text), constraints), constraints)

----------------------------------------------------------------------------
(* Dutch: articles                                                         *)

NlVowels == {"a", "e", "i", "o", "u"}

\* ij is a vowel too.
NlIsVowelAtIndex(word, i) == word[i] \in NlVowels \/ (i > 1 /\ word[i] = "j" /\ word[i - 1] = "i")

\* What a diminutive is one of; the empty text if it cannot be one.
NlGuessDiminutive(text) ==
    LET word == IF EndsWith(text, Letters("jes")) THEN DropLast(text, 1) ELSE text
        n == Len(word)
        fromEnd(k) == word[n - k + 1]
        doubled(k) == fromEnd(k) = fromEnd(k + 1)
    IN  IF n <= 2 \/ ~EndsWith(word, Letters("je")) THEN <<>>
        ELSE IF EndsWith(word, Letters("mpje")) THEN DropLast(word, 3)
        ELSE IF n > 4 /\ EndsWith(word, Letters("inkje")) THEN DropLast(word, 3) \o <<"g">>
        ELSE IF n > 3 /\ fromEnd(3) = "t"
        THEN IF fromEnd(4) = "'" THEN DropLast(word, 4)
             ELSE IF n > 7 /\ fromEnd(4) = "e" /\ fromEnd(5) \in Range(Letters("blnmrpg"))
             THEN DropLast(word, IF doubled(5) /\ NlIsVowelAtIndex(word, n - 6) THEN 5 ELSE 4)
             ELSE IF NlIsVowelAtIndex(word, n - 3) THEN DropLast(word, IF n > 4 /\ doubled(4) THEN 4 ELSE 3)
             ELSE IF fromEnd(4) \in {"l", "r", "n"} THEN DropLast(word, 3)
             ELSE <<>>
        ELSE IF fromEnd(3) = "'" THEN DropLast(word, 3)
        ELSE DropLast(word, 2)

NlIsDiminutive(text, types) == "diminutive" \in types \/ IsKnownWord(NlGuessDiminutive(text))

\* The last noun of those behind the adjectives in front; else the last word.
NlDetermineSignificantNoun(text) ==
    LET words == GetSignificantWords(text)
        behind == {i \in DOMAIN words : \A j \in 1..i : ~HasAllProperties(words[j], {"adjective"})}
        start == Len(words) - Cardinality(behind)
        nouns == {i \in behind : \A j \in (start + 1)..i :
                     HasAllProperties(words[j], {"noun"}) \/ words[j] = <<"s">>}
        last == start + Cardinality(nouns)
    IN  IF words = <<>> THEN <<>>
        ELSE IF last > 0 /\ HasAllProperties(words[last], {"noun"}) THEN words[last]
        ELSE words[Len(words)]

NlArticle(value, includes) ==
    LET number == FeatureValue(value.constraints, "number")
        gender == FeatureValue(value.constraints, "gender")
        open == number \notin {"singular", "plural"} \/ gender \notin Range(DeGenders)
        types == IF IsKnownWord(value.text) THEN GetCombinedBinaryType(value.text)
                 ELSE GetCombinedBinaryType(NlDetermineSignificantNoun(value.text))
        told == open /\ types # {}
        isSingular == \/ number = "singular"
                      \/ number # "plural" /\ told /\ "plural" \notin types
        isNeuter == \/ gender = "neuter"
                    \/ gender \notin Range(DeGenders) /\ told /\ GenderOf(types) = "neuter"
        isDiminutive == \/ Is(value.constraints, "sizeness", "diminutive")
                        \/ told /\ NlIsDiminutive(value.text, types)
    IN  CreatePreposition([includes |-> includes, spaces |-> TRUE], value,
                          Plain(Letters(IF isSingular /\ (isNeuter \/ isDiminutive) THEN "het" ELSE "de")))

NlDefiniteness(text) ==
    LET begins(article) == StartsWith(Lowercase(text), Letters(article) \o <<" ">>)
    IN  IF begins("de") \/ begins("het") THEN Plain(<<"definite">>)
        ELSE IF begins("een") THEN Plain(<<"indefinite">>)
        ELSE AnswerOf(Determine(PlainLookup({"definite", "indefinite"}), text))

\* The articles are looked up by the names of two features, of which the
\* grammar has no "de".
NlArticles == [definite |-> GetArticles({}), indefinite |-> GetArticles({Letters("een")})]

NlFeature(value, feature) ==
    CASE feature = "defArticle" -> NlArticle(value, FALSE)
      [] feature = "gender" -> AnswerOf(Determine(PlainLookup(Range(DeGenders)), value.text))
      [] feature = "number" -> AnswerOf(Determine(PlainLookup({"singular", "plural"}), value.text))
      [] feature = "definiteness" -> NlDefiniteness(value.text)
      [] OTHER -> NoText

----------------------------------------------------------------------------
(* Dutch: adjectives, nouns and verbs.  The empty text is none.            *)

\* What the first pattern of a part of speech that has the inflection gives.
NlReinflect(word, pos, from, to) ==
    LET patterns == SelectSeq(GetInflectionPatternsForWord(word),
                              LAMBDA p : pos \in Patterns[p].partsOfSpeech)
        at == {i \in DOMAIN patterns : Reinflect(patterns[i], from, to, <<>>, word) # <<>>}
    IN  IF at = {} THEN <<>> ELSE Reinflect(patterns[FirstIn(at)], from, to, <<>>, word)

NlIsCombinedVowel(c, d) ==
    \/ c = d /\ c \in NlVowels
    \/ <<c, d>> \in {<<"i", "j">>, <<"e", "i">>, <<"i", "e">>, <<"o", "e">>, <<"o", "u">>, <<"a", "u">>}

NlHeuristicDeclensionInflection(lemma) ==
    LET n == Len(lemma)
        last == lemma[n]
    IN  IF n < 2 \/ EndsWithAny(lemma, {<<"e", "n">>, <<"e">>}) THEN lemma
        ELSE IF n >= 3 /\ NlIsCombinedVowel(lemma[n - 2], lemma[n - 1]) /\ last \notin NlVowels
        THEN DropLast(lemma, IF lemma[n - 1] = lemma[n - 2] THEN 2 ELSE 1)
                \o <<IF last = "s" THEN "z" ELSE last, "e">>
        ELSE IF /\ n >= 3 /\ ~EndsWith(lemma, <<"i", "j">>)
                /\ lemma[n - 2] \notin NlVowels /\ lemma[n - 1] \in NlVowels /\ last \notin NlVowels
        THEN lemma \o <<last, "e">>
        ELSE lemma \o <<"e">>

NlInflectWithDeclension(lemma, declension) ==
    CASE declension = "undeclined" -> lemma
      [] declension = "declined" -> NlHeuristicDeclensionInflection(lemma)
      [] OTHER -> <<>>

NlInflectAdjective(text, types, constraints) ==
    IF "adjective" \in types THEN NlInflectWithDeclension(text, FeatureValue(constraints, "declension")) ELSE <<>>

NlUndeclineAdjective(word) ==
    LET degree == GetCombinedBinaryType(word) \cap {"positive", "comparative", "superlative"}
    IN  IF degree = {} THEN <<>> ELSE NlReinflect(word, "adjective", {}, degree)

NlInflectWithDefiniteness(word, nounGender, definiteness, declension) ==
    LET to == IF nounGender = "neuter" /\ definiteness = "indefinite" THEN {"indefinite", "neuter"} ELSE {"definite"}
        definite == IF definiteness = "" THEN <<>> ELSE NlReinflect(word, "adjective", {}, to)
        undeclined == IF declension = "undeclined" THEN NlUndeclineAdjective(word) ELSE <<>>
    IN  IF definite # <<>> THEN definite
        ELSE IF undeclined # <<>> THEN undeclined
        ELSE NlInflectWithDeclension(word, declension)

NlGetNumber(constraints) ==
    IF FeatureValue(constraints, "number") \in {"singular", "plural"} THEN FeatureValue(constraints, "number") ELSE ""

NlIsCountConditionalPronoun(text) == text \in {Letters("ze"), Letters("zij")}
NlIsDeclensionConditional(text) == text \in {Letters("ons"), Letters("we"), Letters("wij")}

NlIsGenitiveRequested(text, constraints) ==
    /\ Is(constraints, "case", "genitive")
    /\ NlIsCountConditionalPronoun(text) => NlGetNumber(constraints) # ""
    /\ NlIsDeclensionConditional(text) => FeatureValue(constraints, "declension") \in {"declined", "undeclined"}

NlPossessivePronouns ==
    [p \in {Letters(s) : s \in {"haar", "hem", "hen", "hij", "hun", "ik", "je", "jij", "jou", "me", "mij"}} |->
       Letters(CASE p = Letters("haar") -> "haar"
                 [] p \in {Letters("hem"), Letters("hij")} -> "zijn"
                 [] p \in {Letters("hen"), Letters("hun")} -> "hun"
                 [] p \in {Letters("je"), Letters("jij"), Letters("jou")} -> "jouw"
                 [] OTHER -> "mijn")]

NlEndsWithDutchSSound(text) ==
    EndsWithAny(Lowercase(text), {<<"s">>, <<"z">>, <<"s", "c", "h">>, <<"x">>, <<"s", "h">>})

NlIsPossessive(text) ==
    \/ EndsWith(Lowercase(text), <<"'", "s">>)
    \/ EndsWith(text, <<"'">>) /\ NlEndsWithDutchSSound(DropLast(text, 1))

NlInflectGenitive(text, constraints) ==
    IF text \in DOMAIN NlPossessivePronouns THEN NlPossessivePronouns[text]
    ELSE IF NlIsCountConditionalPronoun(text)
    THEN Letters(IF NlGetNumber(constraints) = "singular" THEN "haar" ELSE "hun")
    ELSE IF NlIsDeclensionConditional(text)
    THEN Letters(IF Is(constraints, "declension", "undeclined") THEN "ons" ELSE "onze")
    ELSE IF Len(text) <= 2 THEN <<>>
    ELSE IF NlIsPossessive(text) THEN text
    ELSE IF EndsWith(text, <<"'">>) THEN text \o <<"s">>
    ELSE text \o (IF NlEndsWithDutchSSound(text) THEN <<"'">> ELSE <<"'", "s">>)

\* By its patterns of a part of speech, unless another one is asked for; a
\* form that is asked for by nothing but its number is left as it is.
NlInflectNumber(text, pos, types, constraints) ==
    LET number == NlGetNumber(constraints)
    IN  IF number = "" \/ pos \notin types \/ FeatureValue(constraints, "pos") \notin {"", pos} THEN <<>>
        ELSE IF Cardinality(DOMAIN constraints) = 1 /\ number \in types THEN text
        ELSE NlReinflect(text, pos, types, {number})

NlInflectNoun(text, types, constraints) ==
    IF NlIsGenitiveRequested(text, constraints) THEN NlInflectGenitive(text, constraints)
    ELSE NlInflectNumber(text, "noun", types, constraints)

NlInflectVerb(text, types, constraints) == NlInflectNumber(text, "verb", types, constraints)

----------------------------------------------------------------------------
(* Dutch: the display function                                             *)

NlGetAdjectiveDeclension(number, gender, definiteness) ==
    CASE definiteness = "definite" -> "declined"
      [] definiteness = "indefinite" -> IF gender = "neuter" /\ number # "plural" THEN "undeclined" ELSE "declined"
      [] definiteness \notin {"definite", "indefinite"} ->
           IF number = "plural" THEN "declined"
           ELSE IF number = "" \/ gender = "" THEN ""
           ELSE IF gender = "neuter" THEN "undeclined" ELSE "declined"

\* The noun at the end and the adjectives that agree with it; the text as it
\* was if one of them cannot.
NlInflectNounPhrase(text, constraints) ==
    LET words == GetSignificantWords(text)
        n == Len(words)
        headTypes == GetCombinedBinaryType(words[n])
        head == NlInflectNoun(words[n], headTypes, constraints)
        definiteness == FeatureValue(constraints, "definiteness")
        declension == NlGetAdjectiveDeclension(NlGetNumber(constraints), GenderOf(headTypes), definiteness)
        inflected == [i \in 1..n |->
                        IF i < n THEN NlInflectWithDefiniteness(words[i], GenderOf(headTypes), definiteness, declension)
                        ELSE IF head # <<>> THEN head ELSE words[n]]
    IN  IF <<>> \in Range(inflected) THEN text
        ELSE GetStringFromInflectedSignificantWords(text, inflected)

NlInflectAdjectives(text, constraints) ==
    LET words == GetSignificantWords(text)
    IN  GetStringFromInflectedSignificantWords(text,
           [i \in DOMAIN words |-> NlInflectWithDeclension(words[i], FeatureValue(constraints, "declension"))])

\* Adjectives and a noun behind them, or adjectives alone.
NlInflectPhrase(text, constraints) ==
    LET words == GetSignificantWords(text)
        n == Len(words)
        isA(i, pos) == pos \in GetCombinedBinaryType(words[i])
    IN  IF \/ \E i \in 1..n : ~isA(i, "noun") /\ ~isA(i, "adjective")
           \/ \E i \in 1..(n - 1) : ~isA(i, "adjective")
           \/ n = 0
        THEN <<>>
        ELSE IF ~isA(n, "adjective") THEN NlInflectNounPhrase(text, constraints)
        ELSE NlInflectAdjectives(text, constraints)

NlAddDefiniteness(value, constraints) ==
    LET base == WithoutArticle(NlArticles, value)
    IN  AddDefiniteness(NlArticles, value, constraints, NlArticle(base, TRUE),
                        StaticArticle(base, "", Letters("een")))

\* What is asked for may be less than the value: it is shown as it is then.
NlDisplay(displayData, constraints, guess) ==
    LET text == displayData[1].text
        types == GetCombinedBinaryType(text)
        tries == << NlInflectNoun(text, types, constraints), NlInflectAdjective(text, types, constraints),
                    NlInflectVerb(text, types, constraints),
                    IF types = {} THEN NlInflectPhrase(text, constraints) ELSE <<>> >>
        found == {i \in DOMAIN tries : tries[i] # <<>>}
    IN  IF displayData = <<>> \/ text = <<>> THEN NoText
        ELSE NlAddDefiniteness(
               DisplayValue(IF constraints = NoConstraints \/ found = {} THEN text ELSE tries[FirstIn(found)],
                            constraints),
               constraints)
============================================================================
