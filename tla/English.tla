------------------------------ MODULE English ------------------------------
(***************************************************************************)
(* The grammar of English (grammar/synthesis/EnGrammarSynthesizer).        *)
(***************************************************************************)
EXTENDS Grammar

EnWho == [priorities |-> << <<"noun", "adjective", "verb">>, <<"third", "first", "second">>,
                            <<"singular", "plural">> >>,
          ignored |-> {}, fallback |-> TRUE]

EnVowels == {"a", "e", "i", "o", "u"}

----------------------------------------------------------------------------
(* Number and case of a phrase *)

EnCountLookup == Lookup({"singular", "plural"}, <<"noun", "verb">>)

\* Mutant of EnCount: the last word counts, also behind an adposition.
EnCount_Last(text) ==
    IF Determine(EnCountLookup, text) # "" THEN Determine(EnCountLookup, text)
    ELSE IF text = <<>> THEN "" ELSE Determine(EnCountLookup, LastToken(text))

\* The phrase as a word; the word before the first adposition; the last.
EnCount(text) ==
    LET words == GetSignificantWords(text)
        prepositions == {i \in 2..Len(words) : HasAllProperties(words[i], {"adposition"})}
        before == IF prepositions = {} THEN "" ELSE Determine(EnCountLookup, words[FirstIn(prepositions) - 1])
    IN  IF text = <<>> \/ Determine(EnCountLookup, text) # "" THEN Determine(EnCountLookup, text)
        ELSE IF before # "" THEN before
        ELSE Determine(EnCountLookup, LastToken(text))

\* The contractions of a verb, which are no genitives.
EnContractions == {Letters("it's"), Letters("he's")}

EnCase(text) ==
    LET lower == Lowercase(text)
        genitive == \/ EndsWithAny(lower, {Letters("'s"), Letters("s'")})
                    \/ lower = Letters("its")
    IN  IF Len(lower) >= 3 /\ genitive /\ lower \notin EnContractions THEN "genitive" ELSE ""

----------------------------------------------------------------------------
(* Articles *)

\* Eight, eleven or eighteen, of thousands or not: numbers are their digits.
EnStartsWithVowelDigits(text) ==
    LET digits == {"0", "1", "2", "3", "4", "5", "6", "7", "8", "9"}
        ends == {i \in DOMAIN text : text[i] \notin digits}
        length == IF ends = {} THEN Len(text) ELSE FirstIn(ends) - 1
    IN  \/ text[1] = "8"
        \/ length % 3 = 2 /\ text[1] = "1" /\ text[2] \in {"1", "8"}

EnIndefiniteArticle(text) ==
    LET stem == IF Len(text) > 3 /\ EndsWith(text, Letters("'s")) THEN DropLast(text, 2) ELSE text
    IN  IF text = <<>> \/ EnCount(text) = "plural" THEN <<>>
        ELSE IF IsStartsWithVowel(stem, EnVowels) \/ EnStartsWithVowelDigits(stem)
        THEN Letters("an") ELSE Letters("a")

\* The feature function answers with the article, and the display function
\* puts it in front; a value that brings its article is shown with that.
EnArticle(value, derived) ==
    LET lookup == [includes |-> derived # "", spaces |-> TRUE]
        article == IF derived # "" /\ HasFeature(value.constraints, derived)
                   THEN value.constraints[derived]
                   ELSE EnIndefiniteArticle(value.text)
    IN  CreatePreposition(lookup, value, Plain(article))

EnArticles == [definite |-> GetArticles({Letters("the")}), indefinite |-> GetArticles({Letters("a"), Letters("an")})]

----------------------------------------------------------------------------
(* The display function *)

EnGuessPluralInflection(word) ==
    IF EndsWithAny(word, {<<"s">>, <<"c", "h">>, <<"s", "h">>, <<"x">>, <<"z">>})
    THEN word \o Letters("es")
    ELSE IF Len(word) > 2 /\ EndsWith(word, <<"y">>) /\ word[Len(word) - 1] \notin EnVowels
    THEN DropLast(word, 1) \o Letters("ies")
    ELSE word \o <<"s">>

EnGuessSingularInflection(word) ==
    IF EndsWithAny(word, {Letters(s) : s \in {"ses", "ches", "shes", "xes", "zes"}})
    THEN DropLast(word, 2)
    ELSE IF EndsWith(word, Letters("ies")) THEN DropLast(word, 3) \o <<"y">>
    ELSE IF EndsWith(word, <<"s">>) THEN DropLast(word, 1)
    ELSE word

\* The last word, or the last one before an adposition.
EnHead(tokens) ==
    LET words == {i \in DOMAIN tokens : Significant(tokens[i])}
        prepositions == {i \in words : /\ \E j \in words : j < i
                                       /\ "adposition" \in GetCombinedBinaryType(tokens[i])}
    IN  LastIn({i \in words : \A p \in prepositions : i < p})

\* Mutant of EnInflectPhrase: a guess is made whether it may be or not.
EnInflectPhrase_Always(text, constraints, guess) ==
    LET number == <<FeatureValue(constraints, "number")>>
        pos == ConvertToStringConstraints(constraints, <<"pos">>)
        tokens == Tokens(text)
        head == EnHead(tokens)
        inflected == Inflect(EnWho, tokens[head], GetCombinedBinaryType(tokens[head]), number, pos)
        guessed == IF number = <<"plural">> THEN EnGuessPluralInflection(tokens[head])
                   ELSE EnGuessSingularInflection(tokens[head])
    IN  IF IsKnownWord(text)
        THEN OrElse(Inflect(EnWho, text, GetCombinedBinaryType(text), number, pos), IF guess THEN text ELSE NoText)
        ELSE FlattenSeq([tokens EXCEPT ![head] = OrElse(inflected, guessed)])

\* A phrase that is known, or the head of the phrase; the plural of a word
\* that is not known is guessed if that is allowed.
EnInflectPhrase(text, constraints, guess) ==
    LET number == <<FeatureValue(constraints, "number")>>
        pos == ConvertToStringConstraints(constraints, <<"pos">>)
        tokens == Tokens(text)
        head == EnHead(tokens)
        inflected == Inflect(EnWho, tokens[head], GetCombinedBinaryType(tokens[head]), number, pos)
        guessed == IF number = <<"plural">> THEN EnGuessPluralInflection(tokens[head])
                   ELSE EnGuessSingularInflection(tokens[head])
    IN  IF IsKnownWord(text)
        THEN OrElse(Inflect(EnWho, text, GetCombinedBinaryType(text), number, pos), IF guess THEN text ELSE NoText)
        ELSE IF GetSignificantWords(text) = <<>> THEN (IF guess THEN text ELSE NoText)
        ELSE IF inflected = NoText /\ ~guess THEN NoText
        ELSE FlattenSeq([tokens EXCEPT ![head] = OrElse(inflected, guessed)])

EnPossessivePronouns ==
    [p \in {Letters(s) : s \in {"he", "him", "i", "it", "me", "she", "them", "they", "us", "we", "you"}} |->
       Letters(CASE p \in {Letters("he"), Letters("him")} -> "his"
                 [] p \in {<<"i">>, Letters("me")} -> "my"
                 [] p = Letters("it") -> "its"
                 [] p = Letters("she") -> "her"
                 [] p \in {Letters("them"), Letters("they")} -> "their"
                 [] p \in {Letters("us"), Letters("we")} -> "our"
                 [] OTHER -> "your")]

\* What is put behind a value in the genitive: nothing if it is there.
EnPossessiveSuffix(text, plural) ==
    LET ending == SubSeq(text, Len(text) - 1, Len(text))
    IN  IF Len(text) <= 2 THEN Letters("'s")
        ELSE IF "'" \in Range(ending) /\ Range(ending) \cap {"s", "S"} # {} THEN <<>>
        ELSE IF EndsWith(text, <<"s">>) /\ (plural \/ HasAllProperties(LastToken(text), {"plural"}))
        THEN <<"'">>
        ELSE Letters("'s")

\* The value in the genitive: it is spoken with the same ending.
EnInflectPossessive(value, plural) ==
    LET lower == Lowercase(value.text)
        suffix == EnPossessiveSuffix(value.text, plural)
    IN  IF lower \in DOMAIN EnPossessivePronouns THEN [value EXCEPT !.text = EnPossessivePronouns[lower]]
        ELSE IF value.text = <<>> THEN value
        ELSE [text |-> value.text \o suffix,
              constraints |-> IF HasFeature(value.constraints, "speak")
                              THEN [value.constraints EXCEPT !["speak"] = @ \o suffix]
                              ELSE value.constraints]

EnDisplay(displayData, constraints, guess) ==
    LET value == GetTheBestDisplayValue(displayData, constraints)
        number == FeatureValue(constraints, "number")
        numbered == IF number \in {"singular", "plural"}
                    THEN [text |-> EnInflectPhrase(value.text, constraints, guess), constraints |-> constraints]
                    ELSE [text |-> value.text,
                          constraints |-> IF HasFeature(value.constraints, "speak")
                                          THEN constraints @@ ("speak" :> value.constraints["speak"])
                                          ELSE constraints]
        shown == IF Is(constraints, "case", "genitive")
                 THEN EnInflectPossessive(numbered, number = "plural") ELSE numbered
        base == WithoutArticle(EnArticles, shown)
    IN  IF value = NoText \/ value.text = <<>> \/ numbered.text = NoText THEN NoText
        ELSE AddDefiniteness(EnArticles, shown, constraints,
                             StaticArticle(base, "defArticle", Letters("the")),
                             EnArticle(base, "indefArticle"))

EnFeature(value, feature) ==
    CASE feature \in {"defArticle", "indefArticle"} -> EnArticle(value, "")
      [] feature = "number" -> AnswerOf(EnCount(value.text))
      [] feature = "case" -> AnswerOf(EnCase(value.text))
      [] feature = "definiteness" -> DetectArticle(EnArticles, value.text)
      [] OTHER -> NoText
============================================================================
