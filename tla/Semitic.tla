------------------------------ MODULE Semitic ------------------------------
(***************************************************************************)
(* The grammars of Arabic and Hebrew (grammar/synthesis/                   *)
(* ArGrammarSynthesizer and HeGrammarSynthesizer).  A letter is named by a *)
(* Latin one: in Arabic with "A" for an alif with a hamza and "t:" for the *)
(* marbuta; in Hebrew with capitals for the forms at the end of a word.    *)
(***************************************************************************)
EXTENDS Grammar

CONSTANT ScriptOf \* a function from pieces to their scripts

HasScript(piece, script) == piece \in DOMAIN ScriptOf /\ ScriptOf[piece] = script
HasSpace(text) == " " \in Range(Trim(text))

----------------------------------------------------------------------------
(* Arabic *)

ArAl == Letters("al")
Kasheda == <<"_", " ">>

\* By the number and the person of who has it: feminine, masculine.
ArPossessivePronouns ==
    LET both(feminine, masculine) == [feminine |-> Letters(feminine), masculine |-> Letters(masculine)]
    IN  (<<"dual", "second">> :> both("kma", "kma")) @@ (<<"dual", "third">> :> both("hma", "hma"))
          @@ (<<"plural", "first">> :> both("na", "na")) @@ (<<"plural", "second">> :> both("kn", "km"))
          @@ (<<"plural", "third">> :> both("hn", "hm")) @@ (<<"singular", "first">> :> both("y", "y"))
          @@ (<<"singular", "second">> :> both("k", "k")) @@ (<<"singular", "third">> :> both("ha", "h"))

ArAllPronouns == UNION {{p.feminine, p.masculine} : p \in Range(ArPossessivePronouns)}

\* The empty text when a number, a gender or a person is not given, or for
\* a first person of two.
ArGetPossessivePronoun(number, gender, person) ==
    IF <<number, person>> \in DOMAIN ArPossessivePronouns /\ gender \in {"feminine", "masculine"}
    THEN ArPossessivePronouns[<<number, person>>][gender] ELSE <<>>

\* A letter that is a preposition, joined to a value in Arabic.
ArPreposition(value, letter, rest) ==
    LET text == Trim(value.text)
    IN  IF text = <<>> THEN Plain(<<>>)
        ELSE IF HasScript(text[1], "Arabic") THEN Plain(<<letter>> \o rest)
        ELSE Plain(<<letter>> \o Kasheda \o text)

ArWithTo(value) ==
    LET text == Trim(value.text)
    IN  ArPreposition(value, "l", IF Len(text) > 3 /\ StartsWith(text, ArAl) THEN Tail(text) ELSE text)

\* A value and a possessive, if it can take one.
ArWithPossessive(value, constraints) ==
    LET text == value.text
        n == Len(text)
        base == IF n > 2 /\ text[n] = "t:" THEN DropLast(text, 1) \o <<"t">> ELSE text
        pronoun == ArGetPossessivePronoun(FeatureValue(constraints, "numberPronoun"),
                                          FeatureValue(constraints, "genderPronoun"), FeatureValue(constraints, "person"))
        takes == /\ base # <<>> /\ ~HasSpace(base) /\ ~HasScript(base[1], "Latin") /\ ~StartsWith(base, ArAl)
                 /\ ~EndsWith(base, <<"y">>) \/ base \in {<<"A", "kh", "y">>, <<"A", "b", "y">>}
    IN  Plain(IF takes THEN base \o pronoun ELSE base)

ArLookup(mask) == [Lookup(mask, <<"noun", "adjective", "verb">>) EXCEPT !.relevant = {}]

\* A proper noun, a word with the article or one with a possessive is
\* definite.
ArDefiniteness(text) ==
    LET types == GetCombinedBinaryType(text)
        mask == {"definite", "indefinite", "construct"}
        possessed(p) == /\ EndsWith(text, p)
                        /\ GetCombinedBinaryType(DropLast(text, Len(p))) \cap {"noun", "adjective", "particle"} # {}
        told == Determine(PlainLookup(mask), text)
    IN  IF text = <<>> THEN ""
        ELSE IF "proper-noun" \in types THEN "definite"
        ELSE IF told # "" \/ types \cap mask # {} THEN told
        ELSE IF StartsWith(text, ArAl) \/ \E p \in ArAllPronouns : possessed(p) THEN "definite"
        ELSE ""

ArFeature(value, constraints, feature) ==
    CASE feature = "withWithPrep" -> ArPreposition(value, "b", Trim(value.text))
      [] feature = "withAsPrep" -> ArPreposition(value, "k", Trim(value.text))
      [] feature = "withToPrep" -> ArWithTo(value)
      [] feature = "withPossessivePron" -> ArWithPossessive(value, constraints)
      [] feature = "gender" -> AnswerOf(Determine(ArLookup({"masculine", "feminine"}), value.text))
      [] feature = "number" -> AnswerOf(Determine(ArLookup({"singular", "plural", "dual"}), value.text))
      [] feature = "definiteness" -> AnswerOf(ArDefiniteness(value.text))
      [] OTHER -> NoText

ArWho ==
    [priorities |-> << <<"noun", "adjective", "verb">>, <<"third", "second", "first">>, <<"masculine", "feminine">>,
                       <<"singular", "dual", "plural">>, <<"indefinite", "construct", "definite">> >>,
     ignored |-> {}, fallback |-> FALSE]

\* The cases that are tried when a word has no form of the one asked for.
ArCaseFallback == [genitive |-> <<"genitive", "accusative", "nominative">>, accusative |-> <<"accusative", "nominative">>]

\* A verb is tried once.  Only the last constraint falls back: with a
\* person, the case does not.
ArPerformInflection(word, constraints) ==
    LET types == GetCombinedBinaryType(word)
        kinds == types \cap {"noun", "adjective", "verb", "determiner"}
        value(feature) == FeatureValue(constraints, feature)
        given == SelectSeq(<< IF value("number") = "" THEN "singular" ELSE value("number"), value("gender"), value("animacy"),
                              IF value("definiteness") = "construct" THEN "construct" ELSE "",
                              IF value("case") # "" THEN value("case")
                              ELSE IF kinds \in {{"verb"}, {"determiner"}} \/ value("pos") = "verb" THEN "" ELSE "nominative",
                              value("person") >>, LAMBDA v : v # "")
        last == given[Len(given)]
        cases == IF last \in DOMAIN ArCaseFallback /\ kinds # {"verb"} THEN ArCaseFallback[last] ELSE <<last>>
        inflected(i) == Inflect(ArWho, word, types, [given EXCEPT ![Len(given)] = cases[i]],
                            ConvertToStringConstraints(constraints, <<"pos", "mood", "person", "tense">>))
        found == {i \in DOMAIN cases : inflected(i) # NoText}
    IN  IF found = {} THEN word ELSE inflected(FirstIn(found))

\* Every word of a phrase but the possessives.
ArInflectString(text, constraints) ==
    LET inflected(token) == IF Significant(token) /\ token \notin ArAllPronouns
                            THEN ArPerformInflection(token, constraints) ELSE token
    IN  IF IsKnownWord(text) THEN ArPerformInflection(text, constraints)
        ELSE FlattenSeq([i \in DOMAIN Tokens(text) |-> inflected(Tokens(text)[i])])

\* The last of the values that have what is asked for, else the first.
ArChosenText(displayData, constraints) ==
    LET matches(v, f) == ~HasFeature(constraints, f) \/ Is(v.constraints, f, constraints[f])
        fits == {i \in DOMAIN displayData :
                   LET v == displayData[i]
                   IN  /\ matches(v, "case") \/ ~HasFeature(v.constraints, "case")
                       /\ matches(v, "number") /\ matches(v, "gender")
                       /\ \/ matches(v, "definiteness")
                          \/ constraints["definiteness"] \in {"construct", "definite"} /\ ~HasFeature(v.constraints, "definiteness")}
    IN  displayData[IF fits = {} THEN 1 ELSE LastIn(fits)].text

ArLookupDefiniteArticle(text) ==
    LET trimmed == Trim(text)
    IN  IF trimmed = <<>> THEN text
        ELSE IF StartsWith(trimmed, ArAl) THEN trimmed
        ELSE IF HasScript(trimmed[1], "Arabic") THEN ArAl \o trimmed
        ELSE ArAl \o Kasheda \o trimmed

ArIrregularNouns == {<<"A", "kh">>, <<"A", "b">>}
ArCaseVowels == [nominative |-> "v", genitive |-> "y", accusative |-> "a"]

\* When a pronoun is asked about, or nothing is left, the word stays.
ArDisplay(displayData, constraints, guess) ==
    LET text == ArChosenText(displayData, constraints)
        asksPronoun == FeatureValue(constraints, "numberPronoun") # "" \/ FeatureValue(constraints, "genderPronoun") # ""
        inflected == IF asksPronoun THEN <<>> ELSE ArInflectString(text, constraints)
        withArticle(s) == IF Is(constraints, "definiteness", "definite") /\ ~HasSpace(text)
                          THEN ArLookupDefiniteArticle(s) ELSE s
        case == FeatureValue(constraints, "case")
        withVowel(s) == IF s \in ArIrregularNouns /\ case \in DOMAIN ArCaseVowels THEN Append(s, ArCaseVowels[case]) ELSE s
    IN  IF displayData = <<>> THEN NoText
        ELSE IF inflected = <<>> THEN DisplayValue(withVowel(withArticle(text)), NoConstraints)
        ELSE DisplayValue(withArticle(inflected), constraints)

----------------------------------------------------------------------------
(* Hebrew *)

\* The words of a phrase are what is between spaces.
WordsBetweenSpaces(text) == SelectSeq(SplitAt(text, " "), LAMBDA w : w # <<>>)
WithSpaces(words) == JoinWith(words, <<" ">>)

HeWithConditionalHyphen(text) ==
    LET letters == {i \in DOMAIN text : text[i] \notin Marks}
    IN  IF letters # {} /\ HasScript(text[FirstIn(letters)], "Hebrew") THEN Plain(text) ELSE Plain(<<"-">> \o text)

HeGender(text) ==
    DetermineGrammeme([Lookup({"feminine", "masculine"}, <<"noun", "adjective", "determiner", "verb">>)
                          EXCEPT !.firstWord = TRUE, !.default = "masculine"],
                      text, IF EndsWithAny(FirstToken(text), {<<"t">>, <<"h">>}) THEN "feminine" ELSE "")

\* The definite forms are not in the dictionary.
HeDefiniteness(text) ==
    LET told == Determine(PlainLookup({"definite", "indefinite", "construct"}), text)
    IN  IF told # "" THEN told
        ELSE IF IsKnownWord(text) THEN IF HasAnyProperty(text, {"noun", "proper-noun"}) THEN "indefinite" ELSE ""
        ELSE IF StartsWith(text, <<"t">>) \/ StartsWith(text, <<"h">>) THEN "definite" ELSE ""

HeFeature(value, feature) ==
    CASE feature = "gender" -> AnswerOf(HeGender(value.text))
      [] feature = "number" -> AnswerOf(Determine(PlainLookup({"singular", "plural", "dual"}), value.text))
      [] feature = "definiteness" -> AnswerOf(HeDefiniteness(value.text))
      [] feature = "withConditionalHyphen" -> HeWithConditionalHyphen(value.text)
      [] OTHER -> NoText

HeWho ==
    [priorities |-> << <<"noun", "adjective", "verb">>, <<"singular", "plural">>, <<"masculine", "feminine">> >>,
     ignored |-> {}, fallback |-> TRUE]

HeMedialOf == ("K" :> "k") @@ ("M" :> "m") @@ ("N" :> "n") @@ ("P" :> "p") @@ ("C" :> "c")

\* The plurals that follow no ending, and the masculine words with a
\* feminine plural.
HeIrregularPlurals ==
    (Letters("ayw") :> Letters("anwyM")) @@ (Letters("cl") :> Letters("cllyM")) @@ (Letters("aywh") :> Letters("nwyM"))
      @@ (Letters("wnh") :> Letters("wnyM")) @@ (Letters("mylh") :> Letters("mylyM")) @@ (Letters("bt") :> Letters("bnvt"))

HeFemininePlurals ==
    {Letters(w) : w \in {"xwbvN", "xlvN", "raYvN", "arvN", "reyvN", "xylzvN", "hgyvN", "ptrvN", "mqvM", "avlM", "ab", "armvN",
                         "dv:x", "xwd", "kvx", "svd", "vylvN", "lqvx", "rvx", "qvl", "mube", "eqrvN", "qyr", "wur", "rxvb",
                         "rgw", "spq", "qrvN"}}

\* What the endings of a singular become in the plural.
HePluralEndings ==
    << <<Letters("vh"), Letters("vt")>>, <<Letters("h"), Letters("vt")>>, <<Letters("ay"), Letters("ayM")>>,
       <<Letters("yt"), Letters("yvt")>>, <<Letters("vt"), Letters("vyvt")>>, <<Letters("t"), Letters("vt")>> >>

HeSingleWordStemToPlural(word) ==
    LET n == Len(word)
        stem == IF word = <<>> THEN word ELSE [word EXCEPT ![n] = At(HeMedialOf, @)]
        endings == {i \in DOMAIN HePluralEndings : EndsWith(stem, HePluralEndings[i][1])}
    IN  IF word \in DOMAIN HeIrregularPlurals THEN HeIrregularPlurals[word]
        ELSE IF word \in HeFemininePlurals THEN stem \o Letters("vt")
        ELSE IF word = <<>> THEN word
        ELSE IF endings = {} THEN stem \o Letters("yM")
        ELSE LET ending == HePluralEndings[FirstIn(endings)] IN DropLast(stem, Len(ending[1])) \o ending[2]

\* The first noun of several is in the construct state.
HePluralizeFirstWordOfCompound(word) ==
    LET inflected == InflectWithOptionalConstraints(HeWho, word, GetCombinedBinaryType(word), <<"plural">>, <<"construct">>, <<>>)
        plural == HeSingleWordStemToPlural(word)
    IN  IF inflected # NoText THEN inflected
        ELSE IF EndsWith(plural, <<"M">>) THEN DropLast(plural, 1) ELSE plural

\* A compound of nouns is put in the plural by its first, any other phrase
\* by all its words.
HeInflectCompoundToPlural(text) ==
    LET words == WordsBetweenSpaces(text)
        isNoun(w) == "noun" \in GetCombinedBinaryType(w) /\ "adjective" \notin GetCombinedBinaryType(w)
    IN  IF words = <<>> THEN text
        ELSE IF Len(words) > 1 /\ \A i \in 2..Len(words) : isNoun(words[i])
        THEN WithSpaces([words EXCEPT ![1] = HePluralizeFirstWordOfCompound(@)])
        ELSE WithSpaces([i \in DOMAIN words |-> HeSingleWordStemToPlural(words[i])])

\* A phrase with a word that is not known is not inflected in part.
HeInflectDisplayString(text, number, gender, person, disambiguation) ==
    LET asked == SelectSeq(<<number, gender, person>>, LAMBDA v : v # "")
        known == Inflect(HeWho, text, GetCombinedBinaryType(text), asked, disambiguation)
        words == WordsBetweenSpaces(text)
        inflected(w) == IF IsKnownWord(w) THEN Inflect(HeWho, w, GetCombinedBinaryType(w), asked, disambiguation) ELSE NoText
    IN  IF IsKnownWord(text) /\ known # NoText THEN known
        ELSE IF gender = "" /\ number \in {"dual", "plural"} THEN HeInflectCompoundToPlural(text)
        ELSE IF \A i \in DOMAIN words : inflected(words[i]) # NoText \/ IsKnownWord(words[i])
        THEN WithSpaces([i \in DOMAIN words |-> OrElse(inflected(words[i]), words[i])])
        ELSE text

HeIsPreposition(word) ==
    IF IsKnownWord(word) THEN "adposition" \in GetCombinedBinaryType(word)
    ELSE Len(word) > 1 /\ word[1] \in {"b", "l", "m", "k"} /\ IsKnownWord(Tail(word))

HeWithArticle(text) == IF StartsWith(text, <<"h">>) THEN text ELSE <<"h">> \o text

\* The article goes to the last word, or to the first when a preposition
\* follows it.
HeApplyDefiniteness(text, definiteness) ==
    LET tokens == Tokens(text)
        words == {i \in DOMAIN tokens : Significant(tokens[i])}
        last == LastIn(words)
        from(i, j) == FlattenSeq(SubSeq(tokens, i, j))
    IN  IF text = <<>> \/ definiteness # "definite" THEN text
        ELSE IF words = {} \/ \E i \in words : i # FirstIn(words) /\ HeIsPreposition(tokens[i])
        THEN HeWithArticle(text)
        ELSE from(1, last - 1) \o HeWithArticle(from(last, Len(tokens)))

HeDisplay(displayData, constraints, guess) ==
    LET text == displayData[1].text
        number == FeatureValue(constraints, "number")
        gender == FeatureValue(constraints, "gender")
        inflected == IF number = "" /\ gender = "" THEN text
                     ELSE HeInflectDisplayString(text, number, gender, FeatureValue(constraints, "person"),
                              ConvertToStringConstraints(constraints, <<"person", "pos">>))
    IN  IF displayData = <<>> \/ text = <<>> THEN NoText
        ELSE DisplayValue(HeApplyDefiniteness(inflected, FeatureValue(constraints, "definiteness")), constraints)
============================================================================
