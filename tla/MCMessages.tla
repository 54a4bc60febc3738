----------------------------- MODULE MCMessages -----------------------------
(***************************************************************************)
(* Messages in nineteen languages about a few words that differ in what the*)
(* languages look at: gender, animacy, a plural that has no singular, a    *)
(* measure, a word without forms, characters that markup escapes.  A form  *)
(* of a word is the word and the number and the case it is in.             *)
(*                                                                         *)
(* Tables of three pronouns, in every order, out of six that differ in how *)
(* much they say: two spelled alike, generic ones, ones that depend on     *)
(* the sound or the number of what they refer to.  A caller has customized *)
(* one pronoun, one that displays nothing, or none.                        *)
(***************************************************************************)
EXTENDS MessageFunctions

\* Operands -----------------------------------------------------------------
Integer(t) == [type |-> "int64", value |-> t, wraps |-> 0]
Double(t) == [type |-> "double", value |-> t, wraps |-> -100]
Object(c) == [type |-> "object", value |-> c]
Nothing == [type |-> "none", value |-> "none"]
Array(words) == [type |-> "array", value |-> [i \in DOMAIN words |-> String(words[i])]]

\* Languages -----------------------------------------------------------------
Languages == {"en", "de", "fr", "it", "ar", "he", "fi", "ru", "pl", "cs", "sr", "ko", "ja", "th", "zh", "yue", "es", "tr", "ml"}
Grammatical == {"singular", "dual", "plural"}
Cases == {"nominative", "genitive", "accusative", "dative", "instrumental", "partitive", "inessive"}
MCCases ==
  [l \in Languages |->
     CASE l \in {"th", "he"} -> {"nominative", "genitive"}
       [] l \in {"en", "ar"} -> {"nominative", "genitive", "accusative"}
       [] l = "fi" -> {"nominative", "genitive", "partitive", "inessive"}
       [] l \in {"ko"} -> {"nominative", "genitive", "accusative", "instrumental"}
       [] l \in {"de", "fr", "it", "es"} -> {"nominative", "genitive", "accusative", "dative"}
       [] OTHER -> Cases \ {"partitive", "inessive"}]
MCArticles ==
  [de |-> {"ein", "eine"}, en |-> {"a", "an"}, es |-> {"un", "una"}, fr |-> {"un", "une"}, it |-> {"un", "una"}]
Measured == {"ja", "ko", "th", "yue"}

\* What grammar.xml says of them of the features that are asked for here.
Cat(name, values) == [name |-> name, values |-> values, aliasable |-> TRUE]
MCCommonGrammar ==
  [categories |-> <<Cat("sound", {"vowel-start", "consonant-start", "vowel-end", "consonant-end"})>>,
   features |-> {"speak"}]
Grammars_ ==
  [l \in Languages |->
     [categories |->
        (IF l \in {"ja", "zh", "yue"} THEN << >>
         ELSE <<Cat("number", IF l \in {"ar", "he"} THEN Grammatical ELSE Grammatical \ {"dual"})>>)
        \o (IF l \in {"yue", "th", "tr", "fi"} THEN << >>
            ELSE <<Cat("gender", {"masculine", "feminine"}
                          \cup (IF l \in {"fr", "it", "ar", "he", "ko"} THEN { } ELSE {"neuter"}))>>)
        \o (CASE l \in {"ru", "cs", "sr", "fi"} -> <<Cat("animacy", {"animate", "inanimate"})>>
              [] l \in {"pl", "ml"} -> <<Cat("animacy", {"human", "animate", "inanimate"})>>
              [] l \in {"ar", "th"} -> <<Cat("animacy", {"human", "nonhuman"})>>
              [] OTHER -> << >>)
        \o (IF l \in {"ar", "he", "de", "en", "es", "fr", "it"}
            THEN <<Cat("definiteness", {"definite", "indefinite"}
                          \cup (IF l \in {"ar", "he"} THEN {"construct"} ELSE { }))>> ELSE << >>)
        \o (IF l \in {"ja", "zh", "yue"} THEN << >> ELSE <<Cat("case", MCCases[l])>>)
        \o (IF l = "ko" THEN <<Cat("sound", {"rieul-end"})>> ELSE << >>)
        \o <<Cat("person", {"first", "second", "third"})>>,
      features |->
        CASE l \in {"de", "en", "es", "fr", "it"} -> "indefArticle" :> MCArticles[l]
          [] l \in Measured -> "measure" :> { }
          [] OTHER -> << >>]]

\* What a dictionary says of words: gender, animacy.
Lexicon ==
  [son |-> <<"masculine", "human">>, cat |-> <<"masculine", "animate">>, table |-> <<"masculine", "inanimate">>,
   book |-> <<"feminine", "inanimate">>, window |-> <<"neuter", "inanimate">>, month |-> <<"masculine", "inanimate">>]

\* "of" has no other forms; what is not known is shown as it is, too.
MCGenerated(language, values, asked) ==
  LET Form(f) == IF f \in DOMAIN asked /\ asked[f] # "" THEN <<asked[f]>> ELSE << >>
  IN  IF values[1].text[1] \in {"of", "&"} THEN NoString
      ELSE IF language = "he" /\ values[1].text[1] = "month"
           THEN DisplayValue(<<IF Form("number") = <<"dual">> THEN "two months"
                               ELSE IF Form("number") = <<"plural">> THEN "months" ELSE "month">>)
      ELSE DisplayValue(<<values[1].text[1]>> \o Form("number") \o Form("case"))

In(value, S, default) ==
  LET found == {i \in DOMAIN value.text : value.text[i] \in S}
  IN  IF found = {} THEN default ELSE value.text[CHOOSE i \in found : TRUE]
MCKnown(language, value, f, asked) ==
  LET word == value.text[1]
  IN  CASE f = "number" -> In(value, Grammatical, IF word = "arms" THEN "plural" ELSE "singular")
        [] f = "case" -> In(value, Cases, "nominative")
        [] word \notin DOMAIN Lexicon -> IF f = "person" THEN Thrown ELSE NoValue
        [] f = "gender" -> Lexicon[word][1]
        [] f = "animacy" -> Lexicon[word][2]
        [] f = "indefArticle" /\ language = "it" -> "un"
        [] OTHER -> NoValue

\* Numbers: the rules of CLDR for the counts of tenths ---------------------------
Last2(t) == (Magnitude(t) \div 10) % 100
Slavic(t, few, many) ==
  IF t % 10 # 0 THEN "other"
  ELSE IF Last2(t) % 10 = 1 /\ Last2(t) # 11 THEN "one"
  ELSE IF Last2(t) % 10 \in 2..4 /\ Last2(t) \notin 12..14 THEN few ELSE many
MCKeywordOf(language, t) ==
  CASE language \in {"ja", "ko", "th", "zh", "yue"} -> "other"
    [] language = "ru" -> Slavic(t, "few", "many")
    [] language = "sr" -> Slavic(t, "few", "other")
    [] language = "pl" -> IF Slavic(t, "few", "many") = "one" /\ Magnitude(t) # 10 THEN "many" ELSE Slavic(t, "few", "many")
    [] language = "cs" -> IF t % 10 # 0 THEN "many" ELSE IF Magnitude(t) = 10 THEN "one"
                          ELSE IF Magnitude(t) \div 10 \in 2..4 THEN "few" ELSE "other"
    [] language = "ar" -> IF t % 10 # 0 THEN "other" ELSE IF t = 0 THEN "zero"
                          ELSE IF Magnitude(t) = 10 THEN "one" ELSE IF Magnitude(t) = 20 THEN "two"
                          ELSE IF Last2(t) \in 3..10 THEN "few" ELSE IF Last2(t) > 10 THEN "many" ELSE "other"
    [] language = "he" -> IF Magnitude(t) \in 1..10 THEN "one" ELSE IF Magnitude(t) = 20 THEN "two" ELSE "other"
    [] language = "fr" -> IF Magnitude(t) < 20 THEN "one" ELSE "other"
    [] OTHER -> IF Magnitude(t) = 10 THEN "one" ELSE "other"
KeywordsOf_ == [l \in Languages |-> {MCKeywordOf(l, t) : t \in {0, 10, 15, 20, 50, 110, 1000}}]

MCInDigits(locale, settings, t) ==
  LET n == IF settings["maximumFractionDigits"] = 0 THEN 10 * (t \div 10) ELSE t
      way == IF locale.country \in {"CH", "AT"} \/ locale.language \in {"de", "fr", "it"} THEN " by thousands" ELSE ""
  IN  IF settings["minimumIntegerDigits"] = 0 /\ n \in 1..9 THEN <<".", ToString(n)>> ELSE <<ToString(n) \o way>>
MCByRules(language, rules, settings, t) == <<rules[2] \o " " \o ToString(t)>>
MCRulesOf(language, style) ==
  IF style = "digits" THEN {"ordinal"}
  ELSE {"cardinal", "cardinal-masculine", "cardinal-feminine", "cardinal-neuter", "cardinal-s", "cardinal-genitive",
        "cardinal-masculine-genitive", "cardinal-plural", "construct-masculine"}

\* The names of locales, in their order; the number formats leave some out.
Names == << <<"de">>, <<"de", "AT">>, <<"de", "CH">>, <<"en">>, <<"en", "AT">>, <<"en", "IT">>, <<"en", "US">>,
            <<"fr", "CH">>, <<"it", "IT">> >>
MCAvailable == SelectSeq(Names, LAMBDA n : n # <<"en", "IT">>)
MCNameBefore(a, b) == \E i, j \in DOMAIN Names : i < j /\ Names[i] = a /\ Names[j] = b

\* Factories -----------------------------------------------------------------
Marks == [l \in Languages \cup {"guillemets", "curly"} |->
            IF l = "en" THEN <<"\"", "\"">> ELSE <<"open of " \o l, "close of " \o l>>]
MCListsOf(language, type, two) ==
  <<IF two THEN << >> ELSE <<", ">>, IF language = "ja" THEN << >> ELSE <<" " \o type \o " ">> >>
MCHasText(text) == text # << >> /\ text[1] = "month"
MCPluralWords == {<<"arms">>}
MCEndsWithVowel(text) == text # << >> /\ Last(text) = "plural"
MCIsBook(text) == text # << >> /\ text[1] = "book"
MCPatterns(word) == IF word = <<"scissors">> THEN {{"plural"}} ELSE {{"singular", "plural"}}

\* Pronouns -----------------------------------------------------------------
Row(w, person, gender, sound, number) ==
  LET Cell(name, value, dependency) ==
        IF value = Absent THEN << >> ELSE <<[name |-> name, value |-> value, dependency |-> dependency]>>
  IN  [word |-> w,
       cells |-> Cell("person", person, FALSE) \o Cell("gender", gender, FALSE)
                   \o (IF number = "plural" THEN Cell("plural", AnyValue, TRUE) ELSE Cell("number", number, TRUE))
                   \o Cell("sound", sound, TRUE)]
they == Row("they", "third", Absent, Absent, Absent)
You  == Row("you", "second", AnyValue, Absent, Absent)
you  == Row("you", "second", "masculine", Absent, Absent)
le   == Row("le ", "third", "masculine", "vowel", Absent)
Le   == Row("le", "third", AnyValue, "consonant", Absent)
mes  == Row("mes", "second", Absent, Absent, "plural")


\* Pronouns of clients, as they have been looked up in a table; what such a concept
\* shows is what a search without a reference finds (PronounConcept.cpp).
Of(c) ==
  INSTANCE Pronouns WITH
    table <- c.of.table, customs <- << >>, defaults <- c.of.defaults, initial <- c.of.initial,
    constraints <- [f \in Features |-> IF f \notin DOMAIN c.constraints THEN Absent
                                      ELSE IF c.constraints[f] = "" THEN AnyValue ELSE c.constraints[f]],
    phase <- "idle", query <- NoReference, at <- 0, best <- 0, generic <- 0, unmatched <- 0
MCPronounOf(c) ==
  LET entries == c.of.table
      matches == {i \in DOMAIN entries : DOMAIN c.constraints \subseteq Features /\ Of(c)!IsBest(i, Len(entries), NoReference)}
      found == IF DOMAIN c.constraints \subseteq Features /\ Of(c)!IsMatchingInitialPronoun THEN c.of.initial
               ELSE IF matches = { } THEN 1 ELSE CHOOSE i \in matches : TRUE
      says == entries[found].says
  IN  IF Of(c)!Displayed(found) = 0 THEN NoString
      ELSE [text |-> <<entries[found].word>>,
            known |-> [f \in {k \in Features : says[k] # Absent} |-> IF says[f] = AnyValue THEN "" ELSE says[f]]]
PronounAt(rows, i) ==
  LET entries == TableOf("fr", rows)
  IN  [kind |-> "pronoun", language |-> "fr", values |-> << >>, name |-> << >>, defaults |-> FALSE, constraints |-> << >>,
       of |-> [table |-> entries, initial |-> i,
               defaults |-> [k \in Keys |-> IF entries[i].says[k] = AnyValue THEN Absent ELSE entries[i].says[k]]]]
Mine == PronounAt(<<mes, le, Le>>, 2)
Yours == PronounAt(<<mes, You, le>>, 2)
Unsaid == PronounAt(<<Row("", "third", Absent, Absent, Absent), mes>>, 1)

\* Calls -----------------------------------------------------------------
Call(function, locale, operand, options) ==
  [function |-> function, selects |-> FALSE, locale |-> Locale(locale), operand |-> operand, options |-> options,
   mode |-> "plain", keys |-> << >>, number |-> Integer(10), region |-> Locale(locale), change |-> "none"]
Selecting(c, keys) == [c EXCEPT !.selects = TRUE, !.keys = keys]
InMarkup(c) == [c EXCEPT !.mode = "markup"]
Both(C) == C \cup {InMarkup(c) : c \in C}

\* A cat that is spoken as a quotation mark, and what has no form at all.
SpokenCat(language) ==
  SemanticConcept(language, <<"cat">>,
    <<[text |-> <<"kitten", "&">>, known |-> ("number" :> "singular") @@ ("speak" :> "\"")]>>, FALSE)
NoForms(language) == WithConstraint(SemanticConcept(language, <<"of">>, <<DisplayValue(<<"of">>)>>, FALSE), "number", "plural")
Measure(language) == WithConstraint(StringConcept(language, <<"cat">>), "measure", "unit")

Words_ == {String("cat"), String("book"), String("of"), String("&"), Object(SpokenCat("en")), Object(NoForms("en"))}
Keys_ == <<<< >>, <<"of">>, <<"cat">>, <<"cat", "plural">>, <<"book", "plural">>, <<"masculine">>>>
InflectionOptions ==
  {<< >>, "number" :> String("plural"), "number" :> String("arms"), "number" :> String("cat"),
   "number" :> Object(NoForms("en")), "number" :> Integer(10), "person" :> String("book"), "tense" :> String("past"),
   "gender" :> Object(Mine), "gender" :> Object(Yours), "number" :> Object(Mine),
   "to" :> String("gender"), "to" :> String("tense"), "to" :> Integer(10),
   ("to" :> String("number")) @@ ("number" :> String("plural"))}
Inflections ==
  LET plain == {Call("inflection", <<"en", "US">>, w, o) :
                  w \in Words_ \cup {Nothing, Integer(10), Object([kind |-> "other"]), Object(Mine), Object(Unsaid)},
                  o \in InflectionOptions}
  IN  Both(plain) \cup {Selecting(c, Keys_) : c \in plain} \cup {Call("inflection", <<"xx">>, String("cat"), << >>)}

NumeralLocales == {<<"en", "US">>, <<"en", "AT">>, <<"de", "AT">>, <<"de", "CH">>, <<"it", "CH">>, <<"fr", "CH">>, <<"fr", "BE">>}
Numerals ==
  {Call("numeral", l, v, o) :
     l \in NumeralLocales, v \in {Integer(10), Integer(600), Double(1000), Double(15)},
     o \in {<< >>, "withStyle" :> String("asWords"), "withStyle" :> String("asSpokenWords"), "withStyle" :> String("asDigits"),
            "withStyle" :> String("asOrdinalDigits"), "withStyle" :> String("asRoman"), "withStyle" :> String("")}
           \cup {("withStyle" :> String(s)) @@ ("withVariant" :> String("cardinal")) : s \in Styles}}

QuantityLocales == {<<l>> : l \in Languages \ {"en"}} \cup {<<"en", "US">>, <<"zh", "HK">>, <<"xx">>, <<"pt">>}
Counts == {Integer(0), Integer(10), Integer(20), Integer(50), Integer(210), Integer(-10), Double(5), Double(15), Double(12), Double(1000)}
Quantities_ ==
  {Call("quantify", l, w, ("withValue" :> v) @@ o) :
     l \in QuantityLocales \ {<<"pt">>}, v \in Counts, w \in {String("cat"), String("book")},
     o \in {<< >>} \cup {"case" :> String(x) : x \in {"genitive", "accusative", "instrumental"}}}
  \cup {Call("quantify", l, String("of"), "withValue" :> v) : l \in {<<"ar">>, <<"ru">>, <<"en">>}, v \in Counts}
  \cup {Call("quantify", <<"pl">>, String(w), ("withValue" :> v) @@ ("case" :> String("accusative"))) :
          w \in {"son", "table", "window"}, v \in {Integer(10), Integer(20), Integer(50)}}
  \cup {Call("quantify", <<"he">>, String(w), ("withValue" :> v) @@ o) : w \in {"month", "window"}, v \in Counts,
          o \in {<< >>, "definiteness" :> String("definite")}}
  \cup {Call("quantify", <<"fi">>, String("scissors"), "withValue" :> v) : v \in Counts}
  \cup {Call("quantify", <<l>>, Object(Measure(l)), "withValue" :> v) : l \in Measured, v \in Counts}
  \cup {Call("quantify", <<"ko">>, String("month"), "withValue" :> v) : v \in Counts}
  \cup Both({Call("quantify", <<"de">>, String("cat"), "withValue" :> v) : v \in Counts})
  \cup {Call("quantify", <<"en", "US">>, String("cat"), o) :
          o \in {<< >>, "withValue" :> String("10"), ("withValue" :> Integer(10)) @@ ("withStyle" :> String("asWords")),
                 ("withValue" :> Integer(10)) @@ ("number" :> Integer(10)),
                 ("withValue" :> Integer(10)) @@ ("definiteness" :> Integer(10)) @@ ("number" :> String("plural"))}}
  \cup {Call("quantify", <<l>>, Object(NoForms(l)), "withValue" :> v) : l \in {"en", "fi"}, v \in {String("10"), Integer(20)}}
  \cup {Call("quantify", <<"fr">>, Object(Mine), ("withValue" :> v) @@ o) :
          v \in Counts, o \in {<< >>, "gender" :> String("feminine")}}

Lists ==
  Both({Call("list", l, Array(ws), o) :
    l \in {<<"en", "US">>, <<"es">>, <<"it">>, <<"he">>, <<"ko">>, <<"ja">>, <<"ar">>, <<"th">>, <<"tr">>, <<"yue">>},
    ws \in {<<"cat">>, <<"cat", "book">>, <<"cat", "book", "of">>},
    o \in {"withType" :> String("and"), "withType" :> String("or"),
           ("withType" :> String("and")) @@ ("number" :> String("plural"))}})
  \cup {Call("list", <<"en", "US">>, w, o) :
    w \in {Array(<<"cat", "book", "&">>), Array(<< >>), String("cat")},
    o \in {<< >>, "withType" :> String("xor"), "tense" :> String("past"), "withType" :> Integer(10),
           ("withItemDelimiter" :> String("<")) @@ ("withItemPrefix" :> String("cat"))
             @@ ("withAvoidItemAffixRedundancy" :> String("true"))}}

FactoryCalls ==
  {[Call("number", l, String("cat"), << >>) EXCEPT !.number = v, !.region = Locale(r), !.change = x] :
     l \in {<<"en">>, <<"it">>, <<"de">>}, r \in {<<"de", "CH">>, <<"it", "IT">>, <<"en", "AT">>, <<"en">>},
     v \in {Integer(-10), Integer(-1000), Double(1), Double(15)}, x \in {"none", "absolute", "fraction", "no integer"}}
  \cup {Call("quote", l, w, << >>) :
          l \in {<<"en">>, <<"de">>, <<"de", "CH">>, <<"fr">>, <<"yue">>, <<"ru">>},
          w \in {String("cat"), String("month"), Object(SpokenCat("en")), Object(NoForms("en"))}}

\* What to agree with may have the feature or not, or any value of it.
PronounOptions ==
  {<< >>, "person" :> String("third"), "gender" :> String("book"), "gender" :> String("of"),
   "gender" :> Object(Mine), "gender" :> Object(Yours), "withReferent" :> Object(Mine), "withReferent" :> String("arms"),
   ("withReferent" :> String("cat")) @@ ("gender" :> String("masculine")), "to" :> String("gender"), "to" :> String("tense"),
   ("to" :> String("gender")) @@ ("withReferent" :> String("cat")), "tense" :> String("past"), "withReferent" :> Integer(10)}
PronounMessages(operands) ==
  LET plain == {Call("pronoun", <<"fr">>, w, o) : w \in operands, o \in PronounOptions}
  IN  plain \cup {Selecting(c, <<<<"mes">>, <<"le">>, <<"masculine">>, << >>>>) : c \in plain}

Calls_ == Inflections \cup Numerals \cup Quantities_ \cup Lists \cup FactoryCalls \cup PronounMessages({Integer(10), Object(NoForms("fr"))})
PronounCalls_ == PronounMessages({String("le"), String("mes"), String("they"), Object([kind |-> "pronoun", language |-> "fr"])})

\* What is searched -----------------------------------------------------
Tables_ == {TableOf("fr", t) : t \in {t \in [1..3 -> {they, You, you, le, Le, mes}] :
                                   \A i, j \in 1..3 : i < j => t[i] # t[j]}}
MessageTables_ == {TableOf("fr", t) : t \in {<<mes, le, Le>>}}
Customs_ == {<< >>, TableOf("fr", <<Row("y'all", "second", Absent, Absent, Absent)>>),
              TableOf("fr", <<Row("", "third", "masculine", Absent, Absent)>>)}
MCKeyBefore(a, b) ==
  LET names == <<"case", "definiteness", "gender", "number">>
  IN  \E i, j \in DOMAIN names : i < j /\ names[i] = a /\ names[j] = b
MCFolded == [w \in {"they", "you", "le ", "le", "mes", "y'all", ""} |-> w]
Spelling_ == [w \in {"they", "you", "le ", "le", "mes", "y'all", ""} |->
                 IF w = "le " THEN "le" ELSE w]
Givens_ == {[k \in {"person", "gender", "of sound", "of number"} |-> Absent],
             [k \in {"person", "gender", "of sound", "of number"} |->
                IF k = "person" THEN "third" ELSE IF k = "gender" THEN "masculine" ELSE Absent]}
Asks_ == {<<"person", "second">>, <<"person", "third">>,
           <<"gender", "masculine">>, <<"gender", "neuter">>}
MCSoundsOf(text) == IF text = << >> THEN {} ELSE IF text[1] = "arms" THEN {"vowel"} ELSE {"consonant"}
References_ ==
  {[values |-> "of sound" :> Absent @@ "of number" :> r[1], sounds |-> r[2]] :
     r \in {<<"plural", {"vowel"}>>, <<"plural", NoText>>, <<"singular", {"consonant"}>>,
            <<Absent, {"vowel"}>>, <<Absent, {"consonant"}>>}}
MCDependsOn == "of number" :> "number"

MCQuantityOf(factory, number, c) ==
  LET quantity == Quantified(factory, number, c) IN quantity

MCPieces == STRING \ Entities

\* The values of the constants: TLC evaluates what these name once.
MCCalls == LET all == Calls_ IN all
MCPronounCalls == LET all == PronounCalls_ IN all
MCTables == LET all == Tables_ IN all
MCMessageTables == LET all == MessageTables_ IN all
MCCustoms == LET all == Customs_ IN all
MCAsks == Asks_
MCGivens == Givens_
MCSpelling == Spelling_
MCKeywordsOf == KeywordsOf_
MCReferences == References_
MCGrammars == LET all == Grammars_ IN all
=============================================================================
