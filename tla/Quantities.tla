----------------------------- MODULE Quantities -----------------------------
(***************************************************************************)
(* What the factories of concepts of the languages make of numbers, words  *)
(* and lists of them (src/src/inflection/dialog/CommonConceptFactoryImpl   *)
(* and dialog/language): a number is formatted to agree with what it       *)
(* counts, what is counted is inflected to agree with the number, and the  *)
(* two are joined in the order of the language.                            *)
(*                                                                         *)
(* A factory is the record of what its class and the arguments of its      *)
(* constructor determine.                                                  *)
(***************************************************************************)
EXTENDS Numbers, SemanticConcepts

CONSTANTS Supported,      \* the languages of supported-locales.properties
          CyrillicLocales, \* the languages ICU writes in Cyrillic,
          HasCyrillic(_), HasHebrew(_), HasNoSpaces(_), \* and the scripts it finds in a text
          StartsWithoutSpace(_), \* a text that starts with a script without spaces
          EndsWithVowel(_),  \* what a text ends with,
          StartsWithI(_), StartsWithO(_), StartsWithE(_), \* and what it sounds like at its start
          Quotes,         \* ICU's quotation marks, of each language
          ListsOf(_, _, _), \* ICU's delimiter and last delimiter: of a language, a type, for two items or more
          Patterns(_),    \* what the dictionary has of Finnish words: the numbers of each inflection pattern,
          PluralWords     \* and the words that are plurals

----------------------------------------------------------------------------
(* LocalizedCommonConceptFactoryProvider *)

MasculineFeminine == [masculine |-> "cardinal-masculine", feminine |-> "cardinal-feminine"]
MasculineFeminineNeuter == MasculineFeminine @@ [neuter |-> "cardinal-neuter"]
FinnishCases ==
    [c \in {"ablative", "adessive", "allative", "elative", "essive", "genitive", "illative", "inessive",
            "nominative", "partitive", "translative"} |->
       IF c = "nominative" THEN "cardinal" ELSE "cardinal-" \o c]

Class(name, feature, rules) == [class |-> name, feature |-> feature, rules |-> rules]
Plain(name) == Class(name, NoValue, <<>>)
ByGender(rules) == Class("default", "gender", rules)

\* The factories there are, by language; feature is what the rules for numbers depend on.
Constructors ==
    [ar |-> Class("ar", "gender", MasculineFeminine), bg |-> ByGender(MasculineFeminineNeuter),
     ca |-> ByGender(MasculineFeminine), cmn |-> Plain("zh"), cs |-> Plain("slavic"),
     da |-> ByGender([common |-> "cardinal-common", neuter |-> "cardinal-neuter"]), de |-> Plain("de"),
     el |-> ByGender(MasculineFeminineNeuter), en |-> Plain("default"),
     es |-> Class("es", "gender", MasculineFeminine), et |-> Plain("default"),
     fi |-> Class("fi", "case", FinnishCases), fr |-> Class("fr", "gender", MasculineFeminine),
     he |-> Plain("he"), hr |-> Plain("serbo-croatian"), is |-> ByGender(MasculineFeminineNeuter),
     it |-> Plain("it"), iw |-> Plain("he"), ja |-> Plain("ja"), ko |-> Plain("ko"),
     lt |-> ByGender(MasculineFeminine), ml |-> Plain("ml"), nb |-> ByGender(MasculineFeminineNeuter),
     pl |-> Plain("slavic"), pt |-> ByGender(MasculineFeminine), ro |-> ByGender(MasculineFeminineNeuter),
     ru |-> Plain("slavic"), sk |-> Plain("slavic"), sr |-> Plain("serbo-croatian"),
     sv |-> ByGender([common |-> "cardinal-reale", neuter |-> "cardinal-neuter"]), th |-> Plain("th"),
     tr |-> Plain("tr"), uk |-> Plain("slavic"), wuu |-> Plain("zh"), yue |-> Plain("yue"), zh |-> Plain("zh")]

\* The factory of a locale: Chinese of Hong Kong is Cantonese, unless a script is named.
FactoryOf(locale) ==
    LET Made(class) == [class |-> class.class, feature |-> class.feature, rules |-> class.rules,
                        locale |-> locale, language |-> locale.language]
    IN  IF locale.language = "zh" /\ locale.script = NoSubtag /\ locale.country = "HK" THEN Made(Plain("yue"))
        ELSE IF locale.language \in DOMAIN Constructors THEN Made(Constructors[locale.language])
        ELSE IF locale.language \in Supported THEN Made(Plain("default"))
        ELSE Thrown

----------------------------------------------------------------------------
(* Speakable strings *)

Word(piece) == Speakable(<<piece>>)
Space == Word(" ")
InTurn(parts) ==
    LET upTo[n \in 0..Len(parts)] == IF n = 0 THEN Speakable(<<>>) ELSE Joined(upTo[n - 1], parts[n])
    IN  upTo[Len(parts)]

\* Quotation marks are printed, and spoken only with what is spoken as it is printed.
Enclosed(marks, s) ==
    LET quoted == <<marks[1]>> \o s.print \o <<marks[2]>>
    IN  [print |-> quoted, speak |-> IF s.print = s.speak THEN quoted ELSE s.speak]

DeQuote(factory, s) == Enclosed(Quotes[IF factory.locale = Locale(<<"de", "CH">>) THEN "guillemets" ELSE factory.language], s)
FrQuote(s) == Enclosed(Quotes["curly"], s)
JaQuote(s) == Enclosed(Quotes["curly"], s)
YueQuote(factory, s) == Enclosed(Quotes[IF HasNoSpaces(s.print) THEN factory.language ELSE "curly"], s)

\* Where Cyrillic is written, what has none of it is not quoted.
SlavicQuote(factory, s) ==
    IF factory.language \in CyrillicLocales /\ ~HasCyrillic(s.print) THEN s ELSE Enclosed(Quotes[factory.language], s)

Quote(factory, s) ==
    CASE factory.class = "de" -> DeQuote(factory, s)
      [] factory.class = "fr" -> FrQuote(s)
      [] factory.class = "ja" -> JaQuote(s)
      [] factory.class = "yue" -> YueQuote(factory, s)
      [] factory.class \in {"slavic", "serbo-croatian"} -> SlavicQuote(factory, s)
      [] OTHER -> Enclosed(Quotes[factory.language], s)

----------------------------------------------------------------------------
(* The noun *)

\* quantifiedJoin of the languages, with a measure word where they have those.
NumberFirst(number, noun) == InTurn(<<number, Space, noun>>)
NounFirst(number, noun) == InTurn(<<noun, Space, number>>)
Unit(measure) == IF measure = NoValue THEN Speakable(<<>>) ELSE Word(measure)
SpaceBefore(measure) == IF measure = NoValue THEN <<>> ELSE <<Space, Word(measure)>>

\* Mutant of ArJoin: a few are no more numbered than two are.
ArJoin_Few(number, noun, count) == IF count \in {"one", "two", "few"} THEN noun ELSE NumberFirst(number, noun)

ArJoin(number, noun, count) == IF count \in {"one", "two"} THEN noun ELSE NumberFirst(number, noun)

\* A Hebrew month or two days say how many they are.
HebrewUnits == {<<"month">>, <<"two months">>, <<"two days">>}
HeJoin(number, noun, count) ==
    IF noun.print \in HebrewUnits THEN noun
    ELSE IF count = "one" THEN NounFirst(number, noun) ELSE NumberFirst(number, noun)

ItJoin(number, noun, count) == IF count = "one" THEN Joined(number, noun) ELSE NumberFirst(number, noun)
MlJoin(number, noun, count) == IF count = "one" THEN NounFirst(number, noun) ELSE NumberFirst(number, noun)
JaJoin(number, noun, measure) == InTurn(<<number, Unit(measure), noun>>)
YueJoin(number, noun, measure) == InTurn(<<number, Unit(measure), noun>>)
ZhJoin(number, noun, measure) == InTurn(<<number, Unit(measure), noun>>)
KoJoin(number, noun, measure) ==
    IF StartsWithoutSpace(noun.print) THEN InTurn(<<number, noun, Unit(measure)>>)
    ELSE InTurn(<<number, Space, noun>> \o SpaceBefore(measure))
ThJoin(number, noun, measure) == InTurn(<<noun, Space, number>> \o SpaceBefore(measure))

QuantifiedJoin(factory, number, noun, measure, count) ==
    CASE factory.class = "ar" -> ArJoin(number, noun, count)
      [] factory.class = "he" -> HeJoin(number, noun, count)
      [] factory.class = "it" -> ItJoin(number, noun, count)
      [] factory.class = "ml" -> MlJoin(number, noun, count)
      [] factory.class = "ja" -> JaJoin(number, noun, measure)
      [] factory.class = "yue" -> YueJoin(number, noun, measure)
      [] factory.class = "zh" -> ZhJoin(number, noun, measure)
      [] factory.class = "ko" -> KoJoin(number, noun, measure)
      [] factory.class = "th" -> ThJoin(number, noun, measure)
      [] OTHER -> NumberFirst(number, noun)

\* What the noun shows, or what it shows without what the number asks for.
NounOf(asked, c) == IF ShownOf(asked) # NoString THEN ShownOf(asked) ELSE ShownOf(c)
JoinedWith(factory, number, noun, measure, count) ==
    IF noun = NoString THEN Thrown ELSE QuantifiedJoin(factory, number, noun, measure, count)

NumberOfCount == [c \in Rules |-> CASE c = "one" -> "singular" [] c = "two" -> "dual" [] OTHER -> "plural"]

DefaultNoun(c, count) ==
    IF NumberOfCount[count] \in BoundedValues(c.language, "number")
    THEN WithConstraint(c, "number", NumberOfCount[count]) ELSE c

\* CommonConceptFactoryImpl::quantifyType.
DefaultQuantifyType(factory, number, c, useDefault, count) ==
    JoinedWith(factory, number, NounOf(IF useDefault THEN c ELSE DefaultNoun(c, count), c),
               IF HasFeature(c.language, "measure") THEN ConstraintOf(c, "measure") ELSE NoValue, count)

\* The case of an Arabic noun, by the case it would have without a number.
ArabicCase(case, count) ==
    CASE count \in {"zero", "few", "other"} -> "genitive"
      [] count = "many" -> "accusative"
      [] count = "one" -> IF case \in {"genitive", "accusative"} THEN case ELSE "nominative"
      [] count = "two" -> IF case \in {"genitive", "accusative"} THEN "genitive" ELSE "nominative"
ArabicNoun(c, count) ==
    WithConstraints(c, [number |-> CASE count = "two" -> "dual" [] count = "few" -> "plural" [] OTHER -> "singular",
                        case |-> ArabicCase(ConstraintOf(c, "case"), count)])

IsPluraleTantum(word) == \E p \in Patterns(word) : "singular" \notin p
ShouldUsePlural(c) ==
    LET head == ShownOf(ResetConstraints(c))
    IN  \/ ConstraintOf(c, "number") = "plural"
        \/ head.print # <<>> /\ (IsPluraleTantum(head.print) \/ head.print \in PluralWords)

\* What has no word without its constraints: shouldUsePlural throws.
HasNoHeadWord(c) == ConstraintOf(c, "number") # "plural" /\ ShownOf(ResetConstraints(c)) = NoString

\* What Finnish counts is a singular, in the partitive if it would be in the nominative.
FinnishNoun(c, count) ==
    LET plural == ShouldUsePlural(c)
        counted == WithConstraint(c, "number", IF plural THEN "plural" ELSE "singular")
    IN  IF FeatureOf(c, "case") \in {NoValue, "nominative"} /\ ~plural /\ count # "one"
        THEN WithConstraint(counted, "case", "partitive") ELSE counted

----------------------------------------------------------------------------
(* Slavic nouns *)

\* How the noun agrees with few and many of it, and with other amounts; whether
\* the numeral tells animate beings in the accusative apart.
Config(few, many, other, animate) == [few |-> few, many |-> many, other |-> other, animate |-> animate]
Ru == Config("paucal governed", "governed plural", "fraction", FALSE)
Pl == Config("paucal plural", "governed plural", "fraction", FALSE)
Uk == Config("paucal plural", "governed plural", "fraction", TRUE)
Cs == Config("paucal plural", "fraction", "governed plural", TRUE)
Sk == Config("paucal plural", "fraction", "governed plural", TRUE)
SerboCroatian == Config("paucal governed", "governed plural", "governed plural", TRUE)
SlavicConfig == [ru |-> Ru, pl |-> Pl, uk |-> Uk, cs |-> Cs, sk |-> Sk, hr |-> SerboCroatian, sr |-> SerboCroatian]

AgreementForCount(language, count) ==
    IF count = "one" THEN "singular" ELSE SlavicConfig[language][IF count \in {"few", "many"} THEN count ELSE "other"]

\* getFeature: "" is no value.
SlavicFeature(c, f) == IF FeatureOf(c, f) = NoValue THEN "" ELSE FeatureOf(c, f)
Direct == {"", "nominative"}
IsDirectCase(case, animacy) == case \in Direct \/ (case = "accusative" /\ animacy = "inanimate")

\* A Polish accusative looks like another case, depending on what is counted.
AdjustedCase(language, c, count, case) ==
    LET gender == SlavicFeature(c, "gender")
        animacy == SlavicFeature(c, "animacy")
    IN  IF language # "pl" \/ case # "accusative" \/ count \notin {"one", "few"} THEN NoValue
        ELSE IF gender = "masculine"
             THEN IF animacy = "human" \/ (animacy = "animate" /\ count = "one") THEN "genitive" ELSE "nominative"
        ELSE IF count = "few" \/ gender = "neuter" THEN "nominative" ELSE NoValue
InCase(c, case) == IF case = NoValue THEN c ELSE WithConstraint(c, "case", case)

\* Mutant of GatedGenitive: the genitive takes the place of any case.
GatedGenitive_Any(language, c, case, mode) == WithConstraint(c, "case", "genitive")

\* applyGatedGenitive: an oblique case is kept, but for plurals in Serbo-Croatian.
GatedGenitive(language, c, case, mode) ==
    IF case \in Direct \cup {"accusative"} \/ (language \in {"hr", "sr"} /\ mode = "governed plural")
    THEN WithConstraint(c, "case", "genitive") ELSE c

SlavicNoun(language, c, mode, count) ==
    LET case == SlavicFeature(c, "case")
        adjusted == InCase(c, AdjustedCase(language, c, count, case))
        gated == GatedGenitive(language, c, case, mode)
        As(d, number) == WithConstraint(d, "number", number)
    IN  CASE mode = "singular" -> As(adjusted, "singular")
          [] mode = "paucal governed" ->
               As(gated, IF IsDirectCase(case, SlavicFeature(c, "animacy")) THEN "singular" ELSE "plural")
          [] mode = "paucal plural" -> As(adjusted, "plural")
          [] mode = "governed plural" -> As(gated, "plural")
          [] mode = "fraction" -> WithConstraints(c, [case |-> "genitive", number |-> "singular"])

ResolveQuantity(factory, number, c, mode, count) ==
    JoinedWith(factory, number, NounOf(SlavicNoun(factory.language, c, mode, count), c), NoValue, count)

----------------------------------------------------------------------------
(* The number *)

PolishRuleName(c, gender, case) ==
    LET animacy == SlavicFeature(c, "animacy")
        cased == "cardinal-" \o gender \o (IF case \in Direct THEN "" ELSE "-" \o case)
    IN  IF gender = "masculine" /\ animacy = "human" /\ case \in Direct \cup {"accusative"} THEN cased \o "-personal"
        ELSE IF gender = "masculine" /\ animacy = "animate" /\ case = "accusative" THEN cased \o "-animate"
        ELSE cased

SlavicRuleName(language, c, gender, case) ==
    IF language = "pl" THEN PolishRuleName(c, gender, case)
    ELSE IF SlavicConfig[language].animate /\ gender = "masculine" /\ case = "accusative"
              /\ SlavicFeature(c, "animacy") \in {"animate", "human"} THEN "cardinal-masculine-animate-accusative"
    ELSE "cardinal-" \o gender \o (IF case \in Direct THEN "" ELSE "-" \o case)

SlavicNumber(factory, n, c) ==
    LET gender == SlavicFeature(c, "gender")
    IN  IF gender = "" THEN GetAsDigits(n)
        ELSE AsSpokenWords(n, SlavicRuleName(factory.language, c, gender, SlavicFeature(c, "case")))

\* The rule of a German number, NoValue if the gender or the case is none it knows.
GermanRule(gender, case) ==
    LET known == gender \in {"masculine", "feminine", "neuter"}
    IN  IF ~known THEN NoValue
        ELSE CASE case \in {NoValue, "", "nominative"} -> "cardinal-" \o gender
               [] case = "genitive" -> IF gender = "feminine" THEN "cardinal-r" ELSE "cardinal-s"
               [] case = "dative" -> IF gender = "feminine" THEN "cardinal-r" ELSE "cardinal-m"
               [] case = "accusative" -> IF gender = "masculine" THEN "cardinal-n" ELSE "cardinal-" \o gender
               [] OTHER -> NoValue
GermanNumber(n, c) ==
    LET rule == GermanRule(FeatureOf(c, "gender"), FeatureOf(c, "case"))
    IN  IF rule = NoValue THEN GetAsDigits(n) ELSE AsSpokenWords(n, rule)

FinnishNumber(n, c) ==
    LET case == FeatureOf(c, "case")
        rule == IF case \in DOMAIN FinnishCases THEN FinnishCases[case] ELSE "cardinal"
    IN  IF HasNoHeadWord(c) THEN Thrown
        ELSE AsSpokenWords(n, IF ShouldUsePlural(c) THEN rule \o "-plural" ELSE rule)

\* One definite thing is the only one; one and two are printed as words.  What is
\* less than two or less than three and no less than one is taken for those.
HebrewNumber(n, c) ==
    LET gender == FeatureOf(c, "gender")
        definite == ConstraintOf(c, "definiteness") = "definite"
        spoken == IF definite /\ LongValue(n) = 1 THEN [print |-> <<"1">>, speak |-> <<"only " \o gender>>]
                  ELSE AsSpokenWords(n, (IF definite THEN "construct-" ELSE "cardinal-") \o gender)
    IN  IF gender \notin {"masculine", "feminine"} THEN Thrown
        ELSE IF LongValue(n) \in {1, 2} THEN Speakable(spoken.speak) ELSE spoken

\* One Italian thing has an indefinite article.
ItalianNumber(n, c) ==
    IF LongValue(n) = 1 /\ FeatureOf(c, "indefArticle") # NoValue THEN Word(FeatureOf(c, "indefArticle"))
    ELSE AsSpokenWords(n, "cardinal-masculine")

\* CommonConceptFactoryImpl::quantify.
DefaultNumber(factory, n, c) ==
    LET value == IF factory.feature = NoValue THEN NoValue ELSE FeatureOf(c, factory.feature)
    IN  IF value \in DOMAIN factory.rules THEN AsSpokenWords(n, factory.rules[value]) ELSE GetAsDigits(n)

NumberFor(factory, n, c) ==
    CASE factory.class = "de" -> GermanNumber(n, c)
      [] factory.class = "fi" -> FinnishNumber(n, c)
      [] factory.class = "he" -> HebrewNumber(n, c)
      [] factory.class = "it" -> ItalianNumber(n, c)
      [] factory.class \in {"slavic", "serbo-croatian"} -> SlavicNumber(factory, n, c)
      [] OTHER -> DefaultNumber(factory, n, c)

----------------------------------------------------------------------------
(* Quantities *)

QuantifyType(factory, number, c, useDefault, count) ==
    CASE factory.class = "ar" ->
           JoinedWith(factory, number, NounOf(IF useDefault THEN c ELSE ArabicNoun(c, count), c), NoValue, count)
      [] factory.class = "fi" -> JoinedWith(factory, number, ShownOf(FinnishNoun(c, count)), NoValue, count)
      [] factory.class = "slavic" /\ ~useDefault ->
           ResolveQuantity(factory, number, c, AgreementForCount(factory.language, count), count)
      [] OTHER -> DefaultQuantifyType(factory, number, c, useDefault, count)

\* A language with one count at most does not inflect what is counted.  In
\* Serbo-Croatian the count does not tell a fraction.
QuantifyFormatted(factory, n, number, c) ==
    LET count == SelectCount(factory.language, n.tenths)
        one == Cardinality(DefaultSupportedCount(factory.language)) <= 1
    IN  IF factory.class = "serbo-croatian"
        THEN ResolveQuantity(factory, number, c,
               IF n.tenths % 10 # 0 THEN "fraction" ELSE AgreementForCount(factory.language, count), count)
        ELSE QuantifyType(factory, number, c, one, IF one THEN "other" ELSE count)

Quantified(factory, n, c) ==
    LET number == NumberFor(factory, n, c)
    IN  IF number = Thrown THEN Thrown ELSE QuantifyFormatted(factory, n, number, c)

----------------------------------------------------------------------------
(* Lists *)

\* The delimiter of a list and what is before its last item: ICU's, or the class's own.
Delimited(delimiter, beforeLast) == [itemDelimiter |-> delimiter, beforeLast |-> beforeLast]
AndOr(type, and, or) == <<IF type = "and" THEN and ELSE or>>
ArList(type) == Delimited(AndOr(type, "comma wa", "comma aw"), AndOr(type, "comma wa", "comma aw"))
ThList(type) == Delimited(<<", ">>, AndOr(type, " lae ", " rue "))
TrList(type, delimiter) == Delimited(delimiter, AndOr(type, " ve ", " ya da "))
YueList(type) == Delimited(<<"enumeration comma">>, AndOr(type, "tung", "waak"))
JaList(type) == Delimited(<<"enumeration comma">>, <<>>) @@ [afterFirst |-> AndOr(type, "to", "matawa")]
EsList == Delimited(<<", ">>, <<>>)
HeList(type, delimiter) == IF type = "and" THEN Delimited(<<", ">>, <<>>) ELSE Delimited(delimiter, <<" o">>)
ItList(type, delimiter) == IF type = "and" THEN Delimited(<<", ">>, <<>>) ELSE Delimited(delimiter, <<" o ">>)
KoList(type, delimiter) == IF type = "and" THEN Delimited(<<", ">>, <<>>) ELSE Delimited(delimiter, <<"ttoneun ">>)

ListDelimiters(factory, type, n) ==
    LET icu == ListsOf(factory.language, type, n = 2)
        delimiter == IF n = 2 THEN <<>> ELSE icu[1]
    IN  CASE factory.class = "ar" -> ArList(type)
          [] factory.class = "th" -> ThList(type)
          [] factory.class = "tr" -> TrList(type, delimiter)
          [] factory.class = "yue" -> YueList(type)
          [] factory.class = "ja" -> JaList(type)
          [] factory.class = "es" -> EsList
          [] factory.class = "he" -> HeList(type, delimiter)
          [] factory.class = "it" -> ItList(type, delimiter)
          [] factory.class = "ko" -> KoList(type, delimiter)
          [] OTHER -> Delimited(delimiter, icu[2])

\* getBeforeLast, of a list that has none: it depends on what is shown around it.
EsAndBeforeLast(last) == <<IF StartsWithI(last) THEN " e " ELSE " y ">>
EsOrBeforeLast(last) == <<IF StartsWithO(last) THEN " u " ELSE " o ">>
ItAndBeforeLast(last) == <<IF StartsWithE(last) THEN " ed " ELSE " e ">>
HeAndBeforeLast(last) == <<IF HasHebrew(last) THEN " ve" ELSE " ve-">>
KoAndBeforeLast(previous) == <<IF EndsWithVowel(previous) THEN "wa " ELSE "gwa ">>
BeforeLast(factory, type, previous, last) ==
    CASE factory.class = "es" /\ type = "and" -> EsAndBeforeLast(last)
      [] factory.class = "es" /\ type = "or" -> EsOrBeforeLast(last)
      [] factory.class = "it" /\ type = "and" -> ItAndBeforeLast(last)
      [] factory.class = "he" /\ type = "and" -> HeAndBeforeLast(last)
      [] factory.class = "ko" /\ type = "and" -> KoAndBeforeLast(previous)
      [] OTHER -> <<>>

NoSeparators ==
    [s \in {"beforeFirst", "afterFirst", "itemDelimiter", "beforeLast", "afterLast", "itemPrefix", "itemSuffix"} |-> <<>>]

\* createAndList, createOrList, or without a type a list of no language.
ListFormat(factory, type, n) ==
    [factory |-> factory, type |-> type, avoidAffixRedundancy |-> TRUE,
     separators |-> (IF type = NoValue THEN <<>> ELSE ListDelimiters(factory, type, n)) @@ NoSeparators]

\* SemanticConceptList::toSpeakableString, of items that show the speakable strings r.
ListShown(format, r) ==
    LET s == format.separators
        last == Len(r)
        Special(i, p) ==
          (IF p = 1 THEN s["afterFirst"] ELSE <<>>)
            \o (IF i # last THEN <<>>
                ELSE IF s["beforeLast"] # <<>> \/ format.type = NoValue THEN s["beforeLast"]
                ELSE BeforeLast(format.factory, format.type, r[p].print, r[i].print))
        Before(i, p) == (IF i = 1 THEN s["beforeFirst"] ELSE <<>>)
          \o (IF i = 1 \/ p = 0 THEN <<>> ELSE IF Special(i, p) # <<>> THEN Special(i, p) ELSE s["itemDelimiter"])
        Affixed(t) ==
          LET Affix(a, has) == Speakable(IF format.avoidAffixRedundancy /\ has THEN <<>> ELSE s[a])
          IN  InTurn(<<Affix("itemPrefix", IsPrefix(s["itemPrefix"], t.print)), t,
                     Affix("itemSuffix", IsSuffix(s["itemSuffix"], t.print))>>)
        Item(acc, i) ==
          IF r[i] = NoString \/ (r[i].print = <<>> /\ r[i].speak = <<>>) THEN acc
          ELSE [shown |-> InTurn(<<acc.shown, Speakable(Before(i, acc.previous)), Affixed(r[i]),
                                 Speakable(IF i = last THEN s["afterLast"] ELSE <<>>)>>),
                previous |-> i]
    IN  IF r = <<>> THEN NoString ELSE FoldLeftDomain(Item, [shown |-> Speakable(<<>>), previous |-> 0], r).shown
=============================================================================
