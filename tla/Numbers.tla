------------------------------ MODULE Numbers ------------------------------
(***************************************************************************)
(* The numbers a factory of concepts makes (src/src/inflection/dialog/     *)
(* NumberConcept.cpp): one is printed the way of a region and spoken the   *)
(* way of a language, in digits or in words; and the count a language      *)
(* tells it by (Plurality.cpp).                                            *)
(*                                                                         *)
(* A number is a count of tenths, enough to tell what has a fraction.      *)
(* What ICU makes of a number is a parameter, and so are the locales ICU   *)
(* knows.  A text is a sequence of pieces.                                 *)
(***************************************************************************)
EXTENDS Locales, TLC

CONSTANTS MaxLong,           \* the largest int64_t
          Available,         \* the names of its number formats, in their order,
          NameBefore(_, _),  \* which is this one
          InDigits(_, _, _), \* ICU's decimal format of a locale, under settings, of a number
          ByRules(_, _, _, _), \* a set of rules of a language, likewise
          RulesOf(_, _),     \* the sets of rules a language has for words or for ordinals,
          DefaultRules,      \* and the one it takes if it is not told
          KeywordsOf,        \* of each language, the keywords of its counts
          KeywordOf(_, _)    \* the one a language has for a number

----------------------------------------------------------------------------
(* Locales *)

\* Is there a number format of the name?
IsAvailable(name) ==
    LET n == Len(Available)
        within[start \in 1..(n + 1), limit \in 0..n] ==
          LET mid == (start + limit) \div 2
          IN  IF start > limit THEN FALSE
              ELSE IF NameBefore(name, Available[mid]) THEN within[start, mid - 1]
              ELSE IF NameBefore(Available[mid], name) THEN within[mid + 1, limit]
              ELSE TRUE
    IN  within[1, n]

\* The language as it is used in the country of a region, if ICU knows that.
CreateValidRegionAwareLanguage(language, region) ==
    LET hybrid == Locale(<<language.language, language.script, region.country>>)
    IN  IF language # region /\ IsAvailable(hybrid.name) THEN hybrid ELSE language

----------------------------------------------------------------------------
(* Numbers *)

Unset == -1
NoSettings == [s \in {"maximumFractionDigits", "minimumFractionDigits", "maximumIntegerDigits",
                      "minimumIntegerDigits", "groupingUsed", "roundingMode"} |-> Unset]
DefaultFractionDigits == 3
HalfUp == 4

\* wraps: what the build makes of a double that no int64_t is, which is undefined.
Number(tenths, integral, wraps, language, regionLocale) ==
    [tenths |-> tenths, integral |-> integral, wraps |-> wraps,
     language |-> language, regionLocale |-> regionLocale, settings |-> NoSettings]

\* The number function of a factory.
NumberOf(tenths, integral, wraps, language, region) ==
    Number(tenths, integral, wraps, language, CreateValidRegionAwareLanguage(language, region))

Magnitude(n) == IF n < 0 THEN -n ELSE n
IsNegative(n) == n.tenths < 0

\* Towards zero.
LongValue(n) ==
    LET whole == Magnitude(n.tenths) \div 10
    IN  IF whole > MaxLong THEN n.wraps ELSE IF IsNegative(n) THEN -whole ELSE whole

With(n, setting, value) == [n EXCEPT !.settings[setting] = value]

\* The smallest integer has no absolute value: it is negated to itself.
Absolute(n) ==
    IF ~IsNegative(n) \/ (n.integral /\ n.tenths = -10 * (MaxLong + 1)) THEN n ELSE [n EXCEPT !.tenths = -@]

\* A tenth is the one number of tenths that has ceil(log10) less than zero.
MaxFractionDigitsAboveOne(n, given) ==
    With(n, "maximumFractionDigits", IF Magnitude(n.tenths) = 1 THEN given + 1 ELSE given)

\* configure: formats by rules have defaults of their own.
Configured(settings, byRules) ==
    [s \in DOMAIN settings |->
       IF settings[s] >= 0 \/ ~byRules THEN settings[s]
       ELSE IF s = "maximumFractionDigits" THEN DefaultFractionDigits
       ELSE IF s = "roundingMode" THEN HalfUp ELSE Unset]

Digits(n, locale) == InDigits(locale, Configured(n.settings, FALSE), n.tenths)

\* A set of rules that the language does not have is logged, and its default is taken.
Ruled(n, style, variant) ==
    ByRules(n.language, <<style, IF variant \in RulesOf(n.language, style) THEN variant ELSE DefaultRules>>,
            Configured(n.settings, TRUE), n.tenths)

AsWords(n, variant) == Ruled(n, "spellout", variant)
GetAsWords(n) == Ruled(n, "spellout", DefaultRules)
AsDigits(n, variant) == Ruled(n, "digits", variant)
GetAsOrdinalDigits(n) == AsDigits(n, "ordinal")

\* A leading point is kept away from what is before it and next to what is after.
PostProcess(text) ==
    IF Len(text) > 1 /\ text[1] = "." THEN <<"zero width space", ".", "word joiner">> \o Tail(text) ELSE text

AsSpokenWords(n, variant) ==
    [print |-> PostProcess(Digits(n, n.regionLocale)), speak |-> AsWords(n, variant)]
GetAsSpokenWords(n) == [print |-> PostProcess(Digits(n, n.regionLocale)), speak |-> GetAsWords(n)]

\* From sixty on, French is not counted in Switzerland and Belgium as it is in France.
CountedAlike(n) == Magnitude(LongValue(n)) < 60

\* Where the voices of a country are those of another, it is the other's way.
Spoken(n) ==
    LET is(language, country) == n.language = Locale(<<language, country>>)
        By(language, country) == Digits(n, Locale(<<language, country>>))
    IN  CASE n.language.country = "AT" ->
               IF is("de", "AT") THEN By("de", "DE") ELSE Digits(n, n.regionLocale)
          [] n.language.country = "CH" ->
               IF is("de", "CH") THEN By("de", "DE")
               ELSE IF is("fr", "CH") THEN IF CountedAlike(n) THEN By("fr", "FR") ELSE GetAsWords(n)
               ELSE IF is("it", "CH") THEN By("it", "IT") ELSE Digits(n, n.language)
          [] n.language.country = "BE" ->
               IF is("fr", "BE") /\ ~CountedAlike(n) THEN GetAsWords(n) ELSE Digits(n, n.language)
          [] OTHER -> Digits(n, n.language)

GetAsDigits(n) == [print |-> PostProcess(Digits(n, n.regionLocale)), speak |-> Spoken(n)]

----------------------------------------------------------------------------
(* Plurality *)

Rules == {"zero", "one", "two", "few", "many", "other"}
ConvertKeywordToCount(keyword) == IF keyword \in Rules THEN keyword ELSE "other"
DefaultSupportedCount(language) == {ConvertKeywordToCount(k) : k \in KeywordsOf[language]}
SelectCount(language, tenths) == ConvertKeywordToCount(KeywordOf(language, tenths))
============================================================================
