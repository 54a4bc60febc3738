------------------------------ MODULE Locales ------------------------------
(***************************************************************************)
(* Locales and the walks up their fallbacks                                *)
(* (src/src/inflection/util/ULocale.cpp, LocaleUtils.cpp), by which data   *)
(* of a locale are found.                                                  *)
(*                                                                         *)
(* A name is a sequence of subtags, some of them possibly empty, the last  *)
(* one possibly keywords; a locale is the parts ICU finds in its name.     *)
(***************************************************************************)
EXTENDS Integers, Sequences, FiniteSets, SequencesExt

CONSTANTS Scripts, Countries, Keywords, \* what ICU takes for such in the name of a locale
          Invalid                       \* the names it cannot parse

NoSubtag == ""

HasKeywords(name) == name # <<>> /\ Last(name) \in Keywords

Parsed(name) ==
    LET Subtag(i, S) == IF i <= Len(name) /\ name[i] \in S THEN name[i] ELSE NoSubtag
        script == Subtag(2, Scripts)
        place == IF script = NoSubtag THEN 2 ELSE 3
        country == Subtag(place, Countries)
        parts == IF place <= Len(name) /\ name[place] \in Countries \cup {NoSubtag} THEN place ELSE place - 1
    IN  [language |-> IF name = <<>> THEN NoSubtag ELSE name[1], script |-> script, country |-> country,
         variant |-> IF HasKeywords(name) THEN Last(name)
                     ELSE IF Len(name) > parts THEN name[parts + 1] ELSE NoSubtag,
         name |-> name]

\* The constructor of ULocale leaves out what is empty; what is no locale is the root.
Locale(subtags) ==
    LET name == SelectSeq(subtags, LAMBDA s : s # NoSubtag)
    IN  Parsed(IF name \in Invalid THEN <<>> ELSE name)

\* Without the keywords, or else the last subtag and the empty ones before it.
GetFallback(locale) ==
    LET shorter == Front(locale.name)
        kept == {i \in DOMAIN shorter : shorter[i] # NoSubtag}
    IN  IF HasKeywords(locale.name) THEN Parsed(shorter)
        ELSE IF locale.name = <<>> \/ kept = {} THEN Parsed(<<>>)
        ELSE Parsed(SubSeq(shorter, 1, CHOOSE i \in kept : \A j \in kept : j <= i))

\* The names of a locale and of its fallbacks that have a language, in their order.
Fallbacks(locale) ==
    LET walk[n \in 0..Len(locale.name)] == IF n = 0 THEN locale ELSE GetFallback(walk[n - 1])
    IN  [n \in 1..Cardinality({n \in DOMAIN walk : walk[n].language # NoSubtag}) |-> walk[n - 1].name]

\* The first and the second locale to look up; pairs is a file of exceptions.
GetFallbackPair(locale, pairs) ==
    IF locale.name \in DOMAIN pairs THEN pairs[locale.name] ELSE <<locale.name, GetFallback(locale).name>>

\* The language whose dictionary serves a locale that has none of its own.
GetLanguageWithFallback(locale, pairs) ==
    LET first == GetFallbackPair(locale, pairs)[1]
    IN  IF first \in {<<"yue">>, <<"wuu">>} THEN <<"zh">> ELSE first
=============================================================================
