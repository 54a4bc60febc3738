----------------------------- MODULE Inflection -----------------------------
(***************************************************************************)
(* How a word is inflected by its patterns: Inflector_InflectionPattern,   *)
(* MorphologicalAnalyzer and DictionaryLookupInflector.                    *)
(*                                                                         *)
(* A lexicographer of a language is a record                               *)
(*   [priorities |-> sequences of grammemes, which to prefer to which,     *)
(*    ignored |-> sets of grammemes of inflections that are left out,      *)
(*    fallback |-> whether the next candidate is tried when one fails].    *)
(***************************************************************************)
EXTENDS Lexicon

InflectionsOf(pattern) == Patterns[pattern].inflections

----------------------------------------------------------------------------
(* One pattern *)

\* Of those looked at so far, the inflections with the longest suffix that a
\* surface form ends with and that are among its grammemes.
Narrowed(found, inflection, surface, from) ==
    IF \/ ~inflection.grammemes \subseteq from
       \/ Len(inflection.suffix) < found.longest
       \/ ~IsSuffix(inflection.suffix, surface)
    THEN found
    ELSE IF Len(inflection.suffix) > found.longest
    THEN [longest |-> Len(inflection.suffix), results |-> <<inflection>>]
    ELSE [found EXCEPT !.results = Append(@, inflection)]

\* The inflections a surface form may be.
InflectionsForSurfaceForm(pattern, surface, from) ==
    LET inflections == InflectionsOf(pattern)
        found[i \in 0..Len(inflections)] ==
            IF i = 0 THEN [longest |-> -1, results |-> <<>>]
            ELSE Narrowed(found[i - 1], inflections[i], surface, from)
    IN  found[Len(inflections)].results

\* The optional constraints that are met, as a number with a bit for each,
\* the first of them the highest.
OptionalScore(grammemes, optional) ==
    LET score[i \in 0..Len(optional)] ==
            IF i = 0 THEN 0
            ELSE 2 * score[i - 1] + (IF optional[i] \in grammemes THEN 1 ELSE 0)
    IN  score[Len(optional)]

Score(inflection, from, to, optional) ==
    << OptionalScore(inflection.grammemes, optional),
       Cardinality(inflection.grammemes \cap from),
       Cardinality(to) - Cardinality(inflection.grammemes) >>

Higher(s, t) ==
    \E k \in 1..3 : s[k] > t[k] /\ \A j \in 1..(k - 1) : s[j] = t[j]

\* Mutant of Considered: an inflection with one of the grammemes will do.
Considered_Some(found, inflection, from, to, optional, surface) ==
    LET stripped ==
           IF /\ from = {} \/ inflection.grammemes \subseteq from
              /\ found.stripped < Len(inflection.suffix)
              /\ IsSuffix(inflection.suffix, surface)
           THEN Len(inflection.suffix) ELSE found.stripped
        score == Score(inflection, from, to, optional)
    IN  IF to \cap inflection.grammemes # {} /\ (found.score = <<>> \/ Higher(score, found.score))
        THEN [stripped |-> stripped, suffix |-> inflection.suffix, score |-> score]
        ELSE [found EXCEPT !.stripped = stripped]

\* Mutant of Considered: the ending of a form that the word is not goes, too.
Considered_AnyEnding(found, inflection, from, to, optional, surface) ==
    LET stripped == IF found.stripped < Len(inflection.suffix) /\ IsSuffix(inflection.suffix, surface)
                    THEN Len(inflection.suffix) ELSE found.stripped
        score == Score(inflection, from, to, optional)
    IN  IF to \subseteq inflection.grammemes /\ (found.score = <<>> \/ Higher(score, found.score))
        THEN [stripped |-> stripped, suffix |-> inflection.suffix, score |-> score]
        ELSE [found EXCEPT !.stripped = stripped]

\* How much of the word is its suffix and which suffix to put there instead,
\* when one more inflection is considered.
Considered(found, inflection, from, to, optional, surface) ==
    LET stripped ==
           IF /\ from = {} \/ inflection.grammemes \subseteq from
              /\ found.stripped < Len(inflection.suffix)
              /\ IsSuffix(inflection.suffix, surface)
           THEN Len(inflection.suffix) ELSE found.stripped
        score == Score(inflection, from, to, optional)
    IN  IF to \subseteq inflection.grammemes /\ (found.score = <<>> \/ Higher(score, found.score))
        THEN [stripped |-> stripped, suffix |-> inflection.suffix, score |-> score]
        ELSE [found EXCEPT !.stripped = stripped]

\* One walk over the inflections.
Reinflected(pattern, from, to, optional, surface) ==
    LET inflections == InflectionsOf(pattern)
        found[i \in 0..Len(inflections)] ==
            IF i = 0 THEN [stripped |-> 0, suffix |-> <<>>, score |-> <<>>]
            ELSE Considered(found[i - 1], inflections[i], from, to, optional, surface)
    IN  found[Len(inflections)]

\* The empty text means that the pattern has no such inflection.
Reinflect(pattern, from, to, optional, surface) ==
    IF to = {} \/ to \subseteq from THEN surface
    ELSE LET found == Reinflected(pattern, from, to, optional, surface)
         IN  IF found.score = <<>> THEN <<>>
             ELSE SubSeq(surface, 1, Len(surface) - found.stripped) \o found.suffix

----------------------------------------------------------------------------
(* All patterns of a word *)

\* A candidate is a pattern with one of its inflections, or with none when
\* it has none.
CandidatesOf(pattern, word, types) ==
    LET pos == Patterns[pattern].partsOfSpeech
    IN  IF InflectionsOf(pattern) = <<>>
        THEN <<[pattern |-> pattern, inflects |-> FALSE, own |-> {}, grammemes |-> pos]>>
        ELSE LET found == InflectionsForSurfaceForm(pattern, word, types)
             IN  [i \in DOMAIN found |->
                    [pattern |-> pattern, inflects |-> TRUE, own |-> found[i].grammemes,
                     grammemes |-> found[i].grammemes \cup pos]]

AllCandidates(word, types) ==
    FlattenSeq([i \in DOMAIN GetInflectionPatternsForWord(word) |->
                  CandidatesOf(GetInflectionPatternsForWord(word)[i], word, types)])

\* Those of which no set of grammemes is to be left out.
FilterInflectionGrammemes(who, word, types) ==
    LET all == AllCandidates(word, types)
        kept[i \in 0..Len(all)] ==
            IF i = 0 THEN <<>>
            ELSE IF \E S \in who.ignored : S \subseteq all[i].grammemes THEN kept[i - 1]
            ELSE Append(kept[i - 1], all[i])
    IN  kept[Len(all)]

\* Where the first grammeme of a table is that a word has.
Rank(table, grammemes) ==
    LET at == {i \in DOMAIN table : table[i] \in grammemes}
    IN  IF at = {} THEN Len(table) + 1 ELSE CHOOSE i \in at : \A j \in at : i <= j

\* Negative, zero or positive: the first table that tells them apart decides.
CompareGrammemes(who, S, T) ==
    LET rank(k, grammemes) == Rank(who.priorities[k], grammemes)
        differ == {k \in DOMAIN who.priorities : rank(k, S) # rank(k, T)}
        first == CHOOSE k \in differ : \A j \in differ : k <= j
    IN  IF differ = {} THEN 0 ELSE rank(first, S) - rank(first, T)

\* Mutant of ComesBefore: the priorities of the language come first.
ComesBefore_PriorityFirst(who, disambiguation, c, d) ==
    LET score(x) == OptionalScore(x.grammemes, disambiguation)
        priority == CompareGrammemes(who, c.grammemes, d.grammemes)
    IN  IF priority # 0 THEN priority < 0 ELSE score(c) > score(d)

ComesBefore(who, disambiguation, c, d) ==
    LET score(x) == OptionalScore(x.grammemes, disambiguation)
        priority == CompareGrammemes(who, c.grammemes, d.grammemes)
        bits(x) == Cardinality(x.grammemes)
        size(x) == Len(InflectionsOf(x.pattern))
    IN  IF score(c) # score(d) THEN score(c) > score(d)
        ELSE IF priority # 0 THEN priority < 0
        ELSE /\ c.inflects
             /\ \/ ~d.inflects
                \/ bits(c) < bits(d)
                \/ bits(c) = bits(d) /\ size(c) > size(d)

\* One more candidate, in front of those it comes before.
Inserted(who, disambiguation, sorted, c) ==
    LET later == {k \in DOMAIN sorted : ComesBefore(who, disambiguation, c, sorted[k])}
    IN  IF later = {} THEN Append(sorted, c)
        ELSE InsertAt(sorted, CHOOSE k \in later : \A j \in later : k <= j, c)

\* A stable sort.
SortedCandidates(who, word, types, disambiguation) ==
    LET all == FilterInflectionGrammemes(who, word, types)
        sorted[i \in 0..Len(all)] ==
            IF i = 0 THEN <<>> ELSE Inserted(who, disambiguation, sorted[i - 1], all[i])
    IN  sorted[Len(all)]

\* What the first candidate that can be inflected gives.
InflectWordImplementation(who, word, types, constraints, optional, disambiguation) ==
    LET sorted == SortedCandidates(who, word, types, disambiguation)
        tried == IF who.fallback THEN DOMAIN sorted ELSE DOMAIN sorted \cap {1}
        form(i) == IF ~sorted[i].inflects THEN word
                   ELSE Reinflect(sorted[i].pattern, sorted[i].own,
                                  GetValuesOfTypes(constraints), optional, word)
        usable == {i \in tried : ~sorted[i].inflects \/ form(i) # <<>>}
    IN  IF types = {} \/ sorted = <<>> THEN NoText
        ELSE IF \/ \E g \in Range(disambiguation) : ~Recognized(<<g>>)
                \/ /\ sorted[1].inflects
                   /\ \/ ~Recognized(constraints)
                      \/ \E g \in Range(optional) : ~Recognized(<<g>>)
        THEN Thrown
        ELSE IF usable = {} THEN NoText
        ELSE form(CHOOSE i \in usable : \A j \in usable : i <= j)

\* A word as it is written, then in lower case; the case is put back.
InflectWithOptionalConstraints(who, word, types, constraints, optional, disambiguation) ==
    LET asWritten == InflectWordImplementation(who, word, types, constraints, optional, disambiguation)
        lower == InflectWordImplementation(who, Lowercase(word), types, constraints, optional, disambiguation)
    IN  IF \A c \in Range(constraints) : c = "" THEN word
        ELSE IF ~IsAllUpperCase(word) /\ asWritten # NoText THEN asWritten
        ELSE IF lower \in {NoText, Thrown} THEN lower
        ELSE IF IsAllUpperCase(word) THEN Uppercase(lower)
        ELSE IF StartsUpper(word) THEN CapitalizeFirst(lower)
        ELSE lower

Inflect(who, word, types, constraints, disambiguation) ==
    InflectWithOptionalConstraints(who, word, types, constraints, <<>>, disambiguation)

InflectWord(who, word, types, constraints, disambiguation) ==
    InflectWordImplementation(who, word, types, constraints, <<>>, disambiguation)

\* A word is inflected as an exemplar is: what changes at the end of the exemplar
\* is put in the place of as much of the word; of a word that is shorter, all
\* stays, as the length of what is left wraps around.
InflectExemplar(who, word, exemplar, types, constraints, disambiguation) ==
    LET base == IF exemplar = <<>> THEN word ELSE exemplar
        inflection == Inflect(who, base, types, constraints, disambiguation)
        same == {k \in 0..Len(exemplar) : k <= Len(inflection)
                    /\ SubSeq(inflection, 1, k) = SubSeq(exemplar, 1, k)}
        shared == CHOOSE k \in same : \A j \in same : j <= k
        left == Len(word) - (Len(exemplar) - shared)
    IN  IF inflection \in {NoText, Thrown} \/ (exemplar # <<>> /\ word = exemplar) THEN inflection
        ELSE (IF left < 0 THEN word ELSE SubSeq(word, 1, left))
                \o SubSeq(inflection, shared + 1, Len(inflection))

\* Everything a word may be, one set for each reading.
GetWordGrammemeSets(word) ==
    LET types == GetCombinedBinaryType(word)
        found == [i \in DOMAIN AllCandidates(word, types) |-> AllCandidates(word, types)[i].grammemes]
    IN  IF types = {} THEN <<>> ELSE IF found = <<>> THEN <<types>> ELSE found
============================================================================
