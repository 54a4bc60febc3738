------------------------------ MODULE MCWords ------------------------------
(***************************************************************************)
(* Words that are inflected, one call after another, by every small        *)
(* pattern, compounds that are broken up by small dictionaries, and small  *)
(* dictionaries that are written to a file and read.                       *)
(***************************************************************************)
EXTENDS DictionaryFile

CONSTANTS MaxCalls,
          Inflected(_, _, _, _),     \* how DictionaryLookupInflector inflects: of a lexicon, a text, constraints and grammemes to disambiguate by
          InflectedLike(_, _, _, _), \* how inflectWithExemplar does: of a lexicon, a text, its exemplar and constraints
          BrokenUp(_)                \* the boundaries a decompounder may find in a compound

VARIABLES lexicon,   \* a stem with its patterns: it has one, or two of two parts of speech
          word,      \* a form of it as it was given, in some case
          asked,     \* the constraints of the last call
          exact,     \* its disambiguation grammemes
          given,     \* the text it was given
          answer,    \* what it returned
          calls,
          compound,  \* a compound with a dictionary and how it is broken up, if one is
          boundaries \* where it was broken up

lexical == <<lexicon, word, asked, exact, given, answer, calls>>
vars == <<lexical, compound, boundaries, dictionaryVars>>

NoDictionary == source = NoText /\ table = NoText /\ dictionary = NoText /\ file = NoText
NoLexeme == /\ lexicon = [stem |-> <<>>, patterns |-> <<>>] /\ word = NoText /\ given = NoText /\ answer = NoText
            /\ asked = <<>> /\ exact = <<>> /\ calls = 0

\* Stems that end like none of the endings, like one, or like the beginning of
\* one.
Stems == {<<"x", "y">>, <<"x", "a">>, <<"x", "b">>}
Endings == {<<>>, <<"a">>, <<"b", "a">>}
Grammemes == <<"noun", "verb", "sg", "pl", "acc">>

Inflections == [suffix : Endings, grammemes : {{"sg"}, {"pl"}, {"sg", "acc"}, {"pl", "acc"}}]
Lists(n, S) == {s \in [1..n -> S] : \A i, j \in 1..n : i # j => s[i] # s[j]}
Pattern(pos, inflections) == [partsOfSpeech |-> {pos}, inflections |-> inflections]

\* One pattern of two inflections, or of three of which one is the lemma; or
\* a noun of two and a verb of one or two.
Lemma == [suffix |-> <<>>, grammemes |-> {"sg"}]
PatternsOfLexemes ==
    {<<Pattern("noun", s)>> : s \in Lists(2, Inflections)}
      \cup {<<Pattern("noun", <<Lemma>> \o s)>> : s \in Lists(2, Inflections \ {Lemma})}
      \cup {<<Pattern("noun", <<Lemma, i>>), Pattern("verb", <<j>>)>> :
              i \in Inflections \ {Lemma}, j \in Inflections}
      \cup {<<Pattern("noun", <<Lemma, i>>), Pattern("verb", <<j, k>>)>> :
              i \in Inflections \ {Lemma}, j \in {Lemma}, k \in Inflections \ {Lemma}}

Lexicons == [stem : Stems, patterns : PatternsOfLexemes]

\* The inflections of a lexeme, with the part of speech of their pattern.
ParadigmOf(lexeme) ==
    UNION {{[form |-> lexeme.stem \o i.suffix, own |-> i.grammemes, pos |-> p.partsOfSpeech] :
               i \in Range(p.inflections)} : p \in Range(lexeme.patterns)}
FormsOf(lexeme) == {r.form : r \in ParadigmOf(lexeme)}

PatternNames(lexeme, form) ==
    SelectSeq([k \in DOMAIN lexeme.patterns |-> k],
              LAMBDA k : \E r \in ParadigmOf(lexeme) : r.form = form /\ r.pos = lexeme.patterns[k].partsOfSpeech)

WordsOf(lexeme) ==
    [form \in FormsOf(lexeme) |->
       [types |-> UNION {r.own \cup r.pos : r \in {q \in ParadigmOf(lexeme) : q.form = form}},
        patterns |-> PatternNames(lexeme, form)]]

Paradigm == ParadigmOf(lexicon)
Forms == FormsOf(lexicon)

Lower == ("Z" :> "z") @@ ("X" :> "x") @@ ("Y" :> "y") @@ ("A" :> "a") @@ ("B" :> "b")
Upper == ("z" :> "Z") @@ ("x" :> "X") @@ ("y" :> "Y") @@ ("a" :> "A") @@ ("b" :> "B")

I(p) == INSTANCE Inflection WITH Words <- WordsOf(p), Patterns <- p.patterns, LowerOf <- Lower, UpperOf <- Upper, TitleOf <- Upper

\* The lexicons here are what the proofs about inflections take one to be.
ASSUME LexiconsAssumption == \A p \in Lexicons : I(p)!LexiconOver({"x", "y", "a", "b"})

\* Letters are the same in every lexicon.
Letters == INSTANCE Lexicon WITH Words <- <<>>, Patterns <- <<>>, LowerOf <- Lower, UpperOf <- Upper, TitleOf <- Upper

Who == [priorities |-> << <<"noun", "verb">>, <<"sg", "pl">> >>, ignored |-> {}, fallback |-> TRUE]

Cases == {"lower", "title", "upper"}
Cased(c, form) == CASE c = "lower" -> form
                    [] c = "title" -> Letters!CapitalizeFirst(form)
                    [] c = "upper" -> Letters!Uppercase(form)
CaseOf(text) == CASE Letters!IsAllUpperCase(text) -> "upper"
                  [] Letters!StartsUpper(text) /\ ~Letters!IsAllUpperCase(text) -> "title"
                  [] OTHER -> "lower"

MCInflected(lexeme, text, constraints, disambiguation) ==
    LET types == I(lexeme)!GetCombinedBinaryType(text)
    IN  I(lexeme)!Inflect(Who, text, types, constraints, disambiguation)

MCInflectedLike(lexeme, text, exemplar, constraints) ==
    LET types == I(lexeme)!GetCombinedBinaryType(exemplar)
    IN  I(lexeme)!InflectExemplar(Who, text, exemplar, types, constraints, <<>>)

Constraints == {<<"sg">>, <<"pl">>, <<"pl", "acc">>, <<"sg", "acc">>, <<"dual">>}
Disambiguations == {<<>>, <<"verb">>}

\* A word of the same endings that is in no dictionary.
EndingIn(form) == SubSeq(form, Len(lexicon.stem) + 1, Len(form))
Stranger(form) == <<"z">> \o EndingIn(form)
Familiar(text) == IF text # <<>> /\ text[1] = "z" THEN lexicon.stem \o Tail(text) ELSE text

WordsInit ==
    /\ lexicon \in Lexicons
    /\ LET forms == Forms
       IN  word \in {Cased(c, form) : c \in Cases, form \in forms}
    /\ given = word /\ answer = word /\ asked = <<>> /\ exact = <<>> /\ calls = 0
    /\ compound = NoText /\ boundaries = <<>> /\ NoDictionary

Call(constraints, disambiguation) ==
    /\ calls < MaxCalls /\ answer \notin {NoText, Thrown} /\ Familiar(answer) = answer
    /\ asked' = constraints /\ exact' = disambiguation /\ calls' = calls + 1
    /\ UNCHANGED <<lexicon, word, compound, boundaries, dictionaryVars>>

InflectTo(constraints, disambiguation) ==
    /\ Call(constraints, disambiguation)
    /\ given' = answer
    /\ answer' = Inflected(lexicon, answer, constraints, disambiguation)

\* An unknown word after the example of the last answer.
InflectLike(constraints) ==
    /\ Call(constraints, <<>>) /\ answer \in Forms
    /\ given' = Stranger(answer)
    /\ answer' = InflectedLike(lexicon, Stranger(answer), answer, constraints)

----------------------------------------------------------------------------
(* Compounds *)

WordsOver(letters, lengths) == UNION {[1..n -> letters] : n \in lengths}

Entry(freq) == [freq |-> freq, noAtomic |-> FALSE, noHead |-> FALSE, noCompound |-> FALSE,
                segment |-> FALSE, english |-> FALSE]
GermanicEntries == {Entry(40), Entry(70), [Entry(50) EXCEPT !.noHead = TRUE],
                    [Entry(50) EXCEPT !.noAtomic = TRUE]}
GermanicCorpora ==
    UNION {[S -> GermanicEntries] :
             S \in SUBSET {<<"a", "b">>, <<"b", "a">>, <<"a", "b", "a">>, <<"a">>}}
GermanicConfig ==
    [positive |-> {<<"s">>}, negative |-> << <<"a">> >>, replaceable |-> {<<"b">>},
     replacements |-> << <<"a">> >>, maxFugenelementLength |-> 1, maxReplacementFreq |-> 60,
     minSegmentLength |-> 2, minCandidateLength |-> 2, minFrequency |-> 40,
     minFrequenciesDiff |-> 20, maxCompoundFreq |-> 60, maxCompoundLength |-> 20, maxDepth |-> 2]
GermanicWords ==
    {<<"a", "b", "s", "b", "a">>, <<"a", "b", "b", "a">>, <<"a", "b", "a", "b", "s", "a", "b">>,
     <<"b", "a", "s", "a", "s", "b", "a">>, <<"a", "b", "a", "b", "a">>}

SemiticAffixes ==
    [prefixes |-> << {<<"w">>}, {<<"w">>, <<"l">>}, {<<"w", "l">>, <<"l">>} >>,
     suffixes |-> {<<"x">>, <<"l", "x">>}, whole |-> {<<"l", "x", "w">>}]

FinnishEndings ==
    [all |-> {<<"a", "a", "n">>, <<"a", "n">>, <<"k", "s", "i">>, <<"i", "n">>,
              <<"k", "s", "i", "a", "n">>, <<"a", "n", "i", "n">>, <<"i">>},
     split |-> {<<"a", "n">>, <<"k", "s", "i">>, <<"i", "n">>},
     notNominative |-> {<<"a", "a", "n">>}, clitic |-> {<<"k", "o">>}, middle |-> {<<"a">>, <<"i", "n">>}]
FinnishChunks == {<<"t", "a", "l">>, <<"k", "o">>, <<"a", "n">>, <<"a">>, <<"k", "s", "i">>}
FinnishWords == {v \o x \o y \o z \o u : x, y, z, u \in FinnishChunks \cup {<<>>},
                                         v \in {<<>>, <<"t", "a", "l", "t", "a", "l">>}}
FinnishEntry(at, two) == [prob |-> 0 - 10 - at, breakPoint |-> at, isCompound |-> two]
FinnishCorpora ==
    { (<<"t", "a", "l">> :> FinnishEntry(0, FALSE)) @@ (<<"t", "a", "l", "a">> :> e)
        @@ (<<"k", "o", "a">> :> FinnishEntry(0, FALSE)) @@ (<<"t", "a", "l", "k", "o", "a", "a", "n">> :> f) :
        e \in {FinnishEntry(0, FALSE), FinnishEntry(1, FALSE)},
        f \in {FinnishEntry(n, two) : n \in {0, 2, 3, 5}, two \in BOOLEAN}}

C(c) == INSTANCE Compounds WITH
        Corpus <- c.corpus, Affixes <- SemiticAffixes, Endings <- FinnishEndings,
        Config <- IF c.kind = "germanic" THEN GermanicConfig ELSE [maxDepth |-> 2]

\* The dictionaries and the affixes here are what the proofs about compounds
\* take one to be.
ASSUME CompoundsAssumption ==
    \A corpus \in GermanicCorpora :
       LET c == [kind |-> "germanic", corpus |-> corpus]
       IN  C(c)!GermanicDictionary({"a", "b", "s"}) /\ C(c)!AffixTable({"w", "l", "x"})

MCBrokenUp(c) ==
    LET letters == c.word
    IN  CASE c.kind = "germanic" -> C(c)!Germanic(letters)
          [] c.kind = "semitic" -> {C(c)!Semitic(letters)}
          [] c.kind = "finnish" -> {C(c)!Finnish(letters)}

CompoundsInit ==
    /\ compound \in [kind : {"germanic"}, word : GermanicWords, corpus : GermanicCorpora]
               \cup [kind : {"semitic"}, word : WordsOver({"w", "l", "x"}, 2..5), corpus : {<<>>}]
               \cup [kind : {"finnish"}, word : FinnishWords, corpus : FinnishCorpora]
    /\ NoLexeme /\ boundaries = NoText /\ NoDictionary

BreakUp ==
    /\ compound # NoText /\ boundaries = NoText
    /\ boundaries' \in BrokenUp(compound)
    /\ UNCHANGED <<lexical, compound, dictionaryVars>>

\* What the model of the tokenizer takes a decompounder to find.
T == INSTANCE TokenBoundaries WITH
        Texts <- {}, Extractors <- {}, MinCandidate <- GermanicConfig.minCandidateLength,
        MinimumWord <- 2, MaxGroups <- 1, MaxBoundaries <- 4,
        text <- [i \in DOMAIN compound.word |-> "w"], extractor <- NoText, icu <- 0, wordBreaks <- {},
        boundaries <- <<>>, boundariesIdx <- 0, lastStart <- 0, rStart <- 0, rEnd <- 0,
        previousBreak <- 0, groupEnds <- <<>>, group <- 0, nEnd <- 0, split <- 0

----------------------------------------------------------------------------
(* Dictionaries *)

MCOrder == <<"", "Ab", "ab", "acc", "c", "d1", "d2", "d3", "d4", "d5", "d6", "d7", "dat", "du", "f", "gen",
             "gender", "inflection", "m", "n", "noun", "p1", "p2", "pl", "s", "sg", "sound", "verb", "vowel">>
MCLowerCase == [s \in Range(MCOrder) |-> IF s = "Ab" THEN "ab" ELSE s]
MCWideMask == {}
MCGrammarTypes == <<"pl", "sg">>

\* What the containers of strings are given is as the theorems about them ask.
ASSUME ContainersAssumption ==
    \A s \in Range(Order), ascending \in BOOLEAN :
       LET strings == Range(Order) \ {s}
       IN  NumbersKeys(TrieKeys(strings, ascending), strings) /\ InRankOrder(Sorted(strings))

Line(phrase, types, properties) == [phrase |-> phrase, types |-> types, properties |-> properties]
Lines ==
    {Line("Ab", <<"noun", "sg">>, << <<"inflection", "p1">>, <<"gender", "m">> >>),
     Line("Ab", <<"pl", "noun">>, << <<"gender", "f">>, <<"sound", "vowel">>, <<"inflection", "p2">> >>),
     Line("ab", <<"verb">>, <<>>),
     Line("ab", <<"verb", "sg">>, << <<"inflection", "p2">>, <<"inflection", "p1">>, <<"sound", "vowel">> >>),
     Line("c", <<"noun", "pl">>, << <<"gender", "m">>, <<"gender", "f">>, <<"gender", "n">>, <<"inflection", "p1">> >>),
     Line("c", <<>>, << <<"gender", "n">> >>),
     Line("c", <<"noun", "sg">>, << <<"inflection", "p1">>, <<"gender", "m">> >>),
     Line("c", <<"noun", "gen", "acc", "dat", "du">>, <<>>),
     Line("c", <<"noun">>, << <<"gender", "m">>, <<"gender", "f">>, <<"gender", "n">>, <<"gender", "m">> >>),
     Line("", <<"noun">>, <<>>)}

\* Sources that reach the limits: more and more words that differ in what
\* they are and in the values they have, or have none.
Different ==
    LET types == << <<"noun">>, <<"verb">>, <<"noun", "sg">>, <<"noun", "pl">>, <<"sg">>, <<"pl">>, <<"verb", "pl">> >>
        genders == << <<"m", "f", "n">>, <<"m", "n", "f">>, <<"f", "m", "n">>, <<"f", "n", "m">>,
                      <<"n", "m", "f">>, <<"n", "f", "m">>, <<"n", "n", "n">> >>
        words == <<"d1", "d2", "d3", "d4", "d5", "d6", "d7">>
    IN  {[i \in 1..n |-> Line(words[i], types[i],
                              IF n > k THEN <<>> ELSE [j \in 1..3 |-> <<"gender", genders[i][j]>>])] :
           n \in 4..7, k \in {0, 7}}

Form(suffix, grammemes) == [suffix |-> suffix, grammemes |-> grammemes]
TablePattern(name, number, pos, lemma, inflections) ==
    [name |-> name, words |-> number, partsOfSpeech |-> pos, lemmaSuffixes |-> lemma, inflections |-> inflections]
Nouns == TablePattern("p1", 3, {"noun"}, <<"">>, <<Form("", {"sg"}), Form("s", {"pl"}), Form("", {"sg", "noun"})>>)
Plurals == TablePattern("p2", 1, {"noun", "pl"}, <<>>, <<Form("s", {"pl"})>>)
TwoLemmas == TablePattern("p2", 1, {"noun"}, <<"", "s">>, <<>>)
Tables == {NoText, <<Nouns>>, <<Nouns, Plurals>>, <<Plurals, Nouns>>, <<Nouns, TwoLemmas>>,
           <<Nouns, Nouns>>, <<[Plurals EXCEPT !.partsOfSpeech = {"verb"}], Nouns>>}

DictionaryInit ==
    /\ \E lines \in UNION {[1..n -> Lines] : n \in 0..3} \cup Different :
          source = [lines |-> lines, unread |-> lines]
    /\ table \in Tables
    /\ dictionary = Nothing /\ file = NoText
    /\ NoLexeme /\ compound = NoText /\ boundaries = <<>>

MakeDictionary ==
    /\ source # NoText /\ ReadOrWrite
    /\ UNCHANGED <<lexical, compound, boundaries>>

----------------------------------------------------------------------------

Init == WordsInit \/ CompoundsInit \/ DictionaryInit

Next == \/ \E c \in Constraints, d \in Disambiguations :
              (d # <<>> => Len(lexicon.patterns) = 2) /\ InflectTo(c, d)
        \/ \E c \in Constraints : InflectLike(c)
        \/ BreakUp
        \/ MakeDictionary

Spec == Init /\ [][Next]_vars

----------------------------------------------------------------------------
(* The forms of the lexeme that a call may have meant by the text it got,  *)
(* and those it may answer with.                                           *)

Lowered(text) == Letters!Lowercase(text)
Meant == {r \in Paradigm : r.form = Lowered(Familiar(given))}
Wanted(r) == {q \in Paradigm : q.pos = r.pos /\ Range(asked) \subseteq q.own}

\* The inflections of a pattern that a form seems to be: those that have no
\* grammeme that the form has not and the longest ending that it ends with.  The
\* form is misread if that is longer than its own and takes letters of the stem.
Seeming(pattern, form) ==
    LET fitting == {i \in Range(pattern.inflections) :
                      i.grammemes \subseteq WordsOf(lexicon)[form].types /\ IsSuffix(i.suffix, form)}
    IN  {i \in fitting : \A j \in fitting : Len(j.suffix) <= Len(i.suffix)}
Misreadings ==
    UNION {[pattern : {p}, ending : {i.suffix : i \in Seeming(p, r.form)} \ {EndingIn(r.form)}] :
             p \in Range(lexicon.patterns), r \in Meant}

\* However often a word is inflected, what comes out is a form of its lexeme
\* in the case the word was written in, and so it is of a word that is inflected
\* like another: the ending that is replaced is all of the ending and nothing of
\* the stem, though the stem may end like an inflection that the word is not.
\* Only if it ends like one that has no grammeme that the word has not does that
\* ending go, and with it no more than that
\* (Inflector_InflectionPattern.cpp:96-111, 158).
LexemeKept ==
    compound = NoText /\ answer \notin {NoText, Thrown} =>
       \/ \E form \in Forms : answer \in {Cased(CaseOf(word), form), Stranger(form)}
       \/ \E m \in Misreadings : \E i \in Range(m.pattern.inflections) :
             /\ Range(asked) \subseteq i.grammemes
             /\ Lowered(answer) = SubSeq(Lowered(given), 1, Len(given) - Len(m.ending)) \o i.suffix

\* A call answers with a form that has the grammemes asked for, of a part of
\* speech the word may be; it answers nothing only if a reading of the word
\* has no such form, or the word was misread before and is none any more, and
\* throws only if it was asked for what no dictionary knows.
AskedForIsGiven ==
    compound = NoText /\ calls > 0 =>
      /\ answer = Thrown <=> asked = <<"dual">> /\ Meant # {}
      /\ answer = NoText => Meant = {} \/ \E r \in Meant : Wanted(r) = {}
      /\ answer \notin {NoText, Thrown} /\ Misreadings = {} =>
            \E r \in Meant : \E q \in Wanted(r) : Familiar(answer) = Cased(CaseOf(given), q.form)

\* A disambiguation grammeme outweighs the order of preference of the
\* language: the verb is inflected wherever the word may be one and the verb
\* has the form (compareInflectionGrammemes).
DisambiguationWins ==
    exact = <<"verb">> /\ answer \notin {NoText, Thrown} /\ Misreadings = {}
      /\ (\E r \in Meant : r.pos = {"verb"} /\ Wanted(r) # {})
      => \E r \in Meant : /\ r.pos = {"verb"}
                          /\ \E q \in Wanted(r) : answer = Cased(CaseOf(given), q.form)

\* A decompounder finds what the model of the tokenizer allows it to: places
\* that rise, inside the word and never in its last letters, or none; those
\* of a Semitic word end with its end and are never one alone.
CompoundsAsTokenized ==
    compound # NoText /\ boundaries # NoText =>
      LET end == Len(compound.word)
      IN  CASE compound.kind = "germanic" -> boundaries \in T!GermanicCompounds(0, end)
            [] compound.kind = "semitic" -> boundaries \in T!SemiticCompounds(0, end)
            [] compound.kind = "finnish" -> /\ Range(boundaries) \subseteq 1..(end - 1)
                                              /\ \A i \in 2..Len(boundaries) : boundaries[i - 1] < boundaries[i]

\* The last line of a phrase, or else the first whose lower case it is, among
\* those of a set.
LineOf(phrase, among) ==
    LET own == {i \in among : source.lines[i].phrase = phrase}
        lower == {i \in among : LowerCase[source.lines[i].phrase] = phrase}
    IN  IF own # {} THEN Max(own) ELSE IF lower # {} THEN Min(lower) ELSE 0

\* What is asked of a written file is what the source said, however it was
\* packed: the types of a word are those of its last line, or of the first of
\* a name it is the lower case of; its values for each property, in their
\* order, are those of the line that says any; and every pattern of the
\* table has its number, its parts of speech, its suffixes and its inflections
\* (LexicalDictionaryBuilder::writeDictionary and InflectionDictionary::write
\* against DictionaryMetaData_MMappedDictionary and Inflector_MMappedDictionary).
FileSaysWhatSourceSaid ==
    file \notin {NoText, Thrown} /\ IsOpened =>
      LET lines == {i \in DOMAIN source.lines : source.lines[i].phrase # ""}
          saying == {i \in lines : source.lines[i].properties # <<>>}
      IN  /\ \A phrase \in Range(Order) :
                LET typed == LineOf(phrase, lines)
                    valued == LineOf(phrase, saying)
                IN  /\ IF typed = 0 THEN GetWordType(phrase) = NoText
                       ELSE GetTypesOfValues(GetWordType(phrase)) = Range(source.lines[typed].types)
                    /\ \A property \in Range(Opened.propertyNameToKeyId) :
                          LET own == SelectSeq(source.lines[valued].properties, LAMBDA p : p[1] = property)
                          IN  GetWordPropertyValues(phrase, property) =
                                 IF valued = 0 THEN <<>> ELSE [i \in DOMAIN own |-> own[i][2]]
          /\ table # NoText => \A i \in DOMAIN table : GetInflectionPattern(table[i].name) = table[i]
=============================================================================
