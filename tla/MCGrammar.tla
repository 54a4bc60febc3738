----------------------------- MODULE MCGrammar -----------------------------
(***************************************************************************)
(* A concept of a string in each of twenty-five languages with a           *)
(* dictionary of a few words: constraints are put on it and cleared, it is *)
(* shown with or without guessing, and what was shown becomes the string   *)
(* of a concept.                                                           *)
(***************************************************************************)
EXTENDS Integers, Sequences, FiniteSets, TLC, SequencesExt

CONSTANTS NoText, Thrown,
          WordsOf,        \* the words of each language, as Lexicon has them
          PatternsOf,     \* and their patterns
          ShownAs(_, _, _, _), \* what the display function of a language shows: of a language, a value, constraints and guessing
          Told(_, _, _, _),    \* what its feature functions tell: of a language, a value, constraints and a feature
          ArticlesOf,     \* the articles of each language
          WordsIn(_),     \* the words of a text that stand between spaces, by GetSignificantWords
          MaxConstraints, \* how many constraints a concept has at a time, one less in each round
          MaxRounds       \* how often what was shown becomes a string

VARIABLES language,
          given,       \* the value the first concept was made of
          value,       \* the value the concept is made of
          constraints, \* what was put on it, since it was made
          guess,       \* whether it was last shown with guessing
          shown,       \* what it was shown as, NoText if as nothing
          rounds       \* how often what was shown became a string

vars == <<language, given, value, constraints, guess, shown, rounds>>

----------------------------------------------------------------------------
(* The dictionaries.  A word is <<letters, what all its forms are, its     *)
(* endings with what they say>>; one without endings does not inflect.     *)

Chars(s) == [i \in 1..Len(s) |-> SubSeq(s, i, i)]

Noun(gender) == {"noun", gender}
Of(text) == <<Chars(text), {"adposition"}, <<>> >>
Ending(s, own) == <<Chars(s), own>>
Counted(one, many) == <<Ending(one, {"singular"}), Ending(many, {"plural"})>>

\* An article is all ending, with a form for each number and gender.
Article(sm, sf, pm, pf) ==
    << <<>>, {"article"}, << <<Chars(sm), {"singular", "masculine"}>>, <<Chars(sf), {"singular", "feminine"}>>,
                             <<Chars(pm), {"plural", "masculine"}>>, <<Chars(pf), {"plural", "feminine"}>> >> >>

Dictionary ==
    [en |-> << <<Chars("bat"), {"noun"}, Counted("", "s")>>, <<Chars("oar"), {"noun"}, Counted("", "s")>>,
               <<Chars("rice"), {"noun"}, <<Ending("", {"singular"})>> >>, Of("of") >>,
     es |-> << <<Chars("casa"), Noun("feminine"), Counted("", "s")>>, <<Chars("libro"), Noun("masculine"), Counted("", "s")>>,
               <<Chars("agua"), Noun("feminine") \cup {"stressed"}, Counted("", "s")>>, Of("con"), Of("del"), Of("de"),
               Article("el", "la", "los", "las"), Article("un", "una", "unos", "unas") >>,
     fr |-> << <<Chars("table"), Noun("feminine"), Counted("", "s")>>, <<Chars("ami"), Noun("masculine"), Counted("", "s")>>,
               Article("le", "la", "les", "les"), Article("un", "une", "des", "des") >>,
     it |-> << <<Chars("cas"), Noun("feminine"), Counted("a", "e")>>, <<Chars("amic"), Noun("masculine"), Counted("o", "i")>>,
               <<Chars("stat"), Noun("masculine"), Counted("o", "i")>>,
               Article("il", "la", "i", "le"), Article("un", "una", "dei", "delle") >>,
     pt |-> << <<Chars("casa"), Noun("feminine"), Counted("", "s")>>, <<Chars("livro"), Noun("masculine"), Counted("", "s")>>,
               Of("com"), Article("o", "a", "os", "as"), Article("um", "uma", "uns", "umas") >>,
     de |-> << <<Chars("hund"), Noun("masculine"),
                 << <<Chars(""), {"singular", "nominative"}>>, <<Chars("e"), {"plural", "nominative"}>>,
                    <<Chars("es"), {"singular", "genitive"}>>, <<Chars("e"), {"plural", "genitive"}>> >> >> >>,
     pl |-> << <<Chars("kot"), Noun("masculine"),
                 << <<Chars(""), {"singular", "nominative", "animate"}>>, <<Chars("y"), {"plural", "nominative", "nonhuman"}>>,
                    <<Chars("a"), {"singular", "genitive", "animate"}>> >> >>,
               <<Chars("bial"), {"adjective"},
                 << <<Chars("y"), {"singular", "nominative", "masculine", "animate"}>>,
                    <<Chars("ego"), {"singular", "genitive", "masculine"}>>, <<Chars("e"), {"plural", "nominative", "nonhuman"}>> >> >> >>,
     ru |-> << <<Chars("stol"), Noun("masculine") \cup {"inanimate"},
                 << <<Chars(""), {"singular", "nominative"}>>, <<Chars("y"), {"plural", "nominative"}>>,
                    <<Chars("a"), {"singular", "genitive"}>>, <<Chars("ov"), {"plural", "genitive"}>> >> >> >>,
     he |-> << <<Chars("bit"), Noun("masculine"), Counted("", "yM")>>, <<Chars("spr"), Noun("masculine"), Counted("", "yM")>> >>,
     ar |-> << <<Chars("bit"), Noun("masculine"),
                 << <<Chars(""), {"singular", "nominative"}>>, <<Chars("wt"), {"plural", "nominative"}>>,
                    <<Chars(""), {"singular", "genitive"}>> >> >> >>,
     hi |-> << << <<"l", "d">>, Noun("masculine"),
                 << << <<"a">>, {"singular", "direct"}>>, << <<"e">>, {"plural", "direct"}>>,
                    << <<"e">>, {"singular", "oblique"}>>, << <<"o", "M">>, {"plural", "oblique"}>> >> >>,
               <<Chars("ne"), {"adposition"}, <<>> >> >>,
     pa |-> << << <<"m", "u", "d">>, Noun("masculine"),
                 << << <<"a">>, {"singular", "direct"}>>, << <<"e">>, {"plural", "direct"}>>, << <<"e">>, {"singular", "oblique"}>> >> >> >>,
     tr |-> << <<Chars("kitap"), {"noun"}, <<>> >>, <<Chars("ev"), {"noun"}, <<>> >>, <<Chars("okul"), {"noun"}, <<>> >>,
               <<Chars("saat"), {"noun", "front-unround"}, <<>> >>, <<Chars("alkol"), {"noun", "front-round"}, <<>> >>,
               <<Chars("paris"), {"noun", "foreign"}, <<>> >> >>,
     ko |-> << << <<"na">>, {"noun"}, <<>> >>, << <<"san">>, {"noun"}, <<>> >>, << <<"gil">>, {"noun"}, <<>> >> >>,
     fi |-> << << <<"t", "a", "l", "o">>, {"noun"},
                 << <<Chars(""), {"singular", "nominative"}>>, <<Chars("t"), {"plural", "nominative"}>>,
                    <<Chars("n"), {"singular", "genitive"}>>, <<Chars("na"), {"singular", "essive"}>> >> >> >>,
     bn |-> << <<Chars("chele"), {"noun"}, Counted("", "ra")>> >>,
     ta |-> << <<Chars("vidu"), {"noun"}, Counted("", "kal")>> >>,
     ml |-> << << <<"vi", "du">>, {"noun"}, << << <<>>, {"singular", "nominative"}>>, << <<"kal">>, {"plural", "nominative"}>> >> >> >>,
     nl |-> << <<Chars("hond"), Noun("masculine"), Counted("", "en")>>,
               <<Chars("groot"), {"adjective", "positive"}, << <<Chars(""), {}>> >> >> >>,
     sv |-> << <<Chars("hund"), Noun("common"),
                 << <<Chars(""), {"singular", "indefinite"}>>, <<Chars("en"), {"singular", "definite"}>>,
                    <<Chars("ar"), {"plural", "indefinite"}>>, <<Chars("arna"), {"plural", "definite"}>> >> >> >>,
     nb |-> << <<Chars("hund"), Noun("masculine"),
                 << <<Chars(""), {"singular", "indefinite"}>>, <<Chars("en"), {"singular", "definite"}>>,
                    <<Chars("er"), {"plural", "indefinite"}>>, <<Chars("ene"), {"plural", "definite"}>> >> >> >>,
     da |-> << <<Chars("hund"), Noun("common"),
                 << <<Chars(""), {"singular", "indefinite"}>>, <<Chars("en"), {"singular", "definite"}>>,
                    <<Chars("e"), {"plural", "indefinite"}>>, <<Chars("ene"), {"plural", "definite"}>> >> >> >>,
     sr |-> << <<Chars("kuc"), Noun("feminine"),
                 << <<Chars("a"), {"singular", "nominative"}>>, <<Chars("e"), {"singular", "genitive"}>>,
                    <<Chars("e"), {"plural", "nominative"}>> >> >> >>,
     cs |-> << <<Chars("mal"), {"adjective"}, << <<Chars("y"), {"singular", "nominative"}>>, <<Chars("e"), {"plural", "nominative"}>> >> >> >>,
     ro |-> << <<Chars("bun"), {"adjective"}, << <<Chars(""), {"singular", "nominative"}>>, <<Chars("i"), {"plural", "nominative"}>> >> >> >>]

Languages == DOMAIN Dictionary

EntryForms(entry) ==
    IF entry[3] = <<>> THEN {<<entry[1], entry[2]>>}
    ELSE {<<entry[1] \o entry[3][i][1], entry[2] \cup entry[3][i][2]>> : i \in DOMAIN entry[3]}

MCWordsOf ==
    LET AllForms(l) == UNION {EntryForms(Dictionary[l][i]) : i \in DOMAIN Dictionary[l]}
        Listed(l, form) == {i \in DOMAIN Dictionary[l] : Dictionary[l][i][3] # <<>>
                                                         /\ \E f \in EntryForms(Dictionary[l][i]) : f[1] = form}
    IN  [l \in Languages |->
           [form \in {f[1] : f \in AllForms(l)} |->
              [types |-> UNION {f[2] : f \in {g \in AllForms(l) : g[1] = form}},
               patterns |-> SetToSortSeq(Listed(l, form), <)]]]

PartsOfSpeech == {"noun", "adjective", "verb", "adposition", "article"}
MCPatternsOf ==
    LET PatternOf(entry) ==
           [partsOfSpeech |-> entry[2] \cap PartsOfSpeech,
            inflections |-> [k \in DOMAIN entry[3] |->
                               [suffix |-> entry[3][k][1],
                                grammemes |-> entry[3][k][2] \cup (entry[2] \ PartsOfSpeech)]]]
    IN  [l \in Languages |-> [i \in DOMAIN Dictionary[l] |-> PatternOf(Dictionary[l][i])]]

AllGrammemes ==
    <<"noun", "adjective", "verb", "adposition", "article", "singular", "plural", "masculine", "feminine", "nominative", "genitive",
      "accusative", "dative", "direct", "oblique", "essive", "animate", "inanimate", "human", "nonhuman", "stressed", "foreign",
      "front-unround", "front-round", "construct", "locative", "ablative",
      "instrumental", "common", "definite", "indefinite", "positive">>

NoLetters == [x \in {} |-> x]

En(l) == INSTANCE English WITH Grammemes <- AllGrammemes, Words <- WordsOf[l], Patterns <- PatternsOf[l],
                            LowerOf <- NoLetters, UpperOf <- NoLetters, TitleOf <- NoLetters
Rom(l) == INSTANCE Romance WITH Grammemes <- AllGrammemes, Words <- WordsOf[l], Patterns <- PatternsOf[l],
                            LowerOf <- NoLetters, UpperOf <- NoLetters, TitleOf <- NoLetters
Ger(l) == INSTANCE Germanic WITH Grammemes <- AllGrammemes, Words <- WordsOf[l], Patterns <- PatternsOf[l],
                            LowerOf <- NoLetters, UpperOf <- NoLetters, TitleOf <- NoLetters
Nor(l) == INSTANCE Nordic WITH Grammemes <- AllGrammemes, Words <- WordsOf[l], Patterns <- PatternsOf[l],
                            LowerOf <- NoLetters, UpperOf <- NoLetters, TitleOf <- NoLetters
Sla(l) == INSTANCE Slavic WITH Grammemes <- AllGrammemes, Words <- WordsOf[l], Patterns <- PatternsOf[l],
                            LowerOf <- NoLetters, UpperOf <- NoLetters, TitleOf <- NoLetters,
                            Exemplars <- (Chars("ol") :> Chars("stol")) @@ (Chars("ot") :> Chars("kot")),
                            Inflectable <- Range(Chars("stolyavmck")), Foreign <- {}
Sem(l) == INSTANCE Semitic WITH Grammemes <- AllGrammemes, Words <- WordsOf[l], Patterns <- PatternsOf[l],
                            LowerOf <- NoLetters, UpperOf <- NoLetters, TitleOf <- NoLetters,
                            ScriptOf <- [x \in Range(Chars("bitsprhwyM")) |-> IF l = "ar" THEN "Arabic" ELSE "Hebrew"]
Agg(l) == INSTANCE Agglutinative WITH Grammemes <- AllGrammemes, Words <- WordsOf[l], Patterns <- PatternsOf[l],
                            LowerOf <- NoLetters, UpperOf <- NoLetters, TitleOf <- NoLetters,
                            NumberWords <- (<<"5">> :> Chars("beS")) @@ (<<"3">> :> Chars("UC")),
                            SuffixToExemplar <- (Chars("lo") :> Chars("talo")),
                            KoreanEnds <- [x \in {"na", "wa", "gwa", "ui", "ga", "yi", "ro", "eu"} |-> "vowel"]
                                            @@ [x \in {"san", "neun", "eun"} |-> "consonant"]
                                            @@ [x \in {"gil", "reul", "eul"} |-> "rieul"]
Ind(l) == INSTANCE Indic WITH Grammemes <- AllGrammemes, Words <- WordsOf[l], Patterns <- PatternsOf[l],
                            LowerOf <- NoLetters, UpperOf <- NoLetters, TitleOf <- NoLetters,
                            MalayalamPieces <- {"vi", "du", "kal", "mara"}

MCShownAs(l, v, asked, guessing) ==
    LET data == <<v>>
    IN  CASE l = "en" -> En(l)!EnDisplay(data, asked, guessing)
          [] l = "es" -> Rom(l)!EsDisplay(data, asked, guessing)
          [] l = "fr" -> Rom(l)!FrDisplay(data, asked, guessing)
          [] l = "it" -> Rom(l)!ItDisplay(data, asked, guessing)
          [] l = "pt" -> Rom(l)!PtDisplay(data, asked, guessing)
          [] l = "de" -> Ger(l)!DeDisplay(data, asked, guessing)
          [] l = "pl" -> Sla(l)!PlDisplay(data, asked, guessing)
          [] l = "ru" -> Sla(l)!RuDisplay(data, asked, guessing)
          [] l = "he" -> Sem(l)!HeDisplay(data, asked, guessing)
          [] l = "ar" -> Sem(l)!ArDisplay(data, asked, guessing)
          [] l = "hi" -> Ind(l)!HiDisplay(data, asked, guessing)
          [] l = "pa" -> Ind(l)!IndicDisplay(l, data, asked, guessing)
          [] l = "bn" -> Ind(l)!BnDisplay(data, asked, guessing)
          [] l = "tr" -> Agg(l)!TrDisplay(data, asked, guessing)
          [] l = "ko" -> Agg(l)!KoDisplay(data, asked, guessing)
          [] l = "fi" -> Agg(l)!FiDisplay(data, asked, guessing)
          [] l = "ta" -> Ind(l)!TaDisplay(data, asked, guessing)
          [] l = "ml" -> Ind(l)!MlDisplay(data, asked, guessing)
          [] l = "nl" -> Ger(l)!NlDisplay(data, asked, guessing)
          [] l = "sv" -> Nor(l)!SvDisplay(data, asked, guessing)
          [] l = "nb" -> Nor(l)!NbDisplay(data, asked, guessing)
          [] l = "da" -> Nor(l)!DaDisplay(data, asked, guessing)
          [] l = "sr" -> Sla(l)!SrDisplay(data, asked, guessing)
          [] l = "cs" -> Sla(l)!CsDisplay(data, asked, guessing)
          [] l = "ro" -> Sla(l)!RoDisplay(data, asked, guessing)

MCWordsIn(text) == LET words == En("en")!GetSignificantWords(text) IN words

\* What the articles of a language are.
NoArticles == [definite |-> {}, indefinite |-> {}]
MCArticlesOf ==
    LET ArticlesIn(l) ==
          CASE l = "en" -> En(l)!EnArticles
            [] l = "es" -> Rom(l)!EsArticles
            [] l = "fr" -> Rom(l)!FrArticles
            [] l = "it" -> Rom(l)!ItArticles
            [] l = "pt" -> Rom(l)!PtArticles
            [] l = "de" -> Ger(l)!DeArticles
            [] l = "nl" -> [definite |-> {Chars("de "), Chars("het ")}, indefinite |-> {Chars("een ")}]
            [] l = "da" -> Nor(l)!DaArticles
            [] l = "he" -> [definite |-> {<<"h">>}, indefinite |-> {}]
            [] l = "ar" -> [definite |-> {Chars("al")}, indefinite |-> {}]
            [] OTHER -> NoArticles
    IN  [l \in Languages |-> ArticlesIn(l)]

\* What the language tells of a value; Korean tells nothing.
MCTold(l, v, asked, feature) ==
    LET none == NoText
    IN  CASE l = "en" -> En(l)!EnFeature(v, feature)
          [] l = "es" -> Rom(l)!EsFeature(v, feature)
          [] l = "fr" -> Rom(l)!FrFeature(v, feature)
          [] l = "it" -> Rom(l)!ItFeature(v, feature)
          [] l = "pt" -> Rom(l)!PtFeature(v, feature)
          [] l = "de" -> Ger(l)!DeFeature(v, feature)
          [] l = "nl" -> Ger(l)!NlFeature(v, feature)
          [] l = "sv" -> Nor(l)!SvFeature(v, feature, FALSE)
          [] l = "nb" -> Nor(l)!NbFeature(v, feature, FALSE)
          [] l = "da" -> Nor(l)!DaFeature(v, feature, FALSE)
          [] l = "pl" -> Sla(l)!PlFeature(v, feature)
          [] l = "ru" -> Sla(l)!RuFeature(v, feature)
          [] l = "sr" -> Sla(l)!SrFeature(v, feature)
          [] l = "cs" -> Sla(l)!CsFeature(v, feature)
          [] l = "ro" -> Sla(l)!RoFeature(v, feature)
          [] l = "he" -> Sem(l)!HeFeature(v, feature)
          [] l = "ar" -> Sem(l)!ArFeature(v, asked, feature)
          [] l = "hi" -> Ind(l)!HiFeature(v, feature)
          [] l = "pa" -> Ind(l)!IndicFeature(l, v, feature)
          [] l \in {"bn", "ta"} -> Ind(l)!NumberFeature(v, feature)
          [] l = "ml" -> Ind(l)!MlFeature(v, feature)
          [] l = "tr" -> Agg(l)!TrFeature(v, feature)
          [] l = "fi" -> Agg(l)!FiFeature(v, feature)
          [] OTHER -> none

----------------------------------------------------------------------------
(* The concepts *)

Phrases ==
    [en |-> {"bat", "oar", "gizmo", "bat of oar", "gizmo of bat", "the bat", "a bat", "an oar", "rice"},
     es |-> {"casa", "libro", "agua", "gato", "la casa", "unos libros", "casa con libro", "del libro"},
     fr |-> {"table", "ami", "gnome", "l|ami", "une table", "les amis"},
     it |-> {"casa", "amico", "stato", "l|amico", "una casa", "gli amici"},
     pt |-> {"casa", "livro", "trem", "a casa", "uns livros", "casa com livro"},
     de |-> {"hund", "der hund", "ein hund", "katze"},
     pl |-> {"kot", "bialy kot", "lot", "bialy lot"}, ru |-> {"stol", "kol", "stol stol", "v stol", "kot"},
     he |-> {"bit", "hbit", "bit spr"}, ar |-> {"bit", "albit", "sb"},
     hi |-> {"lda", "lda ne lda", "mda"}, pa |-> {"muda", "muda muda", "kuda"}, bn |-> {"chele", "meye chele"},
     ta |-> {"vidu", "vidu vidu"}, ml |-> {}, nl |-> {"hond", "grote hond", "een hond", "groot hond", "poes"},
     sv |-> {"hund", "katt", "ny hund"}, nb |-> {"hund", "katt", "ny hund"}, da |-> {"hund", "kat", "ny hund"},
     sr |-> {"kuca", "skola"}, cs |-> {"maly", "nejmaly", "novy"}, ro |-> {"bun", "nou"},
     tr |-> {"kitap", "ev", "okul", "saat", "alkol", "paris", "5", "masa", "mavi ev"},
     ko |-> {}, fi |-> {"talo", "palo", "3 talo"}]

SyllabicPhrases ==
    [ko |-> {<<"na">>, <<"san">>, <<"gil">>, <<"k", "i", "m">>, <<"5">>}, ml |-> {<<"vi", "du">>, <<"mara">>, <<"mara", " ", "vi", "du">>}]

\* Each phrase by itself, and two that are spoken otherwise than printed.
GivenTo(l) ==
    {[text |-> t, constraints |-> <<>>] : t \in {Chars(p) : p \in Phrases[l]} \cup (IF l \in DOMAIN SyllabicPhrases THEN SyllabicPhrases[l] ELSE {})}
      \cup (IF l \in {"en", "es", "pt"} THEN {[text |-> Chars("st"), constraints |-> "speak" :> Chars("street")]} ELSE {})

Numbered == {<<"number", "singular">>, <<"number", "plural">>}
Articled == {<<"definiteness", "definite">>, <<"definiteness", "indefinite">>}
InCases(S) == {<<"case", c>> : c \in S}
AskableOf ==
    [l \in Languages |->
       CASE l = "en" -> Numbered \cup Articled \cup InCases({"genitive"})
         [] l \in {"es", "fr", "it", "pt"} -> Numbered \cup Articled
         [] l = "de" -> Numbered \cup Articled \cup InCases({"nominative", "genitive"})
         [] l \in {"pl", "ru"} -> Numbered \cup InCases({"nominative", "genitive"})
         [] l \in {"he", "ar"} -> Numbered \cup {<<"definiteness", "definite">>}
         [] l \in {"hi", "pa"} -> Numbered \cup InCases({"direct", "oblique"})
         [] l \in {"bn", "cs", "ro"} -> Numbered
         [] l = "ta" -> Numbered \cup InCases({"nominative", "genitive"})
         [] l = "ml" -> Numbered \cup InCases({"nominative", "dative"}) \cup {<<"pos", "noun">>}
         [] l = "nl" -> Numbered \cup Articled \cup {<<"declension", "undeclined">>}
         [] l \in {"sv", "nb", "da"} -> Numbered \cup Articled
         [] l = "sr" -> Numbered \cup InCases({"nominative", "genitive"})
         [] l = "tr" -> Numbered \cup InCases({"accusative", "dative", "genitive", "locative", "instrumental"})
                          \cup {<<"person", "first">>, <<"person", "third">>, <<"pronoun", "plural">>, <<"copula", "first">>,
                                <<"tense", "past">>}
         [] l = "ko" -> InCases({"accusative", "comitative", "genitive", "instrumental", "nominative"}) \cup {<<"clusivity", "inclusive">>}
         [] l = "fi" -> Numbered \cup InCases({"nominative", "genitive"}) \cup {<<"person", "third">>}]

Init ==
    /\ language \in Languages
    /\ given \in GivenTo(language)
    /\ value = given /\ constraints = <<>> /\ guess = FALSE /\ shown = NoText /\ rounds = 0

\* PutConstraint and ClearConstraint of SemanticFeatureConceptBase.
PutConstraint(feature, answer) ==
    /\ shown = NoText
    /\ constraints' = (feature :> answer) @@ constraints
    /\ Cardinality(DOMAIN constraints') <= MaxConstraints - rounds
    /\ UNCHANGED <<language, given, value, guess, shown, rounds>>

ClearConstraint(feature) ==
    /\ shown = NoText /\ feature \in DOMAIN constraints
    /\ constraints' = [f \in DOMAIN constraints \ {feature} |-> constraints[f]]
    /\ UNCHANGED <<language, given, value, guess, shown, rounds>>

Show(guessing) ==
    /\ shown = NoText /\ constraints # <<>>
    /\ guess' = guessing /\ shown' = ShownAs(language, value, constraints, guessing)
    /\ UNCHANGED <<language, given, value, constraints, rounds>>

\* A concept of what was shown.
Adopt ==
    /\ shown # NoText /\ rounds < MaxRounds
    /\ value' = [text |-> shown.text, constraints |-> <<>>]
    /\ constraints' = <<>> /\ guess' = FALSE /\ shown' = NoText /\ rounds' = rounds + 1
    /\ UNCHANGED <<language, given>>

Next == \/ \E a \in AskableOf[language] : PutConstraint(a[1], a[2])
        \/ \E f \in DOMAIN constraints : ClearConstraint(f)
        \/ \E g \in BOOLEAN : Show(g)
        \/ Adopt

Spec == Init /\ [][Next]_vars

----------------------------------------------------------------------------
(* The words of a text but articles                                        *)

Articles == ArticlesOf[language]
AllArticles == Articles.definite \cup Articles.indefinite
BeginsWith(text, S) == \E a \in S : IsPrefix(a, text)

AfterArticle(text) ==
    LET found == {a \in AllArticles : IsPrefix(a, text)}
        longest == CHOOSE a \in found : \A b \in found : Len(b) <= Len(a)
    IN  IF found = {} THEN text ELSE SubSeq(text, Len(longest) + 1, Len(text))

\* A Hebrew article may be that of any word; a Spanish preposition has one.
ContentWords(text) ==
    LET words == SelectSeq(WordsIn(AfterArticle(text)),
                    LAMBDA w : language = "es" => w \notin {Chars(p) : p \in {"de", "del", "el", "la", "los", "las"}})
    IN  IF language = "he" THEN [i \in DOMAIN words |-> AfterArticle(words[i])] ELSE words

Answered == shown # NoText

\* A definite Dutch article is never recognised, and a second one is put
\* before it; a Danish one is inflected like the words behind it, and left
\* alone where none is to be put.
ArticleIsSeen == ~(language \in {"nl", "da"} /\ BeginsWith(value.text, AllArticles))

\* Of a form that was made to be shown a language tells what it was asked to
\* be, or nothing: how a form is made and how one is recognised go together.
\* (Finnish tells that any phrase is singular; a Malayalam phrase that could
\* not be inflected is shown with spaces more.)
ToldAsAsked ==
    Answered /\ ~guess /\ language \notin {"fi", "ml"} /\ shown.text # value.text =>
      \A f \in {"number", "definiteness"} \cap DOMAIN constraints :
         Told(language, [text |-> shown.text, constraints |-> <<>>], constraints, f) \in {NoText, En(language)!Plain(<<constraints[f]>>)}

\* What is put on a word by rule, whether it is known or not: the English
\* genitive and the Czech superlative, and the ending of a Dutch adjective
\* before a noun.
WithoutRules(text) ==
    LET words == ContentWords(text)
        Bare(w) ==
            CASE language = "en" /\ IsSuffix(Chars("'s"), w) -> SubSeq(w, 1, Len(w) - 2)
              [] language = "en" /\ IsSuffix(<<"'">>, w) -> Front(w)
              [] language = "cs" /\ IsPrefix(Chars("nej"), w) -> SubSeq(w, 4, Len(w))
              [] OTHER -> w
    IN  IF language = "nl" THEN {Last(words)} ELSE {Bare(words[i]) : i \in DOMAIN words}

\* Turkish and Korean suffixes, the Finnish ones of persons and the plural of
\* a Hebrew word that is not known are made by rule, whether asked or not.
MadeByRule ==
    \/ language \in {"tr", "ko"}
    \/ language = "fi" /\ "person" \in DOMAIN constraints
    \/ language = "he" /\ En(language)!FeatureValue(constraints, "number") = "plural"

\* Words that are no dictionary's are shown as they were unless guessing is
\* allowed: without it, each word is one of the value or of the dictionary,
\* in all languages but where a rule makes words of its own (MadeByRule,
\* WithoutRules).  A Danish article in front of the value is taken for an
\* adjective and guessed (ArticleIsSeen).
GuessesOnlyWhenAsked ==
    Answered /\ ~guess /\ ~MadeByRule /\ (language = "da" => ArticleIsSeen) =>
      WithoutRules(shown.text) \subseteq DOMAIN WordsOf[language] \cup WithoutRules(value.text)

\* However a phrase is inflected, each of its words is there in its place in
\* a form of its own, and none besides but articles.  (A guessed Malayalam
\* phrase takes the place of its own last word.)
WordsKept ==
    Answered /\ language # "ml" /\ ArticleIsSeen =>
      LET before == ContentWords(value.text)
          after == ContentWords(shown.text)
      IN  /\ Len(after) = Len(before)
          /\ \A i \in DOMAIN before : after[i][1] = before[i][1]

\* Of articles that were there or are asked for, one is left, and it is not
\* of the other definiteness than the one asked for.
OneArticle ==
    Answered /\ ArticleIsSeen =>
      LET asked == En(language)!FeatureValue(constraints, "definiteness")
      IN  /\ ~BeginsWith(AfterArticle(shown.text), AllArticles)
          /\ asked = "definite" => ~BeginsWith(shown.text, Articles.indefinite)
          /\ asked = "indefinite" => ~BeginsWith(shown.text, Articles.definite)

\* What was shown, asked for the same again, is shown the same: no article,
\* genitive or particle is put where one is.  (A form that is also another
\* is taken for that, where there are cases; Turkish suffixes and guessed
\* Hebrew plurals are put one behind the other; a French noun is left alone
\* behind des, and no more when another article took its place.)
AskedAgain ==
    /\ Answered /\ ~guess /\ language \in {"en", "es", "fr", "it", "pt", "de", "he", "ar", "ko"}
    /\ language = "he" => "number" \notin DOMAIN constraints
    /\ language = "fr" => ~IsPrefix(Chars("des "), value.text)
    =>
      LET again == ShownAs(language, [text |-> shown.text, constraints |-> <<>>], constraints, FALSE)
      IN  again = NoText \/ again.text = shown.text

\* A value that is spoken otherwise than printed is spoken with all that is
\* put around it, and with nothing of what was there before; an English word of
\* which a number is asked is spoken as it is printed, whatever was spoken
\* before.  (Spanish and Portuguese words keep what was spoken when their number
\* changes.)
SpokenAsPrinted ==
    Answered /\ "speak" \in DOMAIN value.constraints =>
      LET word == value.text
      IN  CASE "number" \notin DOMAIN constraints ->
                 \E n \in 0..(Len(shown.text) - Len(word)) :
                   LET before == SubSeq(shown.text, 1, n)
                       after == SubSeq(shown.text, n + Len(word) + 1, Len(shown.text))
                   IN  /\ shown.text = before \o word \o after
                       /\ En(language)!SpeakOf(shown) = before \o value.constraints["speak"] \o after
            [] "number" \in DOMAIN constraints /\ language = "en" ->
                 En(language)!SpeakOf(shown) = shown.text
            [] OTHER -> TRUE

Fronts == {Chars(p) : p \in {"ev", "saat", "alkol", "paris", "5", "3", "mavi ev"}}
FrontVowels == {"e", "i", "O", "U"}
BackVowels == {"a", "I", "o", "u"}
Hard(piece) == piece \in {"p", "C", "t", "k", "f", "h", "s", "S", "5", "3"}

\* All suffixes of a Turkish word have vowels like its own or like what the
\* dictionary says of it, whatever suffixes are between; what follows a hard
\* consonant is hard, and vowels do not meet.
SuffixesInHarmony ==
    Answered /\ language = "tr" /\ rounds = 0 =>
      LET text == shown.text
          suffixes == SubSeq(text, Len(value.text) + 1, Len(text))
          letters == SelectSeq(suffixes, LAMBDA x : x # "'")
          ending == <<text[Len(value.text)]>> \o letters
          vowels == FrontVowels \cup BackVowels
      IN  /\ Range(letters) \cap (IF value.text \in Fronts THEN BackVowels ELSE FrontVowels) = {}
          /\ Hard(ending[1]) /\ Len(ending) > 1 => ending[2] # "d"
          /\ \A i \in 2..Len(ending) : ~{ending[i - 1], ending[i]} \subseteq vowels
=============================================================================
