------------------------------ MODULE Grammar ------------------------------
(***************************************************************************)
(* What the grammars of all languages are built from                       *)
(* (src/src/inflection/grammar, GrammarSynthesizerUtil and the functions   *)
(* of src/src/inflection/dialog): the tokens of a phrase, the grammemes of *)
(* a word or a phrase, articles, and how a concept shows a value.          *)
(*                                                                         *)
(* A display value is a record [text, constraints].  Constraints are a     *)
(* function from names of features to values; the value of "speak", when   *)
(* it has one, is a text.  The feature functions answer with a string [print,   *)
(* speak], or with NoText.                                                 *)
(***************************************************************************)
EXTENDS Inflection, TLC

\* The characters of a string.
Letters(s) == [i \in 1..Len(s) |-> SubSeq(s, i, i)]

StartsWith(text, prefix) == IsPrefix(prefix, text)
EndsWith(text, suffix) == IsSuffix(suffix, text)
EndsWithAny(text, suffixes) == \E s \in suffixes : IsSuffix(s, text)
DropLast(text, n) == SubSeq(text, 1, Len(text) - n)
DropFirst(text, n) == SubSeq(text, n + 1, Len(text))

\* value_or
OrElse(text, default) == IF text = NoText THEN default ELSE text

----------------------------------------------------------------------------
(* The tokens of a phrase: words, and the delimiters between them          *)

\* The apostrophe of an elision, where Romance languages part words, is "|".
Delimiters == {" ", "-", "|", ","}
Marks == Delimiters \cup {"'", "."}

Significant(token) == token # <<>> /\ token[1] \notin Delimiters

Tokens(text) ==
    FoldLeft(LAMBDA tokens, piece :
                IF \/ tokens = <<>> \/ piece \in Delimiters
                   \/ ~Significant(tokens[Len(tokens)])
                THEN Append(tokens, <<piece>>)
                ELSE [tokens EXCEPT ![Len(tokens)] = Append(@, piece)],
             <<>>, text)

GetSignificantWords(text) == SelectSeq(Tokens(text), Significant)

FirstWord(text) == LET words == GetSignificantWords(text) IN IF words = <<>> THEN <<>> ELSE words[1]
FirstToken(text) == IF text = <<>> THEN <<>> ELSE Tokens(text)[1]
LastToken(text) == IF text = <<>> THEN <<>> ELSE LET t == Tokens(text) IN t[Len(t)]

\* The phrase with its words, in order, replaced.
GetStringFromInflectedSignificantWords(text, words) ==
    FoldLeft(LAMBDA done, token :
                IF Significant(token)
                THEN [done EXCEPT !.text = @ \o words[done.next], !.next = @ + 1]
                ELSE [done EXCEPT !.text = @ \o token],
             [text |-> <<>>, next |-> 1], Tokens(text)).text

FirstIn(S) == CHOOSE i \in S : \A j \in S : i <= j
LastIn(S) == CHOOSE i \in S : \A j \in S : j <= i

Trim(text) ==
    LET letters == {i \in DOMAIN text : text[i] # " "}
    IN  IF letters = {} THEN <<>> ELSE SubSeq(text, FirstIn(letters), LastIn(letters))

\* What is between the delimiters: nothing behind the last.
SplitAt(text, delimiter) ==
    LET parts == FoldLeft(LAMBDA done, piece :
                             IF piece = delimiter THEN Append(done, <<>>)
                             ELSE [done EXCEPT ![Len(done)] = Append(@, piece)],
                          << <<>> >>, text)
    IN  IF parts[Len(parts)] = <<>> THEN DropLast(parts, 1) ELSE parts

JoinWith(parts, separator) ==
    FlattenSeq([i \in DOMAIN parts |-> IF i = 1 THEN parts[i] ELSE separator \o parts[i]])

----------------------------------------------------------------------------
(* Constraints                                                             *)

NoConstraints == <<>>

HasFeature(constraints, feature) == feature \in DOMAIN constraints
HasAnyFeatures(constraints, features) == features \cap DOMAIN constraints # {}

FeatureValue(constraints, feature) ==
    IF feature \in DOMAIN constraints THEN constraints[feature] ELSE ""

Is(constraints, feature, value) ==
    feature \in DOMAIN constraints /\ constraints[feature] = value

\* The values asked for, in the order of the features; what is empty is not.
ConvertToStringConstraints(constraints, features) ==
    SelectSeq([i \in DOMAIN features |-> FeatureValue(constraints, features[i])], LAMBDA v : v # "")

DisplayValue(text, constraints) == [text |-> text, constraints |-> constraints]

\* The first of the values with the most constraints of those asked for.
GetTheBestDisplayValue(displayData, constraints) ==
    LET matches(v) == Cardinality({f \in DOMAIN v.constraints :
                                     Is(constraints, f, v.constraints[f])})
        best == {i \in DOMAIN displayData :
                   \A j \in DOMAIN displayData : matches(displayData[j]) <= matches(displayData[i])}
    IN  IF displayData = <<>> THEN NoText ELSE displayData[FirstIn(best)]

\* What is asked for goes before what the value has.
MergeConstraints(value, constraints) == constraints @@ value.constraints

----------------------------------------------------------------------------
(* Strings that are printed and spoken                                     *)

Plain(text) == [print |-> text, speak |-> text]
Concatenated(s, t) == [print |-> s.print \o t.print, speak |-> s.speak \o t.speak]

SpeakOf(value) == IF HasFeature(value.constraints, "speak") THEN value.constraints["speak"] ELSE value.text
Speakable(value) == [print |-> value.text, speak |-> SpeakOf(value)]

\* A value of a string, that is spoken as the string is.
DisplayValueOf(string) ==
    DisplayValue(string.print, IF string.speak = string.print THEN NoConstraints ELSE "speak" :> string.speak)

----------------------------------------------------------------------------
(* What a word or a phrase is: DictionaryLookupFunction and                *)
(* GrammemeLookupFunction.  A lookup is a record [mask |-> grammemes to    *)
(* tell apart, disambiguates, order |-> parts of speech, relevant |->      *)
(* grammemes of the words of a phrase that count, firstWord, default].     *)

DetermineWithPropertyMask(lookup, S) == GetPropertyName(S \cap lookup.mask)

\* The readings of the first part of speech that there is one of; those of
\* any other part of speech come last.
DetermineWithDisambiguation(lookup, word) ==
    LET readings == Range(GetWordGrammemeSets(word))
        place(S) == LET at == {i \in DOMAIN lookup.order : lookup.order[i] \in S}
                    IN  IF at = {} THEN Len(lookup.order) + 1 ELSE FirstIn(at)
        first == FirstIn({place(S) : S \in readings})
    IN  IF readings = {} THEN ""
        ELSE DetermineWithPropertyMask(lookup, UNION {S \in readings : place(S) = first})

Determine(lookup, word) ==
    IF lookup.disambiguates /\ Cardinality(GetCombinedBinaryType(word)) # 1
    THEN DetermineWithDisambiguation(lookup, word)
    ELSE DetermineWithPropertyMask(lookup, GetCombinedBinaryType(word))

\* The word that tells, or else the first; else the phrase as a word.
DeterminePhrase(lookup, text, firstWordDetermines) ==
    LET words == GetSignificantWords(text)
        relevant == {i \in DOMAIN words : GetCombinedBinaryType(words[i]) \cap lookup.mask # {}}
        chosen == IF relevant = {} THEN ""
                  ELSE Determine(lookup, words[IF firstWordDetermines THEN FirstIn(relevant) ELSE LastIn(relevant)])
        byFirst == Determine(lookup, words[1])
    IN  IF GetCombinedBinaryType(text) # {} THEN
           IF Cardinality(GetCombinedBinaryType(text)) = 1
           THEN DetermineWithPropertyMask(lookup, GetCombinedBinaryType(text))
           ELSE DetermineWithDisambiguation(lookup, text)
        ELSE IF Len(words) <= 1 THEN ""
        ELSE IF chosen # "" THEN chosen
        ELSE IF byFirst # "" THEN byFirst
        ELSE Determine(lookup, text)

IsRelevant(lookup, word) == lookup.relevant = {} \/ HasAllProperties(word, lookup.relevant)

\* The empty string when the phrase does not tell.
DetermineWords(lookup, text) ==
    LET words == GetSignificantWords(text)
        relevant == {i \in DOMAIN words : IsRelevant(lookup, words[i])}
        telling == {i \in relevant : Determine(lookup, words[i]) # ""}
        first == IF relevant = {} THEN "" ELSE Determine(lookup, words[FirstIn(relevant)])
    IN  IF lookup.firstWord
        THEN IF first # "" \/ words = <<>> THEN first ELSE Determine(lookup, words[1])
        ELSE IF telling # {} THEN Determine(lookup, words[LastIn(telling)])
        ELSE Determine(lookup, LastToken(text))

\* With what the ending of the first token suggests, if the language knows.
DetermineGrammeme(lookup, text, suggested) ==
    IF text = <<>> THEN ""
    ELSE IF Determine(lookup, text) # "" THEN Determine(lookup, text)
    ELSE IF DetermineWords(lookup, text) # "" THEN DetermineWords(lookup, text)
    ELSE IF suggested # "" THEN suggested
    ELSE lookup.default

Lookup(mask, order) ==
    [mask |-> mask, disambiguates |-> TRUE, order |-> order,
     relevant |-> IF order = <<>> THEN {} ELSE {"noun"}, firstWord |-> FALSE, default |-> ""]

PlainLookup(mask) == [Lookup(mask, <<>>) EXCEPT !.disambiguates = FALSE]

DefaultLookup(mask, default, firstWord) ==
    [PlainLookup(mask) EXCEPT !.relevant = {"noun"}, !.default = default, !.firstWord = firstWord]

\* A feature function answers with a string or nothing.
AnswerOf(value) == IF value = "" THEN NoText ELSE Plain(<<value>>)

----------------------------------------------------------------------------
(* How a word sounds: PhraseProperties                                     *)

Usable(text) == {i \in DOMAIN text : text[i] \notin Marks}

\* What a dictionary knows of the start or the end of a word decides.
Known(text, yes, no) ==
    LET types == GetCombinedBinaryType(text)
    IN  IF yes \in types /\ no \cap types = {} THEN "yes"
        ELSE IF yes \notin types /\ no \cap types # {} THEN "no" ELSE ""

IsStartsWithVowel(text, vowels) ==
    LET known == Known(text, "vowel-start", {"consonant-start"})
    IN  IF known # "" THEN known = "yes"
        ELSE Usable(text) # {} /\ text[FirstIn(Usable(text))] \in vowels

IsEndsWithVowel(text, vowels) ==
    LET known == Known(SelectSeq(text, LAMBDA x : x = " " \/ x \notin Marks),
                       "vowel-end", {"consonant-end", "rieul-end"})
    IN  IF known # "" THEN known = "yes"
        ELSE Usable(text) # {} /\ text[LastIn(Usable(text))] \in vowels

----------------------------------------------------------------------------
(* Articles, and other words in front of a value or behind it.  A lookup   *)
(* of them is a record [includes |-> whether the value comes with it,      *)
(* spaces |-> whether a space comes between].                              *)

CreatePreposition(lookup, value, article) ==
    IF ~lookup.includes THEN article
    ELSE IF lookup.spaces /\ value.text # <<>> /\ article.print # <<>>
    THEN Concatenated(Concatenated(article, Plain(<<" ">>)), Speakable(value))
    ELSE Concatenated(article, Speakable(value))

CreatePostposition(lookup, value, article) ==
    IF ~lookup.includes THEN Plain(article)
    ELSE IF lookup.spaces /\ value.text # <<>> /\ article # <<>>
    THEN Concatenated(Speakable(value), Plain(<<" ">> \o article))
    ELSE Concatenated(Speakable(value), Plain(article))

\* The article a value brings, else the same one for all values, once.
StaticArticle(value, derived, article) ==
    LET lookup == [includes |-> TRUE, spaces |-> TRUE]
    IN  IF HasFeature(value.constraints, derived)
        THEN CreatePreposition(lookup, value, Plain(value.constraints[derived]))
        ELSE IF value.text # <<>> /\ ~StartsWith(Lowercase(value.text), article \o <<" ">>)
        THEN CreatePreposition(lookup, value, Plain(article))
        ELSE CreatePreposition(lookup, value, Plain(<<>>))

\* The articles that a feature of the language names: a space follows unless
\* some of them say themselves where one does; that there is none is not one.
GetArticles(values) ==
    LET spaced == \E a \in values : EndsWith(a, <<" ">>)
    IN  {a \o (IF spaced THEN <<>> ELSE <<" ">>) : a \in values \ {<<>>}}

\* The first of the sets of articles that a text begins with one of: 0 if
\* none.  An article is not all of the text.
ArticlePrefixLength(text, articles) ==
    LET found == {a \in articles : Len(a) < Len(text) /\ StartsWith(Lowercase(text), a)}
    IN  IF found = {} THEN 0 ELSE Len(CHOOSE a \in found : \A b \in found : Len(a) <= Len(b))

\* Mutant of WithoutArticle: the indefinite articles are not looked for.
WithoutArticle_Definite(articles, value) ==
    [value EXCEPT !.text = DropFirst(@, ArticlePrefixLength(value.text, articles.definite))]

WithoutArticle(articles, value) ==
    LET definite == ArticlePrefixLength(value.text, articles.definite)
        indefinite == ArticlePrefixLength(value.text, articles.indefinite)
    IN  [value EXCEPT !.text = DropFirst(@, IF definite > 0 THEN definite ELSE indefinite)]

\* Mutant of ReplaceDisplayValue: what was spoken before is kept.
ReplaceDisplayValue_Stale(value, string) == [value EXCEPT !.text = string.print]

ReplaceDisplayValue(value, string) ==
    [text |-> string.print,
     constraints |-> IF string.speak = string.print THEN value.constraints
                     ELSE ("speak" :> string.speak) @@ value.constraints]

\* The article that is asked for goes in front of the value unless it is
\* there, instead of the other one; definite and indefinite are what the
\* article functions make of the value without its article.
AddDefiniteness(articles, value, constraints, definite, indefinite) ==
    LET asked == FeatureValue(constraints, "definiteness")
        hasDefinite == ArticlePrefixLength(value.text, articles.definite) > 0
        hasIndefinite == ~hasDefinite /\ ArticlePrefixLength(value.text, articles.indefinite) > 0
        string == IF asked = "definite" /\ ~hasDefinite THEN definite
                  ELSE IF asked = "indefinite" /\ ~hasIndefinite THEN indefinite
                  ELSE NoText
    IN  IF value = NoText THEN NoText
        ELSE IF string = NoText THEN value
        ELSE ReplaceDisplayValue(value, string)

\* Without a constraint, the article that is there is chosen anew.
UpdateDefiniteness(articles, value, constraints, definite, indefinite) ==
    LET string == IF ArticlePrefixLength(value.text, articles.definite) > 0 THEN definite
                  ELSE IF ArticlePrefixLength(value.text, articles.indefinite) > 0 THEN indefinite
                  ELSE NoText
    IN  IF value = NoText THEN NoText
        ELSE IF HasFeature(constraints, "definiteness")
        THEN AddDefiniteness(articles, value, constraints, definite, indefinite)
        ELSE IF string = NoText THEN value
        ELSE ReplaceDisplayValue(value, string)

\* Definite or indefinite, by the article a text begins with.
DetectArticle(articles, text) ==
    LET begins(S) == \E a \in S : StartsWith(Lowercase(text), a)
    IN  IF Len(text) < 2 THEN NoText
        ELSE IF begins(articles.definite) /\ ~begins(articles.indefinite) THEN Plain(<<"definite">>)
        ELSE IF begins(articles.indefinite) /\ ~begins(articles.definite) THEN Plain(<<"indefinite">>)
        ELSE NoText

\* A determiner or an adposition that a text begins with, and the text
\* without it.  Those that are looked for are a sequence of records [text,
\* constraints, spaces, name].
DetectAndStripArticlePrefix(prefixes, text) ==
    LET at == {i \in DOMAIN prefixes :
                 LET p == prefixes[i]
                 IN  /\ StartsWith(text, p.text)
                     /\ p.spaces /\ Len(text) > Len(p.text) => text[Len(p.text) + 1] = " "}
    IN  IF at = {} THEN [prefix |-> NoText, text |-> text]
        ELSE LET p == prefixes[FirstIn(at)]
             IN  [prefix |-> p, text |-> DropFirst(text, Len(p.text) + (IF p.spaces THEN 1 ELSE 0))]

----------------------------------------------------------------------------
(* Functions that show a value, for languages with nothing of their own    *)

\* A word of which only what is behind a prefix is known: how long that is.
SplitPrefix(word, types, prefixes) ==
    LET splits(p) == /\ Len(word) > Len(p.text) /\ StartsWith(word, p.text)
                     /\ GetCombinedBinaryType(DropFirst(word, Len(p.text))) \cap p.matched # {}
        at == {i \in DOMAIN prefixes : splits(prefixes[i])}
    IN  IF types # {} \/ at = {} THEN -1 ELSE Len(prefixes[FirstIn(at)].text)

\* A word by those of the constraints that are features of the language.
PhraseInflectWord(who, word, constraints, features) ==
    Inflect(who, word, GetCombinedBinaryType(word), ConvertToStringConstraints(constraints, features),
            ConvertToStringConstraints(constraints, <<"pos">>))

InflectCompoundWord(who, text, constraints, features) ==
    LET inflected(token) == IF Significant(token) THEN OrElse(PhraseInflectWord(who, token, constraints, features), token)
                            ELSE token
    IN  FlattenSeq([i \in DOMAIN Tokens(text) |-> inflected(Tokens(text)[i])])

\* A phrase that is known, or else all its words.
WordwiseDisplay(who, displayData, constraints, guess, features) ==
    LET value == GetTheBestDisplayValue(displayData, constraints)
        inflected == IF IsKnownWord(value.text) THEN PhraseInflectWord(who, value.text, constraints, features)
                     ELSE InflectCompoundWord(who, value.text, constraints, features)
    IN  IF value = NoText \/ value.text = <<>> THEN NoText
        ELSE IF ~HasAnyFeatures(constraints, Range(features))
        THEN DisplayValue(value.text, MergeConstraints(value, constraints))
        ELSE IF inflected = NoText /\ ~guess THEN NoText
        ELSE DisplayValue(OrElse(inflected, value.text), MergeConstraints(value, constraints))

PhraseDisplay(who, displayData, constraints, guess) ==
    WordwiseDisplay(who, displayData, constraints, guess, <<"case", "number", "gender">>)

\* PrefixedDisplayFunction: a word, of which a prefix may not be known.
PrefixedInflectWord(who, word, constraints, disambiguation, prefixes) ==
    LET split == SplitPrefix(word, GetCombinedBinaryType(word), prefixes)
        known == IF split < 0 THEN word ELSE DropFirst(word, split)
        inflected == Inflect(who, known, GetCombinedBinaryType(known), constraints, disambiguation)
    IN  IF ~IsKnownWord(known) \/ inflected = NoText THEN NoText
        ELSE SubSeq(word, 1, Len(word) - Len(known)) \o inflected

PrefixedDisplay(who, displayData, constraints, extra, prefixes) ==
    LET value == GetTheBestDisplayValue(displayData, constraints)
        inflected == PrefixedInflectWord(who, value.text,
                        ConvertToStringConstraints(constraints, <<"number", "gender", "case", extra>>),
                        ConvertToStringConstraints(constraints, <<"pos">>), prefixes)
    IN  IF value = NoText \/ value.text = <<>> THEN NoText
        ELSE DisplayValue(IF constraints = NoConstraints THEN value.text ELSE OrElse(inflected, value.text),
                          MergeConstraints(value, constraints))

----------------------------------------------------------------------------
(* A concept of a string: InflectableStringConcept.  What it shows is what *)
(* the display function of its language makes of its value.                *)

\* display is what the display function answers; it is asked only when the
\* concept has constraints.
ConceptDisplayValue(value, constraints, display, guess) ==
    IF constraints # NoConstraints /\ display # NoText THEN display
    ELSE IF guess THEN value ELSE NoText

ToSpeakableString(value, constraints, display) ==
    Speakable(ConceptDisplayValue(value, constraints, display, TRUE))

\* A constraint answers for its feature, else the language's function does.
ConceptFeatureValue(constraints, feature, answer) ==
    IF HasFeature(constraints, feature) THEN Plain(<<constraints[feature]>>) ELSE answer

PutConstraint(constraints, feature, value) == (feature :> value) @@ constraints
ClearConstraint(constraints, feature) == [f \in DOMAIN constraints \ {feature} |-> constraints[f]]
============================================================================
