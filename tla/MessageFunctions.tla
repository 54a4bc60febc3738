-------------------------- MODULE MessageFunctions --------------------------
(***************************************************************************)
(* The functions of MessageFormat 2 (src/src/inflection/message2/          *)
(* MF2Factory.cpp): a message calls :inflection, :numeral, :quantify,      *)
(* :list or :pronoun on an operand with options, to be shown as text or as *)
(* markup, or to select between keys.                                      *)
(*                                                                         *)
(* :pronoun looks its pronoun up and searches the table of the language by *)
(* the steps of module Pronouns; the others answer at once.  What a client *)
(* does with a pronoun of its own goes on between calls.                   *)
(***************************************************************************)
EXTENDS Quantities, Pronouns

CONSTANTS Calls,          \* the calls of messages, and of other clients of a factory,
          PronounCalls,   \* and those of :pronoun on a string or a pronoun
          MessageTables,  \* a bound: the tables of the languages that messages are in
          DependsOn,      \* the feature a dependency is on, of what is referred to
          SoundsOf(_),    \* what a text starts and ends with
          Pieces,         \* what texts are made of
          KeyBefore(_, _), \* the order options are read in, that of their names
          QuantityOf(_, _, _) \* what a factory makes of a number of a concept, by Quantified

VARIABLES call,           \* the call being answered
          result          \* and the answer

messageVars == <<call, result>>
allVars == <<vars, call, result>>

\* An operand or the value of an option is of a type: a string is a piece of text,
\* an object may be a concept, a number is in tenths.
String(s) == [type |-> "string", value |-> s]

NoCall == [function |-> "none"]
CallFields == {"function", "selects", "locale", "operand", "options", "mode", "keys", "number", "region", "change"}
Answer(kind, text, keys) == [kind |-> kind, text |-> text, keys |-> keys]
Pending == Answer("pending", <<>>, <<>>)
Error == Answer("error", <<>>, <<>>)
Exception == Answer("exception", <<>>, <<>>)

----------------------------------------------------------------------------
(* Output *)

DoubleQuote == "\""

\* Mutant of Escaped: quotation marks are written as they are.
Escaped_Quotes(text, attribute) ==
    [i \in DOMAIN text |-> CASE text[i] = "&" -> "&amp;" [] text[i] = "<" -> "&lt;" [] text[i] = ">" -> "&gt;"
                             [] OTHER -> text[i]]

\* xmlEscape
Entities == {"&amp;", "&lt;", "&gt;", "&quot;"}
Escaped(text, attribute) ==
    [i \in DOMAIN text |-> CASE text[i] = "&" -> "&amp;" [] text[i] = "<" -> "&lt;" [] text[i] = ">" -> "&gt;"
                             [] text[i] = DoubleQuote /\ attribute -> "&quot;" [] OTHER -> text[i]]

Emitted(s, mode) ==
    IF mode = "plain" THEN s.print
    ELSE IF s.print = s.speak THEN Escaped(s.print, FALSE)
    ELSE <<"<", "sub alias=", DoubleQuote>> \o Escaped(s.speak, TRUE) \o <<DoubleQuote, ">">>
           \o Escaped(s.print, FALSE) \o <<"<", "/sub", ">">>

\* A function shows what it made, a selector the keys that are what it printed.
KeysThatAre(text, keys) == SelectSeq(keys, LAMBDA k : k = text)
Told(c, shown) ==
    IF c.selects THEN Answer("keys", <<>>, KeysThatAre(shown.print, c.keys))
    ELSE Answer("text", Emitted(shown, c.mode), <<>>)
OrEmpty(shown) == IF shown = NoString THEN Speakable(<<>>) ELSE shown

----------------------------------------------------------------------------
(* Operands and options *)

NoConcept == [kind |-> "none"]
IsConcept(operand) == operand.type = "object" /\ operand.value.kind \in {"string", "semantic", "pronoun"}

\* conceptFromOperand
ConceptFrom(operand, language) ==
    CASE operand.type = "string" -> StringConcept(language, <<operand.value>>)
      [] IsConcept(operand) -> operand.value
      [] OTHER -> NoConcept

\* resolveConstraintValue: a value of the feature, as the concept's own language
\* has it, or of something it is to agree with, "" if that has none.
ConstraintValue(own, language, f, v) ==
    LET agreed == ConceptFrom(v, language)
    IN  IF v.type = "string" /\ (~IsBounded(own, f) \/ v.value \in BoundedValues(own, f)) THEN v.value
        ELSE IF FeatureOf(agreed, f) = NoValue THEN "" ELSE FeatureOf(agreed, f)
Agreeable(v) == v.type = "string" \/ IsConcept(v)

Has(options, option) == option \in DOMAIN options
IsText(options, option) == Has(options, option) => options[option].type = "string"
Option(options, option) == options[option].value

\* Options that are none of these name features, all of them known.
FeaturesIn(options, control) == DOMAIN options \ control
AskedOf(options, own, language, control) ==
    [f \in FeaturesIn(options, control) |-> ConstraintValue(own, language, f, options[f])]

\* The value of a feature is shown as a text, "" as an empty one.
ValueShown(v) == IF v = "" THEN Speakable(<<>>) ELSE Word(v)

----------------------------------------------------------------------------
(* :inflection *)

\* to: a feature of the concept, instead of what it shows.
ShowsNothing(options, concept) ==
    IF ~Has(options, "to") THEN ShownOf(concept) = NoString
    ELSE ~HasFeature(concept.language, Option(options, "to")) \/ FeatureOf(concept, Option(options, "to")) = NoValue
Projected(options, concept) ==
    IF ~Has(options, "to") THEN ShownOf(concept) ELSE ValueShown(FeatureOf(concept, Option(options, "to")))

\* InflectionFormatter::format: a string that has no form is shown as it was, what
\* else has none as nothing.
FormattedInflection(operand, options, factory) ==
    LET unconstrained == ConceptFrom(operand, factory.language)
        own == unconstrained.language
        concept == WithConstraints(unconstrained, AskedOf(options, own, factory.language, {"to"}))
    IN  IF \/ unconstrained = NoConcept \/ ~IsText(options, "to")
           \/ \E f \in FeaturesIn(options, {"to"}) : ~HasFeature(own, f) \/ ~Agreeable(options[f])
        THEN Error
        ELSE IF ~ShowsNothing(options, concept) THEN Projected(options, concept)
        ELSE IF operand.type = "string" THEN Word(operand.value) ELSE Speakable(<<>>)

\* Mutant of SelectedInflection: the selector does not look at what is asked.
SelectedInflection_AsItIs(operand, options, factory) ==
    LET concept == ConceptFrom(operand, factory.language)
        to == Option(options, "to")
        feature == IF ~Has(options, "to") THEN IF ShownOf(concept) = NoString THEN <<>> ELSE ShownOf(concept).print
                   ELSE IF ~HasFeature(concept.language, to) \/ FeatureOf(concept, to) \in {NoValue, ""} THEN <<>>
                   ELSE <<FeatureOf(concept, to)>>
    IN  IF concept = NoConcept THEN Error
        ELSE IF \A f \in DOMAIN options : IF f = "to" THEN IsText(options, f)
                                           ELSE HasFeature(concept.language, f) /\ Agreeable(options[f])
             THEN Speakable(feature)
        ELSE Error

\* InflectionSelector::selectKey, which has its own copy of all of that: the text
\* that the keys are compared with, which is empty if there is none.
SelectedInflection(operand, options, factory) ==
    LET unconstrained == ConceptFrom(operand, factory.language)
        own == unconstrained.language
        concept == WithConstraints(unconstrained,
                     [f \in DOMAIN options \ {"to"} |-> ConstraintValue(own, factory.language, f, options[f])])
        to == Option(options, "to")
        feature == IF ~Has(options, "to") THEN IF ShownOf(concept) = NoString THEN <<>> ELSE ShownOf(concept).print
                   ELSE IF ~HasFeature(concept.language, to) \/ FeatureOf(concept, to) \in {NoValue, ""} THEN <<>>
                   ELSE <<FeatureOf(concept, to)>>
    IN  IF unconstrained = NoConcept THEN Error
        ELSE IF \A f \in DOMAIN options : IF f = "to" THEN IsText(options, f)
                                           ELSE HasFeature(own, f) /\ Agreeable(options[f])
             THEN Speakable(feature)
        ELSE Error

----------------------------------------------------------------------------
(* :numeral and :quantify *)

\* A number of its own language, or of no region but that.
NumberFrom(v, locale) == Number(v.value, v.type = "int64", v.wraps, locale, locale)
IsNumber(v) == v.type \in {"int64", "double"}

Styles == {"asWords", "asSpokenWords", "asDigits", "asOrdinalDigits"}

\* numeralToSpeakable
Numeral(n, style, has, variant) ==
    CASE style = NoValue -> GetAsDigits(n)
      [] style = "asWords" -> Speakable(IF has THEN AsWords(n, variant) ELSE GetAsWords(n))
      [] style = "asSpokenWords" -> IF has THEN AsSpokenWords(n, variant) ELSE GetAsSpokenWords(n)
      [] style = "asDigits" -> IF has THEN Speakable(AsDigits(n, variant)) ELSE GetAsDigits(n)
      [] style = "asOrdinalDigits" -> Speakable(IF has THEN AsDigits(n, variant) ELSE GetAsOrdinalDigits(n))

\* NumeralFormatter::format, which does not look at other options.
FormattedNumeral(operand, options, locale) ==
    LET style == IF Has(options, "withStyle") /\ Option(options, "withStyle") # ""
                 THEN Option(options, "withStyle") ELSE NoValue
        has == Has(options, "withVariant")
    IN  IF \/ ~IsNumber(operand) \/ ~IsText(options, "withStyle") \/ ~IsText(options, "withVariant")
           \/ style \notin Styles \cup {NoValue}
        THEN Error
        ELSE Numeral(NumberFrom(operand, locale), style, has,
                     IF has THEN Option(options, "withVariant") ELSE NoValue)

QuantityControl == {"withValue", "withStyle", "withVariant"}

\* What is no number, or an option that is no text, is an error, and no option
\* is read after it: the others are put as empty constraints.
Misread(options, f) ==
    \/ ~IsNumber(options["withValue"])
    \/ \E g \in FeaturesIn(options, QuantityControl) : ~IsText(options, g) /\ (g = f \/ KeyBefore(g, f))
Countable(operand, options, language) ==
    WithConstraints(ConceptFrom(operand, language),
                    [f \in FeaturesIn(options, QuantityControl) |-> IF Misread(options, f) THEN "" ELSE Option(options, f)])

\* QuantifyFormatter::format; what is no number is counted as none.
NumberGiven(v, locale) == IF IsNumber(v) THEN NumberFrom(v, locale) ELSE Number(0, TRUE, 0, locale, locale)

\* The error is told only afterwards, and what a factory throws is not caught.
FormattedQuantity(operand, options, locale, factory) ==
    LET unit == ConceptFrom(operand, factory.language)
        asked == FeaturesIn(options, QuantityControl)
        quantity == QuantityOf(factory, NumberGiven(options["withValue"], locale),
                               Countable(operand, options, factory.language))
    IN  IF \/ unit = NoConcept \/ ~Has(options, "withValue") \/ Has(options, "withStyle") \/ Has(options, "withVariant")
           \/ \E f \in asked : ~HasFeature(unit.language, f)
        THEN Error
        ELSE IF quantity = Thrown THEN Exception
        ELSE IF ~IsNumber(options["withValue"]) \/ \E f \in asked : ~IsText(options, f) THEN Error
        ELSE quantity

----------------------------------------------------------------------------
(* :list *)

Separators == [withBeforeFirst |-> "beforeFirst", withAfterFirst |-> "afterFirst",
               withItemDelimiter |-> "itemDelimiter", withBeforeLast |-> "beforeLast",
               withAfterLast |-> "afterLast", withItemPrefix |-> "itemPrefix", withItemSuffix |-> "itemSuffix"]
ListControl == DOMAIN Separators \cup {"withType", "withAvoidItemAffixRedundancy"}

\* The separators of the options take the place of those of the language.
ListFormatOf(options, n, factory) ==
    LET format == ListFormat(factory, IF Has(options, "withType") THEN Option(options, "withType") ELSE NoValue, n)
        given == {s \in DOMAIN Separators : Has(options, s)}
        Given(name) == <<Option(options, CHOOSE s \in given : Separators[s] = name)>>
    IN  [format EXCEPT
           !.separators = [name \in {Separators[s] : s \in given} |-> Given(name)] @@ @,
           !.avoidAffixRedundancy = IF Has(options, "withAvoidItemAffixRedundancy")
                                    THEN Option(options, "withAvoidItemAffixRedundancy") = "true" ELSE @]

\* ListFormatter::format: a constraint is one on every item.
FormattedList(operand, options, factory) ==
    LET asked == FeaturesIn(options, ListControl)
        Item(v) == ShownOf(WithConstraints(StringConcept(factory.language, <<v.value>>),
                                           [f \in asked |-> Option(options, f)]))
    IN  IF \/ operand.type # "array" \/ \E i \in DOMAIN operand.value : operand.value[i].type # "string"
           \/ \E o \in DOMAIN options : ~IsText(options, o)
           \/ Has(options, "withType") /\ Option(options, "withType") \notin {"and", "or"}
           \/ \E f \in asked : ~HasFeature(factory.language, f)
           \/ operand.value = <<>>
        THEN Error
        ELSE ListShown(ListFormatOf(options, Len(operand.value), factory),
                       [i \in DOMAIN operand.value |-> Item(operand.value[i])])

----------------------------------------------------------------------------
(* What clients ask of a factory themselves *)

\* number(), what a client does with that, and quantify().
Counted(c, factory) ==
    LET n == NumberOf(c.number.value, c.number.type = "int64", c.number.wraps, factory.locale, c.region)
        formatted == CASE c.change = "absolute" -> Absolute(n)
                       [] c.change = "fraction" -> MaxFractionDigitsAboveOne(n, 0)
                       [] c.change = "no integer" -> With(n, "minimumIntegerDigits", 0)
                       [] OTHER -> n
        quantity == QuantityOf(factory, formatted, ConceptFrom(c.operand, factory.language))
    IN  IF quantity = Thrown THEN Exception ELSE quantity

Quoted(c, factory) == Quote(factory, OrEmpty(ShownOf(ConceptFrom(c.operand, factory.language))))

----------------------------------------------------------------------------
(* The functions that answer at once *)

\* What there is to tell, or what went wrong.
Made(c) ==
    LET factory == FactoryOf(c.locale)
    IN  IF factory = Thrown /\ c.function # "numeral" THEN Exception
        ELSE IF c.operand.type = "none" THEN Error
        ELSE CASE c.function = "inflection" /\ c.selects -> SelectedInflection(c.operand, c.options, factory)
               [] c.function = "inflection" /\ ~c.selects -> FormattedInflection(c.operand, c.options, factory)
               [] c.function = "numeral" -> FormattedNumeral(c.operand, c.options, c.locale)
               [] c.function = "quantify" -> FormattedQuantity(c.operand, c.options, c.locale, factory)
               [] c.function = "list" -> FormattedList(c.operand, c.options, factory)
               [] c.function = "number" -> Counted(c, factory)
               [] c.function = "quote" -> Quoted(c, factory)
               [] OTHER -> Error

ToldOrFailed(c, made) == IF made \in {Error, Exception} THEN made ELSE Told(c, made)
Evaluated(c) == ToldOrFailed(c, Made(c))

\* :pronoun on what is neither a string nor a pronoun answers at once, too.
IsPronoun(operand) == operand.type = "object" /\ operand.value.kind = "pronoun"
Evaluate(c) ==
    /\ call' = c /\ result' = Evaluated(c)
    /\ UNCHANGED vars

----------------------------------------------------------------------------
(* :pronoun *)

\* createPronounDataForModel: the first cell of a row is the word; another names a
\* feature and its value, a value that has one feature, or a feature of any value.
EntryOf(language, row) ==
    LET Aliased(cell) == FeatureAlias(language, cell.name) # NoValue
        Key(cell) == IF Aliased(cell) THEN FeatureAlias(language, cell.name) ELSE cell.name
        Value(cell) == IF Aliased(cell) THEN cell.name ELSE cell.value
        Named(cell) == IF cell.dependency THEN "of " \o Key(cell) ELSE Key(cell)
        First(k) == CHOOSE i \in DOMAIN row.cells :
                      Named(row.cells[i]) = k /\ \A j \in 1..(i - 1) : Named(row.cells[j]) # k
    IN  [word |-> row.word,
         says |-> [k \in Keys |-> IF \E i \in DOMAIN row.cells : Named(row.cells[i]) = k
                                  THEN Value(row.cells[First(k)]) ELSE Absent]]
TableOf(language, rows) == [i \in DOMAIN rows |-> EntryOf(language, rows[i])]

\* A concept of the pronoun that is the operand, or a copy of the caller's: whose
\* own is not seen again here.
Begin(c) ==
    /\ phase = "none" /\ c.operand.type = "string"
    /\ call' = c /\ result' = Pending
    /\ ConstructFrom(c.operand.value)
BeginWithConcept(c) ==
    /\ phase \in {"idle", "answered"} /\ IsPronoun(c.operand)
    /\ call' = c /\ result' = Pending
    /\ Rest("idle") /\ UNCHANGED conceptVars

\* An exception of the constructor is caught.
UnknownPronoun ==
    /\ call # NoCall
    /\ NotRecognized
    /\ result' = Error /\ UNCHANGED call

Look == {"to", "withReferent"}
Language == call.locale.language
LanguageOf(c) == IF IsPronoun(c.operand) THEN c.operand.value.language ELSE c.locale.language
Referent == ConceptFrom(call.options["withReferent"], Language)

Configure ==
    /\ call # NoCall /\ result = Pending /\ phase = "idle"
    /\ LET asked == AskedOf(call.options, LanguageOf(call), Language, Look)
           refused == \/ Look \subseteq DOMAIN call.options
                      \/ \E f \in FeaturesIn(call.options, Look) :
                           ~HasFeature(LanguageOf(call), f) \/ ~Agreeable(call.options[f])
                      \/ ~IsText(call.options, "to")
                      \/ Has(call.options, "withReferent") /\ Referent = NoConcept
       IN  IF refused THEN result' = Error /\ UNCHANGED vars
           ELSE /\ result' = Answer("configured", <<>>, <<>>)
                /\ Constrain([f \in Features |->
                     IF f \notin DOMAIN asked THEN constraints[f]
                     ELSE IF asked[f] = "" THEN AnyValue ELSE asked[f]])
    /\ UNCHANGED call

\* What a pronoun depends on, of what it refers to.
ReferenceOf(c) ==
    [values |-> [d \in Dependencies |->
                   IF d = Sound \/ FeatureOf(c, DependsOn[d]) = NoValue THEN Absent ELSE FeatureOf(c, DependsOn[d])],
     sounds |-> IF ShownOf(c) = NoString THEN NoText ELSE SoundsOf(ShownOf(c).print)]

LookFor ==
    /\ call # NoCall /\ result.kind = "configured" /\ phase = "idle"
    /\ Search([reference |-> IF Has(call.options, "withReferent") THEN ReferenceOf(Referent) ELSE NoReference,
               returnDefault |-> TRUE, matchAll |-> TRUE])
    /\ UNCHANGED messageVars

\* The word of the pronoun, or the feature of it that is asked for.
PronounShown ==
    IF best = 0 THEN NoString
    ELSE IF ~Has(call.options, "to") THEN Word(Entries[best].word)
    ELSE IF Option(call.options, "to") \in Features /\ Entries[best].says[Option(call.options, "to")] # Absent
         THEN IF Entries[best].says[Option(call.options, "to")] = AnyValue THEN Speakable(<<>>)
              ELSE Word(Entries[best].says[Option(call.options, "to")])
    ELSE NoString

Tell ==
    /\ call # NoCall /\ result.kind = "configured" /\ phase = "answered"
    /\ result' = Told(call, OrEmpty(PronounShown))
    /\ UNCHANGED <<vars, call>>

Done ==
    /\ call # NoCall /\ result.kind \notin {"pending", "configured"}
    /\ call' = NoCall /\ result' = Pending
    /\ IF phase = "none" THEN UNCHANGED vars ELSE Destroy

----------------------------------------------------------------------------
\* What is shown is made of pieces, none of which markup writes in its own way.
\* What a message asks of a pronoun is a value of a feature of pronouns, or empty;
\* what it refers to is known there.
ASSUME MessageAssumption ==
    /\ Pieces \cap Entities = {}
    /\ \A c \in Calls :
         /\ CallFields \subseteq DOMAIN c /\ c.selects \in BOOLEAN
         /\ LET made == Made(c)
            IN  made \in {Error, Exception} \/ {made.print, made.speak} \subseteq Seq(Pieces)
    /\ \A c \in PronounCalls :
         /\ c.function = "pronoun"
         /\ c.operand.type = "string" => c.operand.value \in Words
         /\ \A f \in FeaturesIn(c.options, Look) :
              HasFeature(LanguageOf(c), f) /\ Agreeable(c.options[f]) =>
                f \in Features /\ ConstraintValue(LanguageOf(c), c.locale.language, f, c.options[f]) \in Values \cup {""}
         /\ Has(c.options, "withReferent") =>
              LET referent == ConceptFrom(c.options["withReferent"], c.locale.language)
              IN  \/ referent = NoConcept
                  \/ /\ \A d \in Dependencies \ {Sound} : HasFeature(referent.language, DependsOn[d])
                     /\ ReferenceOf(referent) \in References

----------------------------------------------------------------------------
Oblique == {"genitive", "dative", "instrumental", "locative", "partitive", "inessive"}
SlavicLanguages == DOMAIN SlavicConfig
Speakables == [print : Seq(Pieces), speak : Seq(Pieces)]
Says(text, piece) == \E i \in DOMAIN text : text[i] = piece
InNumbers(c) == {c} \cup {WithConstraint(c, "number", x) : x \in {"singular", "dual", "plural"}}

\* What is asked for in a case, has the case in every number, or no form, if it
\* has it at all; what is known of it is the case, too.  Numbers and words are
\* shown as texts.  What is no fraction is not counted like one.
ASSUME CaseAssumption ==
    /\ NoValue \notin Oblique
    /\ \A c \in Calls :
         /\ c.function = "quantify" /\ Has(c.options, "case")
         /\ Option(c.options, "case") \in Oblique
         /\ Made(c) \notin {Error, Exception}
         => LET case == Option(c.options, "case")
                language == c.locale.language
                factory == FactoryOf(c.locale)
                n == NumberFrom(c.options["withValue"], c.locale)
                counted == Countable(c.operand, c.options, language)
            IN  /\ QuantityOf(factory, n, counted) = Quantified(factory, n, counted)
                /\ NumberFor(factory, n, counted) \in Speakables
                /\ \A d \in InNumbers(counted) : ShownOf(d) \in Speakables \cup {NoString}
                /\ ShownOf(WithConstraint(ConceptFrom(c.operand, language), "case", case)) # NoString
                /\ Says(ShownOf(WithConstraint(ConceptFrom(c.operand, language), "case", case)).print, case)
                   => /\ FeatureOf(counted, "case") = case
                      /\ \A d \in InNumbers(counted) : ShownOf(d) = NoString \/ Says(ShownOf(d).print, case)
                /\ language \in SlavicLanguages \ {"hr", "sr"} /\ n.tenths % 10 = 0
                   => AgreementForCount(language, SelectCount(language, n.tenths)) # "fraction"

----------------------------------------------------------------------------
MessageInit == Init /\ call = NoCall /\ result = Pending

Free == call = NoCall /\ table \in MessageTables

\* The steps that answer a call.
Respond ==
    \/ call # NoCall /\ (Recognize \/ Recognized \/ Consider \/ Conclude) /\ UNCHANGED messageVars
    \/ UnknownPronoun \/ Configure \/ LookFor \/ Tell

MessageNext ==
    \/ call = NoCall /\ Next /\ UNCHANGED messageVars
    \/ Free /\ phase = "none" /\ \E c \in Calls : Evaluate(c)
    \/ Free /\ \E c \in PronounCalls : Begin(c) \/ BeginWithConcept(c)
    \/ Respond \/ Done

MessageSpec == MessageInit /\ [][MessageNext]_allVars

----------------------------------------------------------------------------
Answers(function) == call # NoCall /\ call.function = function
Plainly(c) == Evaluated([c EXCEPT !.selects = FALSE, !.mode = "plain"])

\* A word that has nothing to show of what is asked for.
HasNoForm(c) ==
    LET language == FactoryOf(c.locale).language
    IN  c.operand.type = "string"
          /\ ShowsNothing(c.options, WithConstraints(ConceptFrom(c.operand, language),
                                                    AskedOf(c.options, language, language, {"to"})))
SelectedBy(plain) ==
    IF plain.kind # "text" THEN result = plain
    ELSE result.keys = KeysThatAre(IF HasNoForm(call) THEN <<>> ELSE plain.text, call.keys)

\* "selectKey" has its own copy of what "format" does (MF2Factory.cpp:223, 313):
\* a message that selects by an inflected form takes the variant whose key is the
\* text the same call without keys would have shown, and no other; it fails when
\* that would.  A word that has no form is shown as it is, and selects only the
\* empty key.
SelectedAsFormatted == Answers("inflection") /\ call.selects => SelectedBy(Plainly(call))

InOblique(text) == Says(text, Option(call.options, "case"))

\* A case a message asks of what it counts is the case of the noun it gets,
\* whatever case the number alone would govern (applyGatedGenitive,
\* SlavicCommonConceptFactory.cpp:51; FiCommonConceptFactory.cpp:44), if the word
\* has that.  Only of the oblique cases: the nominative and the accusative give way
\* to what the number governs (an accusative is a genitive in src/test/resources/
\* inflection/message2/ru_RU.xml:29).  And not so in Arabic, for Slavic fractions,
\* and for what Serbo-Croatian counts as neither one nor few.
CaseAskedIsKept ==
    Answers("quantify") /\ result.kind = "text" /\ Has(call.options, "case")
      /\ Option(call.options, "case") \in Oblique =>
      \/ InOblique(result.text)
      \/ ~InOblique(ShownOf(WithConstraint(ConceptFrom(call.operand, call.locale.language),
                                           "case", Option(call.options, "case"))).print)
      \/ call.locale.language = "ar"
      \/ call.locale.language \in SlavicLanguages /\ Option(call.options, "withValue") % 10 # 0
      \/ /\ call.locale.language \in {"hr", "sr"}
         /\ SelectCount(call.locale.language, Option(call.options, "withValue")) \notin {"one", "few"}

Amounts == {c.options["withValue"] : c \in {d \in Calls : d.function = "quantify" /\ Has(d.options, "withValue")}}

\* What is counted, as the call has it, and the noun that shows a count of it.
CountedIn(c) == Countable(c.operand, c.options, c.locale.language)
HebrewNoun(c, count) == NounOf(DefaultNoun(CountedIn(c), count), CountedIn(c))

\* Amounts that are taken for one when they are less than two (longValue()): Italian
\* has an article for them (ItCommonConceptFactory.cpp:35), Hebrew says that of
\* what is definite they are the only one (HeCommonConceptFactory.cpp:49).  And
\* those of one count that is shown without the number (quantifiedJoin), like an
\* amount and its negative in Arabic, or one from two if the word has no dual, and
\* a month and a half of one in Hebrew.
TakenAlike(c, a, b) ==
    LET language == c.locale.language
        count == SelectCount(language, a)
        other == SelectCount(language, b)
        Form(number) == ShownOf(WithConstraint(ConceptFrom(c.operand, language), "number", number))
    IN  \/ /\ {a, b} \subseteq 10..19
           /\ \/ language = "it" /\ FeatureOf(CountedIn(c), "indefArticle") # NoValue
              \/ language \in {"he", "iw"} /\ ConstraintOf(CountedIn(c), "definiteness") = "definite"
        \/ language \in {"he", "iw"} /\ count = other /\ HebrewNoun(c, count).print \in HebrewUnits
        \/ language = "ar" /\ {count, other} \subseteq {"one", "two"} /\ (count = other \/ Form("singular") = Form("dual"))

\* What a factory may ask of a noun, for any count.
NounAgreements == {"singular", "paucal governed", "paucal plural", "governed plural", "fraction"}
NounsAsked(factory, c) ==
    {c} \cup (IF factory.class = "ar" THEN {ArabicNoun(c, x) : x \in Rules}
              ELSE IF factory.class = "fi" THEN {FinnishNoun(c, x) : x \in Rules}
              ELSE IF factory.class \in {"slavic", "serbo-croatian"}
                   THEN {SlavicNoun(factory.language, c, m, x) : m \in NounAgreements, x \in Rules}
              ELSE IF Cardinality(DefaultSupportedCount(factory.language)) <= 1 THEN {}
              ELSE {DefaultNoun(c, x) : x \in Rules})

\* One speakable string has, where it is printed, a piece that another has not.
MarkupPieces == Entities \cup {"&", "<", ">", DoubleQuote, "sub alias=", "/sub"}
SaidBy(s) == {s.print[i] : i \in DOMAIN s.print} \cup {s.speak[i] : i \in DOMAIN s.speak}
Tells(s, t, others) == \E i \in DOMAIN s.print : s.print[i] \notin others \cup SaidBy(t)
Apart(s, t) == Tells(s, t, MarkupPieces) \/ Tells(t, s, MarkupPieces)

NameOf(c, v) == NumberFor(FactoryOf(c.locale), NumberFrom(v, c.locale), CountedIn(c))
NounsOf(c) == {ShownOf(d) : d \in NounsAsked(FactoryOf(c.locale), CountedIn(c))} \ {NoString}
BesidesNumber(c) ==
    MarkupPieces \cup {" ", ConstraintOf(CountedIn(c), "measure")} \cup UNION {SaidBy(noun) : noun \in NounsOf(c)}

\* Different amounts have different names, made of what no noun is made of, unless
\* they are taken alike.  Arabic tells the dual of a noun that has one from its
\* singular in every case, Hebrew the nouns that are not numbered, of which there
\* are more counts than one.
ASSUME AmountAssumption ==
    \A c \in Calls :
      /\ c.function = "quantify"
      /\ Made(c) \notin {Error, Exception}
      => LET language == c.locale.language
             factory == FactoryOf(c.locale)
             own == c.options["withValue"]
             others == BesidesNumber(c)
             Form(number) == ShownOf(WithConstraint(ConceptFrom(c.operand, language), "number", number))
             InCases(number) == {ShownOf(WithConstraints(CountedIn(c), [number |-> number, case |-> x])) :
                                   x \in {"nominative", "genitive", "accusative"}}
         IN  /\ NounsOf(c) \subseteq Speakables
             /\ \A v \in Amounts : IsNumber(v) =>
                  /\ QuantityOf(factory, NumberFrom(v, c.locale), CountedIn(c))
                       = Quantified(factory, NumberFrom(v, c.locale), CountedIn(c))
                  /\ NameOf(c, v) \in Speakables
                  /\ v.value # own.value /\ ~TakenAlike(c, v.value, own.value) =>
                       Tells(NameOf(c, v), NameOf(c, own), others) /\ Tells(NameOf(c, own), NameOf(c, v), others)
             /\ language = "ar" /\ Form("singular") # Form("dual") =>
                  \A x \in InCases("singular"), y \in InCases("dual") :
                    NoString \notin {x, y} /\ Apart(x, y)
             /\ language \in {"he", "iw"} =>
                  /\ ~(Cardinality(DefaultSupportedCount(language)) <= 1)
                  /\ \A x, y \in Rules :
                       /\ x # y /\ NoString \notin {HebrewNoun(c, x), HebrewNoun(c, y)}
                       /\ {HebrewNoun(c, x).print, HebrewNoun(c, y).print} \subseteq HebrewUnits
                       => Apart(HebrewNoun(c, x), HebrewNoun(c, y))

\* A quantity tells how many there are: of the same things, another amount is
\* never shown as the same text, though Arabic and Hebrew show some amounts by
\* the form of the noun alone and Italian by an article (quantifiedJoin).
NumberIsTold ==
    Answers("quantify") /\ result.kind = "text" =>
      \A v \in Amounts :
        \/ ~IsNumber(v) \/ v.value = Option(call.options, "withValue")
        \/ TakenAlike(call, v.value, Option(call.options, "withValue"))
        \/ Evaluated([call EXCEPT !.options["withValue"] = v]) # result

Decoded(text) ==
    [i \in DOMAIN text |-> CASE text[i] = "&amp;" -> "&" [] text[i] = "&lt;" -> "<" [] text[i] = "&gt;" -> ">"
                             [] text[i] = "&quot;" -> DoubleQuote [] OTHER -> text[i]]

MarksUp(made) ==
    LET n == Len(result.text)
        Places(c) == {i \in 1..n : result.text[i] = c}
    IN  IF Places("<") = {} THEN Places(">") = {} /\ Decoded(result.text) = made.print /\ made.speak = made.print
        ELSE \E e \in Places(">") :
               /\ Places("<") = {1, n - 2} /\ Places(">") = {e, n}
               /\ Places(DoubleQuote) \cap 1..e = {3, e - 1}
               /\ Decoded(SubSeq(result.text, 4, e - 2)) = made.speak
               /\ Decoded(SubSeq(result.text, e + 1, n - 3)) = made.print

\* What is marked up (MF2Factory.cpp:81-112) is read back as it was, whatever
\* characters are printed or spoken: without a tag it is what is printed and
\* spoken; around its one tag it is what is printed, and the one attribute, which
\* ends where the tag does, is what is spoken.
MarkupSaysBoth ==
    call # NoCall /\ call.function # "pronoun" /\ call.mode = "markup" /\ result.kind = "text"
      => MarksUp(Made(call))

\* "Unknown to= feature: fall back to the uninflected form (intentional, not an
\* error)." (MF2Factory.cpp:264)
UnknownFeatureShowsWord ==
    Answers("inflection") /\ result.kind = "text" /\ Has(call.options, "to")
        /\ ~HasFeature(call.locale.language, Option(call.options, "to"))
      => result.text = Emitted(OrEmpty(ShownOf(ConceptFrom(call.operand, call.locale.language))), call.mode)
=============================================================================
