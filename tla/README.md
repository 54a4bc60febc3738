# A verification of the Unicode inflection library

This directory holds TLA+ models of the C++ library in `src/src/inflection` and
of the tool that builds its dictionaries (`src/tools/buildDictionary`), the
TLC configurations that check them on small instances, and theorems about them
that TLAPS checks for instances of any size.  All paths below are relative to
`src/src/inflection` unless they begin with `src/`.

1. [The system](#1-the-system)
2. [The modules and the code](#2-the-modules-and-the-code)
3. [The runs](#3-the-runs)
4. [Fairness](#4-fairness)
5. [What is proved](#5-what-is-proved)
6. [Where the code and what is said of it differ](#6-where-the-code-and-what-is-said-of-it-differ)
7. [What is not modelled](#7-what-is-not-modelled)
8. [The plan](#8-the-plan)

## 1. The system

The library inflects words: an application asks for a *concept factory* of a
locale, creates *concepts* (a noun, a number, a pronoun, a list), puts
*constraints* on them (plural, dative, feminine) and has them shown.  Below the
concepts are the *grammar* of the language, a *tokenizer* and a *dictionary*,
each constructed on first use and cached for the process.

    application
       |  concepts: created, constrained, shown, one thread at a time
       v
    CommonConceptFactory -> SemanticConcept, NumberConcept, PronounConcept,
       |                    SemanticConceptList, InflectableStringConcept
       v
    SemanticFeatureModel -> display and feature functions of a language
       |                         |                    |
       v                         v                    v
    Tokenizer -> TokenChain   DictionaryMetaData   (pronoun table)
       |  iterators, pool        |  memory mapped file
       v                         v
    ICU break iterators       DataRegistrationService -> paths of the data
    everything                ->  Logger -> the application's callback

### The inventory

| component | state | operations | what is hard | what makes it correct |
|---|---|---|---|---|
| `TokenizerFactory` | a map from locale names to tokenizers, one mutex | `createTokenizer` | two critical sections with an unlocked walk between them; a construction that throws under the mutex; aliases and fallbacks that share a tokenizer | one tokenizer per family of locales, never replaced, with the family's configuration; every call is answered |
| `ICUTokenExtractorIterator` | a stack of recycled ICU iterators, one mutex | check out, clone, set text, check in, close | several threads; failures between check-out and the end of a constructor | no iterator in two hands; each thread reads its own text; bounded; leaks accounted for |
| `DataRegistrationService` | a map from registration keys to paths, one mutex | register, look up | several locales share a key; one path has several spellings; registrations that arrive during a load | a path once set stays; what was accepted is in force |
| `DictionaryMetaData` | a map from languages to dictionaries, one mutex | `createDictionary` | a load under its mutex reads paths under another one; of the exceptions, some are caught and cached as an empty dictionary, some leave | one dictionary per language, from below the path that was registered before |
| `Logger` | a stack of loggers, a level, one mutex | register, unregister, set the level, log | the level is read without the mutex; the application's callback runs under it | no callback with a context that has been unregistered, none beside another |
| the eight mutexes | who holds which | lock and unlock, nested by calls; exceptions | callbacks; constructors of one cache that use another | no circular wait |
| token boundary iterators | per layer: the last boundaries returned and those kept for later calls | `getNextBoundary` | five layers, each with state across calls; the Germanic one looks up a stretch that begins before the last boundary | boundaries rise to the end of the text |
| `Tokenizer`, `ControlCleaver`, `TokenChain` | tokens of a text, an index from positions to tokens | `createTokenChain` | a list of tokens changed while it is walked; an index built from a chain that is trusted | the tokens are a partition of the text; the index finds them |
| `SemanticConceptList`, `InflectableStringConcept` | objects on the heap, constraints, separators | create, constrain, set, clone, delete, show, get a feature | constraints kept twice; clones; raw pointers | concepts are values: each object owned once, no change seen through another handle |
| `CommonConceptFactoryImpl` | none | and-lists, or-lists, `quantify` | a clone carries the count; exceptions in the middle | the quantified concept is as it was, nothing leaks |
| `PronounConcept` | a table, customized pronouns, defaults, constraints | create from a pronoun, constrain, search | the order of the table; ambiguous pronouns; a loop with an early exit | the best match is found; what is ambiguous becomes no default |
| concept factory provider, pronoun tables, `StringFilterUtil` | three more process-wide caches | get or create under one mutex | a construction that throws; other caches filled under the mutex | no circular wait; which factory a locale gets |
| `SemanticFeatureModel`, `SemanticConcept`, `LanguageGrammarFeatures` | the features of a language; constraints of a concept | choose a display value, ask for a feature | values of features that depend on each other, aliases, what is common to languages | the most specific display value; a constraint that was put is answered with |
| `NumberConcept` | a number | show it in digits or words, convert it, its plural | widths of integers, the rules of a locale and of a region | no wrong number |
| factories of languages | none | `quantify` and lists of some twenty languages | the case a count governs, measures, numbers shown by the noun's form alone | the amount is told, the case asked for is kept |
| dictionary queries, patterns, `DictionaryLookupInflector` | none after loading | what a word may be; inflect it by one of its patterns | words of several readings and patterns; optional constraints; endings cut off | the form asked for, of a reading the word has; its stem is kept |
| dictionary files | a file of packed bits | packed by the tool, read by the library | two programs that compute the same widths and places; words of memory | what is read is what was put in |
| grammar of some thirty languages | none | display functions (show a form), lookup functions (recognise one) | articles, elision, agreement, suffixes, harmony; words that are not known | one article; nothing guessed unless asked; what was made is recognised; what is spoken is what is printed |
| decompounders (Germanic, Semitic, Finnish) | none | break a word up | places counted from the end of parts of parts | places that rise inside the word |
| `message2/MF2Factory` | none | formatters and selectors of MessageFormat 2 | the selector copies the formatter's code; projections that fall back; markup | a selector sees what is shown; markup says what is printed and spoken |
| locale names (`util/ULocale`, `LocaleUtils`) | none | parse a name, fall back | aliases, scripts, keywords | the chains the caches walk |
| C API, exceptions, string utilities | none | conversions | encoding | not modelled, see below |

How they interact: `LocalizedCommonConceptFactoryProvider` constructs a factory
under its mutex, and with it a tokenizer and a dictionary under theirs, which
look paths up under a fourth and may log under a fifth.  These nested locks are
`LockOrder`.  The pool's mutex is taken with every text that is tokenized.  A
`Logger` calls back into the application.  Everything else is called by one
thread: `src/README.md` says that mutable objects are not to be shared between threads.

## 2. The modules and the code

| module | models | how |
|---|---|---|
| `ServiceCache` | what a process-wide cache promises | abstract: `Make`, `HandOut` and `Drop` of one service per family |
| `TokenizerCache` | `tokenizer/TokenizerFactory.cpp` | `pc` is where each thread is in `createTokenizer`; `Lookup` is the first critical section, `WalkUp` and `WalkEnd` the loop without the mutex, `Relock` ... `Construct` the second; `ConstructThrows` the exception under it. `built` is a history variable: what each address was constructed from |
| `BreakIteratorPool` | `tokenizer/iterator/ICUTokenExtractorIterator.cpp` | each critical section one action; `text` is the thread whose string an iterator points at, `lost` what a constructor that threw had checked out |
| `DataRegistration` | `resources/DataRegistrationService.cpp` | `Register` and `RegisterThrows` of one offer; `Key` is `fallthroughLocaleString`; how a path is normalised is a constant function |
| `DictionaryCache` | `dictionary/DictionaryMetaData.cpp` with `resources/ResourceLocator` | `Find` takes the mutex, `Locate`, `LocateFallback` and one of `Open`, `OpenEmpty`, `OpenThrows` follow under it, and registrations come between them; `known` is a history variable |
| `LockOrder` | every `lock_guard` of the library | what a thread holds is a stack; `Under(m)` is what the code called in the critical section of `m` may lock; `Throw` and `Catch` unwind |
| `Logger` | `util/Logger.cpp`, `util/LoggerConfig.cpp` | `Log` is the unlocked check, `LogToTopOfStackLogger` and `CallbackReturns` the two ends of the critical section |
| `Segmentation` | what an iterator promises | abstract: boundaries rise to the end, and only then is there none |
| `TokenBoundaries` | `tokenizer/iterator`, `tokenizer/locale` | `XNext` is one `getNextBoundary` of layer X with the calls it makes below; a text is a sequence of classes of UTF-16 units; what a dictionary or an expression finds is any result the algorithm can have |
| `Tokenizer` | `tokenizer/Tokenizer.cpp`, `ControlCleaver.cpp`, `TokenChain.cpp` | a boundary, a token cleaved, the index: one action each |
| `ListText` | what concepts show | operators: `Joined` is `SemanticConceptList::toSpeakableString`; `Documented` is what the setters' comments say, written from the comments |
| `Concepts` | what operations on concepts promise | abstract: concepts are values, showing one changes none, and none changes while one is quantified |
| `ConceptHeap` | `dialog/SemanticConceptList.cpp`, `InflectableStringConcept.cpp`, `CommonConceptFactoryImpl.cpp` | the objects at their addresses; `quantify` in steps, since it may throw between them |
| `Pronouns` | `dialog/PronounConcept.cpp` | how a table is put together from the language's and the caller's pronouns, the lookup of a pronoun (`Recognize` for each row of the table, `Recognized`) and the search (`Search`, `Consider` for each pronoun, `Conclude`) |
| `Locales` | `util/ULocale.cpp`, `LocaleUtils.cpp` | a name as the sequence of its parts, and its fallbacks |
| `SemanticConcepts` | `lang/features/LanguageGrammarFeatures.cpp`, `dialog/SemanticFeatureModel.cpp`, `SemanticConcept.cpp` | what the tables of grammar make of a language; which display value constraints choose |
| `Numbers` | `dialog/NumberConcept.cpp`, `Plurality.cpp` | a number as its sign, integer and fraction; `longValue` has the width of its type |
| `Quantities` | `dialog/language/*CommonConceptFactory.cpp` | `quantify` of each family of languages, lists that depend on the next word, which factory a locale gets |
| `Lexicon` | `dictionary/DictionaryMetaData*.cpp`, `util/StringViewUtils.cpp` | a dictionary as a function from words to their types and values |
| `Inflection` | `dictionary/Inflector*.cpp`, `dialog/DictionaryLookupInflector.cpp`, `analysis` | readings and their order, the choice of a form, the replacement of an ending |
| `Compounds` | `tokenizer/dictionary`, the Semitic and Finnish extractors | every reading of a word by a small dictionary, and where it is broken up |
| `DictionaryFile` | `src/tools/buildDictionary` and `dictionary/DictionaryMetaData_MMappedDictionary.cpp`, `Inflector_MMappedDictionary.cpp`, `dictionary/metadata` | `ReadLine` for each line of the source, `Write` adds the types of the grammar as the tool's main does (`Prepared`) and packs it; the library's queries are operators on what was written.  A word of memory is the set of its bits that are on |
| `Grammar` | the display, lookup and article functions common to languages | values are `[text, constraints]`, strings `[print, speak]` |
| `English`, `Germanic`, `Nordic`, `Romance`, `Slavic`, `Semitic`, `Agglutinative`, `Indic` | `grammar/synthesis/*` of the family | one operator per display or lookup function of a language; letters matter where a rule looks at them |
| `MessageFunctions` | `message2/MF2Factory.cpp` | each formatter and each selector as an operator from an operand and options to a result, an error or a fallback; the concept below is one of the modules above.  `FormattedInflection` and `SelectedInflection` are two operators, as `InflectionFormatter::format` and `InflectionSelector::selectKey` are two copies.  An operand, and the value of an option, may be a string, a concept or a pronoun of a client |

`MCx` instantiates `x` for TLC and `xProofs` holds the theorems about it;
`BreakIteratorPool`, `LockOrder` and `Logger` need no `MCx`, and `Logger`'s few
theorems are at its end.  `DictionaryProofs` is about all of dictionaries:
`DictionaryCache`, `Inflection` and `DictionaryFile`; `TokenizerProofs` is about
`TokenBoundaries`, `Tokenizer` and the decompounders of `Compounds`, and
`MessageProofs` about `Pronouns`, `MessageFunctions` and `Quantities`, which share
the state of a message.  `MCMessages` is about pronouns, numbers, quantities, lists and messages together,
`MCWords` about dictionaries and what is made of their words, and `MCGrammar` holds
the concept that is constrained and shown again and again (`PutConstraint`,
`ClearConstraint`, `Show`, `Adopt`) in each language.
What these runs ask of the pure modules is a constant operator there: what a language
shows and tells (`ShownAs`, `Told`), its articles (`ArticlesOf`) and words (`WordsIn`), how a word is inflected and a compound broken
up (`Inflected`, `InflectedLike`, `BrokenUp`), what a factory makes of a number of
things (`QuantityOf`).  The `.cfg` gives them as values the operators of the modules
above (`MCShownAs` and so on), so that TLC counts the coverage of the steps and
not that of each call in each rule of each language.

Some decisions that a reader of the code will look for:

* *Steps.*  A critical section that calls nothing that locks, and cannot throw
  half way, is one step; where it calls out or may throw it is several.  A loop
  over data of one thread is one step per turn when a property is about the
  turns, and an operator otherwise.
* *Addresses.*  A cached object is the address it was given, so that two objects
  with the same content are told apart.
* *Data.*  Texts are sequences of classes of code units in the tokenizer and
  sequences of words in the concepts; the rest of a string never matters to a
  property.  In `ConceptHeap` what a language's functions return (an inflected
  form, a count) is a constant function; in the modules of languages it is
  computed.  There a phrase is a sequence of words, and a word a short string
  of the letters its rules tell apart.
* *External code.*  ICU's word breaks may be anywhere except where rules WB5 to
  WB7 of UAX #29 and the integrity of a character forbid one; a clone or a
  `setText` may always fail.  What is on disk is a constant, that a file can be
  mapped is not.

## 3. The runs

Ten runs must pass and two must find a counterexample (section 6).  A
definition with a suffix `_Xxx` that a comment calls a mutant is a plausible bug
of the definition it names; no run uses it, and each property of a run is
violated by the mutant that `PROJECT.json` lists for it.

| run | instance and bounds | what it shows |
|---|---|---|
| `tokenizer_cache` | 2 threads, 6 locales, 3 addresses | In every interleaving one tokenizer per family, shared with the fallback, never replaced, and the branch commented "This should be impossible!" is (`OneTokenizerPerFamily`); it has the right configuration although a sibling asked first (`ConfiguredForFamily`); the whole implements `ServiceCache`; every call is answered (`Answered`) |
| `break_iterator_pool` | 4 threads, 5 iterators, maximum 2 | `Exclusive`, `ReadsOwnText`, and that nothing is lost or held but by a failure, with every failure (`PoolAccounted`) |
| `dictionary_cache` | 2 threads, 3 locales asked for, 6 offers of paths | What was accepted is in force, what was registered early is used, and files come from registered roots (`RegistrationsRespected`); `MutexReleased`, and an implementation of `ServiceCache` |
| `lock_order` | 3 threads, all 8 mutexes | `NoCircularWait`, and no deadlock (TLC's own check) |
| `logger` | 3 threads, 3 loggers, 2 levels and "disabled" | `CallbacksRespected`: the context of a running callback is registered, and no two run at once; no deadlock |
| `tokenizer` | all texts of up to 2 units of 11 classes, 12 texts of up to 6; 7 stacks of iterators | `TokensPartitionText`; the breaks that must and must not be (`BreaksRespected`); the index, sub-chains and chunks find the tokens (`BoundariesFound`); an implementation of `Segmentation`; `Terminates` |
| `concept_heap` | 5 calls on 3 handles, 9 addresses, lists of up to 3 | `OwnedOnce`, `ConstraintsReachItems`, `ShownAsDocumented`, an implementation of `Concepts` |
| `words` | every choice of small patterns, cases of letters and constraints, 2 calls; compounds of three kinds; dictionaries of a few lines and tables of two patterns, in words of 8 bits | The stem is kept however often a word is inflected, also if it ends like an inflection of its pattern (`LexemeKept`); the answer has what was asked for (`AskedForIsGiven`); a disambiguation outweighs preference (`DisambiguationWins`); decompounders keep the contract the proofs about the tokenizer rest on (`CompoundsAsTokenized`); a dictionary's file says what its source said (`FileSaysWhatSourceSaid`) |
| `grammar` | 25 languages, words and phrases of each, up to 3 constraints, a result used as the next word once | `GuessesOnlyWhenAsked`, `WordsKept`, `OneArticle`, asking again changes nothing (`AskedAgain`), what was made is recognised (`ToldAsAsked`), `SpokenAsPrinted`, `SuffixesInHarmony` |
| `messages` | 120 tables of 3 pronouns out of 6; 19 languages, each with its words, numbers, options and keys | `BestIsChosen`, `AmbiguityCleared`, `ConfirmedIsUnchanged` of pronouns; `NumberIsTold` and `CaseAskedIsKept` of quantities; `SelectedAsFormatted` and `MarkupSaysBoth` of messages |

Why these bounds are enough for the interesting cases to happen:

* *Locales* (`MCTokenizerCache`): a variant with a configured parent, an alias, a
  language without a configuration, and the root, to which its walk goes.  Two
  threads are enough for every race of the two critical sections, which involve
  one other thread; there are four families and three addresses, so that every family
  has a tokenizer beside those of two others, in every order.  (For more of
  everything there are the proofs.)
* *Pool*: a maximum of 2 with 4 threads fills the pool, and a fifth iterator is
  there when one is lost.  In the code the maximum is 64.
* *Dictionaries* (`MCDictionaryCache`): Chinese and Cantonese, cut from the two
  maps in the code, since for them the registration key, the language and the
  fallback all differ; their fallbacks are those that `Locales` computes, which
  the assumption `TablesOfLocales` states.  The offers have two that conflict, two spellings of one
  path and a path of which nothing is left; the files a good one below two
  roots and an incompatible one.
* *Mutexes*: there are exactly these eight; a cycle of four threads would need
  a chain of four nested mutexes, and the proof covers any number of threads.
* *Texts* (`MCTokenizer`): two units reach every comparison of neighbours; the
  longer ones are compounds of three parts, compounds beside another script, an
  apostrophe, a dash, digits, controls and a character of two units.
  `MaxGroups` and `MaxBoundaries` bound the groups of an expression and the
  boundaries in a compound by 3: first, middle and last.
* *Concepts* (`MCConceptHeap`): five calls create two strings and a list of
  them, set something and observe it, or quantify it; a list of three has a
  first, a middle and a last item; words are one that inflects and one that
  shows nothing.  `MaxCalls` and `MaxItems` bound them.  An allocator returns
  the lowest free addresses.
* *Words* (`MCWords`): the patterns are every one of a few endings, so that two
  forms share an ending, one ending is the end of another, and one is empty; of
  three stems one ends like none of them, one like one and one like the beginning
  of one, so that a word may be misread (`Misreadings`: an inflection it seems to be
  has a longer ending than its own);
  a word has a reading as a noun, as a verb or both; `MaxCalls` is 2, so that
  an answer is inflected again.
* *Files* (`MCWords`): a `uint64_t` has 8 bits and an `int32_t` 7
  (`WordBits`, `IntBits`), a word at most 3 values of a property (`MaxValues`,
  255 in the code) and there are fewer than 7 sets of types (`MaxSingletons`,
  32767), and the bits of an array are counted up to 70 (`MaxBits`, `INT32_MAX`: the
  largest files have more, none has twice as many), so that a few lines give values that reach over the end of a word, a
  lookup in one step and one in two, words with several properties, and every
  exception the tool throws for what does not fit.  One limit is left out of
  the instance: widths of exactly the bits of an `int32_t` (section 6).
* *Languages* (`MCGrammar`): for each language the words and phrases its rules
  tell apart (a noun that is known, one that is not, a noun with an adjective,
  with an article, with a preposition); the dictionary has the forms of the
  known ones.  `GuessesOnlyWhenAsked` is said of all 25 languages but for what
  section 6 lists (`MadeByRule`, `WithoutRules`).  Three constraints (`MaxConstraints`) are a number, a case and a
  definiteness; one further round (`MaxRounds`) puts constraints on what was shown.
* *Messages* (`MCMessages`): the features of the nineteen languages are those
  of `grammar.xml` that their `quantify` asks for; the numbers are 0, 1, 2, 5,
  21, -1, and with a fraction 0.5, 1.5, 1.2 and 100, counted in tenths (so 1 is
  `Integer(10)`); an `int64_t` ends at `MaxLong`.  Operands are words that the language
  knows, one that it does not and one that shows nothing, concepts with constraints of
  their own, of the message's language and of others, clients' pronouns, numbers and lists;
  options are known, unknown, contradicting, of the wrong type, or pronouns the operand
  is to agree with (as in `src/test/resources/inflection/message2/en_US.xml:157`).  The six pronouns differ in how much they say: two share a
  spelling but for a space, some are generic, some depend on the sound or the
  number of a reference.  The order of the table is what the search depends
  on, and every order is there.

`CHECK_DEADLOCK FALSE` is said of `tokenizer`, where a text is tokenized once,
and of `concept_heap`, `words` and `grammar`, where a caller may make no more calls.  Symmetry is used
for threads, iterators and handles, which are only compared; the properties
checked with it are safety properties.

## 4. Fairness

* `TokenizerCache` and `DictionaryCache`: weak fairness of each thread's own
  steps.  A thread that runs keeps running, and `std::mutex` lets in *some*
  waiting thread; nothing makes it fair to a particular one, so a thread may in
  principle wait for ever behind others, and strong fairness is not assumed.
  `Answered` holds nevertheless: once every family has a tokenizer, no caller
  is long behind a construction, and every lookup is weakly fair.  It says so only of
  runs in which constructions do not fail for ever.
* `Tokenizer`: weak fairness of the single thread that tokenizes.
* The other modules have safety properties only and no fairness.

## 5. What is proved

For every value of the constants, under the assumptions named in the modules:

| module | theorems | the argument |
|---|---|---|
| `TokenizerCacheProofs` | `TypeCorrect`, `LastBranchNeverTaken`, `FallbackShared`, `BuiltOncePerFamily`, their conjunction `OneForTheFamily`, `ConfigurationOfFamily`, `ServedIsCached`, `CacheIsOneWay`, `Implements` | That the last branch is impossible depends on what every earlier call published.  The invariant says that the mutex has one holder, that a walk stays in the family of its locale, and that what is cached for a locale was built for its family and is cached for its fallback too.  Each step maps to a step of `ServiceCache` or to none |
| `BreakIteratorPoolProofs` | `Exclusion`, `OwnText`, `Accounting`, `Bound`, both together `PoolAccounting`, `Recycling` | The properties together with who owns an iterator that is in neither hand nor pool are inductive.  `Recycling`, that there are never more iterators than threads but for the lost ones, counts: a clone is only made when the pool is empty |
| `DictionaryProofs` | `TypeCorrect`, `AcceptedStaysInForce`, `EarlyRegistration`, `LoadedFromRegistered`, these together `Registrations`, `PathsAreFinal`, `Implements` | Registrations interleave with a load, but a path never changes once set: what the holder of the mutex found when its load began therefore still holds when it opens the file |
| | `CandidatesAreOrdered`, `ReadingsAreSorted` | The comparison of readings is a strict weak order for any priorities, as `std::stable_sort` requires: it compares by one priority after another, and the lemma for one priority goes up to all of them by induction.  So no reading stands behind one that it comes before |
| | `Reinflects`, `FirstReadingInflects`, `InflectsItsLexeme`, `StemIsKept`, `NoFormLeft` | Each loop (over the inflections of a pattern, over the readings) is unfolded once and then known by what it returns: the best inflection, the longest ending.  The answer is a reading that no other comes before, put into the form asked for; the ending that is cut off is the reading's own.  If the word seems to be nothing with a longer ending, that is its own ending, and so the stem stays whatever it ends like (`SameStem`) |
| | `WhatIsWrittenIsRead`, `FieldsAreRead` | A bit of an array has one place among all bits of its words (`k * WordBits + b`); two values write to different places, and what is shifted out of one word is what is shifted into the next |
| | `TrieFinds`, `DataOfWordIsRead`, `SearchFinds` | With these, what the library reads of a word is what the tool packed, and nothing for a word it did not pack.  The binary search goes on towards the string's own index as long as the array is sorted |
| `LockOrderProofs` | `GuardsMatchLocks`, `NoDeadlock` | The mutexes have a rank that rises with every nested call.  In any finite set of waiting threads (and an infinite one as well, since ranks are bounded) the one that waits for the highest rank waits for none of them |
| `Logger` | `TypeCorrect`, `Callbacks`, `StacksStandStill` | Who holds the mutex is in a callback or in no critical section that lasts; a registration is one, so the stack does not change under a callback, and the context it runs with is on it |
| `TokenizerProofs` | `Progress`, `Implements`, `Partition` | One invariant for each layer, that ties what it keeps to the last boundary of the layer below (`IInv`), and one lemma: if the layer below moves on or ends at the end, so does this one |
| | `WordsAndCharacters` | To `IInv` comes for each layer what it still owes: the word breaks it has taken and not yet returned are among the boundaries it keeps (`CompBreaks`, `RegexBreaks`, `NumBreaks`); `ControlCleaver` splices pieces into the tokens, and the ends of the tokens before and behind it stay (`Splicing`, `PiecesFine`) |
| | `ChainsFound` | That the tokens cover the text (`Covers`) decides the rest: what the index has at an offset is the one token there; a cut leaves a run of tokens that are moved, and so a cover again (`CutOut`, by induction over the tokens); a chain and a chunk say the pieces of the text one after another, which join (`SaysItsText`, `ChunkSaysItsPart`); one token holds each offset (`OneHolds`) |
| | `GermanicBoundaries`, `SemiticBoundaries` | What the contracts `GermanicCompounds` and `SemiticCompounds` say, on which the theorems above rest, is what the decompounders compute, of any dictionary and any affixes: the places of a reading's parts rise, and behind each are letters of the dictionary to the end of the word (`PartsFit`) |
| `ConceptHeapProofs` | `OneOwner`, `AssertionHolds` | The heap is a forest of depth two.  Each operation adds a tree of new objects, removes one, or changes the objects of one tree and no pointer; one lemma for each shows that `HeapInv` (every object has one owner, or is an item of one list that has one) is kept |
| | `ListsHandOn` | `HeapInv` with what is handed on, `ListsInv`: a constraint of a list reaches its items, and nobody else's operation reaches them |
| | `TextsAsDocumented` | `Joined`, the loop of `toSpeakableString`, is unfolded item by item and compared with `Documented`, for lists of any length; the invariant is not needed |
| | `ConceptsAreValues` | The refinement of `Concepts`: an owner's value is read off its tree, so an operation on one tree changes one value.  `QuantInv` is what the steps of `quantify` need: the concept still has the value it was called with, and the clone the one it will be asked for |
| `MessageProofs` | `TypeCorrect`, `BestChosen`, `AmbiguityIsCleared`, `ConfirmedUnchanged` | The loops are steps, so that what they have found so far is the invariant: the first best match of those looked at, the agreement of those of the spelling |
| | `PronounsOfMessages` | A message drives the same steps with its own table and options: the invariant `MessageInv` adds what is between the call and its answer |
| | `SelectsWhatItShows` | The two copies are two operators.  That they agree on which concept is made, how it is constrained, when they fail and when there is nothing to show is `InflectedAlike`, by each of their branches; so the keys the selector takes are those equal to what the formatter shows, but for a string without a form, which the formatter shows as it is and the selector takes for the empty key |
| | `MarkupIsReadBack` | `Escaped` leaves no mark in what it writes (`EscapedFacts`), so the marks in a result are those of its one tag, at places that are computed (`Tagging`, `ReadingTag`), the attribute is the piece between two of them (`PartOf`), and `Decoded` undoes `Escaped` unit by unit |
| | `CaseKept`, `NumberTold` | Both follow a piece of a text: what joins a number, a noun and a measure, in each class of factories, says what the noun says and, where it shows it, what the number says, and nothing but these and spaces (`QuantityFacts`); markup adds nothing but its own (`EmittedSays`).  So a case is kept if every number of the noun says it and no factory changes it (`QuantifiedSays`), and an amount is told by a piece that only its name has (`NumbersTell`), or in Arabic and Hebrew, where there is no number, by the form of the noun |

Four of the arguments deserve a word.

*The Germanic iterator.*  It keeps the first boundary inside a compound as
`lastStart` and does not move it along with the boundaries it kept for later
calls, so the word after a compound is looked up together with the rest of the
compound.  That this never returns a boundary before the last one rests on two
facts outside of the class: ICU does not break between letters, so that
between the compound and the next word there is a character that is no letter,
and a dictionary's words have only letters, so that no boundary comes of it
before that character.  `CompInv` and the lemma `GermanicAfterBreak` make this
precise; that the decompounder keeps its part, `GermanicCompounds`, is the theorem
`GermanicBoundaries`.

*Callbacks and locks.*  `LockAssumption` says what a logger's callback may
lock: nothing that logs, or has something log.  With a callback that logs the
library deadlocks, and no document forbids it.

*Pronouns.*  `ConfirmedUnchanged` needs that a new constraint that the shown
pronoun fulfils exactly only removes other matches or makes them more generic,
which `NewConstraint` shows by counting.

*Induction.*  The prover has no induction over predicates.  `SetInduction` has it
over sets, from the library's theorem that `<` is well-founded on the naturals:
the numbers for which something holds are a set that has 0 and with each number
the next.  With it `RecursionExists` shows that a function defined by recursion
is there, and so what it is at each place, which is all that the theorems about
lists, chains and chunks need of their loops.  Functions that are needed
in a proof are written as recursive functions for this reason, never with
`RECURSIVE` or a fold.

Proving found defects of the model.  What a function of a message makes of a
call (`Made`), the comparison of readings (`ComesBefore`) and the harmony of vowels
(`GetVowelGroup`) were each a `CASE` whose conditions overlapped, so that the result
was whichever TLC tries first; they now ask in the order of the code.  And
`NumberIsTold` did not say of Hebrew that half a month, whose count is "one", is
shown as a month is: no number of the instance was 0.5, and the case of the proof
was open.  Now there is one, and `TakenAlike` says so.

Assumptions: those that are declared with the constants (`LocaleAssumption`,
`FallbackAssumption`, `PoolAssumption`, `RegistrationAssumption`,
`DictionaryAssumption`, `LockAssumption`, `LoggerAssumption`, `BoundariesAssumption`,
`TextAssumption`, `HeapAssumption`, `PronounAssumption`, `DictionaryFileAssumption`,
`MessageAssumption`, `CaseAssumption`, `AmountAssumption`), and those that `MCWords`
states of its dictionaries (`LexiconsAssumption`, `CompoundsAssumption`,
`ContainersAssumption`) and the theorems about words of every dictionary; TLC
evaluates each in a run.  `FallbackAssumption` states where the walk of a locale ends by the
loop's own equation; with it goes that the walk ends, which the run checks on its
locales.  `HeapAssumption` and `TextAssumption` are types, and that null, no text and
a thrown exception are none of them.  `MessageAssumption` is about what the
concepts below a message give it, which is a constant there: every call shows a
sequence of `Pieces`, among which are the characters markup escapes, but none of
the entities it writes for them, since an entity in a text is its characters; and
what a message asks of a pronoun is a value, since `Pronouns` has no constraints
that are the empty string.

The theorems about quantities need something of words and names.  `CaseAssumption`: a
noun that says the case it is asked for says it in every number, or has no such
form.  `AmountAssumption`: the names of two amounts have a piece each that neither
the other name nor a noun nor a measure has, unless the code takes the amounts for
the same (`TakenAlike`); Arabic duals differ from singulars in every case, if they do
in one, and so do the Hebrew nouns that are shown without a number.  Both say
nothing of how number and noun are put together, which is what the code does
differently in every language and what is proved.  The theorems about words have
hypotheses of their own: the types of a dictionary, its patterns and its words
(`LexiconOver`), the priorities of a language are lists of grammemes
(`Lexicographer`), the keys of a container are numbered and sorted (`NumbersKeys`,
`InRankOrder`), the words and affixes of a decompounder are made of its letters, and
what it does not know is rarer than what its limits admit (`GermanicDictionary`,
`AffixTable`).

Only model-checked:

* The liveness properties (`Answered`, `MutexReleased`, `Terminates`): the prover
  does not handle fairness.
* The invariants of `words`.  They put questions to concrete dictionaries, each an
  instance of the modules below; the general statements are the theorems above.
  `FileSaysWhatSourceSaid`, the whole way of a source through the file, is beyond
  them in two places: that the bits of a number add up to it again
  (`ValueOf(BitsOf(n)) = n`, a sum over a set), and how the lines of a word are
  collected, by folds, which the prover cannot open.
* The invariants of `grammar`.  They speak of functions with a vocabulary: what an
  ending, an article or a suffix looks like in a language.  For every dictionary
  most of them are false (a word may look like an article), so that they hold of
  the instances' words and words like them.

## 6. Where the code and what is said of it differ

Each of these has a run that finds it:

* `list_clone`: a clone of a list forgets `avoidAffixRedundancy`
  (`SemanticConceptList.cpp:41`), so that it shows something else than the list.
* `message_uninflected`: a message about a concept that is asked to be shown as a
  feature its language does not have is shown as nothing, where
  `message2/MF2Factory.cpp:264` says "fall back to the uninflected form".

Seen on the way, and modelled as the code has it, but without a run.

Of the services:

* The pool grows to one more than "the maximum number
  of cached tokenizers per language" (`ICUTokenExtractorIterator.cpp:16` and `:67`).
* The dictionary of a locale with a registration key of its own
  (zh_CN) is looked for below the path of its language's key (zh_TW),
  although the path was registered "for a given locale"
  (`DictionaryMetaData.cpp:73`, `DataRegistrationService.hpp:20`); and which
  dictionary Cantonese has depends on which of its locales asks first
  (`DictionaryMetaData.cpp:104`).
* `DataRegistrationService.hpp:46` promises the path "exactly as previously
  registered"; the normalised path is returned.
* `Logger.cpp:161` calls the logger registered last and no other;
  `LoggerConfig.hpp:52` can be read as saying all.
* `TokenChain::getToken` finds a token also at the index of its last unit,
  which `TokenChain.hpp:72` does not count among the valid ones;
  `Chunk::getWordCount(start, end)` does not count the token at the end, which
  `Chunk.hpp:32` includes.

Of concepts, pronouns and numbers:

* `isCustomMatch` is true for a concept that was created from a pronoun, with no customized
  one (`PronounConcept.cpp:337`); `PronounConcept::toSpeakableString` returns the first
  pronoun when nothing matches, where its header says null; a concept of "you"
  with the constraint masculine shows "he" if "you" says nothing of a gender but
  any; which of two feature models the pronouns of Cantonese are read with
  depends on who asks first.
* A list that skips an item that shows nothing loses the separators that go
  with it, and the empty text that was returned for it (`SemanticConceptList.cpp:167`).
* `SemanticConcept::getFeatureValue` does not answer with a constraint that was
  put, as `InflectableStringConcept` does; features of a language that are also
  common to languages keep the empty values, and lose the dependencies, of the common ones.
* What is spoken of digits in Austria is what is printed in its region, for
  other languages than German, where `CommonConceptFactory.hpp` says that "The
  language will be used for the speak value."
* Italian and Hebrew quantities take 1.5 for 1, as their factories are written, with
  `longValue()`; `NumberIsTold` leaves that out (`TakenAlike`), where an article is shown for the
  number or the noun is definite, and says that all other amounts differ.  Italian joins -1 without a
  space; Arabic shows 1 and -1 alike, without a number, and Hebrew a month and half
  of one (`HeCommonConceptFactory.cpp:83`, the nouns that are not numbered).  The Serbo-Croatian
  genitive plural of 5 replaces any case that was asked for.  Hebrew `quantify`
  throws for an unknown gender, which `QuantifyFormatter::format` lets pass.
* `:quantify` of an amount that is no number goes on with the amount 0 it has set and
  reports the error afterwards, unless what it goes on to throws (`MF2Factory.cpp:540`, `:563`).
  A Finnish phrase that shows nothing makes `quantify` throw (`FiCommonConceptFactory.cpp:106`).
* A direct case that a message asks of what it counts gives way to the case the number
  governs (`ru_RU.xml:29` expects the genitive for an accusative); `CaseAskedIsKept` is about oblique cases.
* `:numeral` ignores options that it does not know; the other functions reject them.

Of words and files:

* The types of a word are those of its last line, its values those of the last
  line that has any, or of a name it is the lower case of, whatever the comment
  "this isn't an exact value" intends (`src/tools/buildDictionary/Dictionary.cpp:193`); a line
  without a colon has its own text for its types.
* `CompressedArray` admits an index one word past its end (lines 133 and 153); a width of
  64 makes its mask a shift that is undefined (line 64); the bits of an array of more than
  `INT32_MAX` overflow (line 61), to a size below zero at which `new` throws.  The tool admits heads of
  properties of 32 bits, of which one is the sign (`LexicalDictionaryBuilder.cpp:202`),
  and shifts the id of a suffix as an `int32_t` (`InflectionDictionary.cpp:295`).
* The tool accepts patterns of two lemma suffixes, which the library refuses to
  open; `Inflector::getInflectionPatternByName` throws for a name that is not there.

Of the grammar:

* English's feature function for the definite article returns the indefinite
  one (`EnGrammarSynthesizer.cpp:20`); Dutch never recognises a definite
  article, so that it is put twice (`NlGrammarSynthesizer_NlDisplayFunction.cpp:30`);
  Danish articles in a phrase are inflected like words.
* A phrase of Dutch adjectives only becomes empty; the German definiteness of a
  word of unknown gender is silently not shown.
* Some words are made by rule whether guessing is allowed or not, and
  `GuessesOnlyWhenAsked` leaves them out: the endings of Dutch adjectives before a
  noun ("groot hond" becomes "grote hond", `NlGrammarSynthesizer_NlDisplayFunction.cpp:44`),
  so that of a Dutch phrase only the last word is looked at; a Danish article in front of the value, which is inflected like an
  adjective; Turkish and Korean suffixes, and Finnish ones of persons; the plural of a
  Hebrew word that is not known; the English genitive and the Czech "nej-".
* Semitic and Romance phrases keep a "speak" value: a Spanish or Portuguese noun whose number
  changes is spoken as it was before (`mergeConstraintsWithDisplayValue`), so that
  `SpokenAsPrinted` says of a change of number only what English does.
* French "des tables", singular and definite, becomes "la tables"; Arabic looks
  for the case in the last constraint if no case is asked for; Turkish adds one vowel
  too many to some possessives; a possessive of the first person in Finnish may
  be empty, and every unknown Finnish phrase is singular; Malayalam phrases get
  an extra space; Korean strips the end of a noun that looks like the particle;
  the oblique of some Hindi homonyms changes their number.
* A Semitic decompounder with several prefixes misses the boundary before a suffix.

## 7. What is not modelled

* *Encodings*: the Marisa trie (any numbering of its keys), the trie of the
  tokenizers' dictionaries, character sets, the bytes of a file, and its
  parsing from text and XML.  `FreqToLogProb.h` and the like are tables of data.
* *ICU*: break iterators, number formats, plural and spellout rules,
  MessageFormat 2 itself.
* *Large tables*: the suffixes of Finnish, the constant locales, the classes of
  letters of each language.  The instances have small ones that reach every branch.
* *The C API*: each function calls one C++ function and turns an exception into
  an error code.
* *Parts of modelled components*: scoring by floating point of Germanic and
  Finnish readings, where any of the readings may win; lists of
  lists, and lists as operands of the functions of messages; how the tables of grammar and of pronouns are parsed; languages whose
  synthesizer only registers common functions beyond what `Grammar` has of them; what the console
  logger writes; the guards around function-local statics; exceptions thrown
  from the middle of a grammar's function, after which nothing remains.
* *Tools other than `buildDictionary`*, bindings, tests and data.

## 8. The plan

Done, in this order, by what matters most when it goes wrong: the caches and
the pool that all threads share, their locks, the tokenizer that every
inflection goes through, the concepts an application holds, the pronouns; then
what is computed of words: inflection, compounds, the grammars of the
languages, numbers, quantities, messages, and the files of the dictionaries.

Proved since: `Logger`, `ConceptHeap` with the refinement of `Concepts`, the index
and the chunks of `Tokenizer`, selection and markup of messages; then inflection by a
dictionary, what dictionary files give back, the decompounders' contracts, and the
case and the number of quantities.

Next, in this order:

1. *Fallback of the provider*, with a cache filled only in part by an exception,
   as an implementation of `ServiceCache` beside the two there are.
2. *Scores of compounds* as a total order, so that which reading wins is determined.
3. *Regions of numbers* (`IsAvailable` in `Numbers`): that the search among ICU's
   locales finds a name that is there, by the argument of `SearchFinds`.

A component that belongs to the same question as one that is there joins its
run, so that the runs stay one for each question.
