--------------------------- MODULE TokenizerCache ---------------------------
(***************************************************************************)
(* TokenizerFactory::createTokenizer, run by several threads at once       *)
(* (src/src/inflection/tokenizer/TokenizerFactory.cpp).                    *)
(*                                                                         *)
(* A request looks its locale up under CLASS_MUTEX.  On a miss it walks up *)
(* the fallbacks of the locale without the mutex until it finds a locale   *)
(* with a config_*.properties file, replaces the configuration by that of  *)
(* the alias if there is one, takes the English configuration when nothing *)
(* was found, and then takes the mutex again: it reuses the tokenizer of   *)
(* the fallback, or constructs one for the locale it was asked for and     *)
(* publishes it under the fallback's name and the locale's name.           *)
(*                                                                         *)
(* A tokenizer is the address `new' returned for it; `built' records what  *)
(* it was constructed from.  A configuration is named by the locale of its *)
(* file.                                                                   *)
(***************************************************************************)
CONSTANTS Threads,
          Tokenizers,    \* the addresses `new' can return
          NoTokenizer,   \* nullptr, or map::end()
          NotBuilt,      \* nothing was constructed at an address
          Locales,       \* the names of the locales that may be asked for
          Root,          \* the locale with the empty name
          English,       \* LocaleConstants::ENGLISH
          Configured,    \* the locales that have a configuration file
          Buildable,     \* those whose configuration names a known class
          NoLocale,      \* no request, no fallback yet
          NoConfig,      \* config.empty()
          Free,          \* CLASS_MUTEX is not held
          Parent,        \* ULocale::getFallback
          Alias,         \* tokenizer.alias.language: a partial function
          Fallback       \* where the walk from a locale ends (see below)

\* The walk of createTokenizer ends at the root or at a configured locale.
WalkEnds(l) == l = Root \/ l \in Configured

ASSUME LocaleAssumption ==
  /\ Root \in Locales /\ English \in Locales
  /\ Configured \subseteq Locales \ {Root}
  /\ Buildable \subseteq Configured
  /\ NoLocale \notin Locales /\ NoConfig \notin Locales
  /\ Free \notin Threads /\ NoTokenizer \notin Tokenizers
  /\ NotBuilt \notin [locale : Locales, config : Configured]
  /\ Parent \in [Locales -> Locales]
  /\ DOMAIN Alias \subseteq Configured
  /\ \A l \in DOMAIN Alias : Alias[l] \in Locales

\* Fallback names the end of each walk, by the equation of the loop itself.
ASSUME FallbackAssumption ==
  /\ Fallback \in [Locales -> Locales]
  /\ \A l \in Locales :
        Fallback[l] = IF WalkEnds(l) THEN l ELSE Fallback[Parent[l]]

VARIABLES cache,     \* TOKENIZER_CACHE: locale -> tokenizer or NoTokenizer
          built,     \* what each tokenizer was constructed from
          mutex,     \* CLASS_MUTEX: the thread that holds it, or Free
          pc,        \* where each thread is in createTokenizer
          locale,    \* the argument of the call
          fallback,  \* fallbackLocale
          config,    \* config
          result     \* the local `tokenizer'

vars == <<cache, built, mutex, pc, locale, fallback, config, result>>

Sites == {"idle", "lookup", "walk", "relock", "decide", "construct",
          "served", "thrown"}

\* Type correctness: the cache maps names to tokenizers, and each thread's
\* locals hold what createTokenizer's hold.
TypeOK ==
  /\ cache \in [Locales -> Tokenizers \cup {NoTokenizer}]
  /\ built \in [Tokenizers -> [locale : Locales, config : Configured] \cup {NotBuilt}]
  /\ mutex \in Threads \cup {Free}
  /\ pc \in [Threads -> Sites]
  /\ locale \in [Threads -> Locales \cup {NoLocale}]
  /\ fallback \in [Threads -> Locales \cup {NoLocale}]
  /\ config \in [Threads -> Configured \cup {NoConfig}]
  /\ result \in [Threads -> Tokenizers \cup {NoTokenizer}]

Init ==
  /\ cache = [l \in Locales |-> NoTokenizer]
  /\ built = [tok \in Tokenizers |-> NotBuilt]
  /\ mutex = Free
  /\ pc = [t \in Threads |-> "idle"]
  /\ locale = [t \in Threads |-> NoLocale]
  /\ fallback = [t \in Threads |-> NoLocale]
  /\ config = [t \in Threads |-> NoConfig]
  /\ result = [t \in Threads |-> NoTokenizer]

-----------------------------------------------------------------------------
ReadConfig(l) == IF l \in Configured THEN l ELSE NoConfig

\* The configuration of a walk that ended at l: its file, replaced by the
\* file of its alias (which may be missing), or the English one.
ConfigOf(l) ==
  LET own == IF l \in DOMAIN Alias THEN ReadConfig(Alias[l]) ELSE ReadConfig(l)
  IN  IF own = NoConfig THEN ReadConfig(English) ELSE own

\* map::emplace inserts only when the key is absent.
Emplace(map, l, tok) == IF map[l] = NoTokenizer THEN [map EXCEPT ![l] = tok] ELSE map

Goto(t, site) == pc' = [pc EXCEPT ![t] = site]

\* The call starts.
Request(t, l) ==
  /\ pc[t] = "idle"
  /\ locale' = [locale EXCEPT ![t] = l]
  /\ Goto(t, "lookup")
  /\ UNCHANGED <<cache, built, mutex, fallback, config, result>>

\* The first critical section: nothing in it can block or throw.
Lookup(t) ==
  /\ pc[t] = "lookup"
  /\ mutex = Free
  /\ result' = [result EXCEPT ![t] = cache[locale[t]]]
  /\ IF cache[locale[t]] # NoTokenizer
       THEN Goto(t, "served") /\ UNCHANGED fallback
       ELSE Goto(t, "walk") /\ fallback' = [fallback EXCEPT ![t] = locale[t]]
  /\ UNCHANGED <<cache, built, mutex, locale, config>>

\* Mutant of WalkUp: the loop does not move to the fallback.
WalkUp_Stays(t) ==
  /\ pc[t] = "walk"
  /\ ~WalkEnds(fallback[t])
  /\ UNCHANGED vars

\* One turn of the loop finds no configuration for this locale.
WalkUp(t) ==
  /\ pc[t] = "walk"
  /\ ~WalkEnds(fallback[t])
  /\ fallback' = [fallback EXCEPT ![t] = Parent[fallback[t]]]
  /\ UNCHANGED <<cache, built, mutex, pc, locale, config, result>>

\* Mutant of WalkEnd: the alias of the configuration is not followed.
WalkEnd_NoAlias(t) ==
  /\ pc[t] = "walk"
  /\ WalkEnds(fallback[t])
  /\ config' = [config EXCEPT ![t] =
                  ReadConfig(IF fallback[t] = Root THEN English ELSE fallback[t])]
  /\ Goto(t, IF config'[t] = NoConfig THEN "thrown" ELSE "relock")
  /\ UNCHANGED <<cache, built, mutex, locale, fallback, result>>

\* The loop ends, with a configuration or, after the warning, the English one.
WalkEnd(t) ==
  /\ pc[t] = "walk"
  /\ WalkEnds(fallback[t])
  /\ config' = [config EXCEPT ![t] = ConfigOf(fallback[t])]
  /\ Goto(t, IF ConfigOf(fallback[t]) = NoConfig THEN "thrown" ELSE "relock")
  /\ UNCHANGED <<cache, built, mutex, locale, fallback, result>>

\* Mutant of Relock: the second critical section is not one.
Relock_Unlocked(t) ==
  /\ pc[t] = "relock"
  /\ Goto(t, "decide")
  /\ UNCHANGED <<cache, built, mutex, locale, fallback, config, result>>

\* The second critical section begins.
Relock(t) ==
  /\ pc[t] = "relock"
  /\ mutex = Free
  /\ mutex' = t
  /\ Goto(t, "decide")
  /\ UNCHANGED <<cache, built, locale, fallback, config, result>>

\* The fallback has a tokenizer: it is reused for the requested locale.
ReuseFallback(t) ==
  /\ pc[t] = "decide"
  /\ cache[fallback[t]] # NoTokenizer
  /\ result' = [result EXCEPT ![t] = cache[fallback[t]]]
  /\ cache' = Emplace(cache, locale[t], cache[fallback[t]])
  /\ mutex' = Free
  /\ Goto(t, "served")
  /\ UNCHANGED <<built, locale, fallback, config>>

\* Mutant of ReuseNone: the caches are not looked at again under the mutex.
ReuseNone_NoRecheck(t) ==
  /\ pc[t] = "decide"
  /\ Goto(t, "construct")
  /\ UNCHANGED <<cache, built, mutex, locale, fallback, config, result>>

\* The fallback has none.  Neither has the locale, so that createTokenizerObject
\* is entered under the mutex; the other case, commented "This should be
\* impossible!", takes the tokenizer of the locale.
ReuseNone(t) ==
  /\ pc[t] = "decide"
  /\ cache[fallback[t]] = NoTokenizer
  /\ IF cache[locale[t]] = NoTokenizer
       THEN Goto(t, "construct") /\ UNCHANGED <<mutex, result>>
       ELSE /\ result' = [result EXCEPT ![t] = cache[locale[t]]]
            /\ mutex' = Free
            /\ Goto(t, "served")
  /\ UNCHANGED <<cache, built, locale, fallback, config>>

\* createTokenizerObject returns; both names are published.
Construct(t) ==
  /\ pc[t] = "construct"
  /\ config[t] \in Buildable
  /\ \E tok \in Tokenizers :
       /\ built[tok] = NotBuilt
       /\ built' = [built EXCEPT ![tok] =
                       [locale |-> locale[t], config |-> config[t]]]
       /\ cache' = Emplace(Emplace(cache, fallback[t], tok), locale[t], tok)
       /\ result' = [result EXCEPT ![t] = tok]
  /\ mutex' = Free
  /\ Goto(t, "served")
  /\ UNCHANGED <<locale, fallback, config>>

\* createTokenizerObject throws: always when the configuration names no known
\* class, and otherwise when the constructor or the warm-up tokenization does.
ConstructThrows(t) ==
  /\ pc[t] = "construct"
  /\ mutex' = Free
  /\ Goto(t, "thrown")
  /\ UNCHANGED <<cache, built, locale, fallback, config, result>>

\* The call is over, with a tokenizer or an exception; its locals are gone.
Return(t) ==
  /\ pc[t] \in {"served", "thrown"}
  /\ Goto(t, "idle")
  /\ locale' = [locale EXCEPT ![t] = NoLocale]
  /\ fallback' = [fallback EXCEPT ![t] = NoLocale]
  /\ config' = [config EXCEPT ![t] = NoConfig]
  /\ result' = [result EXCEPT ![t] = NoTokenizer]
  /\ UNCHANGED <<cache, built, mutex>>

\* What a call does once it has started.
Step(t) ==
  \/ Lookup(t) \/ WalkUp(t) \/ WalkEnd(t) \/ Relock(t)
  \/ ReuseFallback(t) \/ ReuseNone(t) \/ Construct(t) \/ ConstructThrows(t)

Next == \E t \in Threads : Step(t) \/ Return(t) \/ \E l \in Locales : Request(t, l)

Spec == Init /\ [][Next]_vars

\* A thread inside the call keeps running, and std::mutex lets some waiting
\* thread in; nothing makes it fair to a particular one.
FairSpec == Spec /\ \A t \in Threads : WF_vars(Step(t))

-----------------------------------------------------------------------------
\* What a locale's tokenizer is shared by: all locales whose walk ends there.
Families == {l \in Locales : WalkEnds(l)}

\* The comment at line 103 says of the last branch "This should be
\* impossible! The fallback should have been reused": when the fallback of a
\* miss has no tokenizer after the mutex was taken again, whatever other
\* threads published in between, the locale has none either.
LastBranchImpossible ==
  \A t \in Threads :
    pc[t] = "decide" /\ cache[fallback[t]] = NoTokenizer
      => cache[locale[t]] = NoTokenizer

\* Whoever cached a locale, in whatever order the requests interleaved, the
\* locale shares the one tokenizer of its fallback, so that the cache does not
\* grow "indefinitely with variations" (line 90).
SharesFallback ==
  \A l \in Locales :
    cache[l] # NoTokenizer => cache[Fallback[l]] = cache[l]

\* The unlocked window between the two lookups never makes two tokenizers
\* for the locales of one family.
OnePerFamily ==
  \A a, b \in Tokenizers :
    (built[a] # NotBuilt /\ built[b] # NotBuilt
       /\ Fallback[built[a].locale] = Fallback[built[b].locale])
      => a = b

\* The three together: whatever the interleaving of the two critical sections
\* and the walk between them, a family has one tokenizer, and only its own.
OneTokenizerPerFamily == SharesFallback /\ OnePerFamily /\ LastBranchImpossible

\* A tokenizer serves a locale with the configuration that the locale's own
\* walk finds (alias and English default included), although it may have
\* been constructed for a sibling that was asked for first.
ConfiguredForFamily ==
  \A l \in Locales :
    cache[l] # NoTokenizer => built[cache[l]].config = ConfigOf(Fallback[l])

\* A call that succeeds never returns a null tokenizer or one that is not
\* the one in the cache for the locale of the call.
ServedFromCache ==
  \A t \in Threads :
    pc[t] = "served" => /\ result[t] # NoTokenizer
                        /\ result[t] = cache[locale[t]]

\* "Caching is a one-way street" (README.md:60): no step, a construction that
\* throws included, replaces or removes what a locale was given.
CacheOnlyGrows ==
  [][\A l \in Locales : cache[l] # NoTokenizer => cache'[l] = cache[l]]_vars

\* Unless constructions keep failing forever, every call is answered although
\* the mutex is not fair: once the families have their tokenizers nobody
\* waits behind a construction any more.
Answered ==
  <>[][\A t \in Threads : ~ConstructThrows(t)]_vars
    => \A t \in Threads : (pc[t] = "lookup") ~> (pc[t] \in {"served", "thrown"})

\* The two critical sections implement the abstract cache.
Abstract == INSTANCE ServiceCache WITH
  Callers <- Threads, Families <- Families, Services <- Tokenizers,
  NoService <- NoTokenizer,
  service <- [f \in Families |-> cache[f]],
  handed <- [t \in Threads |->
               IF pc[t] = "served"
                 THEN [family |-> Fallback[locale[t]], object |-> result[t]]
                 ELSE [family |-> NoTokenizer, object |-> NoTokenizer]]

\* The two-phase lookup is a cache with one service per family, never
\* replaced, and every caller gets its family's.
ImplementsServiceCache == Abstract!Spec
=============================================================================
