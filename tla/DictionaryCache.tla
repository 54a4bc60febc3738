-------------------------- MODULE DictionaryCache --------------------------
(***************************************************************************)
(* DictionaryMetaData::createDictionary together with the registration of  *)
(* data paths it reads                                                     *)
(* (src/src/inflection/dictionary/DictionaryMetaData.cpp).                 *)
(*                                                                         *)
(* The whole call holds CLASS_MUTEX, but paths are registered under        *)
(* another mutex, so a registration may come between any two of its steps. *)
(* A dictionary is cached by language; the file it is loaded from is the   *)
(* language's own, or that of the fallback of the locale that asked first. *)
(* Any IOException leaves an empty dictionary in the cache; any other      *)
(* exception leaves nothing.                                               *)
(***************************************************************************)
EXTENDS DataRegistration

CONSTANTS Threads,
          Asked,          \* the locales dictionaries are asked for
          Generic,        \* ULocale(locale.getLanguage())
          FallbackOf,     \* getLanguageWithFallback
          DefaultRoot,    \* the root of what is not registered
          EmptyPath,      \* the path "", which counts as not registered
          Files,          \* what is on disk: [root, language] -> content
          Free, NoLocale, NoFile, NoDictionary, Empty

\* The languages that have a dictionary each.
Languages == {Language[l] : l \in Asked}

Roots == Paths \cup {DefaultRoot}
FileNames == [root : Roots, language : Keys]

\* A dictionary: the file it was loaded from, or an empty one.
Dictionaries == FileNames \cup {Empty}

ASSUME DictionaryAssumption ==
  /\ Asked \subseteq Locales
  /\ Generic \in [Asked -> Locales]
  /\ \A l \in Asked : Language[Generic[l]] = Language[l]
  /\ FallbackOf \in [Asked -> Locales]
  /\ DOMAIN Files \subseteq FileNames
  /\ \A f \in DOMAIN Files : Files[f] \in {"good", "malformed", "incompatible"}
  /\ Free \notin Threads /\ NoLocale \notin Locales
  /\ Unset \notin Roots
  /\ NoFile \notin FileNames /\ Empty \notin FileNames
  /\ NoDictionary \notin Dictionaries \cup Keys
  /\ \A d \in Dictionaries, k \in Keys :
       NoDictionary # [language |-> k, dictionary |-> d]

VARIABLES cache,      \* DICTIONARY_CACHE: language -> dictionary
          mutex,      \* CLASS_MUTEX of DictionaryMetaData
          pc, locale, file, result,
          known       \* the path its language had when a load began

loadVars == <<cache, mutex, pc, locale, file, result, known>>
vars == <<registrationVars, loadVars>>

\* Type correctness of the two maps and of each call's locals.
TypeOK ==
  /\ RegistrationTypeOK
  /\ cache \in [Languages -> Dictionaries \cup {NoDictionary}]
  /\ mutex \in Threads \cup {Free}
  /\ pc \in [Threads -> {"idle", "find", "locate", "fallback", "open",
                         "served", "thrown"}]
  /\ locale \in [Threads -> Asked \cup {NoLocale}]
  /\ file \in [Threads -> FileNames \cup {NoFile}]
  /\ result \in [Threads -> Dictionaries \cup {NoDictionary}]
  /\ known \in [Languages -> Paths \cup {Unset}]

Init ==
  /\ RegistrationInit
  /\ cache = [g \in Languages |-> NoDictionary]
  /\ mutex = Free
  /\ pc = [t \in Threads |-> "idle"]
  /\ locale = [t \in Threads |-> NoLocale]
  /\ file = [t \in Threads |-> NoFile]
  /\ result = [t \in Threads |-> NoDictionary]
  /\ known = [g \in Languages |-> Unset]

-----------------------------------------------------------------------------
Goto(t, site) == pc' = [pc EXCEPT ![t] = site]

\* ResourceLocator::getRootForLocale: an empty path is as good as none.
RootFor(l) ==
  IF DataPath(l) \in {Unset, EmptyPath} THEN DefaultRoot ELSE DataPath(l)

\* getResourcePath.
ResourcePath(l) == [root |-> RootFor(l), language |-> Language[l]]

Ask(t, l) ==
  /\ pc[t] = "idle"
  /\ locale' = [locale EXCEPT ![t] = l]
  /\ Goto(t, "find")
  /\ UNCHANGED <<registrationVars, cache, mutex, file, result, known>>

\* Mutant of Find: a cached empty dictionary is not taken for an answer.
Find_RetriesEmpty(t) ==
  LET language == Language[locale[t]] IN
  /\ pc[t] = "find"
  /\ mutex = Free
  /\ IF cache[language] \notin {NoDictionary, Empty}
       THEN /\ result' = [result EXCEPT ![t] = cache[language]]
            /\ Goto(t, "served")
            /\ UNCHANGED <<mutex, known>>
       ELSE /\ mutex' = t
            /\ Goto(t, "locate")
            /\ known' = [known EXCEPT ![language] = DataPath(Generic[locale[t]])]
            /\ UNCHANGED result
  /\ UNCHANGED <<registrationVars, cache, locale, file>>

\* The mutex is taken; a cached dictionary, empty or not, is the answer.
Find(t) ==
  LET language == Language[locale[t]] IN
  /\ pc[t] = "find"
  /\ mutex = Free
  /\ IF cache[language] # NoDictionary
       THEN /\ result' = [result EXCEPT ![t] = cache[language]]
            /\ Goto(t, "served")
            /\ UNCHANGED <<mutex, known>>
       ELSE /\ mutex' = t
            /\ Goto(t, "locate")
            /\ known' = [known EXCEPT ![language] = DataPath(Generic[locale[t]])]
            /\ UNCHANGED result
  /\ UNCHANGED <<registrationVars, cache, locale, file>>

\* Mutant of Locate: the root of the locale, not that of its language.
Locate_Specific(t) ==
  LET own == ResourcePath(locale[t]) IN
  /\ pc[t] = "locate"
  /\ file' = [file EXCEPT ![t] = own]
  /\ Goto(t, IF own \in DOMAIN Files THEN "open" ELSE "fallback")
  /\ UNCHANGED <<registrationVars, cache, mutex, locale, result, known>>

\* createDictionaryForLocale: the file of the bare language, if it exists.
Locate(t) ==
  LET own == ResourcePath(Generic[locale[t]]) IN
  /\ pc[t] = "locate"
  /\ file' = [file EXCEPT ![t] = own]
  /\ Goto(t, IF own \in DOMAIN Files THEN "open" ELSE "fallback")
  /\ UNCHANGED <<registrationVars, cache, mutex, locale, result, known>>

\* Otherwise the file of the fallback of the locale, whether it exists or not.
LocateFallback(t) ==
  /\ pc[t] = "fallback"
  /\ file' = [file EXCEPT ![t] = ResourcePath(FallbackOf[locale[t]])]
  /\ Goto(t, "open")
  /\ UNCHANGED <<registrationVars, cache, mutex, locale, result, known>>

\* The dictionary is published for the language, and the mutex released.
Publish(t, dictionary) ==
  /\ cache' = [cache EXCEPT ![Language[locale[t]]] = dictionary]
  /\ result' = [result EXCEPT ![t] = dictionary]
  /\ mutex' = Free
  /\ Goto(t, "served")
  /\ UNCHANGED <<registrationVars, locale, file, known>>

\* The file is mapped and is a dictionary.
Open(t) ==
  /\ pc[t] = "open"
  /\ file[t] \in DOMAIN Files /\ Files[file[t]] = "good"
  /\ Publish(t, file[t])

\* An IOException: the file is missing, is no dictionary, or cannot be mapped
\* this time.  An empty dictionary is cached in its place.
OpenEmpty(t) ==
  /\ pc[t] = "open"
  /\ Publish(t, Empty)

\* Mutant of OpenThrows: the exception leaves the mutex locked.
OpenThrows_KeepsMutex(t) ==
  /\ pc[t] = "open"
  /\ file[t] \in DOMAIN Files /\ Files[file[t]] = "incompatible"
  /\ Goto(t, "thrown")
  /\ UNCHANGED <<registrationVars, cache, mutex, locale, file, result, known>>

\* An IncompatibleVersionException is no IOException and leaves the call.
OpenThrows(t) ==
  /\ pc[t] = "open"
  /\ file[t] \in DOMAIN Files /\ Files[file[t]] = "incompatible"
  /\ mutex' = Free
  /\ Goto(t, "thrown")
  /\ UNCHANGED <<registrationVars, cache, locale, file, result, known>>

Return(t) ==
  /\ pc[t] \in {"served", "thrown"}
  /\ Goto(t, "idle")
  /\ locale' = [locale EXCEPT ![t] = NoLocale]
  /\ file' = [file EXCEPT ![t] = NoFile]
  /\ result' = [result EXCEPT ![t] = NoDictionary]
  /\ UNCHANGED <<registrationVars, cache, mutex, known>>

Step(t) ==
  Find(t) \/ Locate(t) \/ LocateFallback(t) \/ Open(t) \/ OpenEmpty(t) \/ OpenThrows(t)

Next ==
  \/ \E o \in Offers : (Register(o) \/ RegisterThrows(o)) /\ UNCHANGED loadVars
  \/ \E t \in Threads : Step(t) \/ Return(t) \/ \E l \in Asked : Ask(t, l)

Spec == Init /\ [][Next]_vars
FairSpec == Spec /\ \A t \in Threads : WF_vars(Step(t))

-----------------------------------------------------------------------------
\* A language whose path was registered before its load began has the
\* dictionary below that path, if there is one, whatever is registered
\* meanwhile and whatever the locale that asked falls back to.
EarlyRegistrationUsed ==
  \A g \in Languages :
    LET registered == [root |-> known[g], language |-> g] IN
    (cache[g] \notin {NoDictionary, Empty} /\ known[g] # EmptyPath
       /\ registered \in DOMAIN Files)
      => cache[g] = registered

\* The path a dictionary was loaded from is the default root or a path that
\* was accepted, and still is: never one that was refused, nor the empty one.
RootRegistered ==
  \A g \in Languages :
    cache[g] \notin {NoDictionary, Empty} =>
      \/ cache[g].root = DefaultRoot
      \/ cache[g].root # EmptyPath /\ \E k \in Keys : paths[k] = cache[g].root

\* A registration decides what is loaded exactly when it was accepted, and,
\* for the dictionaries, when it came before the load.
RegistrationsRespected ==
  AcceptedInForce /\ EarlyRegistrationUsed /\ RootRegistered

\* The mutex is released whatever the file turns out to be.
MutexReleased == \A t \in Threads : (mutex = t) ~> (mutex = Free)

\* The object a dictionary is: two languages never share one, even when both
\* are empty or come from the same file.
Object(g, d) == [language |-> g, dictionary |-> d]
Objects == [language : Languages, dictionary : Dictionaries]

\* One dictionary per language, never replaced, and every caller gets it.
Abstract == INSTANCE ServiceCache WITH
  Callers <- Threads, Families <- Languages,
  Services <- Objects, NoService <- NoDictionary,
  service <- [g \in Languages |->
                IF cache[g] = NoDictionary THEN NoDictionary ELSE Object(g, cache[g])],
  handed <- [t \in Threads |->
    IF pc[t] = "served"
      THEN [family |-> Language[locale[t]],
            object |-> Object(Language[locale[t]], result[t])]
      ELSE [family |-> NoDictionary, object |-> NoDictionary]]

ImplementsServiceCache == Abstract!Spec
=============================================================================
