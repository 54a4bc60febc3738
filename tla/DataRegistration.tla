-------------------------- MODULE DataRegistration --------------------------
(***************************************************************************)
(* DataRegistrationService: the process-wide map from locales to the       *)
(* directories of their data                                               *)
(* (src/src/inflection/resources/DataRegistrationService.cpp).             *)
(*                                                                         *)
(* A locale is first brought to its registration key: the deny list of     *)
(* fallthroughLocaleString is tried for the locale and then for each of    *)
(* its fallbacks, and otherwise the language is the key.  Registration and *)
(* lookup each hold CLASS_MUTEX and call nothing under it.                 *)
(***************************************************************************)
EXTENDS Sequences, Naturals

CONSTANTS Locales,
          Walk,             \* a locale and its getFallback()s with a language
          Language,         \* ULocale::getLanguage
          FallthroughMap,   \* the deny list: a partial function
          Keys,             \* registration keys
          Offers,           \* the registrations tried: [locale, path]
          Normal,           \* a path without file://, trailing / and dots
          Unset             \* nothing registered under a key

ASSUME RegistrationAssumption ==
  /\ Walk \in [Locales -> Seq(Locales)]
  /\ Language \in [Locales -> Keys]
  /\ \A l \in DOMAIN FallthroughMap : FallthroughMap[l] \in Keys
  /\ \A o \in Offers : o.locale \in Locales /\ o.path \in DOMAIN Normal
  /\ \A p \in DOMAIN Normal : Normal[p] # Unset

VARIABLES paths,      \* PATHS_MAP: key -> normalised path, or Unset
          accepted    \* the offers that were registered without an exception

registrationVars == <<paths, accepted>>

Paths == {Normal[p] : p \in DOMAIN Normal}

\* The i-th locale of the walk from l is the first that the deny list has.
FirstDenied(l, i) ==
  /\ Walk[l][i] \in DOMAIN FallthroughMap
  /\ \A j \in 1..(i - 1) : Walk[l][j] \notin DOMAIN FallthroughMap

\* fallthroughLocaleString.
Key(l) ==
  IF \E i \in DOMAIN Walk[l] : FirstDenied(l, i)
    THEN FallthroughMap[Walk[l][CHOOSE i \in DOMAIN Walk[l] : FirstDenied(l, i)]]
    ELSE Language[l]

\* The map and the offers that were accepted into it.
RegistrationTypeOK ==
  /\ paths \in [Keys -> Paths \cup {Unset}]
  /\ accepted \subseteq Offers

RegistrationInit ==
  /\ paths = [k \in Keys |-> Unset]
  /\ accepted = {}

\* registerDataPathForLocale: the path becomes that of the key, unless the key
\* has one already; the same path again is accepted and changes nothing.
Register(o) ==
  /\ paths[Key(o.locale)] \in {Unset, Normal[o.path]}
  /\ paths' = [paths EXCEPT ![Key(o.locale)] = Normal[o.path]]
  /\ accepted' = accepted \cup {o}

\* Another path for the key is refused with an IllegalArgumentException.
RegisterThrows(o) ==
  /\ paths[Key(o.locale)] \notin {Unset, Normal[o.path]}
  /\ UNCHANGED registrationVars

\* getDataPathForLocale, Unset for the empty string of an unregistered key.
DataPath(l) == paths[Key(l)]

-----------------------------------------------------------------------------
\* "Once the path has been set, it can not be changed to any other path"
\* (DataRegistrationService.hpp:21): an attempt that throws changes it no more
\* than one that is accepted.
PathNeverChanges ==
  [][\A k \in Keys : paths[k] # Unset => paths'[k] = paths[k]]_registrationVars

\* Every registration that returned normally is in force for its locale, and
\* stays so whatever is offered later for it or for a locale with its key.
AcceptedInForce == \A o \in accepted : DataPath(o.locale) = Normal[o.path]
=============================================================================
