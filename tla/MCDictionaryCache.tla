------------------------- MODULE MCDictionaryCache -------------------------
(***************************************************************************)
(* Chinese and Cantonese, the languages for which the registration key, the*)
(* generic language and the fallback all differ.  Cantonese has no         *)
(* dictionary of its own.  One root holds a dictionary of an incompatible  *)
(* version and the default root a good one.  The tables of the locales are *)
(* written out; the assumption below is that they are what the walks of    *)
(* Locales give of the names.                                              *)
(***************************************************************************)
EXTENDS DictionaryCache, Locales, TLC

CONSTANTS zh, zh_CN, zh_SG, yue, yue_CN, yue_HK, zhKey, yueKey,
          zh_CNKey, zh_TWKey, yue_CNKey, zh_HKKey,
          a, a_slash, b, c, slash, rootDefault

MCLocales  == {zh, zh_CN, zh_SG, yue, yue_CN, yue_HK}
MCAsked    == {zh_CN, yue_CN, yue_HK}
MCWalk     == (zh_CN :> <<zh_CN, zh>>) @@ (zh_SG :> <<zh_SG, zh>>)
                @@ (yue_CN :> <<yue_CN, yue>>) @@ (yue_HK :> <<yue_HK, yue>>)
                @@ (zh :> <<zh>>) @@ (yue :> <<yue>>)
MCKeys     == {zhKey, yueKey, zh_CNKey, zh_TWKey, yue_CNKey, zh_HKKey}
MCLanguage == [l \in MCLocales |->
                 IF l \in {yue, yue_CN, yue_HK} THEN yueKey ELSE zhKey]

\* DataRegistrationService.cpp:44-59, as far as these locales reach it.
MCFallthroughMap ==
  (yue :> yue_CNKey) @@ (yue_CN :> yue_CNKey) @@ (yue_HK :> zh_HKKey)
    @@ (zh :> zh_TWKey) @@ (zh_CN :> zh_CNKey)

\* fallback-locales.properties, then the map at DictionaryMetaData.cpp:54-57.
MCFallbackOf == (yue_CN :> zh) @@ [l \in MCAsked |-> l]
MCGeneric    == [l \in MCAsked |-> IF l = zh_CN THEN zh ELSE yue]

\* A path with a trailing / or the prefix file://, two others, and "/", of
\* which nothing is left.  Below c there is no dictionary.
MCNormal == (a :> a) @@ (a_slash :> a) @@ (b :> b) @@ (c :> c) @@ (slash :> EmptyPath)
MCOffers == {[locale |-> zh, path |-> a], [locale |-> zh, path |-> c],
             [locale |-> zh_SG, path |-> b],
             [locale |-> zh_SG, path |-> a_slash],
             [locale |-> yue, path |-> slash], [locale |-> yue_CN, path |-> a]}
MCFiles  == ([root |-> rootDefault, language |-> zhKey] :> "good")
         @@ ([root |-> a, language |-> zhKey] :> "good")
         @@ ([root |-> a, language |-> yueKey] :> "good")
         @@ ([root |-> b, language |-> zhKey] :> "incompatible")

NameOf == (zh :> <<"zh">>) @@ (zh_CN :> <<"zh", "CN">>) @@ (zh_SG :> <<"zh", "SG">>)
       @@ (yue :> <<"yue">>) @@ (yue_CN :> <<"yue", "CN">>) @@ (yue_HK :> <<"yue", "HK">>)

\* fallback-locales.properties
Pairs == <<"yue", "CN">> :> <<<<"yue">>, <<"zh", "HK">>>>

ASSUME TablesOfLocales ==
    /\ \A l \in MCLocales :
         /\ Fallbacks(Locale(NameOf[l])) = [i \in DOMAIN MCWalk[l] |-> NameOf[MCWalk[l][i]]]
         /\ (MCLanguage[l] = zhKey) = (Parsed(NameOf[l]).language = "zh")
    /\ \A l \in MCAsked :
         /\ NameOf[MCGeneric[l]] = <<Locale(NameOf[l]).language>>
         /\ LET found == GetLanguageWithFallback(Locale(NameOf[l]), Pairs)
            IN  IF MCFallbackOf[l] = l THEN found = NameOf[l] ELSE found = NameOf[MCFallbackOf[l]]
=============================================================================
