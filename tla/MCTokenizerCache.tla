-------------------------- MODULE MCTokenizerCache --------------------------
(***************************************************************************)
(* A small world of locales for TokenizerCache, cut from the repository's  *)
(* own configuration files: "en" with a regional variant, the alias "iw"   *)
(* of "he", and a language without a configuration file whose walk ends at *)
(* the empty name (resources/org/unicode/inflection/tokenizer).            *)
(***************************************************************************)
EXTENDS TokenizerCache, TLC

CONSTANTS en, en_GB, he, iw, xx, root

MCLocales    == {en, en_GB, he, iw, xx, root}
MCConfigured == {en, he, iw}
MCParent     == (en_GB :> en) @@ [l \in MCLocales |-> root]
MCAlias      == (iw :> he)
MCFallback   == (en_GB :> en) @@ (xx :> root) @@ [l \in MCLocales |-> l]
=============================================================================
