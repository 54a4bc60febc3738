----------------------------- MODULE MCTokenizer -----------------------------
(***************************************************************************)
(* Every text of up to two units, and longer ones in which compounds meet  *)
(* another script, an apostrophe, a dash, digits, controls and characters  *)
(* of two units.  The languages are those of the repository's tokenizers:  *)
(* French and Italian (an expression), Dutch and Danish (a decompounder,   *)
(* and an expression), Hebrew and Arabic (both, or no expression), English *)
(* in both styles.                                                         *)
(***************************************************************************)
EXTENDS Tokenizer

ShortTexts == {t \in UNION {[1..n -> Units] : n \in 0..2} : WellFormed(t)}

LongTexts ==
  { <<"w", "w", "w", "s">>,
    <<"w", "w", "w", "k", "w", "w">>,
    <<"w", "w", "s", "apos", "s">>,
    <<"w", "w", "apos", "s", "space", "w">>,
    <<"w", "w", "dash", "w", "w">>,
    <<"w", "space", "apos", "s">>,
    <<"w", "s", "apos", "apos", "s">>,
    <<"digit", "punct", "digit", "w", "control">>,
    <<"w", "digit", "digit", "control", "control">>,
    <<"lead", "trail", "digit", "punct", "w">>,
    <<"digit", "lead", "trail", "w">>,
    <<"k", "dash", "control", "space", "control">> }

MCTexts == ShortTexts \cup LongTexts

Language(d, r, u) == [decompounder |-> d, regex |-> r, unmodified |-> u]
MCExtractors ==
  { Language("none", FALSE, FALSE), Language("none", FALSE, TRUE),
    Language("none", TRUE, FALSE), Language("germanic", FALSE, FALSE),
    Language("germanic", TRUE, FALSE), Language("semitic", FALSE, TRUE),
    Language("semitic", TRUE, FALSE) }
=============================================================================
