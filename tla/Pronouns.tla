------------------------------ MODULE Pronouns ------------------------------
(***************************************************************************)
(* A PronounConcept (src/src/inflection/dialog/PronounConcept.cpp): which  *)
(* pronoun, out of those the caller customized and the table of the        *)
(* language, is the one that its constraints ask for.                      *)
(*                                                                         *)
(* What a pronoun says is a map from keys to values: the grammatical       *)
(* features of the pronoun itself, and dependencies, which are features of *)
(* the concept it refers to.  A loop of the code over the pronouns is one  *)
(* step for each of them.                                                  *)
(***************************************************************************)
EXTENDS Integers, Sequences, FiniteSets

CONSTANTS Features,      \* what can be constrained
          Dependencies,  \* what can depend on a referenced concept,
          Sound,         \* and the one of them that depends on how it sounds
          Values, AnyValue,   \* AnyValue, the empty string, stands for every value
          Absent,        \* a key that is not in a map
          Words, Empty,  \* what pronouns are displayed as; Empty displays nothing
          Folded,        \* a word without letter case,
          Spelling,      \* and a word of a table, without a space at its end, too
          Tables,        \* the tables of languages, sequences of pronouns
          Customs,       \* what callers customize, also sequences
          Givens,        \* the defaults they give,
          Asks,          \* <<feature, value>>: the constraints they put,
          References,    \* the concepts their pronouns refer to
          NoReference,
          NoText         \* the sounds of a reference that shows nothing

Keys     == Features \cup Dependencies
Pronoun  == [word : Words, says : [Keys -> Values \cup {AnyValue, Absent}]]
Reference == [values : [Dependencies -> Values \cup {Absent}],
              sounds : SUBSET Values \cup {NoText}]

ASSUME PronounAssumption ==
  /\ IsFiniteSet(Keys) /\ Features \cap Dependencies = {} /\ Sound \in Dependencies
  /\ AnyValue \notin Values /\ Absent \notin Values \cup {AnyValue}
  /\ Empty \in Words /\ Words \subseteq DOMAIN Folded /\ Words \subseteq DOMAIN Spelling
  /\ Tables \subseteq Seq(Pronoun) /\ Customs \subseteq Seq(Pronoun)
  /\ << >> \notin Tables /\ << >> \in Customs
  /\ Givens \subseteq [Keys -> Values \cup {Absent}] /\ Asks \subseteq Features \X Values
  /\ References \subseteq Reference /\ NoReference \notin References

VARIABLES table,        \* defaultPronounData, the same for every concept of a locale
          customs,      \* customizedPronounData
          defaults,     \* defaultConstraints
          initial,      \* defaultPronounIndex, 0 without one
          constraints,  \* AnyValue is asked for as the empty string
          phase,        \* of the concept: there is none, its constructor looks
                        \* the pronoun up, idle, a search goes on or has ended
          query,        \* what is looked up or searched for
          at,           \* the next pronoun to look at
          best,         \* possibleValue, 0 without one,
          generic, unmatched    \* and how it matches

conceptVars == <<table, customs, defaults, initial, constraints>>
searchVars  == <<at, best, generic, unmatched>>
vars == <<conceptVars, phase, query, searchVars>>

Entries == customs \o table

\* The searches there are: toSpeakableString without and with a reference,
\* isExists, isCustomMatch.
Queries ==
  [reference : {NoReference} \cup References, returnDefault : {TRUE}, matchAll : {TRUE}]
    \cup [reference : {NoReference}, returnDefault : {FALSE}, matchAll : BOOLEAN]

TypeOK ==
  /\ table \in Tables /\ customs \in Customs
  /\ defaults \in [Keys -> Values \cup {AnyValue, Absent}]
  /\ phase # "recognize" => \A k \in Keys : defaults[k] # AnyValue
  /\ initial \in 0..Len(Entries) /\ best \in 0..Len(Entries)
  /\ at \in 0..(Len(Entries) + 1)
  /\ constraints \in [Features -> Values \cup {AnyValue, Absent}]
  /\ phase \in {"none", "recognize", "idle", "search", "answered"}
  /\ phase \in {"none", "idle"} => query = NoReference
  /\ phase = "recognize" => query \in {Folded[w] : w \in Words}
  /\ phase \in {"search", "answered"} => query \in Queries
  /\ generic \in Nat /\ unmatched \in Nat

NoConstraints == [f \in Features |-> Absent]
NoDefaults    == [k \in Keys |-> Absent]

Init ==
  /\ table \in Tables
  /\ customs = << >> /\ defaults = NoDefaults /\ initial = 0
  /\ constraints = NoConstraints
  /\ phase = "none" /\ query = NoReference
  /\ at = 0 /\ best = 0 /\ generic = 0 /\ unmatched = 0

Rest(p) ==
  /\ phase' = p /\ query' = NoReference
  /\ at' = 0 /\ best' = 0 /\ generic' = 0 /\ unmatched' = 0

-----------------------------------------------------------------------------
\* A concept with customized pronouns, or with none, and given defaults.
Construct ==
  /\ phase = "none"
  /\ customs' \in Customs /\ defaults' \in Givens
  /\ Rest("idle")
  /\ UNCHANGED <<table, initial, constraints>>

\* A concept of a pronoun of the language, which has to be looked up: as it is
\* given, while the words of the table are taken without the space at their end.
ConstructFrom(w) ==
  /\ phase = "none"
  /\ phase' = "recognize" /\ query' = Folded[w] /\ at' = 1
  /\ UNCHANGED <<conceptVars, best, generic, unmatched>>

\* Mutant of Agreed: the last pronoun that says something has it.
Agreed_Last(d, s) == [k \in Keys |-> IF s[k] = Absent THEN d[k] ELSE s[k]]

\* Defaults d and what another pronoun of the spelling says: the empty string
\* where they differ.
Agreed(d, s) ==
  [k \in Keys |-> IF s[k] = Absent THEN d[k]
                  ELSE IF d[k] \in {Absent, s[k]} THEN s[k] ELSE AnyValue]

Recognize ==
  /\ phase = "recognize" /\ at <= Len(Entries)
  /\ IF Spelling[Entries[at].word] = query
       THEN /\ defaults' = Agreed(defaults, Entries[at].says)
            /\ initial' = IF initial = 0 THEN at ELSE initial
       ELSE UNCHANGED <<defaults, initial>>
  /\ at' = at + 1
  /\ UNCHANGED <<table, customs, constraints, phase, query, best, generic, unmatched>>

\* What is ambiguous is no default.
Recognized ==
  /\ phase = "recognize" /\ at = Len(Entries) + 1 /\ initial # 0
  /\ defaults' = [k \in Keys |-> IF defaults[k] = AnyValue THEN Absent ELSE defaults[k]]
  /\ Rest("idle")
  /\ UNCHANGED <<table, customs, initial, constraints>>

\* An unknown pronoun: the constructor throws.
NotRecognized ==
  /\ phase = "recognize" /\ at = Len(Entries) + 1 /\ initial = 0
  /\ Rest("none")
  /\ UNCHANGED conceptVars

Destroy ==
  /\ phase \in {"idle", "answered"}
  /\ customs' = << >> /\ defaults' = NoDefaults /\ initial' = 0 /\ constraints' = NoConstraints
  /\ Rest("none")
  /\ UNCHANGED table

Constrain(c) ==
  /\ phase \in {"idle", "answered"}
  /\ constraints' = c
  /\ Rest("idle")
  /\ UNCHANGED <<table, customs, defaults, initial>>

PutConstraint(f, v) == Constrain([constraints EXCEPT ![f] = v])
ClearConstraint(f)  == Constrain([constraints EXCEPT ![f] = Absent])
Reset               == Constrain(NoConstraints)

-----------------------------------------------------------------------------
Asked == {f \in Features : constraints[f] # Absent}
Defaulted == {k \in Keys : defaults[k] # Absent}

\* Mutant of IsMatchingInitialPronoun: one constraint that it says is enough.
IsMatchingInitialPronoun_Any ==
  initial # 0 /\ (Asked = {} \/ \E f \in Asked : Entries[initial].says[f] = constraints[f])

\* The pronoun the concept is from says all that is asked for.
IsMatchingInitialPronoun ==
  initial # 0 /\ \A f \in Asked : Entries[initial].says[f] = constraints[f]

\* getMatchState: the value itself is a full match, AnyValue a generic one.
Meets(e, k, v) == e.says[k] \in {v, AnyValue}

\* isMatchingSoundProperty and isMatchingFeatureValue.
Fits(e, r) ==
  \A d \in Dependencies :
    LET v == e.says[d] IN
    v # Absent =>
      IF d = Sound THEN r.sounds = NoText \/ v = AnyValue \/ v \in r.sounds
      ELSE IF r.values[d] = Absent THEN v # AnyValue ELSE r.values[d] = v

Matches(e, r) ==
  /\ \A f \in Asked : Meets(e, f, constraints[f])
  /\ r # NoReference => Fits(e, r)
GenericOf(e)   == Cardinality({f \in Asked : e.says[f] = AnyValue /\ constraints[f] # AnyValue})
UnmatchedOf(e) == Cardinality({k \in Defaulted : ~Meets(e, k, defaults[k])})

\* Fewer generic matches, and then more defaults, make a better match.
Precedes(g1, u1, g2, u2) == g1 < g2 \/ (g1 = g2 /\ u1 < u2)

Searched == IF query.matchAll THEN Len(Entries) ELSE Len(customs)

\* getCurrentValue: a pronoun that displays nothing is none.
Displayed(i) == IF i # 0 /\ Entries[i].word # Empty THEN i ELSE 0

\* getFirstPossibleValue, up to its loop.
Search(q) ==
  /\ phase \in {"idle", "answered"}
  /\ query' = q
  /\ generic' = 0 /\ unmatched' = 0
  /\ IF q.reference = NoReference /\ IsMatchingInitialPronoun
       THEN phase' = "answered" /\ best' = Displayed(initial) /\ at' = 0
       ELSE phase' = "search" /\ best' = 0 /\ at' = 1
  /\ UNCHANGED conceptVars

\* Mutant of PerfectMatch: the loop ends with the first match that is not generic.
PerfectMatch_AnyDefaults(g, u) == g = 0
PerfectMatch(g, u) == g = 0 /\ u = 0

\* A step of the loop, which ends early with a match that cannot be improved.
Consider ==
  /\ phase = "search" /\ at <= Searched
  /\ LET e == Entries[at]
         g == GenericOf(e)
         u == UnmatchedOf(e)
     IN  IF Matches(e, query.reference) /\ (best = 0 \/ Precedes(g, u, generic, unmatched))
         THEN /\ best' = at /\ generic' = g /\ unmatched' = u
              /\ at' = IF PerfectMatch(g, u) THEN Searched + 1 ELSE at + 1
         ELSE at' = at + 1 /\ UNCHANGED <<best, generic, unmatched>>
  /\ UNCHANGED <<conceptVars, phase, query>>

\* With returnDefault, the first pronoun of all if none matches.
Conclude ==
  /\ phase = "search" /\ at = Searched + 1
  /\ phase' = "answered"
  /\ best' = Displayed(IF best = 0 /\ query.returnDefault THEN 1 ELSE best)
  /\ at' = 0 /\ generic' = 0 /\ unmatched' = 0
  /\ UNCHANGED <<conceptVars, query>>

Next ==
  \/ Construct \/ (\E w \in Words : ConstructFrom(w))
  \/ Recognize \/ Recognized \/ NotRecognized \/ Destroy
  \/ (\E f \in Features : ClearConstraint(f)) \/ (\E a \in Asks : PutConstraint(a[1], a[2]))
  \/ Reset
  \/ \E q \in Queries : Search(q)
  \/ Consider \/ Conclude

Spec == Init /\ [][Next]_vars

-----------------------------------------------------------------------------
\* i is the first of the best matches among the first n pronouns.
IsBest(i, n, r) ==
  /\ i \in 1..n /\ Matches(Entries[i], r)
  /\ \A j \in 1..n : Matches(Entries[j], r) =>
       LET gi == GenericOf(Entries[i])  ui == UnmatchedOf(Entries[i])
           gj == GenericOf(Entries[j])  uj == UnmatchedOf(Entries[j])
       IN  gi < gj \/ (gi = gj /\ (ui < uj \/ (ui = uj /\ i <= j)))

\* Whatever the order of the table, and wherever the loop ends, the answer is
\* the pronoun with the fewest generic matches, among those the one with the
\* most defaults, among those the first: a customized one before the language's
\* own.  If none matches, it is the first of all or none; if what it is displays
\* nothing, there is none.
BestIsChosen ==
  phase = "answered" =>
    IF query.reference = NoReference /\ IsMatchingInitialPronoun THEN best = Displayed(initial)
    ELSE \/ \E i \in 1..Searched : IsBest(i, Searched, query.reference) /\ best = Displayed(i)
         \/ /\ \A j \in 1..Searched : ~Matches(Entries[j], query.reference)
            /\ best = Displayed(IF query.returnDefault THEN 1 ELSE 0)

\* What the pronouns that are spelled like the one of the concept say of k.
Said(k) ==
  {Entries[i].says[k] :
     i \in {j \in DOMAIN Entries : Spelling[Entries[j].word] = Spelling[Entries[initial].word]}}

\* "There is some ambiguity" (PronounConcept.cpp:234): what a pronoun leaves open
\* is no default, whatever the order of the table; what all of its spelling that
\* say anything agree on is one.
AmbiguityCleared ==
  (phase \in {"idle", "search", "answered"} /\ initial # 0) =>
    \A k \in Keys, v \in Values :
      defaults[k] = v <=> v \in Said(k) /\ Said(k) \subseteq {v, Absent}

\* "If you don't modify it, don't change it", and a pronoun one constrains to be
\* what it is "Remains unchanged" (src/test/resources/inflection/dialog/pronoun/
\* en.xml): to ask for what the pronoun shown says anyway does not change it.
Shown(i) ==
  IF IsMatchingInitialPronoun THEN i = initial ELSE IsBest(i, Len(Entries), NoReference)
ConfirmedIsUnchanged ==
  [][\A a \in Asks, i \in DOMAIN Entries :
       (PutConstraint(a[1], a[2]) /\ Shown(i) /\ Entries[i].says[a[1]] = a[2]) => Shown(i)']_vars
=============================================================================
