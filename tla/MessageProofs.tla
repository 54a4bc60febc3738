--------------------------- MODULE MessageProofs ---------------------------
(***************************************************************************)
(* Proofs about Pronouns, for every table, whatever is customized and      *)
(* however the concept is constrained.  The loops of the code are steps, so*)
(* what they have found is an invariant of the pronouns looked at so far:  *)
(* RecognizedSoFar for the defaults, SoFarBest for the search.             *)
(*                                                                         *)
(* And about the messages that drive them, or show another concept: that   *)
(* they keep the invariant, that a selector takes the key its formatter    *)
(* shows, that what markup escapes is read back, and that a quantity tells *)
(* its number and keeps the case that was asked for.  That a text says a   *)
(* piece, or has no others than some, is kept by what joins texts and      *)
(* marks them up.                                                          *)
(***************************************************************************)
EXTENDS MessageFunctions, FiniteSetTheorems, SequenceTheorems, WellFoundedInduction, TLAPS

SpelledBefore(n) == {i \in 1..n : i <= Len(Entries) /\ Spelling[Entries[i].word] = query}

\* What the lookup of a pronoun knows when it has looked at the first at - 1.
RecognizedSoFar ==
  /\ at \in 1..(Len(Entries) + 1)
  /\ IF initial = 0 THEN SpelledBefore(at - 1) = {} ELSE initial \in SpelledBefore(at - 1)
  /\ \A k \in Keys :
       /\ defaults[k] = Absent <=> \A i \in SpelledBefore(at - 1) : Entries[i].says[k] = Absent
       /\ \A v \in Values :
            defaults[k] = v <=>
              /\ \E i \in SpelledBefore(at - 1) : Entries[i].says[k] = v
              /\ \A i \in SpelledBefore(at - 1) : Entries[i].says[k] \in {v, Absent}

\* What the search knows when it has looked at the first at - 1.
SoFarBest ==
  /\ at \in 1..(Searched + 1)
  /\ ~(query.reference = NoReference /\ IsMatchingInitialPronoun)
  /\ IF best = 0
       THEN \A j \in 1..(at - 1) : ~Matches(Entries[j], query.reference)
       ELSE /\ IsBest(best, at - 1, query.reference)
            /\ generic = GenericOf(Entries[best]) /\ unmatched = UnmatchedOf(Entries[best])

Inv ==
  /\ TypeOK
  /\ phase = "none" =>
       /\ customs = << >> /\ defaults = NoDefaults
       /\ initial = 0 /\ constraints = NoConstraints
  /\ phase = "recognize" =>
       RecognizedSoFar /\ customs = << >> /\ constraints = NoConstraints
  /\ phase = "search" => SoFarBest
  /\ AmbiguityCleared
  /\ BestIsChosen

LEMMA EntriesFacts ==
  ASSUME table \in Tables, customs \in Customs
  PROVE  /\ Entries \in Seq(Pronoun)
         /\ Len(Entries) \in Nat \ {0}
         /\ Len(customs) \in Nat /\ Len(customs) <= Len(Entries)
         /\ \A i \in 1..Len(Entries) :
              Entries[i].word \in Words /\ Entries[i].says \in [Keys -> Values \cup {AnyValue, Absent}]
<1>1. table \in Seq(Pronoun) /\ customs \in Seq(Pronoun) /\ table # << >>
  BY PronounAssumption
<1>2. Len(table) \in Nat /\ Len(customs) \in Nat /\ Len(table) # 0
  BY <1>1, EmptySeq, LenProperties
<1>3. Entries \in Seq(Pronoun) /\ Len(Entries) = Len(customs) + Len(table)
  BY <1>1, ConcatProperties DEF Entries
<1>4. \A i \in 1..Len(Entries) : Entries[i] \in Pronoun
  BY <1>3, ElementOfSeq
<1> QED BY <1>2, <1>3, <1>4 DEF Pronoun

LEMMA JoinedTables ==
  ASSUME NEW c \in Customs, NEW t \in Tables
  PROVE  Len(c \o t) \in Nat
<1>1. c \in Seq(Pronoun) /\ t \in Seq(Pronoun)
  BY PronounAssumption
<1>2. c \o t \in Seq(Pronoun)
  BY <1>1, ConcatProperties
<1> QED BY <1>2, LenProperties

\* Counts of features are numbers.
LEMMA Counts ==
  ASSUME NEW e
  PROVE  GenericOf(e) \in Nat /\ UnmatchedOf(e) \in Nat
<1>1. IsFiniteSet({f \in Asked : e.says[f] = AnyValue /\ constraints[f] # AnyValue})
  BY PronounAssumption, FS_Subset DEF Asked, Keys
<1>2. IsFiniteSet({k \in Defaulted : ~Meets(e, k, defaults[k])})
  BY PronounAssumption, FS_Subset DEF Defaulted
<1> QED BY <1>1, <1>2, FS_CardinalityType DEF GenericOf, UnmatchedOf

LEMMA SearchedFacts ==
  ASSUME TypeOK, phase = "search"
  PROVE  Searched \in 0..Len(Entries)
BY EntriesFacts DEF TypeOK, Searched

-----------------------------------------------------------------------------
LEMMA InitInv == Init => Inv
<1> SUFFICES ASSUME Init PROVE Inv
  OBVIOUS
<1>1. customs \in Customs /\ table \in Tables
  BY PronounAssumption DEF Init
<1>2. Len(Entries) \in Nat
  BY <1>1, EntriesFacts
<1>3. TypeOK
  BY <1>1, <1>2, PronounAssumption DEF Init, TypeOK, NoDefaults, NoConstraints, Keys
<1>4. AmbiguityCleared /\ BestIsChosen
  BY DEF Init, AmbiguityCleared, BestIsChosen
<1> QED BY <1>3, <1>4 DEF Init, Inv

\* Steps that leave the pronouns and the constraints as they are.
LEMMA SameMatches ==
  ASSUME UNCHANGED <<table, customs, defaults, initial, constraints>>
  PROVE  /\ Entries' = Entries /\ Asked' = Asked
         /\ IsMatchingInitialPronoun' = IsMatchingInitialPronoun
         /\ \A e : GenericOf(e)' = GenericOf(e) /\ UnmatchedOf(e)' = UnmatchedOf(e)
         /\ \A e, r : Matches(e, r)' = Matches(e, r)
         /\ \A i, n, r : IsBest(i, n, r)' = IsBest(i, n, r)
<1>1. Entries' = Entries /\ Asked' = Asked /\ Defaulted' = Defaulted
  BY DEF Entries, Asked, Defaulted
<1>2. IsMatchingInitialPronoun' = IsMatchingInitialPronoun
  BY <1>1 DEF IsMatchingInitialPronoun
<1>3. \A e : GenericOf(e)' = GenericOf(e) /\ UnmatchedOf(e)' = UnmatchedOf(e)
  BY <1>1 DEF GenericOf, UnmatchedOf, Meets
<1>4. \A e, r : Matches(e, r)' = Matches(e, r)
  BY <1>1 DEF Matches, Meets, Fits
<1>5. \A i, n, r : IsBest(i, n, r)' = IsBest(i, n, r)
  BY <1>1, <1>3, <1>4 DEF IsBest
<1> QED BY <1>1, <1>2, <1>3, <1>4, <1>5

\* What is ambiguous stays cleared while the pronouns and the defaults stay.
LEMMA StillCleared ==
  ASSUME AmbiguityCleared, UNCHANGED <<table, customs, defaults, initial>>,
         phase' \in {"idle", "search", "answered"} => phase \in {"idle", "search", "answered"}
  PROVE  AmbiguityCleared'
<1>1. Entries' = Entries
  BY DEF Entries
<1>2. \A k : Said(k)' = Said(k)
  BY <1>1 DEF Said
<1> QED BY <1>2 DEF AmbiguityCleared

LEMMA SearchStep ==
  ASSUME Inv, NEW q \in Queries, Search(q)
  PROVE  Inv'
<1> USE DEF Search, conceptVars
<1>1. phase # "none" /\ phase # "recognize" /\ phase # "search"
  BY DEF Search
<1>2. /\ Entries' = Entries
      /\ IsMatchingInitialPronoun' = IsMatchingInitialPronoun
  BY SameMatches
<1>3. Displayed(initial) \in 0..Len(Entries)
  BY EntriesFacts DEF Inv, TypeOK, Displayed
<1>4. TypeOK'
  BY <1>1, <1>2, <1>3, EntriesFacts DEF Inv, TypeOK
<1>5. (phase = "search" => SoFarBest)'
  <2> SUFFICES ASSUME phase' = "search"
               PROVE  SoFarBest'
    OBVIOUS
  <2>1. ~(query' = q /\ q.reference = NoReference /\ IsMatchingInitialPronoun) /\ at' = 1 /\ best' = 0
    OBVIOUS
  <2>2. Searched' \in Nat
    BY <1>2, EntriesFacts DEF TypeOK, Searched, Inv
  <2>3. at' \in 1..(Searched' + 1)
    <3>1. \A n \in Nat : 1 \in 1..(n + 1)
      OBVIOUS
    <3> QED BY <2>1, <2>2, <3>1
  <2>4. 1..(at' - 1) = {}
    BY <2>1
  <2>5. ~(query.reference = NoReference /\ IsMatchingInitialPronoun)'
    BY <1>2, <2>1
  <2> QED BY <2>1, <2>3, <2>4, <2>5 DEF SoFarBest
<1>6. AmbiguityCleared'
  BY StillCleared DEF Inv
<1>7. BestIsChosen'
  <2> SUFFICES ASSUME phase' = "answered" PROVE BestIsChosen'
    BY DEF BestIsChosen
  <2>1. q.reference = NoReference /\ IsMatchingInitialPronoun /\ best' = Displayed(initial)
    OBVIOUS
  <2>2. Displayed(initial)' = Displayed(initial)
    BY <1>2 DEF Displayed
  <2> QED BY <1>2, <2>1, <2>2 DEF BestIsChosen
<1> QED BY <1>1, <1>4, <1>5, <1>6, <1>7 DEF Inv

LEMMA ConsiderStep ==
  ASSUME Inv, Consider
  PROVE  Inv'
<1> USE DEF conceptVars
<1> DEFINE e == Entries[at]
           g == GenericOf(e)
           u == UnmatchedOf(e)
           r == query.reference
           Taken == Matches(e, r) /\ (best = 0 \/ Precedes(g, u, generic, unmatched))
<1>1. /\ phase = "search" /\ phase' = "search" /\ query' = query
      /\ UNCHANGED <<table, customs, defaults, initial, constraints>>
      /\ SoFarBest /\ TypeOK
  BY DEF Consider, Inv
<1>2. /\ Entries' = Entries /\ IsMatchingInitialPronoun' = IsMatchingInitialPronoun
      /\ Searched' = Searched
      /\ \A x : GenericOf(x)' = GenericOf(x) /\ UnmatchedOf(x)' = UnmatchedOf(x)
      /\ \A x, y : Matches(x, y)' = Matches(x, y)
      /\ \A i, n, y : IsBest(i, n, y)' = IsBest(i, n, y)
  BY <1>1, SameMatches DEF Searched
<1>3. Searched \in 0..Len(Entries) /\ Len(Entries) \in Nat /\ at \in 1..Searched
  BY <1>1, SearchedFacts, EntriesFacts DEF TypeOK, SoFarBest, Consider
<1>4. \A x : GenericOf(x) \in Nat /\ UnmatchedOf(x) \in Nat
  BY Counts
<1>5. IF Taken
      THEN /\ best' = at /\ generic' = g /\ unmatched' = u
           /\ at' = IF PerfectMatch(g, u) THEN Searched + 1 ELSE at + 1
      ELSE at' = at + 1 /\ UNCHANGED <<best, generic, unmatched>>
  BY DEF Consider
<1>6. TypeOK'
  BY <1>1, <1>2, <1>3, <1>4, <1>5 DEF TypeOK
<1>7. SoFarBest'
  <2>1. at' \in 1..(Searched + 1)
    BY <1>3, <1>5
  <2>2. CASE Taken
    <3>1. \A j \in 1..(at - 1) : Matches(Entries[j], r) =>
            g < GenericOf(Entries[j]) \/ (g = GenericOf(Entries[j]) /\ u < UnmatchedOf(Entries[j]))
      BY <1>1, <1>3, <1>4, <2>2 DEF SoFarBest, IsBest, Precedes
    <3>2. \A n \in Nat : n = at \/ (PerfectMatch(g, u) /\ n = Searched) => IsBest(at, n, r)
      BY <1>3, <1>4, <2>2, <3>1 DEF IsBest, PerfectMatch
    <3>3. IsBest(at, at' - 1, r)
      <4>1. at \in Nat /\ Searched \in Nat
        BY <1>3
      <4>2. CASE PerfectMatch(g, u)
        <5>1. at' - 1 = Searched
          BY <1>5, <2>2, <4>1, <4>2
        <5> QED BY <3>2, <4>1, <4>2, <5>1
      <4>3. CASE ~PerfectMatch(g, u)
        <5>1. at' - 1 = at
          BY <1>5, <2>2, <4>1, <4>3
        <5> QED BY <3>2, <4>1, <5>1
      <4> QED BY <4>2, <4>3
    <3>4. best' = at /\ at # 0 /\ generic' = g /\ unmatched' = u
      BY <1>3, <1>5, <2>2
    <3>5. IsBest(best, at - 1, query.reference)'
      BY <1>1, <1>2, <3>3, <3>4
    <3>6. Entries[best]' = e
      BY <1>2, <3>4
    <3>7. generic' = GenericOf(Entries[best])' /\ unmatched' = UnmatchedOf(Entries[best])'
      BY <1>2, <3>4, <3>6
    <3>8. ~(query.reference = NoReference /\ IsMatchingInitialPronoun)'
      BY <1>1, <1>2 DEF SoFarBest
    <3>9. at' \in 1..(Searched' + 1)
      BY <1>2, <2>1
    <3> QED BY <3>4, <3>5, <3>7, <3>8, <3>9 DEF SoFarBest
  <2>3. CASE ~Taken
    <3>1. at' = at + 1 /\ best' = best /\ generic' = generic /\ unmatched' = unmatched
      BY <1>5, <2>3
    <3>2. CASE best = 0
      BY <1>1, <1>2, <1>3, <2>1, <2>3, <3>1, <3>2 DEF SoFarBest
    <3>3. CASE best # 0
      <4>1. IsBest(best, at, r)
        BY <1>1, <1>3, <1>4, <2>3, <3>3 DEF SoFarBest, IsBest, Precedes
      <4> QED BY <1>1, <1>2, <1>3, <2>1, <3>1, <3>3, <4>1 DEF SoFarBest
    <3> QED BY <3>2, <3>3
  <2> QED BY <2>2, <2>3
<1>8. AmbiguityCleared' /\ BestIsChosen'
  BY <1>1, StillCleared DEF Inv, BestIsChosen
<1> QED BY <1>1, <1>6, <1>7, <1>8 DEF Inv

LEMMA ConcludeStep ==
  ASSUME Inv, Conclude
  PROVE  Inv'
<1>1. /\ phase = "search" /\ phase' = "answered" /\ query' = query
      /\ UNCHANGED <<table, customs, defaults, initial, constraints>>
      /\ SoFarBest /\ TypeOK /\ AmbiguityCleared
  BY DEF Conclude, Inv, conceptVars
<1>2. /\ Entries' = Entries /\ IsMatchingInitialPronoun' = IsMatchingInitialPronoun
      /\ Searched' = Searched
      /\ \A x, y : Matches(x, y)' = Matches(x, y)
      /\ \A i, n, y : IsBest(i, n, y)' = IsBest(i, n, y)
  BY <1>1, SameMatches DEF Searched
<1>3. \A i : Displayed(i)' = Displayed(i)
  BY <1>2 DEF Displayed
<1>4. Searched \in 0..Len(Entries) /\ Len(Entries) \in Nat \ {0} /\ best \in 0..Len(Entries)
  BY <1>1, SearchedFacts, EntriesFacts DEF TypeOK
<1>5. /\ best' = Displayed(IF best = 0 /\ query.returnDefault THEN 1 ELSE best)
      /\ at = Searched + 1 /\ at' = 0 /\ generic' = 0 /\ unmatched' = 0
  BY DEF Conclude
<1>6. TypeOK'
  <2>1. best' \in 0..Len(Entries)
    BY <1>4, <1>5 DEF Displayed
  <2> QED BY <1>1, <1>2, <1>4, <1>5, <2>1 DEF TypeOK
<1>7. AmbiguityCleared'
  BY <1>1, StillCleared
<1>8. BestIsChosen'
  <2>1. ~(query.reference = NoReference /\ IsMatchingInitialPronoun) /\ at - 1 = Searched
    BY <1>1, <1>4, <1>5 DEF SoFarBest
  <2>2. CASE best = 0
    <3>1. \A j \in 1..Searched : ~Matches(Entries[j], query.reference)
      BY <1>1, <2>1, <2>2 DEF SoFarBest
    <3>2. best' = Displayed(IF query.returnDefault THEN 1 ELSE 0)
      BY <1>5, <2>2
    <3> QED BY <1>1, <1>2, <1>3, <2>1, <3>1, <3>2 DEF BestIsChosen
  <2>3. CASE best # 0
    <3>1. IsBest(best, Searched, query.reference)
      BY <1>1, <2>1, <2>3 DEF SoFarBest
    <3>2. best \in 1..Searched
      BY <3>1 DEF IsBest
    <3>3. best' = Displayed(best)
      BY <1>5, <2>3
    <3> QED BY <1>1, <1>2, <1>3, <2>1, <3>1, <3>2, <3>3 DEF BestIsChosen
  <2> QED BY <2>2, <2>3
<1> QED BY <1>1, <1>6, <1>7, <1>8 DEF Inv

-----------------------------------------------------------------------------
LEMMA RecognizeStep ==
  ASSUME Inv, Recognize
  PROVE  Inv'
<1> DEFINE e == Entries[at]
           S == SpelledBefore(at - 1)
           T == SpelledBefore(at)
           Same == Spelling[e.word] = query
<1>1. /\ phase = "recognize" /\ phase' = "recognize" /\ query' = query
      /\ customs = << >> /\ constraints = NoConstraints
      /\ UNCHANGED <<table, customs, constraints, best, generic, unmatched>>
      /\ RecognizedSoFar /\ TypeOK
  BY DEF Recognize, Inv
<1>2. at \in 1..Len(Entries) /\ at' = at + 1 /\ Len(Entries) \in Nat /\ Entries' = Entries
  BY <1>1, EntriesFacts DEF RecognizedSoFar, TypeOK, Recognize, Entries
<1>3. e.says \in [Keys -> Values \cup {AnyValue, Absent}]
  BY <1>1, <1>2, EntriesFacts DEF TypeOK
<1>4. IF Same THEN /\ defaults' = Agreed(defaults, e.says)
                   /\ initial' = IF initial = 0 THEN at ELSE initial
              ELSE UNCHANGED <<defaults, initial>>
  BY DEF Recognize
<1>5. T = IF Same THEN S \cup {at} ELSE S
  BY <1>2 DEF SpelledBefore
<1>6. SpelledBefore(at - 1)' = T
  <2>1. at' - 1 = at
    BY <1>2
  <2> QED BY <1>1, <1>2, <2>1 DEF SpelledBefore
<1>7. TypeOK'
  <2>1. defaults' \in [Keys -> Values \cup {AnyValue, Absent}]
    BY <1>1, <1>3, <1>4 DEF TypeOK, Agreed
  <2>2. initial' \in 0..Len(Entries) /\ at' \in 0..(Len(Entries) + 1)
    BY <1>1, <1>2, <1>4 DEF TypeOK
  <2> QED BY <1>1, <1>2, <2>1, <2>2 DEF TypeOK
<1>8. RecognizedSoFar'
  <2> HIDE DEF S, T, Same, e
  <2>1. IF initial' = 0 THEN T = {} ELSE initial' \in T
    <3>1. IF initial = 0 THEN S = {} ELSE initial \in S
      BY <1>1 DEF RecognizedSoFar, S
    <3> QED BY <1>2, <1>4, <1>5, <3>1
  <2>2. ASSUME NEW k \in Keys
        PROVE  /\ defaults'[k] = Absent <=> \A i \in T : Entries[i].says[k] = Absent
               /\ \A v \in Values :
                    defaults'[k] = v <=>
                      /\ \E i \in T : Entries[i].says[k] = v
                      /\ \A i \in T : Entries[i].says[k] \in {v, Absent}
    <3>1. /\ defaults[k] = Absent <=> \A i \in S : Entries[i].says[k] = Absent
          /\ \A v \in Values :
               defaults[k] = v <=>
                 /\ \E i \in S : Entries[i].says[k] = v
                 /\ \A i \in S : Entries[i].says[k] \in {v, Absent}
      BY <1>1 DEF RecognizedSoFar, S
    <3>2. CASE ~Same
      BY <1>4, <1>5, <3>1, <3>2
    <3>3. CASE Same
      <4>1. defaults'[k] = IF e.says[k] = Absent THEN defaults[k]
                           ELSE IF defaults[k] \in {Absent, e.says[k]} THEN e.says[k] ELSE AnyValue
        BY <1>4, <3>3 DEF Agreed
      <4>2. T = S \cup {at} /\ Entries[at] = e
        BY <1>5, <3>3 DEF e
      <4>3. CASE e.says[k] = Absent
        BY <3>1, <4>1, <4>2, <4>3, PronounAssumption
      <4>4. CASE e.says[k] # Absent /\ defaults[k] = Absent
        BY <3>1, <4>1, <4>2, <4>4, PronounAssumption
      <4>5. CASE e.says[k] # Absent /\ defaults[k] = e.says[k]
        BY <3>1, <4>1, <4>2, <4>5, PronounAssumption
      <4>6. CASE e.says[k] # Absent /\ defaults[k] \notin {Absent, e.says[k]}
        <5>1. defaults'[k] = AnyValue /\ AnyValue # Absent /\ AnyValue \notin Values
          BY <4>1, <4>6, PronounAssumption
        <5>2. PICK i \in S : Entries[i].says[k] # Absent
          BY <3>1, <4>6
        <5>3. ASSUME NEW v \in Values, \A j \in T : Entries[j].says[k] \in {v, Absent}
              PROVE  FALSE
          <6>1. e.says[k] = v /\ Entries[i].says[k] = v
            BY <4>2, <4>6, <5>2, <5>3
          <6>2. \A j \in S : Entries[j].says[k] \in {v, Absent}
            BY <4>2, <5>3
          <6>3. defaults[k] = v
            BY <3>1, <5>2, <6>1, <6>2
          <6> QED BY <4>6, <6>1, <6>3
        <5> QED BY <4>2, <4>6, <5>1, <5>3
      <4> QED BY <4>3, <4>4, <4>5, <4>6
    <3> QED BY <3>2, <3>3
  <2>3. at' \in 1..(Len(Entries') + 1)
    BY <1>2
  <2> QED BY <1>2, <1>6, <2>1, <2>2, <2>3 DEF RecognizedSoFar
<1>9. AmbiguityCleared' /\ BestIsChosen'
  BY <1>1 DEF AmbiguityCleared, BestIsChosen
<1> QED BY <1>1, <1>7, <1>8, <1>9 DEF Inv

LEMMA ConstructFromStep ==
  ASSUME Inv, NEW w \in Words, ConstructFrom(w)
  PROVE  Inv'
<1>1. /\ phase = "none" /\ phase' = "recognize" /\ query' = Folded[w] /\ at' = 1
      /\ UNCHANGED <<table, customs, defaults, initial, constraints, best, generic, unmatched>>
      /\ customs = << >> /\ constraints = NoConstraints
      /\ initial = 0 /\ defaults = NoDefaults /\ TypeOK
  BY DEF ConstructFrom, conceptVars, Inv
<1>2. Len(Entries) \in Nat \ {0} /\ Entries' = Entries
  BY <1>1, EntriesFacts DEF TypeOK, Entries
<1>3. TypeOK'
  BY <1>1, <1>2 DEF TypeOK
<1>4. RecognizedSoFar'
  <2>1. SpelledBefore(at - 1)' = {}
    <3>1. at' - 1 = 0 /\ 1..0 = {}
      BY <1>1
    <3> QED BY <3>1 DEF SpelledBefore
  <2>2. \A k \in Keys : defaults'[k] = Absent /\ Absent \notin Values
    BY <1>1, PronounAssumption DEF NoDefaults
  <2>3. at' \in 1..(Len(Entries') + 1)
    BY <1>1, <1>2
  <2> QED BY <1>1, <1>2, <2>1, <2>2, <2>3 DEF RecognizedSoFar
<1> QED BY <1>1, <1>3, <1>4 DEF Inv, AmbiguityCleared, BestIsChosen

LEMMA RecognizedStep ==
  ASSUME Inv, Recognized
  PROVE  Inv'
<1>1. /\ phase = "recognize" /\ phase' = "idle" /\ at = Len(Entries) + 1 /\ initial # 0
      /\ defaults' = [k \in Keys |-> IF defaults[k] = AnyValue THEN Absent ELSE defaults[k]]
      /\ UNCHANGED <<table, customs, initial, constraints>> /\ Rest("idle")
      /\ RecognizedSoFar /\ TypeOK
  BY DEF Recognized, Rest, Inv
<1>2. Len(Entries) \in Nat /\ Entries' = Entries
  BY <1>1, EntriesFacts DEF TypeOK, Entries
<1>3. TypeOK'
  <2>1. defaults' \in [Keys -> Values \cup {AnyValue, Absent}] /\ \A k \in Keys : defaults'[k] # AnyValue
    BY <1>1, PronounAssumption DEF TypeOK
  <2> QED BY <1>1, <1>2, <2>1 DEF TypeOK, Rest
<1>4. AmbiguityCleared'
  <2> DEFINE S == SpelledBefore(at - 1)
  <2>1. at - 1 = Len(Entries) /\ DOMAIN Entries = 1..Len(Entries)
    BY <1>1, <1>2, EntriesFacts, LenProperties DEF TypeOK
  <2>2. initial \in S
    BY <1>1 DEF RecognizedSoFar
  <2>3. S = {j \in DOMAIN Entries : Spelling[Entries[j].word] = Spelling[Entries[initial].word]}
    BY <1>2, <2>1, <2>2 DEF SpelledBefore
  <2>4. \A k : Said(k)' = {Entries[i].says[k] : i \in S}
    BY <1>1, <1>2, <2>3 DEF Said
  <2> HIDE DEF S
  <2>5. ASSUME NEW k \in Keys, NEW v \in Values
        PROVE  defaults'[k] = v <=> v \in Said(k)' /\ Said(k)' \subseteq {v, Absent}
    <3>1. defaults'[k] = v <=> defaults[k] = v
      BY <1>1, PronounAssumption
    <3>2. defaults[k] = v <=> /\ \E i \in S : Entries[i].says[k] = v
                              /\ \A i \in S : Entries[i].says[k] \in {v, Absent}
      BY <1>1 DEF RecognizedSoFar, S
    <3> QED BY <2>4, <3>1, <3>2
  <2> QED BY <2>5 DEF AmbiguityCleared
<1>5. BestIsChosen'
  BY <1>1 DEF BestIsChosen
<1> QED BY <1>1, <1>3, <1>4, <1>5 DEF Inv

LEMMA NotRecognizedStep ==
  ASSUME Inv, NotRecognized
  PROVE  Inv'
<1>1. /\ phase = "recognize" /\ phase' = "none" /\ initial = 0
      /\ UNCHANGED <<table, customs, defaults, initial, constraints>> /\ Rest("none")
      /\ RecognizedSoFar /\ customs = << >> /\ constraints = NoConstraints /\ TypeOK
  BY DEF NotRecognized, Rest, conceptVars, Inv
<1>2. Len(Entries) \in Nat /\ Entries' = Entries
  BY <1>1, EntriesFacts DEF TypeOK, Entries
<1>3. \A k \in Keys : defaults[k] = Absent
  BY <1>1 DEF RecognizedSoFar
<1>4. defaults = NoDefaults
  BY <1>1, <1>3 DEF TypeOK, NoDefaults
<1>5. TypeOK'
  BY <1>1, <1>2, <1>3, PronounAssumption DEF TypeOK, Rest
<1> QED BY <1>1, <1>4, <1>5 DEF Inv, AmbiguityCleared, BestIsChosen

LEMMA ConstructStep ==
  ASSUME Inv, Construct
  PROVE  Inv'
<1>1. /\ phase = "none" /\ phase' = "idle" /\ initial = 0
      /\ customs' \in Customs /\ defaults' \in Givens
      /\ UNCHANGED <<table, initial, constraints>> /\ Rest("idle") /\ TypeOK
  BY DEF Construct, Rest, Inv
<1>2. table' \in Tables
  BY <1>1 DEF TypeOK
<1>3. Len(Entries') \in Nat
  BY <1>1, <1>2, JoinedTables DEF Entries
<1>4. defaults' \in [Keys -> Values \cup {AnyValue, Absent}] /\ \A k \in Keys : defaults'[k] # AnyValue
  BY <1>1, PronounAssumption
<1>5. TypeOK'
  BY <1>1, <1>3, <1>4 DEF TypeOK, Rest
<1> QED BY <1>1, <1>5 DEF Inv, AmbiguityCleared, BestIsChosen

LEMMA DestroyStep ==
  ASSUME Inv, Destroy
  PROVE  Inv'
<1>1. /\ phase' = "none" /\ customs' = << >> /\ defaults' = NoDefaults
      /\ initial' = 0 /\ constraints' = NoConstraints /\ table' = table
      /\ Rest("none") /\ TypeOK
  BY DEF Destroy, Rest, Inv
<1>2. Len(Entries') \in Nat
  <2>1. table \in Tables /\ << >> \in Customs
    BY <1>1, PronounAssumption DEF TypeOK
  <2> QED BY <1>1, <2>1, JoinedTables DEF Entries
<1>3. TypeOK'
  BY <1>1, <1>2, PronounAssumption DEF TypeOK, Rest, NoDefaults, NoConstraints, Keys
<1> QED BY <1>1, <1>3 DEF Inv, AmbiguityCleared, BestIsChosen

LEMMA ConstrainStep ==
  ASSUME Inv, NEW c \in [Features -> Values \cup {AnyValue, Absent}], Constrain(c)
  PROVE  Inv'
<1>1. /\ phase \in {"idle", "answered"} /\ phase' = "idle" /\ constraints' = c
      /\ UNCHANGED <<table, customs, defaults, initial>> /\ Rest("idle") /\ TypeOK
  BY DEF Constrain, Rest, Inv
<1>2. Len(Entries) \in Nat /\ Entries' = Entries
  BY <1>1, EntriesFacts DEF TypeOK, Entries
<1>3. TypeOK'
  BY <1>1, <1>2 DEF TypeOK, Rest
<1>4. AmbiguityCleared'
  BY <1>1, StillCleared DEF Inv
<1> QED BY <1>1, <1>3, <1>4 DEF Inv, BestIsChosen

LEMMA InvStep == Inv /\ [Next]_vars => Inv'
<1> SUFFICES ASSUME Inv, [Next]_vars PROVE Inv'
  OBVIOUS
<1>1. TypeOK
  BY DEF Inv
<1>2. CASE Construct
  BY <1>2, ConstructStep
<1>3. ASSUME NEW w \in Words, ConstructFrom(w) PROVE Inv'
  BY <1>3, ConstructFromStep
<1>4. CASE Recognize
  BY <1>4, RecognizeStep
<1>5. CASE Recognized
  BY <1>5, RecognizedStep
<1>6. CASE NotRecognized
  BY <1>6, NotRecognizedStep
<1>7. CASE Destroy
  BY <1>7, DestroyStep
<1>8. ASSUME NEW f \in Features, ClearConstraint(f) PROVE Inv'
  <2>1. [constraints EXCEPT ![f] = Absent] \in [Features -> Values \cup {AnyValue, Absent}]
    BY <1>1 DEF TypeOK
  <2> QED BY <1>8, <2>1, ConstrainStep DEF ClearConstraint
<1>9. ASSUME NEW a \in Asks, PutConstraint(a[1], a[2]) PROVE Inv'
  <2>1. a[1] \in Features /\ a[2] \in Values
    BY PronounAssumption
  <2>2. [constraints EXCEPT ![a[1]] = a[2]] \in [Features -> Values \cup {AnyValue, Absent}]
    BY <1>1, <2>1 DEF TypeOK
  <2> QED BY <1>9, <2>2, ConstrainStep DEF PutConstraint
<1>10. CASE Reset
  <2>1. NoConstraints \in [Features -> Values \cup {AnyValue, Absent}]
    BY DEF NoConstraints
  <2> QED BY <1>10, <2>1, ConstrainStep DEF Reset
<1>11. ASSUME NEW q \in Queries, Search(q) PROVE Inv'
  BY <1>11, SearchStep
<1>12. CASE Consider
  BY <1>12, ConsiderStep
<1>13. CASE Conclude
  BY <1>13, ConcludeStep
<1>14. CASE UNCHANGED vars
  <2> USE <1>14 DEF vars, conceptVars, searchVars
  <2>1. /\ Entries' = Entries /\ IsMatchingInitialPronoun' = IsMatchingInitialPronoun
        /\ Searched' = Searched
        /\ \A x : GenericOf(x)' = GenericOf(x) /\ UnmatchedOf(x)' = UnmatchedOf(x)
        /\ \A x, y : Matches(x, y)' = Matches(x, y)
        /\ \A i, n, y : IsBest(i, n, y)' = IsBest(i, n, y)
    BY SameMatches DEF Searched
  <2>2. \A i : Displayed(i)' = Displayed(i)
    BY <2>1 DEF Displayed
  <2>3. \A n : SpelledBefore(n)' = SpelledBefore(n)
    BY <2>1 DEF SpelledBefore
  <2>4. TypeOK' /\ AmbiguityCleared'
    BY <1>1, <2>1, StillCleared DEF Inv, TypeOK
  <2>5. RecognizedSoFar => RecognizedSoFar'
    BY <2>1, <2>3 DEF RecognizedSoFar
  <2>6. SoFarBest => SoFarBest'
    BY <2>1 DEF SoFarBest
  <2>7. BestIsChosen'
    BY <2>1, <2>2 DEF Inv, BestIsChosen
  <2> QED BY <2>4, <2>5, <2>6, <2>7 DEF Inv
<1> QED BY <1>2, <1>3, <1>4, <1>5, <1>6, <1>7, <1>8, <1>9, <1>10, <1>11, <1>12, <1>13, <1>14 DEF Next

LEMMA Invariance == Spec => []Inv
<1>1. Init => Inv
  BY InitInv
<1>2. Inv /\ [Next]_vars => Inv'
  BY InvStep
<1> QED BY <1>1, <1>2, PTL DEF Spec

\* Every index is one of a pronoun, or 0, whatever is constrained and searched for.
THEOREM TypeCorrect == Spec => []TypeOK
<1>1. Inv => TypeOK
  BY DEF Inv
<1> QED BY <1>1, Invariance, PTL

\* The loop of getFirstPossibleValue finds the first of the best matches of every
\* table, also where it ends early.
THEOREM BestChosen == Spec => []BestIsChosen
<1>1. Inv => BestIsChosen
  BY DEF Inv
<1> QED BY <1>1, Invariance, PTL

\* The defaults of a concept of a pronoun are what all that are spelled like it
\* agree on, in whatever order they are merged.
THEOREM AmbiguityIsCleared == Spec => []AmbiguityCleared
<1>1. Inv => AmbiguityCleared
  BY DEF Inv
<1> QED BY <1>1, Invariance, PTL

-----------------------------------------------------------------------------
\* A constraint that a pronoun says, put where there was none, leaves it the best:
\* some others no longer match, and some become more generic.
LEMMA NewConstraint ==
  ASSUME TypeOK, NEW f \in Features, NEW v \in Values, PutConstraint(f, v),
         f \notin Asked,
         NEW i \in DOMAIN Entries, Entries[i].says[f] = v,
         IsBest(i, Len(Entries), NoReference)
  PROVE  IsBest(i, Len(Entries), NoReference)'
<1>1. /\ constraints' = [constraints EXCEPT ![f] = v]
      /\ UNCHANGED <<table, customs, defaults, initial>>
  BY DEF PutConstraint, Constrain
<1>2. v # Absent /\ v # AnyValue
  BY PronounAssumption
<1>3. Entries' = Entries /\ Defaulted' = Defaulted /\ Len(Entries) \in Nat
  BY <1>1, EntriesFacts DEF TypeOK, Entries, Defaulted
<1>4. Asked' = Asked \cup {f} /\ \A g \in Asked : constraints'[g] = constraints[g]
  BY <1>1, <1>2 DEF TypeOK, Asked
<1>5. constraints'[f] = v
  BY <1>1 DEF TypeOK
<1>6. \A e : UnmatchedOf(e)' = UnmatchedOf(e)
  BY <1>1, <1>3 DEF UnmatchedOf, Meets
<1>7. \A e : Matches(e, NoReference)' <=>
             Matches(e, NoReference) /\ e.says[f] \in {v, AnyValue}
  BY <1>4, <1>5 DEF Matches, Meets
<1>8. ASSUME NEW e
      PROVE  GenericOf(e)' = IF e.says[f] = AnyValue THEN GenericOf(e) + 1 ELSE GenericOf(e)
  <2> DEFINE G == {g \in Asked : e.says[g] = AnyValue /\ constraints[g] # AnyValue}
  <2>1. IsFiniteSet(G)
    BY PronounAssumption, FS_Subset DEF Asked, Keys
  <2>2. f \notin G
    OBVIOUS
  <2>3. {g \in Asked' : e.says[g] = AnyValue /\ constraints'[g] # AnyValue}
          = IF e.says[f] = AnyValue THEN G \cup {f} ELSE G
    BY <1>2, <1>4, <1>5
  <2>4. GenericOf(e)' = Cardinality(IF e.says[f] = AnyValue THEN G \cup {f} ELSE G)
    BY <2>3 DEF GenericOf
  <2> HIDE DEF G
  <2>5. Cardinality(G \cup {f}) = Cardinality(G) + 1
    BY <2>1, <2>2, FS_AddElement
  <2>6. GenericOf(e) = Cardinality(G)
    BY DEF GenericOf, G
  <2> QED BY <2>4, <2>5, <2>6
<1>9. \A e : GenericOf(e) \in Nat /\ UnmatchedOf(e) \in Nat
  BY Counts
<1>10. i \in 1..Len(Entries) /\ Matches(Entries[i], NoReference)'
  BY <1>3, <1>7 DEF IsBest
<1>11. GenericOf(Entries[i])' = GenericOf(Entries[i])
  BY <1>2, <1>3, <1>8
<1>12. ASSUME NEW j \in 1..Len(Entries), Matches(Entries[j], NoReference)'
       PROVE  LET gi == GenericOf(Entries[i])'  ui == UnmatchedOf(Entries[i])'
                  gj == GenericOf(Entries[j])'  uj == UnmatchedOf(Entries[j])'
              IN  gi < gj \/ (gi = gj /\ (ui < uj \/ (ui = uj /\ i <= j)))
  <2> DEFINE gi == GenericOf(Entries[i])  ui == UnmatchedOf(Entries[i])
             gj == GenericOf(Entries[j])  uj == UnmatchedOf(Entries[j])
  <2>1. gi < gj \/ (gi = gj /\ (ui < uj \/ (ui = uj /\ i <= j)))
    BY <1>3, <1>7, <1>12 DEF IsBest
  <2>2. GenericOf(Entries[j])' = gj \/ GenericOf(Entries[j])' = gj + 1
    BY <1>3, <1>8
  <2>3. gi \in Nat /\ gj \in Nat
    BY <1>9
  <2> HIDE DEF gi, gj, ui, uj
  <2>4. GenericOf(Entries[i])' = gi /\ UnmatchedOf(Entries[i])' = ui /\ UnmatchedOf(Entries[j])' = uj
    BY <1>3, <1>6, <1>11 DEF gi, ui, uj
  <2> QED BY <2>1, <2>2, <2>3, <2>4
<1> QED BY <1>3, <1>10, <1>12 DEF IsBest

\* A constraint on what the pronoun shown says is either nothing new, or it only
\* removes others and makes others more generic.
Confirmed ==
  \A a \in Asks, i \in DOMAIN Entries :
    (PutConstraint(a[1], a[2]) /\ Shown(i) /\ Entries[i].says[a[1]] = a[2]) => Shown(i)'

LEMMA ConfirmedStep == TypeOK => Confirmed
<1> SUFFICES ASSUME TypeOK, NEW a \in Asks, NEW i \in DOMAIN Entries,
                    PutConstraint(a[1], a[2]), Shown(i), Entries[i].says[a[1]] = a[2]
             PROVE  Shown(i)'
  BY DEF Confirmed
<1> DEFINE f == a[1]
           v == a[2]
<1>1. f \in Features /\ v \in Values
  BY PronounAssumption
<1> HIDE DEF f, v
<1>2. /\ constraints' = [constraints EXCEPT ![f] = v]
      /\ UNCHANGED <<table, customs, defaults, initial>> /\ PutConstraint(f, v)
      /\ Entries[i].says[f] = v
  BY DEF PutConstraint, Constrain, f, v
<1>3. Entries' = Entries /\ v # Absent /\ v # AnyValue
  BY <1>1, <1>2, PronounAssumption DEF Entries
<1>4. constraints'[f] = v /\ \A g \in Features \ {f} : constraints'[g] = constraints[g]
  BY <1>1, <1>2 DEF TypeOK
<1>5. Asked' = Asked \cup {f}
  BY <1>1, <1>3, <1>4 DEF Asked
<1>6. CASE IsMatchingInitialPronoun
  <2>1. i = initial
    BY <1>6 DEF Shown
  <2>2. IsMatchingInitialPronoun'
    BY <1>2, <1>3, <1>4, <1>5, <1>6, <2>1 DEF IsMatchingInitialPronoun, Asked
  <2> QED BY <1>2, <2>1, <2>2 DEF Shown
<1>7. CASE ~IsMatchingInitialPronoun /\ f \in Asked
  <2>1. IsBest(i, Len(Entries), NoReference)
    BY <1>7 DEF Shown
  <2>2. v = constraints[f]
    BY <1>2, <1>3, <1>7, <2>1 DEF IsBest, Matches, Meets
  <2>3. constraints' = constraints
    BY <1>2, <2>2 DEF TypeOK
  <2>4. /\ IsMatchingInitialPronoun' = IsMatchingInitialPronoun
        /\ \A j, n, r : IsBest(j, n, r)' = IsBest(j, n, r)
    BY <1>2, <2>3, SameMatches
  <2> QED BY <1>2, <1>3, <1>7, <2>1, <2>4 DEF Shown
<1>8. CASE ~IsMatchingInitialPronoun /\ f \notin Asked
  <2>1. IsBest(i, Len(Entries), NoReference)
    BY <1>8 DEF Shown
  <2>2. IsBest(i, Len(Entries), NoReference)'
    BY <1>1, <1>2, <1>8, <2>1, NewConstraint
  <2>3. ~IsMatchingInitialPronoun'
    <3>1. initial = 0 \/ \E g \in Asked : Entries[initial].says[g] # constraints[g]
      BY <1>8 DEF IsMatchingInitialPronoun
    <3>2. \A g \in Asked : g \in Features \ {f}
      BY <1>8 DEF Asked
    <3> QED BY <1>2, <1>3, <1>4, <1>5, <3>1, <3>2 DEF IsMatchingInitialPronoun
  <2> QED BY <2>2, <2>3 DEF Shown
<1> QED BY <1>6, <1>7, <1>8

\* Asking for what the pronoun shown says does not change what is shown, whatever
\* the table and the other constraints.
THEOREM ConfirmedUnchanged == Spec => ConfirmedIsUnchanged
<1>1. TypeOK => [Confirmed]_vars
  BY ConfirmedStep
<1> QED BY <1>1, TypeCorrect, PTL DEF ConfirmedIsUnchanged, Confirmed
-----------------------------------------------------------------------------
(* Messages *)

\* What a function that answers at once answers is never the state of a search.
LEMMA Kinds == \A c : Evaluated(c).kind \in {"error", "exception", "text", "keys"}
<1>1. \A c, shown : Told(c, shown).kind \in {"text", "keys"}
  BY DEF Told, Answer
<1>2. Error.kind = "error" /\ Exception.kind = "exception"
  BY DEF Error, Exception, Answer
<1> QED BY <1>1, <1>2 DEF Evaluated, ToldOrFailed

\* A pronoun is looked up and searched for only in a call of :pronoun, with what
\* it may ask; while a call of another function is answered, there is none.
MessageInv ==
  /\ Inv
  /\ call # NoCall /\ result.kind \in {"pending", "configured"} => call \in PronounCalls
  /\ call # NoCall /\ result.kind = "configured" /\ Has(call.options, "withReferent") => Referent # NoConcept
  /\ call # NoCall /\ call.function # "pronoun" =>
       call \in Calls /\ phase = "none" /\ result = Evaluated(call)

LEMMA MessageStep == MessageInv /\ [MessageNext]_allVars => MessageInv'
<1> SUFFICES ASSUME MessageInv, [MessageNext]_allVars PROVE MessageInv'
  OBVIOUS
<1> USE DEF messageVars
<1>0. Inv /\ TypeOK /\ Pending.kind = "pending" /\ Error.kind = "error"
  BY DEF MessageInv, Inv, Pending, Error, Answer
<1>1. CASE call = NoCall /\ Next /\ UNCHANGED messageVars
  BY <1>0, <1>1, InvStep DEF MessageInv
<1>2. ASSUME NEW c \in Calls, Evaluate(c), phase = "none" PROVE MessageInv'
  <2>1. Inv' /\ phase' = "none"
    BY <1>0, <1>2, InvStep DEF Evaluate, vars
  <2>2. call' = c /\ result' = Evaluated(c)
    BY <1>2 DEF Evaluate
  <2> QED BY <2>1, <2>2, Kinds DEF MessageInv
<1>3. ASSUME NEW c \in PronounCalls, Begin(c) PROVE MessageInv'
  <2>1. Inv'
    BY <1>0, <1>3, ConstructFromStep, MessageAssumption DEF Begin
  <2>2. call' = c /\ result'.kind = "pending" /\ c.function = "pronoun"
    BY <1>0, <1>3, MessageAssumption DEF Begin
  <2> QED BY <2>1, <2>2 DEF MessageInv
<1>4. ASSUME NEW c \in PronounCalls, BeginWithConcept(c) PROVE MessageInv'
  <2>1. Constrain(constraints) /\ constraints \in [Features -> Values \cup {AnyValue, Absent}]
    BY <1>0, <1>4 DEF BeginWithConcept, Constrain, conceptVars, TypeOK
  <2>2. Inv'
    BY <1>0, <2>1, ConstrainStep
  <2>3. call' = c /\ result'.kind = "pending" /\ c.function = "pronoun"
    BY <1>0, <1>4, MessageAssumption DEF BeginWithConcept
  <2> QED BY <2>2, <2>3 DEF MessageInv
<1>5. ASSUME call # NoCall, Recognize \/ Recognized \/ Consider \/ Conclude, UNCHANGED messageVars
      PROVE  MessageInv'
  <2>1. Inv' /\ phase # "none"
    BY <1>0, <1>5, InvStep DEF Next, Recognize, Recognized, Consider, Conclude
  <2> QED BY <1>5, <2>1 DEF MessageInv, Referent, Language
<1>6. CASE UnknownPronoun
  <2>1. Inv' /\ phase # "none"
    BY <1>0, <1>6, NotRecognizedStep DEF UnknownPronoun, NotRecognized
  <2> QED BY <1>0, <1>6, <2>1 DEF MessageInv, UnknownPronoun
<1>7. CASE Configure
  <2>1. call # NoCall /\ phase = "idle" /\ result = Pending /\ call' = call /\ call \in PronounCalls
    BY <1>0, <1>7 DEF Configure, MessageInv
  <2>2. call.function = "pronoun"
    BY <2>1, MessageAssumption
  <2>3. CASE result' = Error /\ UNCHANGED vars
    <3>1. Inv'
      BY <1>0, <2>3, InvStep
    <3> QED BY <1>0, <2>1, <2>2, <2>3, <3>1 DEF MessageInv
  <2>4. ASSUME \A f \in FeaturesIn(call.options, Look) :
                 HasFeature(LanguageOf(call), f) /\ Agreeable(call.options[f]),
               Has(call.options, "withReferent") => Referent # NoConcept,
               result' = Answer("configured", <<>>, <<>>),
               LET asked == AskedOf(call.options, LanguageOf(call), Language, Look)
               IN  Constrain([f \in Features |->
                     IF f \notin DOMAIN asked THEN constraints[f]
                     ELSE IF asked[f] = "" THEN AnyValue ELSE asked[f]])
        PROVE  MessageInv'
    <3> DEFINE asked == AskedOf(call.options, LanguageOf(call), Language, Look)
               c == [f \in Features |-> IF f \notin DOMAIN asked THEN constraints[f]
                                       ELSE IF asked[f] = "" THEN AnyValue ELSE asked[f]]
    <3>1. DOMAIN asked = FeaturesIn(call.options, Look)
          /\ \A f \in DOMAIN asked :
               asked[f] = ConstraintValue(LanguageOf(call), Language, f, call.options[f])
      BY DEF AskedOf
    <3> HIDE DEF asked
    <3>2. ASSUME NEW f \in Features PROVE c[f] \in Values \cup {AnyValue, Absent}
      <4>1. CASE f \in DOMAIN asked
        <5>1. asked[f] \in Values \cup {""}
          BY <2>1, <2>4, <3>1, <4>1, MessageAssumption DEF Language
        <5> QED BY <4>1, <5>1
      <4> QED BY <1>0, <4>1 DEF TypeOK
    <3>3. c \in [Features -> Values \cup {AnyValue, Absent}]
      BY <3>2
    <3>4. Constrain(c)
      BY <2>4 DEF asked
    <3> HIDE DEF c
    <3>5. Inv'
      BY <1>0, <3>3, <3>4, ConstrainStep
    <3>6. result'.kind = "configured"
      BY <2>4 DEF Answer
    <3> QED BY <2>1, <2>2, <2>4, <3>5, <3>6 DEF MessageInv, Referent, Language
  <2> QED BY <1>7, <2>3, <2>4 DEF Configure
<1>8. CASE LookFor
  <2>1. call # NoCall /\ result.kind = "configured" /\ call \in PronounCalls /\ UNCHANGED <<call, result>>
        /\ (Has(call.options, "withReferent") => Referent # NoConcept)
    BY <1>8 DEF LookFor, MessageInv
  <2> DEFINE q == [reference |-> IF Has(call.options, "withReferent") THEN ReferenceOf(Referent) ELSE NoReference,
                   returnDefault |-> TRUE, matchAll |-> TRUE]
  <2>2. q \in Queries
    <3>1. Has(call.options, "withReferent") => ReferenceOf(Referent) \in References
      BY <2>1, MessageAssumption, Zenon DEF Referent, Language
    <3> QED BY <3>1 DEF Queries
  <2>3. Search(q)
    BY <1>8 DEF LookFor
  <2> HIDE DEF q
  <2>4. Inv'
    BY <1>0, <2>2, <2>3, SearchStep
  <2>5. call.function = "pronoun"
    BY <2>1, MessageAssumption
  <2> QED BY <2>1, <2>4, <2>5 DEF MessageInv, Referent, Language
<1>9. CASE Tell
  <2>1. Inv'
    BY <1>0, <1>9, InvStep DEF Tell
  <2>2. result.kind = "configured" /\ call \in PronounCalls /\ call' = call /\ call # NoCall
    BY <1>9 DEF Tell, MessageInv
  <2>3. result'.kind \in {"text", "keys"}
    BY <1>9 DEF Tell, Told, Answer
  <2> QED BY <2>1, <2>2, <2>3, MessageAssumption DEF MessageInv
<1>10. CASE Done
  <2>1. Inv'
    BY <1>0, <1>10, InvStep, DestroyStep DEF Done
  <2> QED BY <1>10, <2>1 DEF Done, MessageInv
<1>11. CASE UNCHANGED allVars
  <2>1. UNCHANGED <<vars, call, result>>
    BY <1>11 DEF allVars
  <2>2. Inv' /\ phase' = phase
    BY <1>0, <2>1, InvStep DEF vars
  <2> QED BY <2>1, <2>2 DEF MessageInv, Referent, Language
<1> QED BY <1>1, <1>2, <1>3, <1>4, <1>5, <1>6, <1>7, <1>8, <1>9, <1>10, <1>11 DEF MessageNext, Respond

LEMMA MessageInvariance == MessageSpec => []MessageInv
<1>1. MessageInit => MessageInv
  BY InitInv DEF MessageInit, MessageInv
<1> QED BY <1>1, MessageStep, PTL DEF MessageSpec

\* In a program that also formats messages, the searches of its concepts and of
\* the messages are what they are without them (MF2Factory.cpp uses PronounConcept
\* by its interface): they choose the best pronoun, clear what is ambiguous and
\* keep what is confirmed.
THEOREM PronounsOfMessages ==
  MessageSpec => [](TypeOK /\ AmbiguityCleared /\ BestIsChosen) /\ ConfirmedIsUnchanged
<1>1. MessageInv => TypeOK /\ AmbiguityCleared /\ BestIsChosen
  BY DEF MessageInv, Inv
<1>2. TypeOK => [Confirmed]_vars
  BY ConfirmedStep
<1> QED BY <1>1, <1>2, MessageInvariance, PTL DEF ConfirmedIsUnchanged, Confirmed

-----------------------------------------------------------------------------
\* Calls that ask for the same, to be told in one way or another.
SameCall(c, d) ==
  /\ d.function = c.function /\ d.locale = c.locale /\ d.operand = c.operand /\ d.options = c.options
  /\ d.number = c.number /\ d.region = c.region /\ d.change = c.change

\* The same call with another mode, and as a function and not as a selector.
Formats(c, mode) == [c EXCEPT !.selects = FALSE, !.mode = mode]

LEMMA FormatsAlike ==
  ASSUME NEW c \in Calls, NEW mode
  PROVE  /\ SameCall(c, Formats(c, mode)) /\ Formats(c, mode).selects = FALSE
         /\ Formats(c, mode).mode = mode /\ Formats(c, mode).keys = c.keys
<1>1. CallFields \subseteq DOMAIN c
  BY MessageAssumption
<1> QED BY <1>1 DEF CallFields, Formats, SameCall

\* The formatter of :inflection and its selector look at the same options, and find
\* the same form of the operand: they differ for a string that has none.
LEMMA InflectedAlike ==
  ASSUME NEW operand, NEW options, NEW factory
  PROVE  LET concept == ConceptFrom(operand, factory.language)
             nothing == ShowsNothing(options,
                          WithConstraints(concept, AskedOf(options, concept.language, factory.language, {"to"})))
             formatted == FormattedInflection(operand, options, factory)
             selected == SelectedInflection(operand, options, factory)
         IN  \/ formatted = Error /\ selected = Error
             \/ /\ nothing /\ operand.type = "string"
                /\ formatted = Word(operand.value) /\ selected = Speakable(<<>>)
             \/ /\ ~(nothing /\ operand.type = "string") /\ selected = Speakable(formatted.print)
                /\ formatted \notin {Error, Exception}
<1> DEFINE language == factory.language
           unconstrained == ConceptFrom(operand, language)
           own == unconstrained.language
           asked == [f \in DOMAIN options \ {"to"} |-> ConstraintValue(own, language, f, options[f])]
           concept == WithConstraints(unconstrained, asked)
           to == Option(options, "to")
           nothing == ShowsNothing(options, concept)
           shown == Projected(options, concept)
           formatted == FormattedInflection(operand, options, factory)
           selected == SelectedInflection(operand, options, factory)
           refused == \/ unconstrained = NoConcept \/ ~IsText(options, "to")
                      \/ \E f \in DOMAIN options \ {"to"} : ~HasFeature(own, f) \/ ~Agreeable(options[f])
           feature == IF ~Has(options, "to") THEN IF ShownOf(concept) = NoString THEN <<>> ELSE ShownOf(concept).print
                      ELSE IF ~HasFeature(concept.language, to) \/ FeatureOf(concept, to) \in {NoValue, ""} THEN <<>>
                      ELSE <<FeatureOf(concept, to)>>
<1>1. AskedOf(options, own, language, {"to"}) = asked
  BY DEF AskedOf, FeaturesIn
<1>2. formatted = IF refused THEN Error ELSE IF ~nothing THEN shown
                  ELSE IF operand.type = "string" THEN Word(operand.value) ELSE Speakable(<<>>)
  BY <1>1 DEF FormattedInflection, FeaturesIn
<1>3. selected = IF refused THEN Error ELSE Speakable(feature)
  <2> DEFINE taken == \A f \in DOMAIN options : IF f = "to" THEN IsText(options, f)
                                               ELSE HasFeature(own, f) /\ Agreeable(options[f])
  <2>1. refused <=> unconstrained = NoConcept \/ ~taken
    BY DEF IsText, Has
  <2>2. selected = IF unconstrained = NoConcept THEN Error ELSE IF taken THEN Speakable(feature) ELSE Error
    BY DEF SelectedInflection
  <2> HIDE DEF taken, refused, feature, selected
  <2> QED BY <2>1, <2>2
<1>4. \A p : /\ Speakable(p).print = p /\ Speakable(p) \notin {Error, Exception}
             /\ Word(p).print = <<p>>
  BY DEF Speakable, Word, Error, Exception, Answer
<1>5. nothing => feature = <<>>
  <2> HIDE DEF concept
  <2> QED BY DEF ShowsNothing
<1>6. ~nothing => feature = shown.print /\ shown \notin {Error, Exception}
  <2> HIDE DEF concept
  <2> SUFFICES ASSUME ~nothing PROVE feature = shown.print /\ shown \notin {Error, Exception}
    OBVIOUS
  <2>1. CASE ~Has(options, "to")
    <3>1. shown = ShownOf(concept) /\ ShownOf(concept) # NoString
      BY <2>1 DEF Projected, ShowsNothing
    <3>2. \E p, s : shown = [print |-> p, speak |-> s]
      BY <3>1 DEF ShownOf, Speakable
    <3>3. shown \notin {Error, Exception}
      BY <3>2 DEF Error, Exception, Answer
    <3> QED BY <2>1, <3>1, <3>3
  <2>2. CASE Has(options, "to")
    <3>1. /\ shown = ValueShown(FeatureOf(concept, to))
          /\ HasFeature(concept.language, to) /\ FeatureOf(concept, to) # NoValue
      BY <2>2 DEF Projected, ShowsNothing
    <3> HIDE DEF to, shown
    <3>2. CASE FeatureOf(concept, to) = ""
      BY <1>4, <2>2, <3>1, <3>2 DEF ValueShown
    <3>3. CASE FeatureOf(concept, to) # ""
      <4>1. shown = Word(FeatureOf(concept, to)) /\ feature = <<FeatureOf(concept, to)>>
        BY <2>2, <3>1, <3>3 DEF ValueShown
      <4>2. Word(FeatureOf(concept, to)) \notin {Error, Exception}
        BY <1>4 DEF Word
      <4> QED BY <1>4, <4>1, <4>2
    <3> QED BY <3>2, <3>3
  <2> QED BY <2>1, <2>2
<1> DEFINE Differ(n) ==
             \/ formatted = Error /\ selected = Error
             \/ n /\ operand.type = "string" /\ formatted = Word(operand.value) /\ selected = Speakable(<<>>)
             \/ /\ ~(n /\ operand.type = "string") /\ selected = Speakable(formatted.print)
                /\ formatted \notin {Error, Exception}
<1>7. Differ(nothing)
  <2> HIDE DEF refused, nothing, shown, feature, formatted, selected
  <2> QED BY <1>2, <1>3, <1>4, <1>5, <1>6
<1> QED BY <1>1, <1>7

\* A variant is selected by the text that the function shows: "selectKey" and
\* "format", each with its own copy of what they do, agree on all words, options and
\* keys, but for a string that has no form.
THEOREM SelectsWhatItShows == MessageSpec => []SelectedAsFormatted
<1>1. MessageInv => SelectedAsFormatted
  <2> SUFFICES ASSUME MessageInv, Answers("inflection"), call.selects
               PROVE  SelectedBy(Plainly(call))
    BY DEF SelectedAsFormatted
  <2> DEFINE c == call
             d == Formats(c, "plain")
             factory == FactoryOf(c.locale)
             concept == ConceptFrom(c.operand, factory.language)
             formatted == FormattedInflection(c.operand, c.options, factory)
             selected == SelectedInflection(c.operand, c.options, factory)
  <2>1. c \in Calls /\ c.function = "inflection" /\ c.selects = TRUE /\ result = Evaluated(c)
    BY MessageAssumption DEF MessageInv, Answers
  <2>2. SameCall(c, d) /\ d.selects = FALSE /\ d.mode = "plain" /\ Plainly(c) = Evaluated(d)
    <3>1. Plainly(c) = Evaluated(d)
      BY Zenon DEF Plainly, Formats
    <3> HIDE DEF d
    <3>2. SameCall(c, Formats(c, "plain")) /\ Formats(c, "plain").selects = FALSE /\ Formats(c, "plain").mode = "plain"
      BY <2>1, FormatsAlike, Zenon
    <3> QED BY <3>1, <3>2, Zenon DEF d
  <2> HIDE DEF d
  <2>3. \/ Made(c) = Made(d) /\ Made(c) \in {Error, Exception}
        \/ Made(c) = selected /\ Made(d) = formatted
    <3>1. d.function = "inflection" /\ d.locale = c.locale /\ d.operand = c.operand /\ d.options = c.options
      BY <2>1, <2>2 DEF SameCall
    <3> DEFINE thrown == factory = Thrown
    <3>2. Made(c) = IF thrown THEN Exception ELSE IF c.operand.type = "none" THEN Error ELSE selected
      BY <2>1 DEF Made
    <3>3. Made(d) = IF thrown THEN Exception ELSE IF c.operand.type = "none" THEN Error ELSE formatted
      BY <2>2, <3>1 DEF Made
    <3> HIDE DEF thrown, selected, formatted
    <3> QED BY <3>2, <3>3
  <2>4. \/ formatted = Error /\ selected = Error
        \/ HasNoForm(c) /\ formatted = Word(c.operand.value) /\ selected = Speakable(<<>>)
        \/ ~HasNoForm(c) /\ selected = Speakable(formatted.print) /\ formatted \notin {Error, Exception}
    <3> DEFINE nothing == ShowsNothing(c.options,
                            WithConstraints(concept, AskedOf(c.options, concept.language, factory.language, {"to"})))
    <3>1. \/ formatted = Error /\ selected = Error
          \/ /\ nothing /\ c.operand.type = "string"
             /\ formatted = Word(c.operand.value) /\ selected = Speakable(<<>>)
          \/ /\ ~(nothing /\ c.operand.type = "string") /\ selected = Speakable(formatted.print)
             /\ formatted \notin {Error, Exception}
      BY InflectedAlike
    <3>2. c.operand.type = "string" => concept.language = factory.language
      <4>1. \A l, t : StringConcept(l, t).language = l
        BY DEF StringConcept
      <4> HIDE DEF factory
      <4>2. c.operand.type = "string" => concept = StringConcept(factory.language, <<c.operand.value>>)
        BY DEF ConceptFrom, IsConcept
      <4> HIDE DEF concept
      <4> QED BY <4>1, <4>2
    <3> HIDE DEF formatted, selected, factory
    <3>3. HasNoForm(c) <=> nothing /\ c.operand.type = "string"
      BY <3>2 DEF HasNoForm, factory
    <3> HIDE DEF nothing
    <3> QED BY <3>1, <3>3
  <2>5. \A p : Speakable(p) \notin {Error, Exception} /\ Speakable(p).print = p
    BY DEF Speakable, Error, Exception, Answer
  <2>6. Error.kind # "text" /\ Exception.kind # "text"
        /\ \A t, k : /\ Answer("text", t, k).text = t /\ Answer("text", t, k).kind = "text"
                    /\ Answer("keys", t, k).keys = k
    BY DEF Error, Exception, Answer
  <2>7. /\ \A x : Told(c, x) = Answer("keys", <<>>, KeysThatAre(x.print, c.keys))
        /\ \A x : Told(d, x) = Answer("text", x.print, <<>>)
    BY <2>1, <2>2 DEF Told, Emitted
  <2>8. /\ result = IF Made(c) \in {Error, Exception} THEN Made(c) ELSE Told(c, Made(c))
        /\ Plainly(c) = IF Made(d) \in {Error, Exception} THEN Made(d) ELSE Told(d, Made(d))
    BY <2>1, <2>2 DEF Evaluated, ToldOrFailed
  <2> HIDE DEF factory, formatted, selected
  <2>9. CASE Made(c) = Made(d) /\ Made(c) \in {Error, Exception}
    BY <2>6, <2>8, <2>9 DEF SelectedBy
  <2>10. CASE Made(c) = selected /\ Made(d) = formatted
    <3>1. CASE formatted = Error /\ selected = Error
      BY <2>6, <2>8, <2>10, <3>1 DEF SelectedBy
    <3>2. CASE HasNoForm(c) /\ formatted = Word(c.operand.value) /\ selected = Speakable(<<>>)
      <4>1. result = Answer("keys", <<>>, KeysThatAre(<<>>, c.keys))
        BY <2>5, <2>7, <2>8, <2>10, <3>2
      <4>2. result.keys = KeysThatAre(<<>>, c.keys)
        BY <2>6, <4>1
      <4>3. formatted \notin {Error, Exception}
        BY <2>5, <3>2 DEF Word
      <4>4. Plainly(c).kind = "text"
        BY <2>6, <2>7, <2>8, <2>10, <4>3
      <4> QED BY <3>2, <4>2, <4>4 DEF SelectedBy
    <3>3. CASE ~HasNoForm(c) /\ selected = Speakable(formatted.print) /\ formatted \notin {Error, Exception}
      <4>1. result = Answer("keys", <<>>, KeysThatAre(formatted.print, c.keys))
        BY <2>5, <2>7, <2>8, <2>10, <3>3
      <4>2. result.keys = KeysThatAre(formatted.print, c.keys)
        BY <2>6, <4>1
      <4>3. Plainly(c) = Answer("text", formatted.print, <<>>)
        BY <2>7, <2>8, <2>10, <3>3
      <4>4. Plainly(c).kind = "text" /\ Plainly(c).text = formatted.print
        BY <2>6, <4>3
      <4> QED BY <3>3, <4>2, <4>4 DEF SelectedBy
    <3> QED BY <2>4, <3>1, <3>2, <3>3
  <2> QED BY <2>3, <2>9, <2>10
<1> QED BY <1>1, MessageInvariance, PTL

\* A function that is no selector makes the same of the call, in whatever mode.
LEMMA MadeAlike ==
  ASSUME NEW c, NEW d, SameCall(c, d), c.selects = FALSE, d.selects = FALSE
  PROVE  Made(d) = Made(c)
<1>1. /\ d.function = c.function /\ d.locale = c.locale /\ d.operand = c.operand /\ d.options = c.options
      /\ d.number = c.number /\ d.region = c.region /\ d.change = c.change
  BY DEF SameCall
<1>2. \A factory : Counted(d, factory) = Counted(c, factory)
  BY <1>1 DEF Counted
<1>3. \A factory : Quoted(d, factory) = Quoted(c, factory)
  BY <1>1 DEF Quoted
<1> QED BY <1>1, <1>2, <1>3 DEF Made

LEMMA DoubleQuoteIsNoOther ==
  DoubleQuote \notin {"&", "<", ">", "sub alias=", "/sub", "&amp;", "&lt;", "&gt;", "&quot;"}
  BY Zenon DEF DoubleQuote

\* What a text is made of when it is marked up.
Marked == Pieces \cup Entities \cup {"<", "sub alias=", DoubleQuote, ">", "/sub"}

Unmarked(t, attribute) ==
  \A i \in 1..Len(t) : t[i] # "<" /\ t[i] # ">" /\ (attribute => t[i] # DoubleQuote)

LEMMA EscapedFacts ==
  ASSUME NEW t \in Seq(Pieces), NEW attribute \in BOOLEAN
  PROVE  /\ Escaped(t, attribute) \in Seq(Marked) /\ Len(Escaped(t, attribute)) = Len(t)
         /\ Unmarked(Escaped(t, attribute), attribute)
         /\ Decoded(Escaped(t, attribute)) = t
<1> DEFINE q == Escaped(t, attribute)
<1>1. /\ DOMAIN t = 1..Len(t) /\ Len(t) \in Nat
      /\ \A i \in 1..Len(t) : t[i] \in Pieces /\ t[i] \notin Entities
  <2>1. Pieces \cap Entities = {}
    BY MessageAssumption, Zenon
  <2> QED BY <2>1
<1>2. q = [i \in 1..Len(t) |-> q[i]]
  BY <1>1, DoubleQuoteIsNoOther DEF Escaped
<1>3. \A i \in 1..Len(t) :
        q[i] = CASE t[i] = "&" -> "&amp;" [] t[i] = "<" -> "&lt;" [] t[i] = ">" -> "&gt;"
                 [] t[i] = DoubleQuote /\ attribute -> "&quot;" [] OTHER -> t[i]
  BY <1>1, Zenon DEF Escaped
<1> HIDE DEF q
<1>4. ASSUME NEW i \in 1..Len(t)
      PROVE  /\ q[i] \in Marked /\ q[i] # "<" /\ q[i] # ">" /\ (attribute => q[i] # DoubleQuote)
             /\ t[i] = CASE q[i] = "&amp;" -> "&" [] q[i] = "&lt;" -> "<" [] q[i] = "&gt;" -> ">"
                         [] q[i] = "&quot;" -> DoubleQuote [] OTHER -> q[i]
  <2>1. CASE t[i] = "&"
    <3>1. q[i] = "&amp;"
      BY <1>3, <2>1, DoubleQuoteIsNoOther, Zenon
    <3> QED BY <2>1, <3>1, DoubleQuoteIsNoOther, Zenon DEF Marked, Entities
  <2>2. CASE t[i] = "<"
    <3>1. q[i] = "&lt;"
      BY <1>3, <2>2, DoubleQuoteIsNoOther, Zenon
    <3> QED BY <2>2, <3>1, DoubleQuoteIsNoOther, Zenon DEF Marked, Entities
  <2>3. CASE t[i] = ">"
    <3>1. q[i] = "&gt;"
      BY <1>3, <2>3, DoubleQuoteIsNoOther, Zenon
    <3> QED BY <2>3, <3>1, DoubleQuoteIsNoOther, Zenon DEF Marked, Entities
  <2>4. CASE t[i] = DoubleQuote /\ attribute
    <3>1. q[i] = "&quot;"
      BY <1>3, <2>4, DoubleQuoteIsNoOther, Zenon
    <3> QED BY <2>4, <3>1, DoubleQuoteIsNoOther, Zenon DEF Marked, Entities
  <2>5. CASE t[i] \notin {"&", "<", ">"} /\ ~(t[i] = DoubleQuote /\ attribute)
    <3>1. q[i] = t[i] /\ t[i] \in Pieces /\ t[i] \notin Entities
      BY <1>1, <1>3, <2>5
    <3> QED BY <2>5, <3>1, DoubleQuoteIsNoOther, Zenon DEF Marked, Entities
  <2> QED BY <2>1, <2>2, <2>3, <2>4, <2>5, Zenon
<1>5. q \in Seq(Marked) /\ Len(q) = Len(t) /\ DOMAIN q = 1..Len(t)
  <2>1. \A i \in 1..Len(t) : q[i] \in Marked
    BY <1>4
  <2> HIDE DEF Marked
  <2> QED BY <1>1, <1>2, <2>1
<1>6. Unmarked(q, attribute)
  <2>1. \A i \in 1..Len(t) : q[i] # "<" /\ q[i] # ">" /\ (attribute => q[i] # DoubleQuote)
    BY <1>4
  <2> QED BY <1>5, <2>1 DEF Unmarked
<1>7. Decoded(q) = t
  <2>1. DOMAIN Decoded(q) = 1..Len(t) /\ Decoded(q) = [i \in 1..Len(t) |-> Decoded(q)[i]]
    BY <1>5, Zenon DEF Decoded
  <2>2. ASSUME NEW i \in 1..Len(t) PROVE Decoded(q)[i] = t[i]
    <3>1. Decoded(q)[i] = CASE q[i] = "&amp;" -> "&" [] q[i] = "&lt;" -> "<" [] q[i] = "&gt;" -> ">"
                            [] q[i] = "&quot;" -> DoubleQuote [] OTHER -> q[i]
      BY <1>5, Zenon DEF Decoded
    <3> QED BY <1>4, <3>1, Zenon
  <2>3. t = [i \in 1..Len(t) |-> t[i]]
    BY <1>1
  <2> HIDE DEF Decoded
  <2> QED BY <2>1, <2>2, <2>3
<1> QED BY <1>5, <1>6, <1>7 DEF q

\* q is u and then v.
Joins(q, u, v) ==
  /\ Len(q) = Len(u) + Len(v)
  /\ \A n \in 1..Len(u) : q[n] = u[n]
  /\ \A n \in 1..Len(v) : q[Len(u) + n] = v[n]

LEMMA Joining ==
  ASSUME NEW T, NEW u \in Seq(T), NEW v \in Seq(T)
  PROVE  u \o v \in Seq(T) /\ Joins(u \o v, u, v)
<1> DEFINE q == u \o v
<1>1. Len(u) \in Nat /\ Len(v) \in Nat
  OBVIOUS
<1>2. /\ q \in Seq(T) /\ Len(q) = Len(u) + Len(v)
      /\ \A i \in 1..(Len(u) + Len(v)) : q[i] = IF i <= Len(u) THEN u[i] ELSE v[i - Len(u)]
  BY ConcatProperties
<1> HIDE DEF q
<1>3. \A n \in 1..Len(u) : q[n] = u[n]
  BY <1>1, <1>2
<1>4. ASSUME NEW n \in 1..Len(v) PROVE q[Len(u) + n] = v[n]
  <2>1. /\ Len(u) + n \in 1..(Len(u) + Len(v)) /\ ~(Len(u) + n <= Len(u))
        /\ (Len(u) + n) - Len(u) = n
    BY <1>1
  <2> QED BY <1>2, <2>1
<1> QED BY <1>2, <1>3, <1>4 DEF Joins, q

\* A tag with an attribute around a text: where its marks are, and what it is around.
Tag(lt, name, quot, s, gt, p, end) ==
  <<lt, name, quot>> \o s \o <<quot, gt>> \o p \o <<lt, end, gt>>

IsTag(q, lt, quot, gt, s, p) ==
  /\ q \in Seq(Marked) /\ Len(q) = Len(s) + Len(p) + 8
  /\ \A i \in 1..Len(q) :
       /\ q[i] = lt <=> i \in {1, Len(q) - 2}
       /\ q[i] = gt <=> i \in {Len(s) + 5, Len(q)}
       /\ i <= Len(s) + 5 => (q[i] = quot <=> i \in {3, Len(s) + 4})
  /\ \A i \in 1..Len(p) : q[Len(s) + 5 + i] = p[i]
  /\ \A i \in 1..Len(s) : q[3 + i] = s[i]

LEMMA Tagging ==
  ASSUME NEW lt \in Marked, NEW name \in Marked, NEW quot \in Marked, NEW gt \in Marked, NEW end \in Marked,
         lt # gt, lt # quot, gt # quot, name \notin {lt, gt, quot}, end \notin {lt, gt, quot},
         NEW s \in Seq(Marked), NEW p \in Seq(Marked),
         \A i \in 1..Len(s) : s[i] \notin {lt, gt, quot}, \A i \in 1..Len(p) : p[i] \notin {lt, gt}
  PROVE  IsTag(Tag(lt, name, quot, s, gt, p, end), lt, quot, gt, s, p)
<1> DEFINE u == <<lt, name, quot>>
           w == <<quot, gt>>
           z == <<lt, end, gt>>
           a == u \o s
           b == a \o w
           d == b \o p
           q == d \o z
<1>1. /\ u \in Seq(Marked) /\ w \in Seq(Marked) /\ z \in Seq(Marked)
      /\ Len(u) = 3 /\ Len(w) = 2 /\ Len(z) = 3
      /\ u[1] = lt /\ u[2] = name /\ u[3] = quot /\ w[1] = quot /\ w[2] = gt
      /\ z[1] = lt /\ z[2] = end /\ z[3] = gt
  OBVIOUS
<1>2. q = Tag(lt, name, quot, s, gt, p, end)
  BY DEF Tag
<1> HIDE DEF u, w, z
<1>3. a \in Seq(Marked) /\ Joins(a, u, s)
  BY <1>1, Joining, Zenon
<1> HIDE DEF a
<1>4. b \in Seq(Marked) /\ Joins(b, a, w)
  BY <1>1, <1>3, Joining, Zenon
<1> HIDE DEF b
<1>5. d \in Seq(Marked) /\ Joins(d, b, p)
  BY <1>4, Joining, Zenon
<1> HIDE DEF d
<1>6. q \in Seq(Marked) /\ Joins(q, d, z)
  BY <1>1, <1>5, Joining, Zenon
<1> HIDE DEF q
<1> DEFINE m == Len(s)
           l == Len(p)
<1>7. m \in Nat /\ l \in Nat
  OBVIOUS
<1>8. Len(a) = m + 3 /\ Len(b) = m + 5 /\ Len(d) = m + l + 5 /\ Len(q) = m + l + 8
  BY <1>1, <1>3, <1>4, <1>5, <1>6, <1>7 DEF Joins
<1> HIDE DEF m, l
<1>9. /\ \A i \in 1..3 : q[i] = u[i]
      /\ \A i \in 1..m : q[3 + i] = s[i]
      /\ q[m + 4] = quot /\ q[m + 5] = gt
      /\ \A i \in 1..l : q[m + 5 + i] = p[i]
      /\ q[m + l + 6] = lt /\ q[m + l + 7] = end /\ q[m + l + 8] = gt
  <2>1. \A i \in 1..(m + l + 5) : q[i] = d[i]
    BY <1>6, <1>8 DEF Joins
  <2>2. \A i \in 1..(m + 5) : d[i] = b[i]
    BY <1>5, <1>8 DEF Joins
  <2>3. \A i \in 1..(m + 3) : b[i] = a[i]
    BY <1>4, <1>8 DEF Joins
  <2>4. \A i \in 1..3 : a[i] = u[i]
    BY <1>1, <1>3 DEF Joins
  <2>5. \A i \in 1..m : a[3 + i] = s[i]
    BY <1>1, <1>3 DEF Joins, m
  <2>6. b[m + 3 + 1] = quot /\ b[m + 3 + 2] = gt
    BY <1>1, <1>4, <1>8 DEF Joins
  <2>7. \A i \in 1..l : d[m + 5 + i] = p[i]
    BY <1>5, <1>8 DEF Joins, l
  <2>8. q[m + l + 5 + 1] = lt /\ q[m + l + 5 + 2] = end /\ q[m + l + 5 + 3] = gt
    BY <1>1, <1>6, <1>8 DEF Joins
  <2>9. \A i \in 1..3 : q[i] = u[i]
    BY <1>7, <2>1, <2>2, <2>3, <2>4
  <2>10. \A i \in 1..m : q[3 + i] = s[i]
    BY <1>7, <2>1, <2>2, <2>3, <2>5
  <2>11. q[m + 4] = quot /\ q[m + 5] = gt
    BY <1>7, <2>1, <2>2, <2>6
  <2>12. \A i \in 1..l : q[m + 5 + i] = p[i]
    BY <1>7, <2>1, <2>7
  <2>13. q[m + l + 6] = lt /\ q[m + l + 7] = end /\ q[m + l + 8] = gt
    BY <1>7, <2>8
  <2> QED BY <2>9, <2>10, <2>11, <2>12, <2>13
<1>10. ASSUME NEW i \in 1..(m + l + 8)
       PROVE  /\ q[i] = lt <=> i = 1 \/ i = m + l + 6
              /\ q[i] = gt <=> i = m + 5 \/ i = m + l + 8
              /\ i <= m + 5 => (q[i] = quot <=> i = 3 \/ i = m + 4)
  <2>0. i \in Int /\ m \in Int /\ l \in Int /\ 0 <= m /\ 0 <= l
    BY <1>7
  <2>1. CASE i \in 1..3
    <3>0. i = 1 \/ i = 2 \/ i = 3
      BY <2>1
    <3>1. q[1] = lt /\ q[2] = name /\ q[3] = quot
      BY <1>1, <1>9
    <3>2. i # m + 5 /\ i # m + 4 /\ i # m + l + 6 /\ i # m + l + 8
      BY <2>0, <3>0
    <3> HIDE DEF q, u
    <3> QED BY <3>0, <3>1, <3>2
  <2>2. CASE i \in 4..(m + 3)
    <3>1. i - 3 \in 1..m /\ 3 + (i - 3) = i
      BY <2>0, <2>2
    <3>2. q[3 + (i - 3)] = s[i - 3]
      BY <1>9, <3>1
    <3>3. q[i] \notin {lt, gt, quot}
      BY <3>1, <3>2 DEF m
    <3>4. i # 1 /\ i # 3 /\ i # m + 4 /\ i # m + 5 /\ i # m + l + 6 /\ i # m + l + 8
      BY <2>0, <2>2
    <3> QED BY <3>3, <3>4
  <2>3. CASE i = m + 4
    BY <1>7, <1>9, <2>3
  <2>4. CASE i = m + 5
    BY <1>7, <1>9, <2>4
  <2>5. CASE i \in (m + 6)..(m + l + 5)
    <3>1. i - m - 5 \in 1..l /\ m + 5 + (i - m - 5) = i
      BY <1>7, <2>5
    <3>2. q[i] = p[i - m - 5]
      BY <1>9, <3>1
    <3>3. q[i] \notin {lt, gt}
      BY <3>1, <3>2 DEF l
    <3> QED BY <1>7, <2>5, <3>3
  <2>6. CASE i \in {m + l + 6, m + l + 7, m + l + 8}
    <3>1. q[m + l + 6] = lt /\ q[m + l + 7] = end /\ q[m + l + 8] = gt
      BY <1>9
    <3>2. CASE i = m + l + 6
      BY <1>7, <3>1, <3>2
    <3>3. CASE i = m + l + 7
      BY <1>7, <3>1, <3>3
    <3>4. CASE i = m + l + 8
      BY <1>7, <3>1, <3>4
    <3> QED BY <2>6, <3>2, <3>3, <3>4
  <2>7. \/ i \in 1..3 \/ i \in 4..(m + 3) \/ i = m + 4 \/ i = m + 5
        \/ i \in (m + 6)..(m + l + 5) \/ i \in {m + l + 6, m + l + 7, m + l + 8}
    BY <2>0
  <2> QED BY <2>1, <2>2, <2>3, <2>4, <2>5, <2>6, <2>7, Zenon
<1>11. IsTag(q, lt, quot, gt, s, p)
  <2>1. Len(q) - 2 = m + l + 6 /\ Len(q) = m + l + 8
    BY <1>7, <1>8
  <2> QED BY <1>6, <1>9, <1>10, <2>1 DEF IsTag, m, l
<1> QED BY <1>2, <1>11

\* What is read of a tag that ends at e.
PlacesOf(q, x) == {i \in 1..Len(q) : q[i] = x}
ReadsAsTag(q, e, lt, quot, gt, s, p) ==
  /\ PlacesOf(q, lt) = {1, Len(q) - 2} /\ PlacesOf(q, gt) = {e, Len(q)}
  /\ PlacesOf(q, quot) \cap 1..e = {3, e - 1}
  /\ SubSeq(q, 4, e - 2) = s /\ SubSeq(q, e + 1, Len(q) - 3) = p

\* A part of a sequence is what it is element by element.
LEMMA PartOf ==
  ASSUME NEW q \in Seq(Marked), NEW p \in Seq(Marked), NEW k \in Nat, k + Len(p) <= Len(q),
         \A i \in 1..Len(p) : q[k + i] = p[i]
  PROVE  SubSeq(q, k + 1, k + Len(p)) = p
<1> DEFINE l == Len(p)
           lo == k + 1
           hi == k + l
           r == SubSeq(q, lo, hi)
<1>1. l \in Nat /\ p = [i \in 1..l |-> p[i]]
  OBVIOUS
<1>2. lo \in Int /\ hi \in Int /\ hi - lo + 1 = l /\ (lo <= hi <=> l # 0)
      /\ \A i \in lo..hi : q[i] \in Marked
  <2>1. \A i \in 1..Len(q) : q[i] \in Marked
    OBVIOUS
  <2>2. \A i \in lo..hi : i \in 1..Len(q)
    BY <1>1
  <2> QED BY <1>1, <2>1, <2>2, SMTT(30)
<1>3. \A i \in 1..l : lo + i - 1 = k + i
  BY <1>1
<1> HIDE DEF lo, hi, l
<1>4. /\ r \in Seq(Marked) /\ Len(r) = IF lo <= hi THEN hi - lo + 1 ELSE 0
      /\ \A i \in 1..(hi - lo + 1) : r[i] = q[lo + i - 1]
  BY <1>2, SubSeqProperties
<1> HIDE DEF r
<1>5. Len(r) = l
  BY <1>1, <1>2, <1>4
<1>6. ASSUME NEW i \in 1..l PROVE r[i] = p[i]
  BY <1>2, <1>3, <1>4 DEF l
<1>7. r = [i \in 1..l |-> r[i]]
  BY <1>4, <1>5
<1>8. r = p
  BY <1>1, <1>6, <1>7
<1> QED BY <1>8 DEF r, lo, hi, l

LEMMA ReadingTag ==
  ASSUME NEW q, NEW lt, NEW quot, NEW gt, NEW s \in Seq(Marked), NEW p \in Seq(Marked),
         IsTag(q, lt, quot, gt, s, p)
  PROVE  ReadsAsTag(q, Len(s) + 5, lt, quot, gt, s, p)
<1> DEFINE m == Len(s)
           l == Len(p)
<1>1. m \in Nat /\ l \in Nat
  OBVIOUS
<1>2. /\ q \in Seq(Marked) /\ Len(q) = m + l + 8
      /\ \A i \in 1..Len(q) :
           /\ q[i] = lt <=> i \in {1, Len(q) - 2}
           /\ q[i] = gt <=> i \in {m + 5, Len(q)}
           /\ i <= m + 5 => (q[i] = quot <=> i \in {3, m + 4})
  BY DEF IsTag
<1>3. /\ \A i \in 1..l : q[m + 5 + i] = p[i]
      /\ \A i \in 1..m : q[3 + i] = s[i]
  BY DEF IsTag
<1> HIDE DEF m, l
<1>4. PlacesOf(q, lt) = {1, Len(q) - 2}
  BY <1>1, <1>2, SMTT(30) DEF PlacesOf
<1>5. PlacesOf(q, gt) = {m + 5, Len(q)}
  BY <1>1, <1>2, SMTT(30) DEF PlacesOf
<1>6. PlacesOf(q, quot) \cap 1..(m + 5) = {3, m + 4}
  BY <1>1, <1>2, SMTT(30) DEF PlacesOf
<1>7. SubSeq(q, m + 6, Len(q) - 3) = p
  <2>1. SubSeq(q, (m + 5) + 1, (m + 5) + l) = p
    BY <1>1, <1>2, <1>3, PartOf DEF l
  <2> QED BY <1>1, <1>2, <2>1
<1>8. SubSeq(q, 4, m + 3) = s
  <2>1. SubSeq(q, 3 + 1, 3 + m) = s
    BY <1>1, <1>2, <1>3, PartOf DEF m
  <2> QED BY <1>1, <2>1
<1>9. m + 5 - 1 = m + 4 /\ m + 5 + 1 = m + 6 /\ m + 5 - 2 = m + 3
  BY <1>1
<1> QED BY <1>4, <1>5, <1>6, <1>7, <1>8, <1>9 DEF ReadsAsTag, m

\* What is marked up is read back as what is printed and what is spoken.
LEMMA MarkedUp ==
  ASSUME NEW x, x.print \in Seq(Pieces), x.speak \in Seq(Pieces), result.text = Emitted(x, "markup")
  PROVE  MarksUp(x)
<1> DEFINE text == result.text
           p == Escaped(x.print, FALSE)
           s == Escaped(x.speak, TRUE)
<1>1. p \in Seq(Marked) /\ Unmarked(p, FALSE) /\ Decoded(p) = x.print
  BY EscapedFacts
<1>2. s \in Seq(Marked) /\ Unmarked(s, TRUE) /\ Decoded(s) = x.speak
  BY EscapedFacts
<1>3. CASE x.print = x.speak
  <2>1. text = p
    BY <1>3, Zenon DEF Emitted
  <2>2. PlacesOf(text, "<") = {} /\ PlacesOf(text, ">") = {}
    BY <1>1, <2>1, Zenon DEF PlacesOf, Unmarked
  <2> QED BY <1>1, <1>3, <2>1, <2>2, Zenon DEF MarksUp, PlacesOf
<1>4. CASE x.print # x.speak
  <2>1. text = Tag("<", "sub alias=", DoubleQuote, s, ">", p, "/sub")
    BY <1>4, Zenon DEF Emitted, Tag
  <2>2. /\ "<" \in Marked /\ ">" \in Marked /\ DoubleQuote \in Marked
        /\ "sub alias=" \in Marked /\ "/sub" \in Marked
    BY Zenon DEF Marked
  <2>3. /\ "<" # ">" /\ "<" # DoubleQuote /\ ">" # DoubleQuote
        /\ "sub alias=" \notin {"<", ">", DoubleQuote} /\ "/sub" \notin {"<", ">", DoubleQuote}
    BY DoubleQuoteIsNoOther, Zenon
  <2> HIDE DEF text, p, s
  <2>4. \A i \in 1..Len(s) : s[i] \notin {"<", ">", DoubleQuote}
    BY <1>2, Zenon DEF Unmarked
  <2>5. \A i \in 1..Len(p) : p[i] \notin {"<", ">"}
    BY <1>1, Zenon DEF Unmarked
  <2>6. IsTag(text, "<", DoubleQuote, ">", s, p)
    BY <1>1, <1>2, <2>1, <2>2, <2>3, <2>4, <2>5, Tagging, Zenon
  <2> DEFINE e == Len(s) + 5
  <2>7. ReadsAsTag(text, e, "<", DoubleQuote, ">", s, p)
    BY <1>1, <1>2, <2>6, ReadingTag, Zenon
  <2> HIDE DEF e
  <2>8. PlacesOf(text, "<") # {}
    BY <2>7, Zenon DEF ReadsAsTag
  <2>9. e \in PlacesOf(text, ">")
    BY <2>7, Zenon DEF ReadsAsTag
  <2> QED BY <1>1, <1>2, <2>7, <2>8, <2>9, Zenon DEF ReadsAsTag, MarksUp, PlacesOf, text
<1> QED BY <1>3, <1>4

\* Whatever is printed and spoken, markup says both: without its one tag it is
\* what is printed, and the attribute of that tag is what is spoken.
THEOREM MarkupIsReadBack == MessageSpec => []MarkupSaysBoth
<1>1. MessageInv => MarkupSaysBoth
  <2> SUFFICES ASSUME MessageInv, call # NoCall, call.function # "pronoun",
                      call.mode = "markup", result.kind = "text"
               PROVE  MarksUp(Made(call))
    BY DEF MarkupSaysBoth
  <2> DEFINE c == call
  <2>1. c \in Calls /\ result = Evaluated(c)
    BY DEF MessageInv
  <2>2. c.selects \in BOOLEAN /\ (Made(c) \in {Error, Exception} \/ {Made(c).print, Made(c).speak} \subseteq Seq(Pieces))
    BY <2>1, MessageAssumption, Zenon
  <2>3. Made(c) \notin {Error, Exception} /\ result = Told(c, Made(c))
    BY <2>1 DEF Evaluated, ToldOrFailed, Error, Exception, Answer
  <2>4. c.selects = FALSE /\ result.text = Emitted(Made(c), "markup")
    BY <2>2, <2>3 DEF Told, Answer
  <2> QED BY <2>2, <2>3, <2>4, MarkedUp
<1> QED BY <1>1, MessageInvariance, PTL

-----------------------------------------------------------------------------
(* Recursion *)

\* Induction over a set: the prover has none over predicates.
LEMMA SetInduction ==
  ASSUME NEW S, 0 \in S, \A n \in Nat : n \in S => n + 1 \in S
  PROVE  Nat \subseteq S
<1> DEFINE T == {n \in Nat : n \notin S}
           R == {ss \in Nat \X Nat : ss[1] < ss[2]}
<1>1. SUFFICES ASSUME T # {} PROVE FALSE
  OBVIOUS
<1>2. IsWellFoundedOn(R, Nat)
  BY NatLessThanWellFounded DEF OpToRel
<1>3. PICK x \in T : \A y \in T : <<y, x>> \notin R
  <2>1. T \subseteq Nat
    OBVIOUS
  <2> HIDE DEF T, R
  <2> QED BY <1>1, <1>2, <2>1, WFMin
<1>4. x \in Nat /\ x \notin S /\ x # 0
  OBVIOUS
<1>5. x - 1 \in Nat /\ x - 1 < x /\ (x - 1) + 1 = x
  BY <1>4
<1>6. x - 1 \in S
  <2> SUFFICES ASSUME x - 1 \notin S PROVE FALSE
    OBVIOUS
  <2>1. x - 1 \in T /\ <<x - 1, x>> \in R
    BY <1>4, <1>5
  <2> HIDE DEF R, T
  <2> QED BY <1>3, <2>1
<1> QED BY <1>4, <1>5, <1>6

\* A function that is defined by recursion exists, whatever its step does.
Recursion(f, n, a, step) == f = [i \in 0..n |-> IF i = 0 THEN a ELSE step[i][f[i - 1]]]

LEMMA RecursionExists ==
  ASSUME NEW n \in Nat, NEW A, NEW a \in A, NEW step \in [1..n -> [A -> A]]
  PROVE  \E f \in [0..n -> A] : Recursion(f, n, a, step)
<1> DEFINE Upto(k, f) == f \in [0..n -> A] /\ f[0] = a /\ \A i \in 1..n : i <= k => f[i] = step[i][f[i - 1]]
           S == {k \in Nat : k <= n => \E f : Upto(k, f)}
<1>1. 0 \in S
  <2>1. [i \in 0..n |-> a] \in [0..n -> A]
    OBVIOUS
  <2>2. Upto(0, [i \in 0..n |-> a])
    BY <2>1
  <2> QED BY <2>2
<1>2. ASSUME NEW k \in Nat, k \in S PROVE k + 1 \in S
  <2>1. SUFFICES ASSUME k + 1 <= n PROVE \E f : Upto(k + 1, f)
    OBVIOUS
  <2>2. PICK f : Upto(k, f)
    BY <1>2, <2>1
  <2> DEFINE g == [f EXCEPT ![k + 1] = step[k + 1][f[k]]]
  <2>3. f[k] \in A /\ k + 1 \in 1..n /\ step[k + 1][f[k]] \in A
    BY <2>1, <2>2
  <2>4. g \in [0..n -> A] /\ g[k + 1] = step[k + 1][f[k]] /\ \A i \in 0..n : i # k + 1 => g[i] = f[i]
    BY <2>2, <2>3
  <2>5. Upto(k + 1, g)
    <3> HIDE DEF g
    <3>1. g[0] = a
      BY <2>2, <2>4
    <3>2. ASSUME NEW i \in 1..n, i <= k + 1 PROVE g[i] = step[i][g[i - 1]]
      <4>1. CASE i = k + 1
        BY <2>4, <4>1
      <4>2. CASE i <= k
        <5>1. i - 1 \in 0..n /\ i - 1 # k + 1 /\ i # k + 1
          BY <4>2
        <5> QED BY <2>2, <2>4, <4>2, <5>1
      <4> QED BY <3>2, <4>1, <4>2
    <3> QED BY <2>4, <3>1, <3>2
  <2> QED BY <2>5
<1> HIDE DEF S
<1>3. n \in S
  BY <1>1, <1>2, SetInduction
<1>4. PICK f : Upto(n, f)
  BY <1>3 DEF S
<1>5. f = [i \in 0..n |-> IF i = 0 THEN a ELSE step[i][f[i - 1]]]
  BY <1>4
<1> QED BY <1>4, <1>5 DEF Recursion

\* What every step of a recursive function keeps holds of all of it.
LEMMA Stays ==
  ASSUME NEW n \in Nat, NEW A, NEW f, f[0] \in A, \A i \in 1..n : f[i - 1] \in A => f[i] \in A
  PROVE  \A i \in 0..n : f[i] \in A
<1> DEFINE S == {k \in Nat : k <= n => f[k] \in A}
<1>1. 0 \in S
  OBVIOUS
<1>2. ASSUME NEW k \in Nat, k \in S PROVE k + 1 \in S
  <2>1. SUFFICES ASSUME k + 1 <= n PROVE f[k + 1] \in A
    OBVIOUS
  <2>2. k + 1 \in 1..n /\ (k + 1) - 1 = k /\ f[k] \in A
    BY <1>2, <2>1
  <2> QED BY <2>2
<1> HIDE DEF S
<1>3. Nat \subseteq S
  BY <1>1, <1>2, SetInduction
<1> QED BY <1>3 DEF S

-----------------------------------------------------------------------------
(* Texts in turn *)

LEMMA JoinedSays ==
  ASSUME NEW S, NEW p \in Seq(S), NEW q \in Seq(S), NEW piece
  PROVE  Says(p \o q, piece) <=> (Says(p, piece) \/ Says(q, piece))
<1>1. /\ p \o q \in Seq(S) /\ Len(p \o q) = Len(p) + Len(q)
      /\ \A i \in 1..Len(p) + Len(q) : (p \o q)[i] = IF i <= Len(p) THEN p[i] ELSE q[i - Len(p)]
  BY ConcatProperties
<1>2. /\ Len(p) \in Nat /\ Len(q) \in Nat /\ DOMAIN p = 1..Len(p) /\ DOMAIN q = 1..Len(q)
      /\ DOMAIN (p \o q) = 1..(Len(p) + Len(q))
  BY <1>1, LenProperties
<1>3. ASSUME NEW i \in DOMAIN p PROVE i \in DOMAIN (p \o q) /\ (p \o q)[i] = p[i]
  BY <1>1, <1>2
<1>4. ASSUME NEW i \in DOMAIN q PROVE Len(p) + i \in DOMAIN (p \o q) /\ (p \o q)[Len(p) + i] = q[i]
  BY <1>1, <1>2
<1>5. ASSUME NEW i \in DOMAIN (p \o q)
      PROVE  (i \in DOMAIN p /\ (p \o q)[i] = p[i]) \/ (i - Len(p) \in DOMAIN q /\ (p \o q)[i] = q[i - Len(p)])
  BY <1>1, <1>2
<1> QED BY <1>3, <1>4, <1>5, Zenon DEF Says

Strings(S) == [print : Seq(S), speak : Seq(S)]

LEMMA JoinedStrings ==
  ASSUME NEW S, NEW a \in Strings(S), NEW b \in Strings(S)
  PROVE  Joined(a, b) \in Strings(S)
<1>1. a.print \o b.print \in Seq(S) /\ a.speak \o b.speak \in Seq(S)
  BY ConcatProperties DEF Strings
<1> QED BY <1>1 DEF Joined, Strings

\* What is made of parts in turn, part by part.
LEMMA InTurnUnfolds ==
  ASSUME NEW S, NEW parts \in Seq(Strings(S))
  PROVE  \E upTo : /\ InTurn(parts) = upTo[Len(parts)]
                   /\ upTo[0] = Speakable(<<>>)
                   /\ \A j \in 1..Len(parts) : upTo[j] = Joined(upTo[j - 1], parts[j])
                   /\ \A j \in 0..Len(parts) : upTo[j] \in Strings(S)
<1> DEFINE n == Len(parts)
           A == Strings(S)
           empty == Speakable(<<>>)
           step == [j \in 1..n |-> [a \in A |-> Joined(a, parts[j])]]
           upTo[j \in 0..Len(parts)] == IF j = 0 THEN Speakable(<<>>) ELSE Joined(upTo[j - 1], parts[j])
           U(g) == [j \in 0..n |-> IF j = 0 THEN empty ELSE Joined(g[j - 1], parts[j])]
<1>1. n \in Nat /\ \A j \in 1..n : parts[j] \in A
  BY LenProperties, ElementOfSeq
<1>2. empty \in A
  BY DEF Speakable, Strings
<1>3. step \in [1..n -> [A -> A]]
  BY <1>1, JoinedStrings
<1>4. PICK f \in [0..n -> A] : Recursion(f, n, empty, step)
  <2> HIDE DEF step, A, n, empty
  <2> QED BY <1>1, <1>2, <1>3, RecursionExists, Zenon
<1>5. f = U(f)
  <2>1. \A j \in 0..n : j # 0 => j \in 1..n /\ j - 1 \in 0..n
    BY <1>1
  <2> HIDE DEF A, n, empty
  <2>2. \A j \in 0..n : j # 0 => step[j][f[j - 1]] = Joined(f[j - 1], parts[j])
    BY <1>4, <2>1
  <2> QED BY <1>4, <2>2 DEF Recursion
<1>6. upTo = U(upTo)
  <2>1. upTo = CHOOSE g : g = U(g)
    BY Zenon
  <2> HIDE DEF upTo, U
  <2> QED BY <1>5, <2>1, Zenon
<1>7. InTurn(parts) = upTo[n]
  BY Zenon DEF InTurn
<1> HIDE DEF upTo, empty, n, A
<1>8. upTo[0] = empty /\ \A j \in 1..n : upTo[j] = Joined(upTo[j - 1], parts[j])
  <2>1. \A j \in 0..n : upTo[j] = IF j = 0 THEN empty ELSE Joined(upTo[j - 1], parts[j])
    BY <1>6, Zenon
  <2>2. 0 \in 0..n /\ \A j \in 1..n : j \in 0..n /\ j # 0
    BY <1>1
  <2> QED BY <2>1, <2>2, Zenon
<1>9. \A j \in 0..n : upTo[j] \in A
  <2>1. upTo[0] \in A /\ \A j \in 1..n : upTo[j - 1] \in A => upTo[j] \in A
    BY <1>1, <1>2, <1>8, JoinedStrings DEF A
  <2> QED BY <1>1, <2>1, Stays, Zenon
<1> QED BY <1>7, <1>8, <1>9, Zenon DEF n, empty, A

\* It is a string of what the parts are strings of.
LEMMA InTurnStrings ==
  ASSUME NEW S, NEW parts \in Seq(Strings(S)) PROVE InTurn(parts) \in Strings(S)
<1>1. Len(parts) \in Nat /\ Len(parts) \in 0..Len(parts)
  BY LenProperties
<1> QED BY <1>1, InTurnUnfolds, Zenon

\* It says what any of them says.
LEMMA InTurnSays ==
  ASSUME NEW S, NEW parts \in Seq(Strings(S)), NEW piece,
         NEW i \in 1..Len(parts), Says(parts[i].print, piece)
  PROVE  Says(InTurn(parts).print, piece)
<1> DEFINE n == Len(parts)
           A == Strings(S)
<1>1. n \in Nat /\ \A j \in 1..n : parts[j] \in A
  BY LenProperties, ElementOfSeq
<1>2. PICK upTo : /\ InTurn(parts) = upTo[n]
                  /\ \A j \in 1..n : upTo[j] = Joined(upTo[j - 1], parts[j])
                  /\ \A j \in 0..n : upTo[j] \in A
  BY InTurnUnfolds, Zenon
<1> DEFINE T == {j \in Nat : (i <= j /\ j <= n) => Says(upTo[j].print, piece)}
<1>3. 0 \in T
  BY <1>1 DEF n
<1>4. ASSUME NEW j \in Nat, j \in T PROVE j + 1 \in T
  <2> SUFFICES ASSUME i <= j + 1, j + 1 <= n PROVE Says(upTo[j + 1].print, piece)
    OBVIOUS
  <2>1. j + 1 \in 1..n /\ j \in 0..n /\ (j + 1) - 1 = j
    BY <1>1
  <2>2. upTo[j + 1] = Joined(upTo[j], parts[j + 1]) /\ upTo[j] \in A /\ parts[j + 1] \in A
    BY <1>1, <1>2, <2>1
  <2>3. /\ upTo[j + 1].print = upTo[j].print \o parts[j + 1].print
        /\ upTo[j].print \in Seq(S) /\ parts[j + 1].print \in Seq(S)
    <3>1. \A a \in A : a.print \in Seq(S)
      BY DEF A, Strings
    <3>2. \A a, b : Joined(a, b).print = a.print \o b.print
      BY DEF Joined
    <3> QED BY <2>2, <3>1, <3>2, Zenon
  <2>4. i = j + 1 \/ i <= j
    BY DEF n
  <2>5. Says(upTo[j].print, piece) \/ Says(parts[j + 1].print, piece)
    BY <1>4, <2>1, <2>4
  <2> DEFINE p == upTo[j].print
             q == parts[j + 1].print
  <2>6. p \in Seq(S) /\ q \in Seq(S) /\ (Says(p, piece) \/ Says(q, piece)) /\ upTo[j + 1].print = p \o q
    BY <2>3, <2>5, Zenon
  <2> HIDE DEF p, q
  <2>7. Says(p \o q, piece)
    BY <2>6, JoinedSays
  <2> QED BY <2>6, <2>7, Zenon
<1> HIDE DEF T
<1>5. n \in T
  BY <1>1, <1>3, <1>4, SetInduction
<1> QED BY <1>1, <1>2, <1>5 DEF T

-----------------------------------------------------------------------------
(* Quantities *)

LEMMA Tuples ==
  ASSUME NEW A, NEW x \in A, NEW y \in A, NEW z \in A
  PROVE  <<x>> \in Seq(A) /\ <<x, y>> \in Seq(A) /\ <<x, y, z>> \in Seq(A)
OBVIOUS

\* What has no piece but those, alone and as a measure before which a space is.
LEMMA MeasureStrings ==
  ASSUME NEW S, " " \in S, NEW measure, measure = NoValue \/ measure \in S
  PROVE  /\ Space \in Strings(S) /\ Unit(measure) \in Strings(S)
         /\ SpaceBefore(measure) \in Seq(Strings(S)) /\ <<>> \in Seq(Strings(S))
<1>1. ASSUME NEW t \in Seq(S) PROVE Speakable(t) \in Strings(S)
  BY <1>1, Zenon DEF Speakable, Strings
<1>2. ASSUME NEW piece \in S PROVE Word(piece) \in Strings(S)
  BY <1>1, <1>2, Tuples, Zenon DEF Word
<1>3. Speakable(<<>>) \in Strings(S) /\ <<>> \in Seq(Strings(S))
  BY <1>1, EmptySeq, Zenon
<1>4. Space \in Strings(S)
  BY <1>2, Zenon DEF Space
<1>5. CASE measure = NoValue
  <2>1. Unit(measure) = Speakable(<<>>) /\ SpaceBefore(measure) = <<>>
    BY <1>5, Zenon DEF Unit, SpaceBefore
  <2> QED BY <1>3, <1>4, <2>1, Zenon
<1>6. CASE measure # NoValue
  <2>1. Unit(measure) = Word(measure) /\ SpaceBefore(measure) = <<Space, Word(measure)>>
    BY <1>6, Zenon DEF Unit, SpaceBefore
  <2>2. Word(measure) \in Strings(S)
    BY <1>2, <1>6, Zenon
  <2> QED BY <1>3, <1>4, <2>1, <2>2, Tuples, Zenon
<1> QED BY <1>5, <1>6

\* Three parts in turn, and what is behind them.
LEMMA ThreeInTurn ==
  ASSUME NEW S, NEW x \in Strings(S), NEW y \in Strings(S), NEW z \in Strings(S), NEW behind \in Seq(Strings(S))
  PROVE  /\ InTurn(<<x, y, z>> \o behind) \in Strings(S)
         /\ \A piece : Says(x.print, piece) \/ Says(y.print, piece) \/ Says(z.print, piece)
              => Says(InTurn(<<x, y, z>> \o behind).print, piece)
<1> DEFINE A == Strings(S)
           front == <<x, y, z>>
           parts == front \o behind
<1> HIDE DEF A
<1>1. x \in A /\ y \in A /\ z \in A /\ behind \in Seq(A)
  BY DEF A
<1>2. front \in Seq(A) /\ Len(front) = 3 /\ front[1] = x /\ front[2] = y /\ front[3] = z
  BY <1>1
<1> HIDE DEF front
<1>3. Len(behind) \in Nat
  BY <1>1, LenProperties
<1>4. /\ parts \in Seq(A) /\ Len(parts) = 3 + Len(behind)
      /\ parts[1] = x /\ parts[2] = y /\ parts[3] = z
  <2>1. /\ parts \in Seq(A) /\ Len(parts) = Len(front) + Len(behind)
        /\ \A i \in 1..(Len(front) + Len(behind)) :
             parts[i] = IF i <= Len(front) THEN front[i] ELSE behind[i - Len(front)]
    BY <1>1, <1>2, ConcatProperties
  <2> HIDE DEF parts
  <2>2. \A i \in 1..3 : parts[i] = front[i]
    BY <1>2, <1>3, <2>1
  <2> QED BY <1>2, <2>1, <2>2
<1> HIDE DEF parts
<1>5. 1 \in 1..Len(parts) /\ 2 \in 1..Len(parts) /\ 3 \in 1..Len(parts)
  BY <1>3, <1>4
<1>6. InTurn(parts) \in A
  BY <1>4, InTurnStrings, Zenon DEF A
<1>7. ASSUME NEW piece, Says(x.print, piece) \/ Says(y.print, piece) \/ Says(z.print, piece)
      PROVE  Says(InTurn(parts).print, piece)
  <2>1. parts \in Seq(Strings(S))
    BY <1>4 DEF A
  <2>2. CASE Says(x.print, piece)
    BY <1>4, <1>5, <2>1, <2>2, InTurnSays, Zenon
  <2>3. CASE Says(y.print, piece)
    BY <1>4, <1>5, <2>1, <2>3, InTurnSays, Zenon
  <2>4. CASE Says(z.print, piece)
    BY <1>4, <1>5, <2>1, <2>4, InTurnSays, Zenon
  <2> QED BY <1>7, <2>2, <2>3, <2>4
<1> QED BY <1>6, <1>7, Zenon DEF parts, front, A

\* Some counts are shown by the form of the noun alone.
Numbered(factory, noun, count) ==
  /\ factory.class = "ar" => count \notin {"one", "two"}
  /\ factory.class = "he" => noun.print \notin HebrewUnits

\* What number and noun are joined to says what the noun says, in every language,
\* and what the number says, where it is shown, and nothing but that, a space and
\* a measure.
LEMMA QuantityFacts ==
  ASSUME NEW factory, NEW S, NEW number \in Strings(S), NEW noun \in Strings(S), NEW measure, NEW count,
         " " \in S, measure = NoValue \/ measure \in S
  PROVE  /\ QuantifiedJoin(factory, number, noun, measure, count) \in Strings(S)
         /\ \A piece : Says(noun.print, piece) \/ (Says(number.print, piece) /\ Numbered(factory, noun, count))
              => Says(QuantifiedJoin(factory, number, noun, measure, count).print, piece)
<1> DEFINE Either(q) == /\ q \in Strings(S)
                        /\ \A piece : Says(noun.print, piece) \/ Says(number.print, piece) => Says(q.print, piece)
           quantity == QuantifiedJoin(factory, number, noun, measure, count)
<1>1. /\ Space \in Strings(S) /\ Unit(measure) \in Strings(S)
      /\ SpaceBefore(measure) \in Seq(Strings(S)) /\ <<>> \in Seq(Strings(S))
  BY MeasureStrings, Zenon
<1>2. ASSUME NEW x \in Strings(S), NEW behind \in Seq(Strings(S))
      PROVE  /\ Either(InTurn(<<number, x, noun>> \o behind)) /\ Either(InTurn(<<noun, x, number>> \o behind))
             /\ Either(InTurn(<<number, noun, x>> \o behind))
  BY <1>2, ThreeInTurn, Zenon
<1>3. ASSUME NEW x \in Strings(S), NEW y \in Strings(S), NEW z \in Strings(S) PROVE <<x, y, z>> \o <<>> = <<x, y, z>>
  <2>1. <<x, y, z>> \in Seq(Strings(S))
    BY <1>3, Tuples, Zenon
  <2> QED BY <2>1, ConcatEmptySeq, Zenon
<1>4. Either(NumberFirst(number, noun)) /\ Either(NounFirst(number, noun))
  BY <1>1, <1>2, <1>3, Zenon DEF NumberFirst, NounFirst
<1>5. Either(Joined(number, noun))
  <2>1. number.print \in Seq(S) /\ noun.print \in Seq(S) /\ number.speak \in Seq(S) /\ noun.speak \in Seq(S)
    BY DEF Strings
  <2>2. Joined(number, noun).print = number.print \o noun.print
    BY DEF Joined
  <2>3. ASSUME NEW p \in Seq(S), NEW q \in Seq(S)
        PROVE  \A piece : Says(q, piece) \/ Says(p, piece) => Says(p \o q, piece)
    BY <2>3, JoinedSays
  <2> QED BY <2>1, <2>2, <2>3, JoinedStrings, Zenon
<1>6. Either(JaJoin(number, noun, measure)) /\ Either(ThJoin(number, noun, measure)) /\ Either(KoJoin(number, noun, measure))
  BY <1>1, <1>2, <1>3, Zenon DEF JaJoin, ThJoin, KoJoin
<1>7. YueJoin(number, noun, measure) = JaJoin(number, noun, measure)
      /\ ZhJoin(number, noun, measure) = JaJoin(number, noun, measure)
  BY Zenon DEF YueJoin, ZhJoin, JaJoin
<1> HIDE DEF Either
<1>8. Either(ItJoin(number, noun, count)) /\ Either(MlJoin(number, noun, count))
  BY <1>4, <1>5 DEF ItJoin, MlJoin
<1>9. CASE factory.class = "ar"
  <2>1. quantity = IF count \in {"one", "two"} THEN noun ELSE NumberFirst(number, noun)
    BY <1>9 DEF QuantifiedJoin, ArJoin
  <2>2. Numbered(factory, noun, count) => count \notin {"one", "two"}
    BY <1>9 DEF Numbered
  <2> QED BY <1>4, <2>1, <2>2 DEF Either
<1>10. CASE factory.class = "he"
  <2>1. quantity = IF noun.print \in HebrewUnits THEN noun
                   ELSE IF count = "one" THEN NounFirst(number, noun) ELSE NumberFirst(number, noun)
    BY <1>10 DEF QuantifiedJoin, HeJoin
  <2>2. Numbered(factory, noun, count) => noun.print \notin HebrewUnits
    BY <1>10 DEF Numbered
  <2> QED BY <1>4, <2>1, <2>2 DEF Either
<1>11. CASE factory.class \notin {"ar", "he"}
  <2>1. Either(quantity)
    BY <1>4, <1>6, <1>7, <1>8, <1>11 DEF QuantifiedJoin
  <2> QED BY <2>1 DEF Either
<1> QED BY <1>9, <1>10, <1>11

LEMMA QuantitySays ==
  ASSUME NEW factory, NEW number \in Speakables, NEW noun \in Speakables, NEW measure, NEW count,
         NEW piece, Says(noun.print, piece)
  PROVE  Says(QuantifiedJoin(factory, number, noun, measure, count).print, piece)
<1> DEFINE S == Pieces \cup {" ", measure}
<1>1. Strings(Pieces) \subseteq Strings(S)
  <2>1. Pieces \subseteq S
    OBVIOUS
  <2> HIDE DEF S
  <2>2. \A s \in Seq(Pieces) : s \in Seq(S)
    BY <2>1
  <2> QED BY <2>2 DEF Strings
<1>2. number \in Strings(S) /\ noun \in Strings(S)
  BY <1>1 DEF Speakables, Strings
<1>3. " " \in S /\ measure \in S
  OBVIOUS
<1> HIDE DEF S
<1> QED BY <1>2, <1>3, QuantityFacts, Zenon

\* Which classes of factories there are of which languages.
LEMMA FactoryFacts ==
  ASSUME NEW locale, FactoryOf(locale) # Thrown
  PROVE  LET factory == FactoryOf(locale)
         IN  /\ factory.language = locale.language
             /\ factory.class = "ar" => locale.language = "ar"
             /\ factory.class = "he" => locale.language \in {"he", "iw"}
             /\ factory.class = "slavic" => locale.language \in SlavicLanguages \ {"hr", "sr"}
             /\ factory.class = "serbo-croatian" => locale.language \in {"hr", "sr"}
<1>1. ASSUME NEW l \in DOMAIN Constructors
      PROVE  /\ Constructors[l].class = "ar" => l = "ar"
             /\ Constructors[l].class = "he" => l \in {"he", "iw"}
             /\ Constructors[l].class = "slavic" => l \in SlavicLanguages \ {"hr", "sr"}
             /\ Constructors[l].class = "serbo-croatian" => l \in {"hr", "sr"}
  <2>1. SlavicLanguages = {"ru", "pl", "uk", "cs", "sk", "hr", "sr"}
    BY DEF SlavicLanguages, SlavicConfig
  <2> QED BY <2>1 DEF Constructors, Plain, ByGender, Class
<1>2. Plain("yue").class = "yue" /\ Plain("default").class = "default"
  BY DEF Plain, Class
<1> QED BY <1>1, <1>2 DEF FactoryOf

LEMMA CountsAreRules ==
  /\ \A language, tenths : SelectCount(language, tenths) \in Rules
  /\ \A count \in Rules : NumberOfCount[count] \in {"singular", "dual", "plural"}
BY DEF SelectCount, ConvertKeywordToCount, NumberOfCount, Rules

LEMMA ObliqueIsNoOther ==
  Oblique \cap {"", "nominative", "accusative", "&", "<", ">", "&amp;", "&lt;", "&gt;", "&quot;"} = {}
BY Zenon DEF Oblique

LEMMA ObliqueIsNotMarkup == Oblique \cap MarkupPieces = {}
BY Zenon DEF Oblique, DoubleQuote, MarkupPieces, Entities

\* The noun of a number has the case of what is counted, if that is no direct one.
LEMMA DefaultNounKept ==
  ASSUME NEW c, NEW count \in Rules
  PROVE  DefaultNoun(c, count) \in InNumbers(c)
BY CountsAreRules DEF DefaultNoun, InNumbers

LEMMA FinnishNounKept ==
  ASSUME NEW c, NEW count, FeatureOf(c, "case") \in Oblique, NoValue \notin Oblique
  PROVE  FinnishNoun(c, count) \in InNumbers(c)
BY ObliqueIsNoOther DEF FinnishNoun, InNumbers

LEMMA SlavicNounKept ==
  ASSUME NEW language, NEW c, NEW count, FeatureOf(c, "case") \in Oblique, NoValue \notin Oblique,
         NEW mode \in {"singular", "paucal governed", "paucal plural", "governed plural"},
         mode = "governed plural" => language \notin {"hr", "sr"}
  PROVE  SlavicNoun(language, c, mode, count) \in InNumbers(c)
<1> DEFINE case == SlavicFeature(c, "case")
<1>1. case \in Oblique /\ case \notin {"", "nominative", "accusative"}
  BY ObliqueIsNoOther DEF SlavicFeature
<1> HIDE DEF case
<1>2. InCase(c, AdjustedCase(language, c, count, case)) = c
  BY <1>1 DEF AdjustedCase, InCase
<1>3. GatedGenitive(language, c, case, mode) = c
  BY <1>1 DEF GatedGenitive, Direct
<1>4. SlavicNoun(language, c, mode, count) \in
        {WithConstraint(c, "number", "singular"), WithConstraint(c, "number", "plural")}
  <2>1. CASE mode = "singular"
    BY <1>2, <2>1 DEF SlavicNoun, case
  <2>2. CASE mode = "paucal governed"
    BY <1>3, <2>2 DEF SlavicNoun, case
  <2>3. CASE mode = "paucal plural"
    BY <1>2, <2>3 DEF SlavicNoun, case
  <2>4. CASE mode = "governed plural"
    BY <1>3, <2>4 DEF SlavicNoun, case
  <2> QED BY <2>1, <2>2, <2>3, <2>4
<1> QED BY <1>4 DEF InNumbers

\* What is counted says a piece in every number, if it is shown.
SaysInNumbers(c, piece) ==
  \A d \in InNumbers(c) :
    ShownOf(d) = NoString \/ (ShownOf(d) \in Speakables /\ Says(ShownOf(d).print, piece))

LEMMA JoinedWithSays ==
  ASSUME NEW factory, NEW number \in Speakables, NEW c, NEW d \in InNumbers(c), NEW measure, NEW count,
         NEW piece, SaysInNumbers(c, piece)
  PROVE  /\ JoinedWith(factory, number, NounOf(d, c), measure, count) # Thrown =>
              Says(JoinedWith(factory, number, NounOf(d, c), measure, count).print, piece)
         /\ JoinedWith(factory, number, ShownOf(d), measure, count) # Thrown =>
              Says(JoinedWith(factory, number, ShownOf(d), measure, count).print, piece)
<1>1. c \in InNumbers(c)
  BY DEF InNumbers
<1>2. ASSUME NEW e, e = NoString \/ (e \in Speakables /\ Says(e.print, piece))
      PROVE  JoinedWith(factory, number, e, measure, count) # Thrown =>
               Says(JoinedWith(factory, number, e, measure, count).print, piece)
  BY <1>2, QuantitySays DEF JoinedWith
<1>3. NounOf(d, c) = ShownOf(d) \/ NounOf(d, c) = ShownOf(c)
  BY DEF NounOf
<1> QED BY <1>1, <1>2, <1>3 DEF SaysInNumbers

LEMMA Agreements ==
  ASSUME NEW l \in SlavicLanguages, NEW count
  PROVE  /\ AgreementForCount(l, count) \in {"singular", "paucal governed", "paucal plural", "governed plural", "fraction"}
         /\ l \in {"hr", "sr"} /\ count \in {"one", "few"} =>
              AgreementForCount(l, count) \in {"singular", "paucal governed"}
<1>1. /\ SlavicConfig[l] \in {Ru, Pl, Uk, Cs, Sk, SerboCroatian}
      /\ l \in {"hr", "sr"} => SlavicConfig[l] = SerboCroatian
  BY DEF SlavicLanguages, SlavicConfig
<1>2. ASSUME NEW config \in {Ru, Pl, Uk, Cs, Sk, SerboCroatian}
      PROVE  /\ config["few"] \in {"paucal governed", "paucal plural"}
             /\ config["many"] \in {"governed plural", "fraction"} /\ config["other"] \in {"governed plural", "fraction"}
  <2>1. Ru["few"] = "paucal governed" /\ Ru["many"] = "governed plural" /\ Ru["other"] = "fraction"
    BY DEF Ru, Config
  <2>3. Pl["few"] = "paucal plural" /\ Pl["many"] = "governed plural" /\ Pl["other"] = "fraction"
    BY DEF Pl, Config
  <2>4. Cs["few"] = "paucal plural" /\ Cs["many"] = "fraction" /\ Cs["other"] = "governed plural"
    BY DEF Cs, Config
  <2>5. SerboCroatian["few"] = "paucal governed" /\ SerboCroatian["many"] = "governed plural"
        /\ SerboCroatian["other"] = "governed plural"
    BY DEF SerboCroatian, Config
  <2>6. Uk["few"] = "paucal plural" /\ Uk["many"] = "governed plural" /\ Uk["other"] = "fraction"
    BY DEF Uk, Config
  <2>7. config \in {Ru, Pl, Uk, Cs, SerboCroatian}
    BY Zenon DEF Cs, Sk
  <2> QED BY <2>1, <2>3, <2>4, <2>5, <2>6, <2>7, Zenon
<1>3. SerboCroatian["few"] = "paucal governed"
  BY DEF SerboCroatian, Config
<1> DEFINE config == SlavicConfig[l]
<1>4. AgreementForCount(l, count) =
        IF count = "one" THEN "singular" ELSE config[IF count \in {"few", "many"} THEN count ELSE "other"]
  BY DEF AgreementForCount
<1>5. config \in {Ru, Pl, Uk, Cs, Sk, SerboCroatian} /\ (l \in {"hr", "sr"} => config = SerboCroatian)
  BY <1>1
<1> DEFINE agreement == AgreementForCount(l, count)
<1> HIDE DEF config, agreement
<1>6. CASE count = "one"
  <2>1. agreement = "singular"
    BY <1>4, <1>6 DEF agreement
  <2> QED BY <2>1 DEF agreement
<1>7. CASE count = "few"
  <2>1. agreement = config["few"]
    BY <1>4, <1>7 DEF agreement
  <2>2. config["few"] \in {"paucal governed", "paucal plural"}
    BY <1>2, <1>5, Zenon
  <2>3. l \in {"hr", "sr"} => config["few"] = "paucal governed"
    BY <1>3, <1>5, Zenon
  <2> QED BY <1>7, <2>1, <2>2, <2>3 DEF agreement
<1>8. CASE count \notin {"one", "few"}
  <2>1. agreement \in {config["many"], config["other"]}
    BY <1>4, <1>8 DEF agreement
  <2>2. config["many"] \in {"governed plural", "fraction"} /\ config["other"] \in {"governed plural", "fraction"}
    BY <1>2, <1>5, Zenon
  <2> QED BY <1>8, <2>1, <2>2 DEF agreement
<1> QED BY <1>6, <1>7, <1>8

WithoutFractions == {"singular", "paucal governed", "paucal plural", "governed plural"}

\* What a factory makes of a number of things says what the things say in every number.
LEMMA QuantifiedSays ==
  ASSUME NEW locale, FactoryOf(locale) # Thrown, locale.language # "ar",
         NEW n, NEW c, NEW piece,
         NoValue \notin Oblique, FeatureOf(c, "case") \in Oblique, SaysInNumbers(c, piece),
         NumberFor(FactoryOf(locale), n, c) \in Speakables \cup {Thrown},
         locale.language \in SlavicLanguages => n.tenths % 10 = 0,
         locale.language \in {"hr", "sr"} => SelectCount(locale.language, n.tenths) \in {"one", "few"},
         locale.language \in SlavicLanguages \ {"hr", "sr"} =>
           AgreementForCount(locale.language, SelectCount(locale.language, n.tenths)) # "fraction",
         Quantified(FactoryOf(locale), n, c) # Thrown
  PROVE  Says(Quantified(FactoryOf(locale), n, c).print, piece)
<1> DEFINE factory == FactoryOf(locale)
           number == NumberFor(factory, n, c)
           selected == SelectCount(factory.language, n.tenths)
           one == Cardinality(DefaultSupportedCount(factory.language)) <= 1
           count == IF one THEN "other" ELSE selected
           quantity == Quantified(factory, n, c)
<1>1. /\ factory.language = locale.language /\ factory.class # "ar"
      /\ factory.class = "slavic" => locale.language \in SlavicLanguages \ {"hr", "sr"}
      /\ factory.class = "serbo-croatian" => locale.language \in {"hr", "sr"}
  BY FactoryFacts
<1> HIDE DEF factory
<1>2. number \in Speakables /\ quantity = QuantifyFormatted(factory, n, number, c)
  BY DEF Quantified, factory
<1>3. selected \in Rules /\ count \in Rules
  BY CountsAreRules DEF Rules
<1>4. c \in InNumbers(c)
  BY DEF InNumbers
<1>5. quantity # Thrown
  BY DEF factory
<1>10. SUFFICES Says(quantity.print, piece)
  BY DEF factory
<1> HIDE DEF number, selected, one, count, quantity
<1>11. ASSUME NEW d \in InNumbers(c), NEW measure, NEW m,
              quantity \in {JoinedWith(factory, number, NounOf(d, c), measure, m),
                            JoinedWith(factory, number, ShownOf(d), measure, m)}
       PROVE  Says(quantity.print, piece)
  BY <1>2, <1>5, <1>11, JoinedWithSays
<1>6. ASSUME NEW mode \in WithoutFractions, NEW m,
             mode = "governed plural" => factory.language \notin {"hr", "sr"},
             quantity = ResolveQuantity(factory, number, c, mode, m)
      PROVE  Says(quantity.print, piece)
  <2>1. SlavicNoun(factory.language, c, mode, m) \in InNumbers(c)
    BY <1>6, SlavicNounKept DEF WithoutFractions
  <2>2. quantity = JoinedWith(factory, number, NounOf(SlavicNoun(factory.language, c, mode, m), c), NoValue, m)
    BY <1>6 DEF ResolveQuantity
  <2> QED BY <1>11, <2>1, <2>2
<1>7. CASE factory.class = "serbo-croatian"
  <2>1. locale.language \in {"hr", "sr"} /\ locale.language \in SlavicLanguages /\ n.tenths % 10 = 0
        /\ selected \in {"one", "few"}
    BY <1>1, <1>7 DEF SlavicLanguages, SlavicConfig, selected
  <2>2. quantity = ResolveQuantity(factory, number, c, AgreementForCount(factory.language, selected), selected)
    BY <1>2, <1>7, <2>1 DEF QuantifyFormatted, selected
  <2>3. AgreementForCount(factory.language, selected) \in {"singular", "paucal governed"}
    BY <1>1, <2>1, Agreements
  <2> QED BY <1>6, <2>2, <2>3 DEF WithoutFractions
<1>8. CASE factory.class # "serbo-croatian"
  <2>1. quantity = QuantifyType(factory, number, c, one, count)
    BY <1>2, <1>8 DEF QuantifyFormatted, selected, count, one
  <2>2. CASE factory.class = "fi"
    <3>1. quantity = JoinedWith(factory, number, ShownOf(FinnishNoun(c, count)), NoValue, count)
      BY <2>1, <2>2 DEF QuantifyType
    <3>2. FinnishNoun(c, count) \in InNumbers(c)
      BY FinnishNounKept
    <3> QED BY <1>11, <3>1, <3>2
  <2>3. CASE factory.class = "slavic" /\ ~one
    <3>1. quantity = ResolveQuantity(factory, number, c, AgreementForCount(factory.language, count), count)
      BY <2>1, <2>3 DEF QuantifyType
    <3>2. count = selected /\ locale.language \in SlavicLanguages \ {"hr", "sr"}
      BY <1>1, <2>3 DEF count
    <3>3. AgreementForCount(factory.language, count) # "fraction"
      BY <1>1, <3>2 DEF selected
    <3>4. AgreementForCount(factory.language, count) \in
            WithoutFractions
      BY <1>1, <3>2, <3>3, Agreements DEF WithoutFractions
    <3>5. factory.language \notin {"hr", "sr"}
      BY <1>1, <3>2
    <3> QED BY <1>6, <3>1, <3>4, <3>5
  <2>4. CASE factory.class # "fi" /\ ~(factory.class = "slavic" /\ ~one)
    <3>1. quantity = DefaultQuantifyType(factory, number, c, one, count)
      BY <1>1, <2>1, <2>4, Zenon DEF QuantifyType
    <3> DEFINE d == IF one THEN c ELSE DefaultNoun(c, count)
               measure == IF HasFeature(c.language, "measure") THEN ConstraintOf(c, "measure") ELSE NoValue
    <3>2. d \in InNumbers(c)
      BY <1>3, <1>4, DefaultNounKept
    <3>3. quantity = JoinedWith(factory, number, NounOf(d, c), measure, count)
      BY <3>1, Zenon DEF DefaultQuantifyType
    <3> HIDE DEF d, measure
    <3> QED BY <1>11, <3>2, <3>3
  <2> QED BY <2>2, <2>3, <2>4
<1> QED BY <1>7, <1>8

\* Markup writes a piece as it is, if it is none of its own, and adds none but those.
LEMMA EscapedSays ==
  ASSUME NEW T, NEW t \in Seq(T), NEW attribute
  PROVE  /\ Escaped(t, attribute) \in Seq(T \cup MarkupPieces)
         /\ \A piece : piece \notin MarkupPieces /\ Says(t, piece) => Says(Escaped(t, attribute), piece)
<1> DEFINE q == Escaped(t, attribute)
           g(i) == CASE t[i] = "&" -> "&amp;" [] t[i] = "<" -> "&lt;" [] t[i] = ">" -> "&gt;"
                     [] t[i] = DoubleQuote /\ attribute -> "&quot;" [] OTHER -> t[i]
<1>1. Len(t) \in Nat /\ DOMAIN t = 1..Len(t) /\ \A i \in DOMAIN t : t[i] \in T
  OBVIOUS
<1>2. q = [i \in DOMAIN t |-> g(i)]
  BY Zenon DEF Escaped
<1> HIDE DEF q
<1>3. ASSUME NEW i \in DOMAIN t
      PROVE  q[i] \in Entities \cup {t[i]} /\ (t[i] \notin MarkupPieces => q[i] = t[i])
  <2>1. q[i] = CASE t[i] = "&" -> "&amp;" [] t[i] = "<" -> "&lt;" [] t[i] = ">" -> "&gt;"
                 [] t[i] = DoubleQuote /\ attribute -> "&quot;" [] OTHER -> t[i]
    BY <1>2, Zenon
  <2>2. CASE t[i] \in {"&", "<", ">"} \/ (t[i] = DoubleQuote /\ attribute)
    <3>1. t[i] \in MarkupPieces
      BY <2>2, Zenon DEF MarkupPieces
    <3>2. q[i] \in Entities
      BY <2>1, <2>2, DoubleQuoteIsNoOther, Zenon DEF Entities
    <3> QED BY <3>1, <3>2
  <2>3. CASE ~(t[i] \in {"&", "<", ">"} \/ (t[i] = DoubleQuote /\ attribute))
    <3>1. q[i] = t[i]
      BY <2>1, <2>3, Zenon
    <3> QED BY <3>1
  <2> QED BY <2>2, <2>3
<1>4. DOMAIN q = DOMAIN t
  BY <1>2, Zenon
<1> HIDE DEF g
<1> DEFINE M == T \cup MarkupPieces
<1>5. q \in Seq(M)
  <2>1. \A i \in 1..Len(t) : q[i] \in M
    BY <1>1, <1>3 DEF MarkupPieces
  <2>2. q = [i \in DOMAIN t |-> q[i]]
    BY <1>2
  <2> HIDE DEF M
  <2> QED BY <1>1, <2>1, <2>2
<1>6. ASSUME NEW piece, piece \notin MarkupPieces, Says(t, piece) PROVE Says(q, piece)
  BY <1>3, <1>4, <1>6, Zenon DEF Says
<1> QED BY <1>5, <1>6, Zenon DEF q

LEMMA EmittedSays ==
  ASSUME NEW T, NEW x, x.print \in Seq(T), x.speak \in Seq(T), NEW mode, NEW piece, piece \notin MarkupPieces
  PROVE  /\ Says(x.print, piece) => Says(Emitted(x, mode), piece)
         /\ Says(Emitted(x, mode), piece) => piece \in T
<1> DEFINE M == T \cup MarkupPieces
           p == Escaped(x.print, FALSE)
           s == Escaped(x.speak, TRUE)
           a == <<"<", "sub alias=", DoubleQuote>>
           b == <<DoubleQuote, ">">>
           e == <<"<", "/sub", ">">>
<1>1. p \in Seq(M) /\ s \in Seq(M) /\ (Says(x.print, piece) => Says(p, piece))
  BY EscapedSays
<1>2. x.print \in Seq(M)
  <2>1. T \subseteq M
    OBVIOUS
  <2> HIDE DEF M
  <2> QED BY <2>1
<1>3. a \in Seq(M) /\ b \in Seq(M) /\ e \in Seq(M)
  <2> DEFINE lt == "<"
             gt == ">"
             sub == "sub alias="
             end == "/sub"
             quot == DoubleQuote
  <2>1. lt \in M /\ gt \in M /\ quot \in M /\ sub \in M /\ end \in M
    BY Zenon DEF MarkupPieces
  <2> HIDE DEF lt, gt, sub, end, quot, M
  <2>2. <<lt, sub, quot>> \in Seq(M) /\ <<quot, gt>> \in Seq(M) /\ <<lt, end, gt>> \in Seq(M)
    BY <2>1
  <2> QED BY <2>2, Zenon DEF lt, gt, sub, end, quot
<1>4. Emitted(x, mode) \in {x.print, p, (((a \o s) \o b) \o p) \o e}
  BY Zenon DEF Emitted
<1> HIDE DEF M, p, s, a, b, e
<1>5. a \o s \in Seq(M)
  BY <1>1, <1>3, ConcatProperties
<1>6. (a \o s) \o b \in Seq(M)
  BY <1>3, <1>5, ConcatProperties
<1>7. /\ ((a \o s) \o b) \o p \in Seq(M)
      /\ Says(x.print, piece) => Says(((a \o s) \o b) \o p, piece)
  BY <1>1, <1>6, ConcatProperties, JoinedSays
<1>8. /\ (((a \o s) \o b) \o p) \o e \in Seq(M)
      /\ Says(x.print, piece) => Says((((a \o s) \o b) \o p) \o e, piece)
  BY <1>3, <1>7, ConcatProperties, JoinedSays
<1>9. Emitted(x, mode) \in Seq(M) /\ (Says(x.print, piece) => Says(Emitted(x, mode), piece))
  BY <1>1, <1>2, <1>4, <1>8, Zenon
<1>10. ASSUME NEW q \in Seq(M), Says(q, piece) PROVE piece \in M
  BY <1>10 DEF Says
<1> QED BY <1>9, <1>10 DEF M

\* For all dictionaries, factories and messages: where a case is asked of what is
\* counted, the number does not take its place.
THEOREM CaseKept == MessageSpec => []CaseAskedIsKept
<1>1. MessageInv => CaseAskedIsKept
  <2> DEFINE c == call
             case == Option(c.options, "case")
             language == c.locale.language
             factory == FactoryOf(c.locale)
             n == NumberFrom(c.options["withValue"], c.locale)
             counted == Countable(c.operand, c.options, language)
             asked == ShownOf(WithConstraint(ConceptFrom(c.operand, language), "case", case))
  <2> SUFFICES ASSUME MessageInv, Answers("quantify"), result.kind = "text", Has(c.options, "case"),
                      case \in Oblique, Says(asked.print, case), language # "ar",
                      language \in SlavicLanguages => Option(c.options, "withValue") % 10 = 0,
                      language \in {"hr", "sr"} =>
                        SelectCount(language, Option(c.options, "withValue")) \in {"one", "few"}
               PROVE  Says(result.text, case)
    BY Zenon DEF CaseAskedIsKept, InOblique
  <2>1. c \in Calls /\ c.function = "quantify" /\ result = Evaluated(c)
    BY DEF MessageInv, Answers
  <2>2. c.selects \in BOOLEAN /\ (Made(c) \in {Error, Exception} \/ {Made(c).print, Made(c).speak} \subseteq Seq(Pieces))
    BY <2>1, MessageAssumption
  <2>3. Made(c) \notin {Error, Exception} /\ result = Told(c, Made(c))
    BY <2>1 DEF Evaluated, ToldOrFailed, Error, Exception, Answer
  <2>4. result.text = Emitted(Made(c), c.mode) /\ Made(c).print \in Seq(Pieces) /\ Made(c).speak \in Seq(Pieces)
    BY <2>2, <2>3 DEF Told, Answer
  <2>5. factory # Thrown /\ Made(c) = FormattedQuantity(c.operand, c.options, c.locale, factory)
    BY <2>1, <2>3 DEF Made
  <2>6. factory.language = language
    BY <2>5, FactoryFacts
  <2> HIDE DEF factory
  <2>7. Made(c) = QuantityOf(factory, n, counted) /\ Made(c) # Thrown
    <3> DEFINE quantity == QuantityOf(factory, n, Countable(c.operand, c.options, factory.language))
    <3>1. \/ Made(c) \in {Error, Exception}
          \/ Made(c) = quantity /\ quantity # Thrown
      BY <2>5, Zenon DEF FormattedQuantity, NumberGiven
    <3>2. quantity # Thrown /\ Made(c) = quantity
      BY <2>3, <3>1
    <3> QED BY <2>6, <3>2
  <2>8. /\ NoValue \notin Oblique
        /\ QuantityOf(factory, n, counted) = Quantified(factory, n, counted)
        /\ NumberFor(factory, n, counted) \in Speakables
        /\ \A d \in InNumbers(counted) : ShownOf(d) \in Speakables \cup {NoString}
        /\ FeatureOf(counted, "case") = case
        /\ \A d \in InNumbers(counted) : ShownOf(d) = NoString \/ Says(ShownOf(d).print, case)
        /\ language \in SlavicLanguages \ {"hr", "sr"} /\ n.tenths % 10 = 0
           => AgreementForCount(language, SelectCount(language, n.tenths)) # "fraction"
    BY <2>1, <2>3, CaseAssumption, Zenon DEF factory
  <2>9. n.tenths = Option(c.options, "withValue")
    BY DEF NumberFrom, Number, Option
  <2> HIDE DEF n, counted, case, language, asked
  <2>10. SaysInNumbers(counted, case)
    BY <2>8 DEF SaysInNumbers
  <2>11. Says(Quantified(factory, n, counted).print, case)
    BY <2>5, <2>7, <2>8, <2>9, <2>10, QuantifiedSays DEF factory, language
  <2>12. case \notin MarkupPieces
    BY ObliqueIsNotMarkup
  <2> QED BY <2>4, <2>7, <2>8, <2>11, <2>12, EmittedSays
<1> QED BY <1>1, MessageInvariance, PTL

-----------------------------------------------------------------------------
(* Numbers of quantities *)

\* What is made of a number and a noun that is shown.
MadeOf(q, factory, number, nouns, measures, count) ==
  \E noun \in nouns, measure \in measures :
    noun # NoString /\ q = QuantifiedJoin(factory, number, noun, measure, count)

LEMMA NounOfIs ==
  ASSUME NEW c, NEW d, NEW nouns, ShownOf(c) \in nouns, ShownOf(d) \in nouns
  PROVE  NounOf(d, c) \in nouns
BY DEF NounOf

LEMMA JoinedIsMade ==
  ASSUME NEW factory, NEW number, NEW nouns, NEW noun \in nouns, NEW measures, NEW measure \in measures, NEW count,
         JoinedWith(factory, number, noun, measure, count) # Thrown
  PROVE  MadeOf(JoinedWith(factory, number, noun, measure, count), factory, number, nouns, measures, count)
<1>1. noun # NoString
  BY DEF JoinedWith
<1>2. JoinedWith(factory, number, noun, measure, count) = QuantifiedJoin(factory, number, noun, measure, count)
  BY <1>1, Zenon DEF JoinedWith
<1> QED BY <1>1, <1>2, Zenon DEF MadeOf

\* Every factory joins the number with a noun it asks for, or the thing itself,
\* that is shown; the count decides about the noun in Arabic and in Hebrew.
LEMMA QuantityIs ==
  ASSUME NEW locale, FactoryOf(locale) # Thrown, NEW n, NEW c, Quantified(FactoryOf(locale), n, c) # Thrown
  PROVE  LET factory == FactoryOf(locale)
             one == Cardinality(DefaultSupportedCount(factory.language)) <= 1
             count == IF one THEN "other" ELSE SelectCount(factory.language, n.tenths)
             nouns == {ShownOf(d) : d \in NounsAsked(factory, c)}
             measures == {NoValue, ConstraintOf(c, "measure")}
             Is(x, k) == MadeOf(Quantified(factory, n, c), factory, NumberFor(factory, n, c), x, measures, k)
         IN  /\ \E k \in Rules : Is(nouns, k)
             /\ factory.class = "ar" => Is(nouns \cap {NounOf(IF one THEN c ELSE ArabicNoun(c, count), c)}, count)
             /\ factory.class = "he" => Is(nouns \cap {NounOf(IF one THEN c ELSE DefaultNoun(c, count), c)}, count)
<1> DEFINE factory == FactoryOf(locale)
           number == NumberFor(factory, n, c)
           selected == SelectCount(factory.language, n.tenths)
           one == Cardinality(DefaultSupportedCount(factory.language)) <= 1
           count == IF one THEN "other" ELSE selected
           quantity == Quantified(factory, n, c)
           measures == {NoValue, ConstraintOf(c, "measure")}
           nouns == {ShownOf(d) : d \in NounsAsked(factory, c)}
           Is(x, k) == MadeOf(quantity, factory, number, x, measures, k)
           ar == NounOf(IF one THEN c ELSE ArabicNoun(c, count), c)
           he == NounOf(IF one THEN c ELSE DefaultNoun(c, count), c)
           Goal == /\ \E k \in Rules : Is(nouns, k)
                   /\ factory.class = "ar" => Is(nouns \cap {ar}, count)
                   /\ factory.class = "he" => Is(nouns \cap {he}, count)
<1> HIDE DEF Goal
<1>0. SUFFICES Goal
  BY Zenon DEF Goal
<1>1. /\ factory.class = "slavic" => factory.language \in SlavicLanguages
      /\ factory.class = "serbo-croatian" => factory.language \in SlavicLanguages
  BY FactoryFacts DEF SlavicLanguages, SlavicConfig
<1>2. quantity # Thrown /\ quantity = QuantifyFormatted(factory, n, number, c)
  BY Zenon DEF Quantified
<1>3. selected \in Rules /\ count \in Rules
  BY CountsAreRules DEF Rules
<1> HIDE DEF factory, selected, count, quantity, number, one, nouns, measures
<1>4. /\ ShownOf(c) \in nouns
      /\ factory.class = "ar" => \A x \in Rules : ShownOf(ArabicNoun(c, x)) \in nouns
      /\ factory.class = "fi" => \A x \in Rules : ShownOf(FinnishNoun(c, x)) \in nouns
      /\ factory.class \in {"slavic", "serbo-croatian"} =>
           \A m \in NounAgreements, x \in Rules : ShownOf(SlavicNoun(factory.language, c, m, x)) \in nouns
  BY DEF nouns, NounsAsked
<1>5. /\ factory.class \notin {"ar", "fi", "slavic", "serbo-croatian"} /\ ~one =>
           \A x \in Rules : ShownOf(DefaultNoun(c, x)) \in nouns
      /\ NoValue \in measures /\ ConstraintOf(c, "measure") \in measures
  BY DEF nouns, NounsAsked, one, measures
<1>6. ASSUME NEW x, NEW noun \in x, NEW measure \in measures, NEW k,
             quantity = JoinedWith(factory, number, noun, measure, k)
      PROVE  Is(x, k)
  BY <1>2, <1>6, JoinedIsMade, Zenon
<1> HIDE DEF Is, ar, he
<1>7. CASE factory.class = "serbo-croatian"
  <2> DEFINE mode == IF n.tenths % 10 # 0 THEN "fraction" ELSE AgreementForCount(factory.language, selected)
             noun == NounOf(SlavicNoun(factory.language, c, mode, selected), c)
  <2>1. quantity = ResolveQuantity(factory, number, c, mode, selected)
    BY <1>2, <1>7 DEF QuantifyFormatted, selected
  <2>2. mode \in NounAgreements
    BY <1>1, <1>7, Agreements DEF NounAgreements
  <2> HIDE DEF mode
  <2>3. noun \in nouns
    BY <1>3, <1>4, <1>7, <2>2, NounOfIs
  <2>4. quantity = JoinedWith(factory, number, noun, NoValue, selected)
    BY <2>1, Zenon DEF ResolveQuantity
  <2> HIDE DEF noun
  <2>5. Is(nouns, selected)
    BY <1>5, <1>6, <2>3, <2>4
  <2> QED BY <1>3, <1>7, <2>5 DEF Goal
<1>8. CASE factory.class # "serbo-croatian"
  <2>1. quantity = QuantifyType(factory, number, c, one, count)
    BY <1>2, <1>8 DEF QuantifyFormatted, selected, count, one
  <2>2. CASE factory.class = "ar"
    <3>1. quantity = JoinedWith(factory, number, ar, NoValue, count)
      BY <2>1, <2>2, Zenon DEF QuantifyType, ar
    <3>2. ar \in nouns
      BY <1>3, <1>4, <2>2, NounOfIs DEF ar
    <3>3. Is(nouns, count) /\ Is(nouns \cap {ar}, count)
      BY <1>5, <1>6, <3>1, <3>2
    <3> QED BY <1>3, <2>2, <3>3 DEF Goal
  <2>3. CASE factory.class = "fi"
    <3>1. quantity = JoinedWith(factory, number, ShownOf(FinnishNoun(c, count)), NoValue, count)
      BY <2>1, <2>3 DEF QuantifyType
    <3>2. Is(nouns, count)
      BY <1>3, <1>4, <1>5, <1>6, <2>3, <3>1
    <3> QED BY <1>3, <2>3, <3>2 DEF Goal
  <2>4. CASE factory.class = "slavic" /\ ~one
    <3> DEFINE mode == AgreementForCount(factory.language, count)
               noun == NounOf(SlavicNoun(factory.language, c, mode, count), c)
    <3>1. quantity = ResolveQuantity(factory, number, c, mode, count)
      BY <2>1, <2>4 DEF QuantifyType
    <3>2. mode \in NounAgreements
      BY <1>1, <2>4, Agreements DEF NounAgreements
    <3> HIDE DEF mode
    <3>3. noun \in nouns
      BY <1>3, <1>4, <2>4, <3>2, NounOfIs
    <3>4. quantity = JoinedWith(factory, number, noun, NoValue, count)
      BY <3>1, Zenon DEF ResolveQuantity
    <3> HIDE DEF noun
    <3>5. Is(nouns, count)
      BY <1>5, <1>6, <3>3, <3>4
    <3> QED BY <1>3, <2>4, <3>5 DEF Goal
  <2>5. CASE factory.class \notin {"ar", "fi"} /\ ~(factory.class = "slavic" /\ ~one)
    <3>1. quantity = DefaultQuantifyType(factory, number, c, one, count)
      BY <2>1, <2>5, Zenon DEF QuantifyType
    <3> DEFINE measure == IF HasFeature(c.language, "measure") THEN ConstraintOf(c, "measure") ELSE NoValue
    <3>2. quantity = JoinedWith(factory, number, he, measure, count)
      BY <3>1, Zenon DEF DefaultQuantifyType, he
    <3>3. measure \in measures
      BY <1>5
    <3> HIDE DEF measure
    <3>4. he \in nouns
      <4>1. CASE one
        BY <1>4, <4>1, NounOfIs DEF he
      <4>2. CASE ~one
        BY <1>3, <1>4, <1>5, <1>8, <2>5, <4>2, NounOfIs DEF he
      <4> QED BY <4>1, <4>2
    <3>5. Is(nouns, count) /\ Is(nouns \cap {he}, count)
      BY <1>6, <3>2, <3>3, <3>4
    <3> QED BY <1>3, <2>5, <3>5 DEF Goal
  <2> QED BY <2>2, <2>3, <2>4, <2>5
<1> QED BY <1>7, <1>8

\* A speakable string is one of what it says.
LEMMA SaidStrings ==
  ASSUME NEW s \in Speakables, NEW S, SaidBy(s) \subseteq S
  PROVE  s \in Strings(S)
<1> DEFINE P == s.print
           K == s.speak
<1>1. P \in Seq(Pieces) /\ K \in Seq(Pieces) /\ s = [print |-> P, speak |-> K]
  BY DEF Speakables
<1>2. (\A i \in DOMAIN P : P[i] \in S) /\ (\A i \in DOMAIN K : K[i] \in S)
  BY DEF SaidBy
<1> HIDE DEF P, K
<1>3. P \in Seq(S) /\ K \in Seq(S)
  BY <1>1, <1>2
<1> QED BY <1>1, <1>3 DEF Strings

\* What one says and the other does not tells them apart, with markup or without.
LEMMA EmittedApart ==
  ASSUME NEW S, NEW x \in Strings(S), NEW T, NEW y \in Strings(T), NEW mode,
         NEW piece, piece \notin MarkupPieces, Says(x.print, piece), piece \notin T
  PROVE  Emitted(x, mode) # Emitted(y, mode)
<1>1. x.print \in Seq(S) /\ x.speak \in Seq(S) /\ y.print \in Seq(T) /\ y.speak \in Seq(T)
  BY DEF Strings
<1>2. Says(Emitted(x, mode), piece)
  BY <1>1, EmittedSays, Zenon
<1>3. ~Says(Emitted(y, mode), piece)
  BY <1>1, EmittedSays, Zenon
<1> QED BY <1>2, <1>3

LEMMA ApartIsEmitted ==
  ASSUME NEW x \in Speakables, NEW y \in Speakables, Apart(x, y), NEW mode
  PROVE  Emitted(x, mode) # Emitted(y, mode)
<1>1. ASSUME NEW a \in Speakables, NEW b \in Speakables, Tells(a, b, MarkupPieces)
      PROVE  Emitted(a, mode) # Emitted(b, mode)
  <2>1. PICK i \in DOMAIN a.print : a.print[i] \notin MarkupPieces \cup SaidBy(b)
    BY <1>1, Zenon DEF Tells
  <2>2. a \in Strings(SaidBy(a)) /\ b \in Strings(SaidBy(b))
    BY SaidStrings
  <2>3. Says(a.print, a.print[i])
    BY <2>1, Zenon DEF Says
  <2>4. a.print[i] \notin MarkupPieces /\ a.print[i] \notin SaidBy(b)
    BY <2>1
  <2> QED BY <2>2, <2>3, <2>4, EmittedApart, Zenon
<1> QED BY <1>1 DEF Apart

\* A number that is shown and says what another does not, and no noun, space or
\* measure either, tells their quantities apart.
LEMMA NumbersTell ==
  ASSUME NEW factory, NEW mode, NEW others, MarkupPieces \cup {" "} \subseteq others,
         NEW number1 \in Speakables, NEW number2 \in Speakables, Tells(number1, number2, others),
         NEW noun1 \in Speakables, NEW noun2 \in Speakables, SaidBy(noun2) \subseteq others,
         NEW measure1, NEW measure2, measure2 = NoValue \/ measure2 \in others,
         NEW count1, NEW count2, Numbered(factory, noun1, count1)
  PROVE  Emitted(QuantifiedJoin(factory, number1, noun1, measure1, count1), mode)
           # Emitted(QuantifiedJoin(factory, number2, noun2, measure2, count2), mode)
<1> DEFINE S == SaidBy(number1) \cup SaidBy(noun1) \cup {" ", measure1}
           T == SaidBy(number2) \cup SaidBy(noun2) \cup {" "} \cup {m \in {measure2} : m # NoValue}
<1>1. PICK i \in DOMAIN number1.print : number1.print[i] \notin others \cup SaidBy(number2)
  BY Zenon DEF Tells
<1> DEFINE piece == number1.print[i]
<1>2. Says(number1.print, piece) /\ piece \notin MarkupPieces /\ piece \notin T
  BY <1>1 DEF Says
<1>3. number1 \in Strings(S) /\ noun1 \in Strings(S) /\ number2 \in Strings(T) /\ noun2 \in Strings(T)
  BY SaidStrings
<1>4. " " \in S /\ measure1 \in S /\ " " \in T /\ (measure2 = NoValue \/ measure2 \in T)
  OBVIOUS
<1> HIDE DEF S, T, piece
<1>5. QuantifiedJoin(factory, number1, noun1, measure1, count1) \in Strings(S)
      /\ Says(QuantifiedJoin(factory, number1, noun1, measure1, count1).print, piece)
  BY <1>2, <1>3, <1>4, QuantityFacts, Zenon
<1>6. QuantifiedJoin(factory, number2, noun2, measure2, count2) \in Strings(T)
  BY <1>3, <1>4, QuantityFacts, Zenon
<1> QED BY <1>2, <1>5, <1>6, EmittedApart, Zenon

\* Of what is asked, two amounts that are not taken alike make different texts.
LEMMA AmountsApart ==
  ASSUME NEW c \in Calls, c.function = "quantify", Made(c) \notin {Error, Exception}, FactoryOf(c.locale) # Thrown,
         NEW v \in Amounts, IsNumber(v), c.options["withValue"] \in Amounts, IsNumber(c.options["withValue"]),
         v.value # c.options["withValue"].value, ~TakenAlike(c, v.value, c.options["withValue"].value),
         Quantified(FactoryOf(c.locale), NumberFrom(v, c.locale), CountedIn(c)) # Thrown,
         Quantified(FactoryOf(c.locale), NumberFrom(c.options["withValue"], c.locale), CountedIn(c)) # Thrown,
         NEW mode
  PROVE  Emitted(Quantified(FactoryOf(c.locale), NumberFrom(v, c.locale), CountedIn(c)), mode)
           # Emitted(Quantified(FactoryOf(c.locale), NumberFrom(c.options["withValue"], c.locale), CountedIn(c)), mode)
<1> DEFINE own == c.options["withValue"]
           factory == FactoryOf(c.locale)
           language == c.locale.language
           counted == CountedIn(c)
           nouns == NounsOf(c)
           others == BesidesNumber(c)
           one == Cardinality(DefaultSupportedCount(language)) <= 1
           Count(w) == IF one THEN "other" ELSE SelectCount(language, w.value)
           Quantity(w) == Quantified(factory, NumberFrom(w, c.locale), counted)
           Form(number) == ShownOf(WithConstraint(ConceptFrom(c.operand, language), "number", number))
           InCases(number) == {ShownOf(WithConstraints(counted, [number |-> number, case |-> x])) :
                                 x \in {"nominative", "genitive", "accusative"}}
           Ar(w) == NounOf(IF one THEN counted ELSE ArabicNoun(counted, Count(w)), counted)
           He(w) == NounOf(IF one THEN counted ELSE DefaultNoun(counted, Count(w)), counted)
           Shape(w, noun, measure, k) ==
             /\ noun \in nouns /\ measure \in {NoValue, ConstraintOf(counted, "measure")}
             /\ Quantity(w) = QuantifiedJoin(factory, NameOf(c, w), noun, measure, k)
             /\ factory.class = "ar" => noun = Ar(w) /\ k = Count(w)
             /\ factory.class = "he" => noun = He(w) /\ k = Count(w)
<1>1. /\ factory.language = language
      /\ factory.class = "ar" => language = "ar"
      /\ factory.class = "he" => language \in {"he", "iw"}
  BY FactoryFacts
<1>2. /\ nouns \subseteq Speakables /\ NameOf(c, v) \in Speakables /\ NameOf(c, own) \in Speakables
      /\ Tells(NameOf(c, v), NameOf(c, own), others) /\ Tells(NameOf(c, own), NameOf(c, v), others)
  BY AmountAssumption, Zenon
<1>3. language = "ar" /\ Form("singular") # Form("dual") =>
        \A x \in InCases("singular"), y \in InCases("dual") : NoString \notin {x, y} /\ Apart(x, y)
  BY AmountAssumption, Zenon
<1>4. language \in {"he", "iw"} =>
        /\ ~(Cardinality(DefaultSupportedCount(language)) <= 1)
        /\ \A x, y \in Rules :
             /\ x # y /\ NoString \notin {HebrewNoun(c, x), HebrewNoun(c, y)}
             /\ {HebrewNoun(c, x).print, HebrewNoun(c, y).print} \subseteq HebrewUnits
             => Apart(HebrewNoun(c, x), HebrewNoun(c, y))
  BY AmountAssumption, Zenon
<1>5. nouns = {ShownOf(d) : d \in NounsAsked(factory, counted)} \ {NoString}
  BY DEF NounsOf
<1>6. /\ MarkupPieces \cup {" "} \subseteq others /\ ConstraintOf(counted, "measure") \in others
      /\ \A noun \in nouns : SaidBy(noun) \subseteq others
  BY DEF BesidesNumber
<1>7. ASSUME NEW w, Quantity(w) # Thrown PROVE \E noun, measure, k : Shape(w, noun, measure, k)
  <2> DEFINE asked == {ShownOf(d) : d \in NounsAsked(factory, counted)}
             measures == {NoValue, ConstraintOf(counted, "measure")}
             Is(x, k) == MadeOf(Quantity(w), factory, NameOf(c, w), x, measures, k)
  <2>1. NumberFrom(w, c.locale).tenths = w.value
    BY DEF NumberFrom, Number
  <2>2. /\ \E k \in Rules : Is(asked, k)
        /\ factory.class = "ar" => Is(asked \cap {Ar(w)}, Count(w))
        /\ factory.class = "he" => Is(asked \cap {He(w)}, Count(w))
    BY <1>1, <1>7, <2>1, QuantityIs, Zenon DEF NameOf
  <2> HIDE DEF asked, measures
  <2>3. ASSUME NEW x, NEW k, Is(x, k)
        PROVE  \E noun \in x, measure \in measures :
                 noun # NoString /\ Quantity(w) = QuantifiedJoin(factory, NameOf(c, w), noun, measure, k)
    BY <2>3, Zenon DEF MadeOf
  <2> HIDE DEF Is, Ar, He, Count, Quantity
  <2>4. CASE factory.class = "ar"
    <3>1. PICK noun \in asked \cap {Ar(w)}, measure \in measures :
            noun # NoString /\ Quantity(w) = QuantifiedJoin(factory, NameOf(c, w), noun, measure, Count(w))
      BY <2>2, <2>3, <2>4, Zenon
    <3>2. Shape(w, noun, measure, Count(w))
      BY <1>5, <2>4, <3>1 DEF asked, measures
    <3> QED BY <3>2, Zenon
  <2>5. CASE factory.class = "he"
    <3>1. PICK noun \in asked \cap {He(w)}, measure \in measures :
            noun # NoString /\ Quantity(w) = QuantifiedJoin(factory, NameOf(c, w), noun, measure, Count(w))
      BY <2>2, <2>3, <2>5, Zenon
    <3>2. Shape(w, noun, measure, Count(w))
      BY <1>5, <2>5, <3>1 DEF asked, measures
    <3> QED BY <3>2, Zenon
  <2>6. CASE factory.class \notin {"ar", "he"}
    <3>1. PICK k \in Rules : Is(asked, k)
      BY <2>2, Zenon
    <3>2. PICK noun \in asked, measure \in measures :
            noun # NoString /\ Quantity(w) = QuantifiedJoin(factory, NameOf(c, w), noun, measure, k)
      BY <2>3, <3>1, Zenon
    <3>3. Shape(w, noun, measure, k)
      BY <1>5, <2>6, <3>2 DEF asked, measures
    <3> QED BY <3>3, Zenon
  <2> QED BY <2>4, <2>5, <2>6
<1>8. PICK noun1, measure1, k1 : Shape(v, noun1, measure1, k1)
  BY <1>7, Zenon
<1>9. PICK noun2, measure2, k2 : Shape(own, noun2, measure2, k2)
  BY <1>7, Zenon
<1>10. noun1 \in Speakables /\ noun2 \in Speakables /\ noun1 # NoString /\ noun2 # NoString
  BY <1>2, <1>5, <1>8, <1>9
<1>11. /\ SaidBy(noun1) \subseteq others /\ SaidBy(noun2) \subseteq others
       /\ measure1 = NoValue \/ measure1 \in others
       /\ measure2 = NoValue \/ measure2 \in others
  BY <1>6, <1>8, <1>9
<1>12. /\ Quantity(v) = QuantifiedJoin(factory, NameOf(c, v), noun1, measure1, k1)
       /\ Quantity(own) = QuantifiedJoin(factory, NameOf(c, own), noun2, measure2, k2)
  BY <1>8, <1>9
<1>20. SUFFICES Emitted(Quantity(v), mode) # Emitted(Quantity(own), mode)
  OBVIOUS
<1>13. CASE Numbered(factory, noun1, k1)
  <2> HIDE DEF Quantity, own, others, factory
  <2>1. Emitted(QuantifiedJoin(factory, NameOf(c, v), noun1, measure1, k1), mode)
          # Emitted(QuantifiedJoin(factory, NameOf(c, own), noun2, measure2, k2), mode)
    BY <1>2, <1>6, <1>10, <1>11, <1>13, NumbersTell, Zenon
  <2> QED BY <1>12, <2>1, Zenon
<1>14. CASE Numbered(factory, noun2, k2)
  <2> HIDE DEF Quantity, own, others, factory
  <2>1. Emitted(QuantifiedJoin(factory, NameOf(c, own), noun2, measure2, k2), mode)
          # Emitted(QuantifiedJoin(factory, NameOf(c, v), noun1, measure1, k1), mode)
    BY <1>2, <1>6, <1>10, <1>11, <1>14, NumbersTell, Zenon
  <2> QED BY <1>12, <2>1, Zenon
<1>15. CASE ~Numbered(factory, noun1, k1) /\ ~Numbered(factory, noun2, k2)
  <2>1. factory.class \in {"ar", "he"}
    BY <1>15 DEF Numbered
  <2>2. Quantity(v) = noun1 /\ Quantity(own) = noun2
    <3>1. CASE factory.class = "ar"
      <4>1. k1 \in {"one", "two"} /\ k2 \in {"one", "two"}
        BY <1>15, <3>1 DEF Numbered
      <4> QED BY <1>12, <3>1, <4>1 DEF QuantifiedJoin, ArJoin
    <3>2. CASE factory.class = "he"
      <4>1. noun1.print \in HebrewUnits /\ noun2.print \in HebrewUnits
        BY <1>15, <3>2 DEF Numbered
      <4> QED BY <1>12, <3>2, <4>1 DEF QuantifiedJoin, HeJoin
    <3> QED BY <2>1, <3>1, <3>2
  <2>3. SUFFICES Apart(noun1, noun2) \/ Apart(noun2, noun1)
    <3>1. Apart(noun1, noun2)
      BY <2>3, Zenon DEF Apart
    <3> QED BY <1>10, <2>2, <3>1, ApartIsEmitted
  <2>4. CASE factory.class = "ar"
    <3>1. /\ k1 \in {"one", "two"} /\ k2 \in {"one", "two"} /\ k1 = Count(v) /\ k2 = Count(own)
          /\ noun1 = Ar(v) /\ noun2 = Ar(own) /\ language = "ar"
      BY <1>1, <1>8, <1>9, <1>15, <2>4 DEF Numbered
    <3>2. ~one /\ k1 = SelectCount(language, v.value) /\ k2 = SelectCount(language, own.value)
      BY <3>1
    <3>3. k1 # k2 /\ Form("singular") # Form("dual")
      BY <3>1, <3>2, Zenon DEF TakenAlike
    <3>4. ShownOf(ArabicNoun(counted, "one")) \in InCases("singular")
      BY DEF ArabicNoun, ArabicCase
    <3>5. ShownOf(ArabicNoun(counted, "two")) \in InCases("dual")
      BY DEF ArabicNoun, ArabicCase
    <3> DEFINE x == ShownOf(ArabicNoun(counted, "one"))
               y == ShownOf(ArabicNoun(counted, "two"))
    <3>6. x # NoString /\ y # NoString /\ Apart(x, y)
      BY <1>3, <3>1, <3>3, <3>4, <3>5
    <3>7. /\ k1 = "one" => noun1 = x
          /\ k1 = "two" => noun1 = y
          /\ k2 = "one" => noun2 = x
          /\ k2 = "two" => noun2 = y
      BY <3>1, <3>2, <3>6, Zenon DEF NounOf
    <3> QED BY <3>1, <3>3, <3>6, <3>7
  <2>5. CASE factory.class = "he"
    <3>1. ~one
      BY <1>1, <1>4, <2>5
    <3>2. /\ k1 = SelectCount(language, v.value) /\ k2 = SelectCount(language, own.value)
          /\ noun1 = HebrewNoun(c, k1) /\ noun2 = HebrewNoun(c, k2)
      BY <1>8, <1>9, <2>5, <3>1, Zenon DEF HebrewNoun
    <3>3. noun1.print \in HebrewUnits /\ noun2.print \in HebrewUnits
      BY <1>15, <2>5 DEF Numbered
    <3>4. k1 # k2
      BY <1>1, <2>5, <3>2, <3>3, Zenon DEF TakenAlike
    <3>5. k1 \in Rules /\ k2 \in Rules
      BY <3>2, CountsAreRules
    <3> QED BY <1>1, <1>4, <1>10, <2>5, <3>2, <3>3, <3>4, <3>5
  <2> QED BY <2>1, <2>4, <2>5
<1> QED BY <1>13, <1>14, <1>15

\* The same call with another amount.
OtherAmount(c, v) == [c EXCEPT !.options["withValue"] = v]

LEMMA OtherAmountAlike ==
  ASSUME NEW c \in Calls, NEW v, Has(c.options, "withValue"), IsNumber(v), IsNumber(c.options["withValue"])
  PROVE  LET d == OtherAmount(c, v)
         IN  /\ d.function = c.function /\ d.locale = c.locale /\ d.operand = c.operand
             /\ d.selects = c.selects /\ d.mode = c.mode /\ d.options["withValue"] = v
             /\ \A language : Countable(d.operand, d.options, language) = Countable(c.operand, c.options, language)
<1> DEFINE d == OtherAmount(c, v)
           o == c.options
           p == [c.options EXCEPT !["withValue"] = v]
<1>1. CallFields \subseteq DOMAIN c
  BY MessageAssumption
<1>2. /\ d.function = c.function /\ d.locale = c.locale /\ d.operand = c.operand
      /\ d.selects = c.selects /\ d.mode = c.mode /\ d.options = p
  BY <1>1 DEF CallFields, OtherAmount
<1>3. DOMAIN p = DOMAIN o /\ p["withValue"] = v /\ \A f \in DOMAIN o : f # "withValue" => p[f] = o[f]
  BY DEF Has
<1> DEFINE asked == FeaturesIn(o, QuantityControl)
<1>4. FeaturesIn(p, QuantityControl) = asked /\ \A f \in asked : p[f] = o[f] /\ Option(p, f) = Option(o, f)
  BY <1>3 DEF FeaturesIn, QuantityControl, Option
<1> DEFINE Given(x, f) == IF Misread(x, f) THEN "" ELSE Option(x, f)
<1> HIDE DEF o, p, asked
<1>5. [f \in FeaturesIn(p, QuantityControl) |-> Given(p, f)] = [f \in asked |-> Given(o, f)]
  <2>1. IsNumber(p["withValue"]) /\ IsNumber(o["withValue"])
    BY <1>3 DEF o
  <2>2. \A f \in asked : IsText(p, f) <=> IsText(o, f)
    BY <1>3, <1>4 DEF IsText, Has, asked, FeaturesIn
  <2>3. \A f \in asked : Misread(p, f) <=> Misread(o, f)
    BY <1>4, <2>1, <2>2, Zenon DEF Misread, asked
  <2>4. \A f \in asked : Given(p, f) = Given(o, f)
    BY <1>4, <2>3
  <2> HIDE DEF Given
  <2> QED BY <1>4, <2>4
<1>6. \A language : Countable(c.operand, p, language) = Countable(c.operand, o, language)
  BY <1>5, Zenon DEF Countable, asked, Given
<1> QED BY <1>2, <1>3, <1>6, Zenon DEF o

\* What a call of :quantify makes, if it makes something.
LEMMA QuantityMade ==
  ASSUME NEW c, c.function = "quantify", Made(c) \notin {Error, Exception}
  PROVE  /\ FactoryOf(c.locale) # Thrown /\ Has(c.options, "withValue") /\ IsNumber(c.options["withValue"])
         /\ Made(c) = QuantityOf(FactoryOf(c.locale), NumberFrom(c.options["withValue"], c.locale), CountedIn(c))
         /\ Made(c) # Thrown
<1> DEFINE factory == FactoryOf(c.locale)
           quantity == QuantityOf(factory, NumberFrom(c.options["withValue"], c.locale),
                                  Countable(c.operand, c.options, factory.language))
<1>1. factory # Thrown /\ Made(c) = FormattedQuantity(c.operand, c.options, c.locale, factory)
  BY DEF Made
<1>2. factory.language = c.locale.language
  BY <1>1, FactoryFacts
<1> HIDE DEF factory
<1>4. /\ Has(c.options, "withValue") /\ IsNumber(c.options["withValue"])
      /\ (Made(c) = quantity /\ quantity # Thrown)
  <2>1. \/ Made(c) \in {Error, Exception}
        \/ /\ Has(c.options, "withValue") /\ IsNumber(c.options["withValue"])
           /\ Made(c) = quantity /\ quantity # Thrown
    BY <1>1, Zenon DEF FormattedQuantity, NumberGiven
  <2> QED BY <2>1
<1>5. Made(c) = quantity /\ Made(c) # Thrown
  BY <1>4
<1> QED BY <1>1, <1>2, <1>4, <1>5 DEF CountedIn, factory

\* For all dictionaries, factories and messages: what is counted is shown with
\* its number, or in a form that no other number has, unless the code itself
\* takes the two amounts for the same.
THEOREM NumberTold == MessageSpec => []NumberIsTold
<1>1. MessageInv => NumberIsTold
  <2> DEFINE c == call
             own == c.options["withValue"]
             factory == FactoryOf(c.locale)
             counted == CountedIn(c)
  <2> SUFFICES ASSUME MessageInv, Answers("quantify"), result.kind = "text", NEW v \in Amounts,
                      IsNumber(v), v.value # own.value, ~TakenAlike(c, v.value, own.value)
               PROVE  Evaluated(OtherAmount(c, v)) # result
    BY Zenon DEF NumberIsTold, OtherAmount, Option
  <2> DEFINE d == OtherAmount(c, v)
             made == QuantityOf(factory, NumberFrom(own, c.locale), counted)
             other == QuantityOf(factory, NumberFrom(v, c.locale), counted)
  <2>1. c \in Calls /\ c.function = "quantify" /\ result = Evaluated(c)
    BY DEF MessageInv, Answers
  <2>2. Made(c) \notin {Error, Exception} /\ result = Told(c, Made(c)) /\ c.selects \in BOOLEAN
    <3>1. c.selects \in BOOLEAN
      BY <2>1, MessageAssumption, Zenon
    <3> QED BY <2>1, <3>1 DEF Evaluated, ToldOrFailed, Error, Exception, Answer
  <2>3. result.text = Emitted(Made(c), c.mode) /\ c.selects = FALSE
    BY <2>2 DEF Told, Answer
  <2>4. factory # Thrown /\ Has(c.options, "withValue") /\ IsNumber(own) /\ Made(c) = made /\ made # Thrown
    BY <2>1, <2>2, QuantityMade
  <2>5. /\ d.function = "quantify" /\ d.locale = c.locale /\ d.operand = c.operand
        /\ d.selects = FALSE /\ d.mode = c.mode /\ d.options["withValue"] = v /\ CountedIn(d) = counted
    BY <2>1, <2>3, <2>4, OtherAmountAlike DEF CountedIn
  <2>6. CASE Made(d) \in {Error, Exception}
    BY <2>6 DEF Evaluated, ToldOrFailed, Error, Exception, Answer
  <2>7. CASE Made(d) \notin {Error, Exception}
    <3>1. Made(d) = other /\ other # Thrown
      BY <2>5, <2>7, QuantityMade
    <3>2. Evaluated(d) = Told(d, other)
      BY <2>7, <3>1 DEF Evaluated, ToldOrFailed
    <3>3. Evaluated(d).text = Emitted(other, c.mode)
      BY <2>5, <3>2 DEF Told, Answer
    <3>4. own \in Amounts
      BY <2>1, <2>4 DEF Amounts
    <3>5. /\ other = Quantified(factory, NumberFrom(v, c.locale), counted)
          /\ made = Quantified(factory, NumberFrom(own, c.locale), counted)
      BY <2>1, <2>2, <2>4, <3>4, AmountAssumption, Zenon
    <3>6. Emitted(other, c.mode) # Emitted(made, c.mode)
      BY <2>1, <2>2, <2>4, <3>1, <3>4, <3>5, AmountsApart
    <3> QED BY <2>3, <2>4, <3>3, <3>6
  <2> QED BY <2>6, <2>7
<1> QED BY <1>1, MessageInvariance, PTL

=============================================================================
