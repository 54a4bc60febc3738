-------------------------- MODULE TokenizerProofs --------------------------
(***************************************************************************)
(* That the boundaries of every text progress to its end, in every stack of*)
(* iterators.  Each layer has an invariant that ties its variables to what *)
(* the layer below returned last, and a lemma: if the layer below moves on *)
(* or ends at the end of the text, so does this one.  From it follow that  *)
(* the tokens are a partition of the text, that no layer loses a word break*)
(* or cuts a character, and what the chain's index and its chunks find.    *)
(***************************************************************************)
EXTENDS Tokenizer, Compounds, SequenceTheorems, FiniteSetTheorems, WellFoundedInduction, TLAPS

USE BoundariesAssumption DEF DONE

\* What the text and the extractor are known to be.
Given ==
  /\ text \in Seq(Units) /\ WellFormed(text)
  /\ extractor \in [decompounder : {"none", "germanic", "semitic"},
                    regex : BOOLEAN, unmodified : BOOLEAN]

Rises(p) == \A i, j \in DOMAIN p : i < j => p[i] < p[j]

\* A compound's boundaries end with the word break they were found before, and
\* lastStart stays behind the word break only inside a Germanic compound, which
\* then ends in a letter.
CompInv ==
  /\ icu \in Results /\ (0 < icu /\ icu < End => MayBreak(icu))
  /\ boundaries \in Seq(Positions) /\ boundariesIdx \in 0..Len(boundaries)
  /\ Rises(boundaries)
  /\ lastStart \in Positions
  /\ extractor.decompounder = "none" => boundaries = << >>
  /\ boundaries # << >> =>
       boundariesIdx >= 1 /\ icu # DONE /\ boundaries[Len(boundaries)] = icu
  /\ extractor.decompounder = "semitic" /\ icu # DONE => lastStart = ExtractorBoundary
  /\ extractor.decompounder = "germanic" /\ icu # DONE =>
       lastStart = icu \/ (lastStart < icu /\ Unit(icu - 1) \in Letters)

RegexInv ==
  extractor.regex =>
    /\ rStart \in Results /\ rEnd = ExtractorBoundary
    /\ previousBreak \in Results /\ previousBreak <= rEnd
    /\ rEnd # DONE => previousBreak # DONE
    /\ groupEnds \in Seq(Int) /\ group \in Int
    /\ previousBreak < rEnd => group >= 1

NumInv ==
  ~extractor.unmodified =>
    /\ nEnd = RegexBoundary /\ split \in Results
    /\ split # DONE => 0 < split /\ split < nEnd

IteratorInv == Given /\ CompInv /\ RegexInv /\ NumInv

\* A call that returns v after one that returned u.
Moves(u, v) == IF v = DONE THEN u = End ELSE v \in (u + 1)..End

Fixed == UNCHANGED <<text, extractor>>

LEMMA PositionsAreNumbers ==
  ASSUME Given
  PROVE  End \in Nat /\ 0 \in Positions /\ Positions \subseteq Int /\ Results \subseteq Int
         /\ Results = -1..End /\ \A i \in 0..(End - 1) : Unit(i) \in Units
BY DEF Given, End, Positions, Results, Unit

LEMMA ExtractorInResults ==
  ASSUME Given, CompInv
  PROVE  ExtractorBoundary \in Results
<1>1. CASE boundariesIdx > 0
  BY <1>1, ElementOfSeq DEF CompInv, ExtractorBoundary, Results
<1>2. CASE ~(boundariesIdx > 0)
  BY <1>2 DEF CompInv, ExtractorBoundary
<1> QED BY <1>1, <1>2

\* ICU's iterator.
LEMMA ICUMoves ==
  ASSUME Given, Fixed, icu \in Positions, ICUNext
  PROVE  /\ icu' \in Results /\ Moves(icu, icu')
         /\ (0 < icu' /\ icu' < End => MayBreak(icu'))
         /\ icu' # DONE => icu' \in Positions
BY PositionsAreNumbers DEF ICUNext, Moves, Results, Positions, Fixed, End

\* A sequence of positions with the end of its word added still rises.
LEMMA WithEndRises ==
  ASSUME NEW S \in SUBSET Int, NEW p \in Seq(S), NEW e \in S, p # << >>, Rises(p),
         \A i \in DOMAIN p : p[i] <= e
  PROVE  LET q == WithEnd(p, e) IN
         /\ q \in Seq(S) /\ q # << >> /\ Rises(q) /\ q[Len(q)] = e /\ q[1] = p[1]
         /\ Len(q) \in Nat \ {0}
<1>1. Len(p) \in Nat \ {0} /\ DOMAIN p = 1..Len(p)
  BY EmptySeq
<1>2. CASE p[Len(p)] = e
  BY <1>1, <1>2 DEF WithEnd
<1>3. CASE p[Len(p)] # e
  <2> DEFINE q == Append(p, e)
  <2>1. /\ q \in Seq(S) /\ Len(q) = Len(p) + 1 /\ DOMAIN q = 1..(Len(p) + 1)
        /\ q[Len(p) + 1] = e /\ \A i \in 1..Len(p) : q[i] = p[i]
    BY <1>1
  <2>2. \A i \in 1..Len(p) : p[i] \in Int
    BY <1>1, ElementOfSeq
  <2>3. p[Len(p)] < e
    BY <1>1, <1>3, <2>2
  <2>4. \A i \in 1..Len(p) : p[i] < e
    BY <1>1, <2>2, <2>3 DEF Rises
  <2>5. Rises(q)
    BY <1>1, <2>1, <2>2, <2>4 DEF Rises
  <2> QED BY <1>1, <1>3, <2>1, <2>5 DEF WithEnd
<1> QED BY <1>2, <1>3

LEMMA RisingSeq ==
  ASSUME NEW S \in SUBSET Int, NEW p \in Rising(S)
  PROVE  p \in Seq(S) /\ Rises(p)
BY DEF Rising, Rises

\* A dictionary finds nothing in a word break's stretch that is not behind the
\* word break before it, although the stretch may begin inside the compound
\* before: what follows a boundary is letters, and ICU does not break between
\* two of them, nor before an apostrophe between two of them.
LEMMA GermanicAfterBreak ==
  ASSUME Given, CompInv, icu # DONE, extractor.decompounder = "germanic",
         NEW e \in (icu + 1)..End,
         NEW p \in GermanicCompounds(lastStart, Suffixless(e)), e - lastStart >= MinCandidate,
         NEW i \in DOMAIN p
  PROVE  icu < p[i] /\ p[i] <= e /\ p[i] \in Positions /\ Unit(e - 1) \in Letters
<1> DEFINE s == Suffixless(e)
<1>0. End \in Nat /\ icu \in 0..End /\ lastStart \in 0..icu /\ e \in 1..End
  BY PositionsAreNumbers DEF CompInv, Results, Positions
<1>1. s \in Int /\ (s = e \/ (s = e - 2 /\ Unit(e - 1) = "s" /\ Unit(e - 2) = "apos"))
  BY <1>0 DEF Suffixless
<1>2. /\ p[i] \in (lastStart + 1)..(s - MinCandidate)
      /\ \A k \in p[i]..(s - 1) : Unit(k) \in Letters
  BY DEF GermanicCompounds, Rising
<1>3. p[i] < s /\ p[i] \in Int
  BY <1>0, <1>1, <1>2
<1>4. Unit(s - 1) \in Letters
  BY <1>1, <1>2, <1>3
<1>5. Unit(e - 1) \in Letters
  BY <1>1, <1>4 DEF Letters
<1>6. icu < p[i]
  <2> SUFFICES ASSUME p[i] <= icu PROVE FALSE
    BY <1>0, <1>3
  <2>1. lastStart < icu
    BY <1>0, <1>2, <1>3
  <2>2. Unit(icu - 1) \in Letters
    BY <1>0, <2>1 DEF CompInv
  <2>3. MayBreak(icu)
    BY <1>0, <2>1 DEF CompInv
  <2>4. CASE icu < s
    <3>1. Unit(icu) \in Letters
      BY <1>0, <1>1, <1>2, <1>3, <2>4
    <3> QED BY <1>0, <1>1, <2>1, <2>2, <2>3, <2>4, <3>1 DEF MayBreak, BetweenLetters
  <2>5. CASE s <= icu
    <3>1. s = e - 2 /\ Unit(e - 1) = "s" /\ Unit(e - 2) = "apos" /\ (icu = e - 1 \/ icu = e - 2)
      BY <1>0, <1>1, <2>5
    <3>2. icu # e - 1
      BY <2>2, <3>1 DEF Letters
    <3>3. icu = e - 2 /\ Unit(icu) = "apos" /\ Unit(icu + 1) = "s"
      BY <1>0, <3>1, <3>2
    <3> QED BY <1>0, <2>1, <2>2, <2>3, <3>3 DEF MayBreak, BesideApostrophe, Letters
  <2> QED BY <1>0, <1>1, <2>4, <2>5
<1> QED BY <1>0, <1>1, <1>2, <1>3, <1>5, <1>6 DEF Positions

\* A boundary kept from an earlier call.
LEMMA CompoundMoves ==
  ASSUME Given, Fixed, CompInv, extractor.decompounder # "none", icu # DONE, CompoundNext
  PROVE  /\ CompInv' /\ icu' # DONE
         /\ Moves(ExtractorBoundary, ExtractorBoundary')
<1>1. UNCHANGED <<text, extractor, icu, boundaries>> /\ boundariesIdx' = boundariesIdx + 1
  BY DEF Fixed, CompoundNext, icuVars
<1>2. /\ boundaries # << >> /\ boundariesIdx \in 1..(Len(boundaries) - 1)
      /\ Len(boundaries) \in Nat /\ DOMAIN boundaries = 1..Len(boundaries)
      /\ \A i \in 1..Len(boundaries) : boundaries[i] \in Positions
  BY ElementOfSeq DEF CompInv, CompoundNext
<1>3. /\ ExtractorBoundary = boundaries[boundariesIdx]
      /\ ExtractorBoundary' = boundaries[boundariesIdx + 1]
  BY <1>1, <1>2 DEF ExtractorBoundary
<1>4. Moves(ExtractorBoundary, ExtractorBoundary')
  <2>1. /\ boundaries[boundariesIdx] \in 0..End /\ boundaries[boundariesIdx + 1] \in 0..End
        /\ boundariesIdx \in DOMAIN boundaries /\ boundariesIdx + 1 \in DOMAIN boundaries
        /\ boundariesIdx < boundariesIdx + 1
    BY <1>2 DEF Positions
  <2>2. boundaries[boundariesIdx] < boundaries[boundariesIdx + 1]
    BY <2>1 DEF CompInv, Rises
  <2> QED BY <1>3, <2>1, <2>2, PositionsAreNumbers DEF Moves
<1>5. lastStart' \in Positions
      /\ (extractor.decompounder = "semitic" => lastStart' = ExtractorBoundary')
      /\ (extractor.decompounder = "germanic" => lastStart' = lastStart)
  BY <1>1, <1>2, <1>3 DEF CompoundNext, CompInv
<1>6. CompInv'
  BY <1>1, <1>2, <1>5 DEF CompInv, Results, Positions, End, MayBreak, WholeCharacter,
     BetweenLetters, BesideApostrophe, Unit, Rises
<1> QED BY <1>1, <1>4, <1>6

\* Between two word breaks an iterator has returned the last one.
LEMMA AtBreak ==
  ASSUME Given, CompInv, boundariesIdx >= Len(boundaries)
  PROVE  ExtractorBoundary = icu
BY EmptySeq DEF CompInv, ExtractorBoundary

LEMMA BreakUpMoves ==
  ASSUME Given, Fixed, CompInv, icu # DONE, ICUNext, icu' # DONE,
         boundariesIdx >= Len(boundaries),
         extractor.decompounder # "none",
         NEW p \in Seq(Positions), p # << >>, Rises(p),
         \A i \in DOMAIN p : icu < p[i] /\ p[i] <= icu',
         extractor.decompounder = "germanic" => Unit(icu' - 1) \in Letters,
         BreakUp(p, icu')
  PROVE  CompInv' /\ Moves(ExtractorBoundary, ExtractorBoundary')
<1> DEFINE q == WithEnd(p, icu')
<1>1. icu \in Positions /\ icu' \in Positions /\ Moves(icu, icu')
      /\ (0 < icu' /\ icu' < End => MayBreak(icu'))
  BY ICUMoves DEF CompInv, Results
<1>2. /\ q \in Seq(Positions) /\ q # << >> /\ Rises(q) /\ q[Len(q)] = icu' /\ q[1] = p[1]
      /\ Len(q) \in Nat \ {0}
  BY <1>1, PositionsAreNumbers, WithEndRises
<1>3. Len(p) \in Nat \ {0} /\ 1 \in DOMAIN p /\ p[1] \in Positions
  BY EmptySeq, ElementOfSeq
<1>4. boundaries' = q /\ boundariesIdx' = 1 /\ lastStart' = p[1]
  BY <1>2 DEF BreakUp
<1> HIDE DEF q
<1>5. ExtractorBoundary' = p[1] /\ ExtractorBoundary = icu
  BY <1>2, <1>4, AtBreak DEF ExtractorBoundary
<1>6. Moves(ExtractorBoundary, ExtractorBoundary')
  BY <1>1, <1>3, <1>5, PositionsAreNumbers DEF Moves, Positions
<1>7. p[1] = icu' \/ p[1] < icu'
  BY <1>1, <1>3, PositionsAreNumbers DEF Positions
<1>8. UNCHANGED <<text, extractor>> /\ UNCHANGED <<Positions, Results, End>>
  BY DEF Fixed, Positions, Results, End
<1>9. CompInv'
  BY <1>1, <1>2, <1>3, <1>4, <1>5, <1>7, <1>8 DEF CompInv, Results, MayBreak,
     WholeCharacter, BetweenLetters, BesideApostrophe, Unit, Rises
<1> QED BY <1>6, <1>9

LEMMA KeepWholeMoves ==
  ASSUME Given, Fixed, CompInv, icu # DONE, ICUNext, boundariesIdx >= Len(boundaries),
         extractor.decompounder # "none", KeepWhole(<< >>, icu')
  PROVE  CompInv' /\ Moves(ExtractorBoundary, ExtractorBoundary')
<1>1. icu \in Positions /\ icu' \in Results /\ Moves(icu, icu')
      /\ (0 < icu' /\ icu' < End => MayBreak(icu'))
  BY ICUMoves DEF CompInv, Results
<1>2. boundaries' = << >> /\ boundariesIdx' = 0 /\ ExtractorBoundary' = icu'
  BY DEF KeepWhole, ExtractorBoundary
<1>3. lastStart' \in Positions /\ (icu' # DONE => lastStart' = icu')
  BY <1>1 DEF KeepWhole, CompInv, Results
<1>4. UNCHANGED <<text, extractor>> /\ UNCHANGED <<Positions, Results, End>>
  BY DEF Fixed, Positions, Results, End
<1>5. CompInv'
  BY <1>1, <1>2, <1>3, <1>4 DEF CompInv, MayBreak, WholeCharacter, BetweenLetters,
     BesideApostrophe, Unit, Rises
<1> QED BY <1>1, <1>2, <1>5, AtBreak

\* The iterator of a TokenExtractor moves on, or is at the end of the text.
LEMMA ExtractorMoves ==
  ASSUME Given, Fixed, CompInv, ExtractorBoundary # DONE, ExtractorNext
  PROVE  CompInv' /\ Moves(ExtractorBoundary, ExtractorBoundary')
<1>1. icu # DONE
  BY EmptySeq DEF CompInv, ExtractorBoundary
<1>2. CASE extractor.decompounder = "none" /\ ICUNext /\ UNCHANGED compVars
  <2>1. boundaries = << >> /\ boundariesIdx = 0 /\ UNCHANGED <<boundaries, boundariesIdx, lastStart>>
    BY <1>2 DEF CompInv, compVars
  <2>2. icu \in Positions /\ icu' \in Results /\ Moves(icu, icu')
        /\ (0 < icu' /\ icu' < End => MayBreak(icu'))
    BY <1>1, <1>2, ICUMoves DEF CompInv, Results
  <2>3. UNCHANGED <<text, extractor>> /\ UNCHANGED <<Positions, Results, End>>
    BY DEF Fixed, Positions, Results, End
  <2>4. CompInv'
    BY <1>2, <2>1, <2>2, <2>3 DEF CompInv, MayBreak, WholeCharacter, BetweenLetters,
       BesideApostrophe, Unit, Rises
  <2> QED BY <2>1, <2>2, <2>4 DEF ExtractorBoundary
<1>3. CASE extractor.decompounder # "none" /\ CompoundNext
  BY <1>1, <1>3, CompoundMoves
<1>4. ASSUME extractor.decompounder = "germanic", boundariesIdx >= Len(boundaries), ICUNext,
             icu' # DONE, icu' - lastStart >= MinCandidate,
             NEW p \in GermanicCompounds(lastStart, Suffixless(icu')),
             IF p # << >> THEN BreakUp(p, icu') ELSE KeepWhole(p, icu')
      PROVE  CompInv' /\ Moves(ExtractorBoundary, ExtractorBoundary')
  <2>1. icu \in Positions /\ icu' \in (icu + 1)..End
    BY <1>1, <1>4, ICUMoves, PositionsAreNumbers DEF CompInv, Results, Moves, Positions
  <2>2. \A i \in DOMAIN p : icu < p[i] /\ p[i] <= icu' /\ p[i] \in Positions
                            /\ Unit(icu' - 1) \in Letters
    BY <1>1, <1>4, <2>1, GermanicAfterBreak
  <2>3. Rises(p) /\ p \in Seq(Positions) /\ (p # << >> => 1 \in DOMAIN p)
    <3>1. Rises(p) /\ p \in Seq(Int)
      BY RisingSeq DEF GermanicCompounds
    <3>2. Len(p) \in Nat /\ DOMAIN p = 1..Len(p) /\ (p # << >> => Len(p) # 0)
      BY <3>1, EmptySeq
    <3>3. p \in [1..Len(p) -> Positions]
      BY <2>2, <3>1, <3>2
    <3> QED BY <3>1, <3>2, <3>3
  <2> QED BY <1>1, <1>4, <2>2, <2>3, BreakUpMoves, KeepWholeMoves
<1>5. ASSUME extractor.decompounder = "semitic", boundariesIdx >= Len(boundaries), ICUNext,
             icu' # DONE,
             NEW p \in SemiticCompounds(lastStart, icu'),
             IF Len(p) > 1 THEN BreakUp(p, icu') ELSE KeepWhole(p, icu')
      PROVE  CompInv' /\ Moves(ExtractorBoundary, ExtractorBoundary')
  <2>1. icu \in Positions /\ icu' \in (icu + 1)..End /\ lastStart = icu
    BY <1>1, <1>5, ICUMoves, PositionsAreNumbers, AtBreak
       DEF CompInv, Results, Moves, Positions
  <2>2. p \in Rising({x \in (lastStart + 1)..icu' :
                   x = icu' \/ Unit(x - 1) \in Letters \/ Unit(x) \in Letters}) /\ Len(p) # 1
    BY DEF SemiticCompounds
  <2> DEFINE S == {x \in (lastStart + 1)..icu' :
                     x = icu' \/ Unit(x - 1) \in Letters \/ Unit(x) \in Letters}
  <2>3. Rises(p) /\ p \in Seq(S)
    <3>1. S \in SUBSET Int
      BY <2>1, PositionsAreNumbers DEF Positions
    <3> HIDE DEF S
    <3> QED BY <2>2, <3>1, RisingSeq DEF S
  <2>4. /\ \A i \in DOMAIN p : icu < p[i] /\ p[i] <= icu'
        /\ p \in Seq(Positions) /\ (Len(p) > 1 => p # << >>)
        /\ (~(Len(p) > 1) => p = << >>)
    <3>1. Len(p) \in Nat /\ DOMAIN p = 1..Len(p) /\ \A i \in DOMAIN p : p[i] \in (icu + 1)..icu'
      <4>1. S \subseteq (icu + 1)..icu'
        BY <2>1
      <4> HIDE DEF S
      <4>2. Len(p) \in Nat /\ DOMAIN p = 1..Len(p)
        BY <2>3
      <4>3. \A i \in DOMAIN p : p[i] \in S
        BY <2>3, <4>2, ElementOfSeq
      <4> QED BY <4>1, <4>2, <4>3
    <3>2. p \in [1..Len(p) -> Positions]
      BY <2>1, <2>3, <3>1, PositionsAreNumbers DEF Positions
    <3> QED BY <2>1, <2>2, <2>3, <3>1, <3>2, EmptySeq, PositionsAreNumbers DEF Positions
  <2> QED BY <1>1, <1>5, <2>3, <2>4, BreakUpMoves, KeepWholeMoves
<1>6. ASSUME extractor.decompounder # "none", boundariesIdx >= Len(boundaries), ICUNext,
             KeepWhole(<< >>, icu')
      PROVE  CompInv' /\ Moves(ExtractorBoundary, ExtractorBoundary')
  BY <1>1, <1>6, KeepWholeMoves
<1> QED BY <1>2, <1>3, <1>4, <1>5, <1>6 DEF ExtractorNext, GermanicNext, SemiticNext

-----------------------------------------------------------------------------
\* RegexSplitIterator, or the extractor's iterator without it.
NotDone == RegexBoundary # DONE

LEMMA GroupsMove ==
  ASSUME NEW n \in Nat, NEW ends \in Seq(Int), NEW from \in Nat \ {0},
         NEW start \in -1..n, NEW end \in 0..n, previousBreak \in 0..n, previousBreak < end,
         NextRegexBoundary(ends, from, start, end)
  PROVE  /\ previousBreak' \in 0..n /\ previousBreak < previousBreak' /\ previousBreak' <= end
         /\ group' \in Nat \ {0}
<1>1. Len(ends) \in Nat /\ \A i \in 1..Len(ends) : ends[i] \in Int
  BY ElementOfSeq
<1>2. CASE \E i \in from..Len(ends) :
             /\ start < start + ends[i] /\ start + ends[i] < end
             /\ previousBreak < start + ends[i]
             /\ group' = i /\ previousBreak' = start + ends[i]
  BY <1>1, <1>2
<1>3. CASE group' = Len(ends) + 1 /\ previousBreak' = end
  BY <1>1, <1>3
<1> QED BY <1>2, <1>3 DEF NextRegexBoundary

LEMMA LongStretch ==
  ASSUME NEW n \in Nat, NEW start \in 0..n, NEW end \in -1..n, end - start >= 2
  PROVE  end \in 0..n /\ start < end
OBVIOUS

LEMMA RegexMoves ==
  ASSUME Given, Fixed, CompInv, RegexInv, NotDone, RegexSplitNext
  PROVE  /\ CompInv' /\ RegexInv' /\ Moves(RegexBoundary, RegexBoundary')
<1>0. End \in Nat /\ End' = End /\ Results' = Results /\ Positions' = Positions
      /\ Results = -1..End /\ Positions = 0..End /\ extractor' = extractor
  BY PositionsAreNumbers DEF Fixed, Positions, Results, End
<1>1. CASE ~extractor.regex
  <2>1. ExtractorNext /\ ExtractorBoundary # DONE
    BY <1>1 DEF RegexSplitNext, NotDone, RegexBoundary
  <2>2. CompInv' /\ Moves(ExtractorBoundary, ExtractorBoundary')
    BY <2>1, ExtractorMoves
  <2>3. RegexBoundary = ExtractorBoundary /\ RegexBoundary' = ExtractorBoundary'
    BY <1>0, <1>1 DEF RegexBoundary
  <2> QED BY <1>0, <1>1, <2>2, <2>3 DEF RegexInv
<1>2. CASE extractor.regex /\ GroupNext
  <2>1. /\ UNCHANGED <<rStart, rEnd, groupEnds, icu, boundaries, boundariesIdx, lastStart>>
        /\ NextRegexBoundary(groupEnds, group, rStart, rEnd) /\ previousBreak < rEnd
    BY <1>2 DEF GroupNext, icuVars, compVars
  <2>2. /\ previousBreak \in 0..End /\ rEnd \in 0..End /\ rStart \in -1..End
        /\ groupEnds \in Seq(Int) /\ group \in Nat \ {0}
    <3>1. rEnd \in Results
      BY <1>2, ExtractorInResults DEF RegexInv
    <3> QED BY <1>0, <1>2, <2>1, <3>1 DEF RegexInv, NotDone, RegexBoundary
  <2>3. /\ previousBreak' \in 0..End /\ previousBreak < previousBreak'
        /\ previousBreak' <= rEnd /\ group' \in Nat \ {0}
    BY <1>0, <2>1, <2>2, GroupsMove
  <2>4. CompInv' /\ ExtractorBoundary' = ExtractorBoundary
    BY <1>0, <2>1 DEF CompInv, ExtractorBoundary, MayBreak, WholeCharacter, BetweenLetters,
       BesideApostrophe, Unit, Rises, Fixed
  <2>5. RegexInv'
    BY <1>0, <1>2, <2>1, <2>2, <2>3, <2>4 DEF RegexInv
  <2> QED BY <1>0, <1>2, <2>2, <2>3, <2>4, <2>5 DEF Moves, RegexBoundary
<1>3. CASE extractor.regex /\ StretchNext
  <2>1. /\ previousBreak >= rEnd /\ ExtractorNext
        /\ rStart' = rEnd /\ rEnd' = ExtractorBoundary'
    BY <1>3 DEF StretchNext
  <2>2. rEnd \in 0..End /\ previousBreak = rEnd /\ ExtractorBoundary = rEnd
    <3>1. rEnd \in Results
      BY <1>3, ExtractorInResults DEF RegexInv
    <3> QED BY <1>0, <1>3, <2>1, <3>1 DEF RegexInv, NotDone, RegexBoundary
  <2>3. CompInv' /\ Moves(rEnd, rEnd')
    BY <1>0, <2>1, <2>2, ExtractorMoves
  <2>4. rEnd' \in -1..End /\ (rEnd' # DONE => rEnd < rEnd')
    BY <1>0, <2>1, <2>2, <2>3 DEF Moves
  <2>5. CASE NotSplit(rEnd')
    <3>1. previousBreak' = rEnd' /\ UNCHANGED <<groupEnds, group>>
      BY <2>5 DEF NotSplit
    <3>2. RegexInv'
      BY <1>0, <1>3, <2>1, <2>2, <2>4, <3>1 DEF RegexInv
    <3> QED BY <1>0, <1>3, <2>2, <2>3, <3>1, <3>2 DEF RegexBoundary
  <2>6. ASSUME rEnd' - rStart' >= 2, NEW ends \in Matches(rStart', rEnd'), groupEnds' = ends,
               NextRegexBoundary(ends, 1, rStart', rEnd')
        PROVE  CompInv' /\ RegexInv' /\ Moves(RegexBoundary, RegexBoundary')
    <3>1. rEnd' \in 0..End /\ previousBreak < rEnd'
      <4>1. rEnd' - rEnd >= 2 /\ previousBreak = rEnd
        BY <2>1, <2>2, <2>6
      <4>2. End \in Nat /\ rEnd' \in -1..End /\ rEnd \in 0..End
        BY <1>0, <2>2, <2>4
      <4> QED BY <4>1, <4>2, LongStretch
    <3>2. ends \in Seq(Int)
      <4>1. PICK n \in 1..MaxGroups : ends \in [1..n -> -1..(rEnd' - rStart')]
        BY DEF Matches
      <4> QED BY <2>1, <2>2, <3>1, <4>1
    <3>3. /\ previousBreak' \in 0..End /\ previousBreak < previousBreak'
          /\ previousBreak' <= rEnd' /\ group' \in Nat \ {0}
      BY <1>0, <2>1, <2>2, <2>6, <3>1, <3>2, GroupsMove
    <3>4. RegexInv'
      BY <1>0, <1>3, <2>1, <2>2, <2>6, <3>1, <3>2, <3>3 DEF RegexInv
    <3> QED BY <1>0, <1>3, <2>2, <2>3, <3>1, <3>3, <3>4 DEF Moves, RegexBoundary
  <2> QED BY <1>3, <2>5, <2>6 DEF StretchNext
<1> QED BY <1>1, <1>2, <1>3 DEF RegexSplitNext

-----------------------------------------------------------------------------
\* A split lies strictly inside its stretch.
LEMMA SplitInside ==
  ASSUME Given, NEW start \in Int, NEW end \in Int, NEW x \in start..end,
         SplitsAt(x, start, end)
  PROVE  start < x /\ x < end
<1>1. CASE Unit(start) = "digit"
  <2>1. /\ Unit(end - 1) \in Alpha /\ end - start >= 2
        /\ \A i \in start..(x - 1) : Unit(i) \in Punct \cup {"digit"}
        /\ x < end => Unit(x) \notin Punct \cup {"digit"}
    BY <1>1 DEF SplitsAt, FirstOutside, Alpha, Letters
  <2> QED BY <1>1, <2>1 DEF Alpha, Letters, Punct
<1>2. CASE Unit(start) # "digit"
  <2>1. /\ Unit(end - 1) = "digit" /\ Unit(start) \in Alpha /\ end - start >= 2
        /\ \A i \in start..(x - 1) : Unit(i) \in Alpha
        /\ x < end => Unit(x) \notin Alpha
    BY <1>2 DEF SplitsAt, FirstOutside, Alpha, Letters
  <2> QED BY <2>1 DEF Alpha, Letters
<1> QED BY <1>1, <1>2

\* All layers together.
LEMMA BoundaryMoves ==
  ASSUME IteratorInv, Boundary # DONE, NextBoundary
  PROVE  IteratorInv' /\ Moves(Boundary, Boundary')
<1> USE DEF IteratorInv
<1>0. /\ Fixed /\ Given' /\ End' = End /\ Results' = Results /\ extractor' = extractor
      /\ End \in Nat /\ Results = -1..End
  BY PositionsAreNumbers
     DEF NextBoundary, Fixed, Given, WellFormed, End, Results, Positions
<1>1. CASE extractor.unmodified
  <2>1. RegexSplitNext /\ NotDone
    BY <1>1 DEF NextBoundary, Boundary, NotDone
  <2>2. CompInv' /\ RegexInv' /\ Moves(RegexBoundary, RegexBoundary')
    BY <1>0, <2>1, RegexMoves
  <2> QED BY <1>0, <1>1, <2>2 DEF NumInv, Boundary
<1>2. CASE ~extractor.unmodified /\ SplitNext
  <2>1. /\ UNCHANGED <<nEnd, icu, boundaries, boundariesIdx, lastStart, rStart, rEnd,
                       previousBreak, groupEnds, group, text, extractor>>
        /\ split # DONE /\ split' = DONE
    BY <1>0, <1>2 DEF SplitNext, icuVars, compVars, regexVars, Fixed
  <2>2. UNCHANGED <<ExtractorBoundary, RegexBoundary>>
    BY <2>1 DEF ExtractorBoundary, RegexBoundary
  <2>3. CompInv' /\ RegexInv'
    BY <1>0, <2>1, <2>2 DEF CompInv, RegexInv, MayBreak, WholeCharacter, BetweenLetters,
       BesideApostrophe, Unit, Rises, Positions
  <2>4. nEnd \in Results
    BY <1>2, ElementOfSeq, EmptySeq
       DEF NumInv, RegexBoundary, ExtractorBoundary, CompInv, RegexInv, Results
  <2>5. NumInv' /\ Boundary = split /\ Boundary' = nEnd
    BY <1>0, <1>2, <2>1, <2>2 DEF NumInv, Boundary
  <2>6. 0 < split /\ split < nEnd /\ split \in Results
    BY <1>2, <2>1 DEF NumInv
  <2> QED BY <1>0, <2>3, <2>4, <2>5, <2>6 DEF Moves
<1>3. CASE ~extractor.unmodified /\ NumberNext
  <2>1. split = DONE /\ RegexSplitNext /\ nEnd' = RegexBoundary' /\ Boundary = nEnd
    BY <1>3 DEF NumberNext, Boundary
  <2>2. nEnd = RegexBoundary /\ NotDone
    BY <1>3, <2>1 DEF NumInv, NotDone
  <2>3. CompInv' /\ RegexInv' /\ Moves(nEnd, nEnd')
    BY <1>0, <2>1, <2>2, RegexMoves
  <2>4. nEnd \in 0..End
    BY <1>0, <2>2, ElementOfSeq, EmptySeq
       DEF NotDone, RegexBoundary, ExtractorBoundary, CompInv, RegexInv, Positions, Results
  <2>5. nEnd' \in -1..End
    BY <1>0, <2>3, <2>4 DEF Moves
  <2>6. ASSUME NEW x \in nEnd..nEnd', SplitsAt(x, nEnd, nEnd'), split' = x
        PROVE  IteratorInv' /\ Moves(Boundary, Boundary')
    <3>1. nEnd < x /\ x < nEnd'
      BY <2>4, <2>5, <2>6, SplitInside
    <3>2. Boundary' = x
      BY <1>0, <1>3, <2>4, <2>6, <3>1 DEF Boundary
    <3>3. NumInv'
      BY <1>0, <2>1, <2>4, <2>5, <2>6, <3>1 DEF NumInv
    <3> QED BY <1>0, <2>1, <2>3, <2>4, <2>5, <3>1, <3>2, <3>3 DEF Moves
  <2>7. CASE split' = DONE
    <3>1. Boundary' = nEnd'
      BY <1>0, <1>3, <2>7 DEF Boundary
    <3>2. NumInv'
      BY <1>0, <2>1, <2>7 DEF NumInv
    <3> QED BY <1>0, <2>1, <2>3, <3>1, <3>2
  <2> QED BY <1>3, <2>6, <2>7 DEF NumberNext
<1> QED BY <1>1, <1>2, <1>3 DEF NextBoundary

-----------------------------------------------------------------------------
\* createTokenChain asks on from the boundary it got last.
IInv ==
  /\ IteratorInv
  /\ phase \in {"tokenizing", "cleaving", "linked", "done"}
  /\ phase = "tokenizing" => startIdx = Boundary /\ startIdx \in Positions
  /\ text = << >> => phase # "tokenizing"

LEMMA InitIInv == Init => IInv
<1> SUFFICES ASSUME Init PROVE IInv
  OBVIOUS
<1>1. Given
  BY DEF Init, BoundariesInit, Given
<1>2. End \in Nat /\ 0 \in Positions /\ Results = -1..End /\ Positions \subseteq Results
  BY <1>1, PositionsAreNumbers DEF Results
<1>3. ExtractorBoundary = 0 /\ RegexBoundary = 0 /\ Boundary = 0
  BY DEF Init, BoundariesInit, ExtractorBoundary, RegexBoundary, Boundary
<1>4. /\ icu = 0 /\ boundaries = << >> /\ boundariesIdx = 0 /\ lastStart = 0
      /\ rStart = DONE /\ rEnd = 0 /\ previousBreak = 0 /\ groupEnds = << >> /\ group = -1
      /\ nEnd = 0 /\ split = DONE
  BY DEF Init, BoundariesInit
<1>5. CompInv
  BY <1>2, <1>3, <1>4 DEF CompInv, Rises
<1>6. RegexInv
  BY <1>2, <1>3, <1>4 DEF RegexInv
<1>7. NumInv
  BY <1>2, <1>3, <1>4 DEF NumInv
<1> QED BY <1>1, <1>2, <1>3, <1>5, <1>6, <1>7 DEF IInv, IteratorInv, Init

\* What is not about the iterators leaves them alone.
LEMMA IteratorsKept ==
  ASSUME IteratorInv, UNCHANGED <<text, extractor, iteratorVars>>
  PROVE  IteratorInv'
<1>1. UNCHANGED <<text, extractor, icu, boundaries, boundariesIdx, lastStart, rStart, rEnd,
                  previousBreak, groupEnds, group, nEnd, split>>
  BY DEF iteratorVars, icuVars, compVars, regexVars, numVars
<1>2. /\ UNCHANGED <<ExtractorBoundary, RegexBoundary>>
      /\ UNCHANGED <<Positions, Results, End>>
  BY <1>1 DEF ExtractorBoundary, RegexBoundary, Positions, Results, End
<1> QED BY <1>1, <1>2 DEF IteratorInv, Given, WellFormed, CompInv, RegexInv, NumInv, MayBreak,
     WholeCharacter, BetweenLetters, BesideApostrophe, Unit, Rises

\* One call of the iterator by createTokenChain.
LEMMA CallMoves ==
  ASSUME IInv, phase = "tokenizing", NextBoundary
  PROVE  IteratorInv' /\ Moves(startIdx, Boundary') /\ End' = End /\ End \in Nat
         /\ startIdx \in 0..End /\ text' = text /\ End # 0
<1>1. startIdx = Boundary /\ startIdx \in 0..End /\ Boundary # DONE /\ End \in Nat
  BY PositionsAreNumbers DEF IInv, IteratorInv, Positions
<1>2. text' = text /\ End' = End
  BY DEF NextBoundary, End
<1>3. End # 0
  BY EmptySeq DEF IInv, IteratorInv, Given, End
<1> QED BY <1>1, <1>2, <1>3, BoundaryMoves DEF IInv

LEMMA StepIInv == IInv /\ [Next]_vars => IInv'
<1> SUFFICES ASSUME IInv, [Next]_vars PROVE IInv'
  OBVIOUS
<1>1. CASE NextToken
  <2>1. /\ IteratorInv' /\ Boundary' \in (startIdx + 1)..End /\ End' = End /\ End \in Nat
        /\ startIdx \in 0..End /\ text' = text /\ startIdx' = Boundary' /\ phase' = phase
    BY <1>1, CallMoves DEF NextToken, Moves
  <2> QED BY <2>1 DEF IInv, Positions
<1>2. CASE NoMoreTokens
  <2>1. IteratorInv' /\ phase' \in {"linked", "cleaving"}
    BY <1>2, CallMoves DEF NoMoreTokens
  <2> QED BY <2>1 DEF IInv
<1>3. ASSUME UNCHANGED <<text, extractor, iteratorVars, startIdx>>,
             phase' \in {"cleaving", "linked", "done"}
      PROVE  IInv'
  BY <1>3, IteratorsKept DEF IInv
<1>4. CASE Cleave
  BY <1>3, <1>4 DEF Cleave
<1>5. CASE Cleaved
  BY <1>3, <1>5 DEF Cleaved
<1>6. CASE BuildChain
  BY <1>3, <1>6 DEF BuildChain
<1>7. CASE UNCHANGED vars
  <2>1. UNCHANGED <<text, extractor, iteratorVars, startIdx, phase>>
    BY <1>7 DEF vars
  <2>2. IteratorInv' /\ Boundary' = Boundary /\ Positions' = Positions
    BY <2>1, IteratorsKept DEF IInv, Boundary, RegexBoundary, ExtractorBoundary, iteratorVars,
       icuVars, compVars, regexVars, numVars, Positions, End
  <2> QED BY <2>1, <2>2 DEF IInv
<1> QED BY <1>1, <1>2, <1>4, <1>5, <1>6, <1>7 DEF Next

THEOREM IteratorInvariant == Spec => []IInv
BY InitIInv, StepIInv, PTL DEF Spec

\* Tokenizer::createTokenChain never meets boundaries that do not progress,
\* for any text and any stack of iterators.
THEOREM Progress == Spec => BoundariesProgress
<1>1. IInv /\ [Next]_vars => [phase' = "tokenizing" => startIdx < startIdx']_vars
  <2> SUFFICES ASSUME IInv, Next, phase' = "tokenizing" PROVE startIdx < startIdx'
    OBVIOUS
  <2>1. NextToken
    BY DEF Next, NoMoreTokens, Cleave, Cleaved, BuildChain
  <2>2. Boundary' \in (startIdx + 1)..End /\ startIdx' = Boundary' /\ startIdx \in 0..End
        /\ End \in Nat
    BY <2>1, CallMoves DEF NextToken, Moves
  <2> QED BY <2>2
<1> QED BY <1>1, IteratorInvariant, PTL DEF Spec, BoundariesProgress

\* What the iterators return is a segmentation of the text: it rises, ends at
\* the text's end, and only then is done.
THEOREM Implements == Spec => ImplementsSegmentation
<1>1. Init => Segments!Init
  BY EmptySeq DEF Init, BoundariesInit, Segments!Init
<1>2. IInv /\ [Next]_vars => [Segments!Next]_<<Len(text), startIdx, phase # "tokenizing">>
  <2> SUFFICES ASSUME IInv, [Next]_vars, ~UNCHANGED <<Len(text), startIdx, phase # "tokenizing">>
               PROVE Segments!Next
    OBVIOUS
  <2>1. CASE NextToken
    <3>1. Boundary' \in (startIdx + 1)..End /\ startIdx' = Boundary' /\ phase' = phase
          /\ phase = "tokenizing" /\ text' = text
      BY <2>1, CallMoves DEF NextToken, Moves
    <3> QED BY <3>1 DEF Segments!Next, Segments!Advance, End
  <2>2. CASE NoMoreTokens
    <3>1. startIdx = End /\ startIdx' = startIdx /\ text' = text
          /\ phase = "tokenizing" /\ phase' # "tokenizing"
      BY <2>2, CallMoves DEF NoMoreTokens, Moves
    <3> QED BY <3>1 DEF Segments!Next, Segments!End, End
  <2>3. CASE Cleave \/ Cleaved \/ BuildChain \/ UNCHANGED vars
    BY <2>3 DEF Cleave, Cleaved, BuildChain, vars
  <2> QED BY <2>1, <2>2, <2>3 DEF Next
<1> QED BY <1>1, <1>2, IteratorInvariant, PTL DEF Spec, ImplementsSegmentation, Segments!Spec

-----------------------------------------------------------------------------
\* A sequence of tokens that covers the text from a to b without a gap.
Stretch == [start : Int, end : Int, class : {"word", "delim"}]
Covers(s, a, b) ==
  /\ s \in Seq(Stretch)
  /\ \A n \in DOMAIN s : /\ s[n].start = (IF n = 1 THEN a ELSE s[n - 1].end)
                         /\ s[n].start < s[n].end
  /\ b = (IF s = << >> THEN a ELSE s[Len(s)].end)

LEMMA CoversBoth ==
  ASSUME NEW a, NEW b, NEW c, NEW s, NEW t, Covers(s, a, b), Covers(t, b, c)
  PROVE  Covers(s \o t, a, c)
<1> DEFINE u == s \o t
<1>1. /\ s \in Seq(Stretch) /\ t \in Seq(Stretch) /\ Len(s) \in Nat /\ Len(t) \in Nat
      /\ DOMAIN s = 1..Len(s) /\ DOMAIN t = 1..Len(t)
      /\ (s = << >> <=> Len(s) = 0) /\ (t = << >> <=> Len(t) = 0)
  BY EmptySeq DEF Covers
<1>2. /\ u \in Seq(Stretch) /\ Len(u) = Len(s) + Len(t) /\ DOMAIN u = 1..(Len(s) + Len(t))
      /\ \A n \in 1..Len(s) : u[n] = s[n]
      /\ \A n \in (Len(s) + 1)..(Len(s) + Len(t)) : u[n] = t[n - Len(s)]
      /\ (u = << >> <=> Len(u) = 0)
  BY <1>1, EmptySeq
<1> HIDE DEF u
<1>3. ASSUME NEW n \in DOMAIN u
      PROVE  u[n].start = (IF n = 1 THEN a ELSE u[n - 1].end) /\ u[n].start < u[n].end
  <2>1. CASE n <= Len(s)
    <3>1. n \in DOMAIN s /\ u[n] = s[n] /\ (n # 1 => u[n - 1] = s[n - 1])
      BY <1>1, <1>2, <1>3, <2>1
    <3> QED BY <3>1 DEF Covers
  <2>2. CASE n > Len(s)
    <3>1. n - Len(s) \in DOMAIN t /\ u[n] = t[n - Len(s)]
      <4>1. n \in (Len(s) + 1)..(Len(s) + Len(t))
        BY <1>1, <1>2, <1>3, <2>2
      <4>2. n - Len(s) \in 1..Len(t)
        BY <1>1, <4>1
      <4> QED BY <1>1, <1>2, <4>1, <4>2
    <3>2. u[n].start = (IF n - Len(s) = 1 THEN b ELSE t[n - Len(s) - 1].end)
          /\ u[n].start < u[n].end
      BY <3>1 DEF Covers
    <3>3. CASE n - Len(s) # 1
      <4>1. u[n - 1] = t[n - Len(s) - 1] /\ n # 1
        BY <1>1, <1>2, <1>3, <2>2, <3>3
      <4> QED BY <3>2, <3>3, <4>1
    <3>4. CASE n - Len(s) = 1 /\ s # << >>
      <4>1. u[n - 1] = s[Len(s)] /\ n # 1 /\ b = s[Len(s)].end
        BY <1>1, <1>2, <1>3, <2>2, <3>4 DEF Covers
      <4> QED BY <3>2, <3>4, <4>1
    <3>5. CASE n - Len(s) = 1 /\ s = << >>
      <4>1. n = 1 /\ b = a
        BY <1>1, <1>2, <1>3, <3>5 DEF Covers
      <4> QED BY <3>2, <3>5, <4>1
    <3> QED BY <3>3, <3>4, <3>5
  <2> QED BY <1>1, <1>2, <1>3, <2>1, <2>2
<1>4. c = (IF u = << >> THEN a ELSE u[Len(u)].end)
  <2>1. CASE t = << >>
    <3>1. c = b /\ (u = << >> <=> s = << >>) /\ (s # << >> => u[Len(u)] = s[Len(s)])
      BY <1>1, <1>2, <2>1 DEF Covers
    <3> QED BY <3>1 DEF Covers
  <2>2. CASE t # << >>
    <3>1. u # << >> /\ u[Len(u)] = t[Len(t)]
      BY <1>1, <1>2, <2>2
    <3> QED BY <2>2, <3>1 DEF Covers
  <2> QED BY <2>1, <2>2
<1> QED BY <1>2, <1>3, <1>4 DEF Covers, u

\* The tokens before the k-th, and those after it.
LEMMA CoversAround ==
  ASSUME NEW a, NEW b, NEW s, Covers(s, a, b), NEW k \in DOMAIN s
  PROVE  /\ Covers(SubSeq(s, 1, k - 1), a, s[k].start)
         /\ Covers(SubSeq(s, k + 1, Len(s)), s[k].end, b)
<1> DEFINE u == SubSeq(s, 1, k - 1)
           v == SubSeq(s, k + 1, Len(s))
<1>1. s \in Seq(Stretch) /\ Len(s) \in Nat /\ DOMAIN s = 1..Len(s) /\ k \in 1..Len(s)
      /\ s # << >> /\ \A n \in 1..Len(s) : s[n] \in Stretch
  BY EmptySeq, ElementOfSeq DEF Covers
<1>2. /\ u \in Seq(Stretch) /\ Len(u) = k - 1 /\ DOMAIN u = 1..(k - 1)
      /\ \A n \in 1..(k - 1) : u[n] = s[n]
      /\ (u = << >> <=> k = 1)
  <2>1. /\ u \in Seq(Stretch) /\ Len(u) = k - 1 /\ \A n \in 1..(k - 1) : u[n] = s[n]
    BY <1>1, SubSeqProperties
  <2> QED BY <1>1, <2>1, EmptySeq
<1>3. /\ v \in Seq(Stretch) /\ Len(v) = Len(s) - k /\ DOMAIN v = 1..(Len(s) - k)
      /\ \A n \in 1..(Len(s) - k) : v[n] = s[n + k]
      /\ (v = << >> <=> k = Len(s))
  <2>1. /\ v \in Seq(Stretch) /\ Len(v) = Len(s) - k
        /\ \A n \in 1..(Len(s) - k) : v[n] = s[n + k]
    BY <1>1, SubSeqProperties
  <2> QED BY <1>1, <2>1, EmptySeq
<1> HIDE DEF u, v
<1>4. Covers(u, a, s[k].start)
  <2>1. ASSUME NEW n \in DOMAIN u
        PROVE  u[n].start = (IF n = 1 THEN a ELSE u[n - 1].end) /\ u[n].start < u[n].end
    <3>1. n \in DOMAIN s /\ u[n] = s[n] /\ (n # 1 => u[n - 1] = s[n - 1])
      BY <1>1, <1>2, <2>1
    <3> QED BY <3>1 DEF Covers
  <2>2. s[k].start = (IF u = << >> THEN a ELSE u[Len(u)].end)
    <3>1. k # 1 => u[Len(u)] = s[k - 1]
      BY <1>1, <1>2
    <3>2. s[k].start = (IF k = 1 THEN a ELSE s[k - 1].end)
      BY DEF Covers
    <3> QED BY <1>2, <3>1, <3>2
  <2> QED BY <1>2, <2>1, <2>2 DEF Covers
<1>5. Covers(v, s[k].end, b)
  <2>1. ASSUME NEW n \in DOMAIN v
        PROVE  v[n].start = (IF n = 1 THEN s[k].end ELSE v[n - 1].end) /\ v[n].start < v[n].end
    <3>1. n \in 1..(Len(s) - k) /\ n + k \in 1..Len(s) /\ n + k # 1
          /\ (n + k) - 1 = (n - 1) + k /\ (n = 1 => (n + k) - 1 = k)
          /\ (n # 1 => n - 1 \in 1..(Len(s) - k))
      BY <1>1, <1>3, <2>1
    <3>2. s[n + k].start = s[(n + k) - 1].end /\ s[n + k].start < s[n + k].end
      BY <1>1, <3>1 DEF Covers
    <3>3. v[n] = s[n + k] /\ (n # 1 => v[n - 1] = s[(n - 1) + k])
      BY <1>3, <3>1
    <3>4. CASE n = 1
      BY <3>1, <3>2, <3>3, <3>4
    <3>5. CASE n # 1
      BY <3>1, <3>2, <3>3, <3>5
    <3> QED BY <3>4, <3>5
  <2>2. b = (IF v = << >> THEN s[k].end ELSE v[Len(v)].end)
    <3>1. k # Len(s) => v[Len(v)] = s[Len(s)]
      BY <1>1, <1>3
    <3>2. b = s[Len(s)].end
      BY <1>1 DEF Covers
    <3> QED BY <1>3, <3>1, <3>2
  <2> QED BY <1>3, <2>1, <2>2 DEF Covers
<1> QED BY <1>4, <1>5 DEF u, v

LEMMA CoversOne ==
  ASSUME NEW tk \in Stretch, tk.start < tk.end
  PROVE  Covers(<<tk>>, tk.start, tk.end)
BY DEF Covers

\* The controls at the end of a token, each a token, and what is before them.
LEMMA PiecesCover ==
  ASSUME NEW token \in Stretch, NEW x \in token.start..token.end, x < token.end
  PROVE  Covers(Pieces(token, x), token.start, token.end)
<1> DEFINE controls == [i \in 1..(token.end - x) |->
                          [start |-> x + i - 1, end |-> x + i, class |-> "delim"]]
           k == token.end - x
<1>1. token.start \in Int /\ token.end \in Int /\ x \in Int /\ k \in Nat \ {0}
  BY DEF Stretch
<1>2. /\ controls \in Seq(Stretch) /\ Len(controls) = k /\ DOMAIN controls = 1..k
      /\ \A i \in 1..k : controls[i].start = x + i - 1 /\ controls[i].end = x + i
  <2> HIDE DEF k
  <2>1. \A i \in 1..k : [start |-> x + i - 1, end |-> x + i, class |-> "delim"] \in Stretch
    <3> TAKE i \in 1..k
    <3>1. x + i - 1 \in Int /\ x + i \in Int
      BY <1>1
    <3> QED BY <3>1 DEF Stretch
  <2>2. controls = [i \in 1..k |-> [start |-> x + i - 1, end |-> x + i, class |-> "delim"]]
    BY DEF k
  <2> HIDE DEF controls
  <2>3. controls \in [1..k -> Stretch]
    BY <2>1, <2>2
  <2>4. controls \in Seq(Stretch) /\ Len(controls) = k /\ DOMAIN controls = 1..k
    BY <1>1, <2>3
  <2> QED BY <2>2, <2>4
<1> HIDE DEF controls
<1>3. controls # << >> /\ controls[Len(controls)].end = token.end
  BY <1>1, <1>2, EmptySeq
<1> HIDE DEF k
<1>4. ASSUME NEW i \in 1..k
      PROVE  controls[i].start = (IF i = 1 THEN x ELSE controls[i - 1].end)
             /\ controls[i].start < controls[i].end
  <2>1. i \in Int /\ (i # 1 => i - 1 \in 1..k)
    BY <1>1, <1>4
  <2>2. controls[i].start = x + i - 1 /\ controls[i].end = x + i
    BY <1>2, <1>4
  <2>3. i # 1 => controls[i - 1].end = x + (i - 1)
    BY <1>2, <2>1
  <2> QED BY <1>1, <2>1, <2>2, <2>3
<1>5. Covers(controls, x, token.end)
  BY <1>2, <1>3, <1>4 DEF Covers
<1>6. CASE x = token.start
  BY <1>5, <1>6 DEF Pieces, controls
<1>7. CASE x # token.start
  <2> DEFINE front == [token EXCEPT !.end = x]
  <2>1. front \in Stretch /\ front.start = token.start /\ front.end = x /\ token.start < x
    BY <1>1, <1>7 DEF Stretch
  <2> HIDE DEF front
  <2>2. Covers(<<front>>, token.start, x)
    BY <2>1, CoversOne
  <2>3. Covers(<<front>> \o controls, token.start, token.end)
    BY <1>5, <2>2, CoversBoth
  <2> QED BY <1>7, <2>3 DEF Pieces, controls, front
<1> QED BY <1>6, <1>7

\* The tokens cover the text as far as the boundaries came, all of it at last.
TokensInv ==
  /\ IInv
  /\ Covers(tokens, 0, startIdx) /\ at \in Nat \ {0}
  /\ phase # "tokenizing" => startIdx = End

LEMMA StepTokensInv == TokensInv /\ [Next]_vars => TokensInv'
<1> SUFFICES ASSUME TokensInv, [Next]_vars PROVE TokensInv'
  OBVIOUS
<1>0. IInv' /\ IInv
  BY StepIInv DEF TokensInv
<1>1. CASE NextToken
  <2>1. /\ startIdx' \in (startIdx + 1)..End /\ startIdx \in 0..End /\ End \in Nat /\ phase' = phase
        /\ phase = "tokenizing" /\ at' = at
    BY <1>0, <1>1, CallMoves DEF NextToken, Moves
  <2>2. /\ startIdx < startIdx' /\ ~(startIdx >= startIdx') /\ startIdx \in Int /\ startIdx' \in Int
    BY <2>1
  <2> DEFINE tk == Tokenized(startIdx, startIdx')
  <2>3. tk \in Stretch /\ tk.start = startIdx /\ tk.end = startIdx'
    BY <2>2 DEF Tokenized, Stretch
  <2>4. tokens' = Append(tokens, tk)
    BY <1>1, <2>2 DEF NextToken
  <2> HIDE DEF tk
  <2>5. tokens' = tokens \o <<tk>>
    BY <2>3, <2>4, AppendIsConcat DEF TokensInv, Covers
  <2>6. Covers(tokens', 0, startIdx')
    BY <2>2, <2>3, <2>5, CoversOne, CoversBoth DEF TokensInv
  <2> QED BY <1>0, <2>1, <2>6 DEF TokensInv
<1>2. CASE NoMoreTokens
  <2>1. startIdx = End /\ End' = End /\ UNCHANGED <<startIdx, tokens, at>>
    BY <1>0, <1>2, CallMoves DEF NoMoreTokens, Moves
  <2> QED BY <1>0, <2>1 DEF TokensInv
<1>3. CASE Cleave
  <2>1. at \in DOMAIN tokens /\ tokens[at] \in Stretch /\ tokens \in Seq(Stretch)
    BY <1>3, ElementOfSeq DEF Cleave, TokensInv, Covers
  <2>2. PICK x \in tokens[at].start..tokens[at].end :
          IF tokens[at].end - tokens[at].start > 1 /\ x < tokens[at].end
          THEN /\ tokens' = SubSeq(tokens, 1, at - 1) \o Pieces(tokens[at], x)
                              \o SubSeq(tokens, at + 1, Len(tokens))
               /\ at' = at + Len(Pieces(tokens[at], x))
          ELSE at' = at + 1 /\ UNCHANGED tokens
    BY <1>3 DEF Cleave
  <2>3. UNCHANGED <<text, startIdx, phase>> /\ End' = End /\ phase # "tokenizing"
    BY <1>3 DEF Cleave, End
  <2>4. CASE at' = at + 1 /\ UNCHANGED tokens
    BY <1>0, <2>3, <2>4 DEF TokensInv
  <2>5. CASE /\ x < tokens[at].end
             /\ tokens' = SubSeq(tokens, 1, at - 1) \o Pieces(tokens[at], x)
                            \o SubSeq(tokens, at + 1, Len(tokens))
             /\ at' = at + Len(Pieces(tokens[at], x))
    <3>1. Covers(Pieces(tokens[at], x), tokens[at].start, tokens[at].end)
      BY <2>1, <2>5, PiecesCover
    <3>2. /\ Covers(SubSeq(tokens, 1, at - 1), 0, tokens[at].start)
          /\ Covers(SubSeq(tokens, at + 1, Len(tokens)), tokens[at].end, startIdx)
      BY <2>1, CoversAround DEF TokensInv
    <3>3. Covers(SubSeq(tokens, 1, at - 1) \o Pieces(tokens[at], x), 0, tokens[at].end)
      BY <3>1, <3>2, CoversBoth
    <3>4. Covers(tokens', 0, startIdx)
      BY <2>5, <3>2, <3>3, CoversBoth
    <3>5. at' \in Nat \ {0}
      <4>1. Len(Pieces(tokens[at], x)) \in Nat
        BY <3>1 DEF Covers
      <4>2. at \in Nat \ {0}
        BY DEF TokensInv
      <4>3. at' = at + Len(Pieces(tokens[at], x)) \/ at' = at + 1
        BY <2>5
      <4> QED BY <4>1, <4>2, <4>3
    <3> QED BY <1>0, <2>3, <3>4, <3>5 DEF TokensInv
  <2> QED BY <2>2, <2>4, <2>5
<1>4. ASSUME UNCHANGED <<text, startIdx, tokens, at>>, phase = "tokenizing" => phase' = phase
      PROVE  TokensInv'
  BY <1>0, <1>4 DEF TokensInv, End
<1>5. CASE Cleaved
  BY <1>4, <1>5 DEF Cleaved
<1>6. CASE BuildChain
  BY <1>4, <1>6 DEF BuildChain
<1>7. CASE UNCHANGED vars
  BY <1>4, <1>7 DEF vars
<1> QED BY <1>1, <1>2, <1>3, <1>5, <1>6, <1>7 DEF Next

\* createTokenChain and ControlCleaver leave no part of the text out of the
\* chain, and none twice, for any text and any stack of iterators.
THEOREM Partition == Spec => []TokensPartitionText
<1>1. Init => TokensInv
  BY InitIInv, EmptySeq DEF Init, BoundariesInit, TokensInv, Covers, End
<1>2. TokensInv => TokensPartitionText
  BY DEF TokensInv, Covers, TokensPartitionText
<1> QED BY <1>1, <1>2, StepTokensInv, PTL DEF Spec
-----------------------------------------------------------------------------
(* Word breaks and characters *)

\* The word breaks that are known when a layer has returned u and then v: those
\* known before are not behind u, the new ones not before v.
Keeps(u, v) ==
  \A x \in wordBreaks' : (x \in wordBreaks /\ x <= u) \/ (v # DONE /\ v <= x)

\* Of what the layers keep for later calls: no word break lies between what a
\* layer returned last and the boundary of the layer below that it is working up
\* to, and all they may return is between characters.
CompBreaks ==
  /\ wordBreaks \subseteq Positions
  /\ icu # DONE => \A x \in wordBreaks : x <= ExtractorBoundary \/ x = icu
  /\ \A i \in DOMAIN boundaries : WholeCharacter(boundaries[i])

RegexBreaks ==
  extractor.regex =>
    /\ rEnd # DONE => \A x \in wordBreaks : x <= previousBreak \/ rEnd <= x
    /\ WholeCharacter(previousBreak)
    /\ previousBreak < rEnd =>
         \A i \in DOMAIN groupEnds : groupEnds[i] >= 0 => WholeCharacter(rStart + groupEnds[i])

NumBreaks ==
  ~extractor.unmodified /\ split # DONE =>
    /\ \A x \in wordBreaks : x <= split \/ nEnd <= x
    /\ WholeCharacter(split)

LEMMA BesideLetter ==
  ASSUME Given, NEW x \in Int, 0 < x, x < End, Unit(x - 1) # "lead" \/ Unit(x) # "trail"
  PROVE  WholeCharacter(x)
<1>1. End \in Nat /\ text[x] = Unit(x - 1) /\ text[x + 1] = Unit(x)
  BY PositionsAreNumbers DEF Unit
<1>2. Unit(x - 1) = "lead" => Unit(x) = "trail"
  BY <1>1 DEF Given, WellFormed, End
<1> QED BY <1>2 DEF WholeCharacter

LEMMA WholeBreaks == ASSUME Given, CompInv PROVE WholeCharacter(icu)
BY PositionsAreNumbers DEF CompInv, MayBreak, WholeCharacter, Results

LEMMA BelowBreak ==
  ASSUME Given, CompInv, icu # DONE
  PROVE  ExtractorBoundary <= icu /\ ExtractorBoundary \in Positions
<1>1. icu \in Positions /\ Positions \subseteq Int
  BY PositionsAreNumbers DEF CompInv, Results
<1>2. CASE boundariesIdx > 0
  <2>1. /\ Len(boundaries) \in Nat /\ boundariesIdx \in 1..Len(boundaries) /\ boundaries # << >>
        /\ \A i \in 1..Len(boundaries) : boundaries[i] \in Positions
    BY <1>2, ElementOfSeq, EmptySeq DEF CompInv
  <2>2. CASE boundariesIdx = Len(boundaries)
    BY <1>1, <1>2, <2>1, <2>2 DEF CompInv, ExtractorBoundary
  <2>3. CASE boundariesIdx < Len(boundaries)
    <3>1. boundaries[boundariesIdx] < boundaries[Len(boundaries)]
      BY <2>1, <2>3 DEF CompInv, Rises
    <3>2. ExtractorBoundary = boundaries[boundariesIdx]
      BY <1>2 DEF ExtractorBoundary
    <3>3. icu = boundaries[Len(boundaries)]
      BY <2>1 DEF CompInv
    <3>4. boundaries[boundariesIdx] \in Positions
      BY <2>1
    <3>5. boundaries[boundariesIdx] \in Int /\ icu \in Int
      BY <1>1, <3>4
    <3> QED BY <3>1, <3>2, <3>3, <3>4, <3>5
  <2> QED BY <2>1, <2>2, <2>3
<1>3. CASE ~(boundariesIdx > 0)
  BY <1>1, <1>3 DEF ExtractorBoundary
<1> QED BY <1>2, <1>3

LEMMA BelowBreakNext ==
  (Given /\ CompInv /\ icu # DONE => ExtractorBoundary <= icu /\ ExtractorBoundary \in Positions)'
<1>1. Given /\ CompInv /\ icu # DONE => ExtractorBoundary <= icu /\ ExtractorBoundary \in Positions
  BY BelowBreak
<1> QED BY <1>1, PTL

LEMMA WholeBreaksNext == (Given /\ CompInv => WholeCharacter(icu))'
<1>1. Given /\ CompInv => WholeCharacter(icu)
  BY WholeBreaks
<1> QED BY <1>1, PTL

\* A call of the extractor's iterator either goes on in a compound, or asks ICU.
LEMMA ExtractorAsks ==
  ASSUME CompInv, ExtractorNext
  PROVE  \/ /\ boundariesIdx < Len(boundaries) /\ boundariesIdx' = boundariesIdx + 1
            /\ UNCHANGED <<boundaries, icu, wordBreaks>>
         \/ boundariesIdx >= Len(boundaries) /\ ICUNext
<1>1. CASE extractor.decompounder = "none"
  BY <1>1, EmptySeq DEF CompInv, ExtractorNext
<1>2. CASE CompoundNext
  BY <1>2 DEF CompoundNext, icuVars
<1> QED BY <1>1, <1>2 DEF ExtractorNext, GermanicNext, SemiticNext

\* What breaks up a compound begins or ends with letters of its own.
LEMMA BrokenAtLetters ==
  ASSUME Given, NEW S \in SUBSET Int, NEW p \in Rising(S), NEW e \in 0..End, WholeCharacter(e),
         \A x \in S : x = e \/ (0 < x /\ x < End /\ (Unit(x - 1) \in Letters \/ Unit(x) \in Letters)),
         p # << >>
  PROVE  \A i \in DOMAIN WithEnd(p, e) : WholeCharacter(WithEnd(p, e)[i])
<1>1. p \in Seq(S) /\ Len(p) \in Nat /\ DOMAIN p = 1..Len(p)
  BY RisingSeq
<1>2. ASSUME NEW i \in DOMAIN p PROVE WholeCharacter(p[i])
  <2>1. p[i] \in S /\ p[i] \in Int
    BY <1>1, ElementOfSeq
  <2>2. CASE p[i] # e
    BY <2>1, <2>2, BesideLetter DEF Letters
  <2> QED BY <2>2
<1>3. CASE p[Len(p)] = e
  BY <1>2, <1>3 DEF WithEnd
<1>4. CASE p[Len(p)] # e
  <2>1. WithEnd(p, e) = Append(p, e)
    BY <1>4 DEF WithEnd
  <2>2. /\ DOMAIN Append(p, e) = 1..(Len(p) + 1) /\ Append(p, e)[Len(p) + 1] = e
        /\ \A i \in 1..Len(p) : Append(p, e)[i] = p[i]
    BY <1>1
  <2>3. \A i \in 1..(Len(p) + 1) : i = Len(p) + 1 \/ i \in 1..Len(p)
    BY <1>1
  <2> QED BY <1>1, <1>2, <2>1, <2>2, <2>3
<1> QED BY <1>3, <1>4

LEMMA BoundariesWhole ==
  ASSUME Given, Fixed, CompInv, CompInv', CompBreaks, icu # DONE, ExtractorNext
  PROVE  \A i \in DOMAIN boundaries' : WholeCharacter(boundaries'[i])
<1>1. /\ End' = End /\ Given' /\ \A x : WholeCharacter(x)' = WholeCharacter(x)
      /\ Results' = Results /\ Results = -1..End /\ End \in Nat /\ extractor' = extractor
  BY PositionsAreNumbers DEF Fixed, Given, WellFormed, End, Unit, WholeCharacter, Results, Positions
<1>2. icu' \in -1..End /\ WholeCharacter(icu') /\ icu \in 0..End
  <2>1. icu' \in Results' /\ icu \in Results
    BY DEF CompInv
  <2>2. WholeCharacter(icu)'
    BY <1>1, WholeBreaksNext
  <2>3. WholeCharacter(icu)' = WholeCharacter(icu')
    BY <1>1 DEF WholeCharacter, Fixed, Unit
  <2> QED BY <1>1, <2>1, <2>2, <2>3
<1>3. CASE extractor.decompounder = "none" /\ ICUNext /\ UNCHANGED compVars
  BY <1>3 DEF CompBreaks, compVars
<1>4. CASE CompoundNext
  BY <1>4 DEF CompoundNext, CompBreaks
<1>5. CASE KeepWhole(<< >>, icu')
  BY <1>5 DEF KeepWhole
<1>6. ASSUME extractor.decompounder = "germanic", ICUNext, icu' # DONE, icu' - lastStart >= MinCandidate,
             NEW p \in GermanicCompounds(lastStart, Suffixless(icu')),
             IF p # << >> THEN BreakUp(p, icu') ELSE KeepWhole(p, icu')
      PROVE  \A i \in DOMAIN boundaries' : WholeCharacter(boundaries'[i])
  <2> DEFINE s == Suffixless(icu')
             S == {x \in (lastStart + 1)..(s - MinCandidate) :
                     \A i \in x..(s - 1) : Unit(i) \in Letters}
  <2>1. s \in Int /\ s <= icu' /\ lastStart \in 0..End
    <3>1. icu' \in Int /\ lastStart \in Positions
      BY <1>2 DEF CompInv
    <3>2. s = icu' \/ s = icu' - 2
      BY DEF Suffixless
    <3> QED BY <3>1, <3>2 DEF Positions
  <2>2. p \in Rising(S) /\ S \in SUBSET Int
    BY <2>1 DEF GermanicCompounds
  <2>3. ASSUME NEW x \in S
        PROVE  0 < x /\ x < End /\ Unit(x) \in Letters
    BY <1>1, <1>2, <1>6, <2>1, <2>3
  <2>4. CASE p # << >>
    <3>1. boundaries' = WithEnd(p, icu')
      BY <1>6, <2>4 DEF BreakUp
    <3> HIDE DEF S
    <3>2. icu' \in 0..End
      BY <1>1, <1>2, <1>6
    <3> QED BY <1>2, <2>2, <2>3, <2>4, <3>1, <3>2, BrokenAtLetters
  <2>5. CASE p = << >>
    BY <1>6, <2>5 DEF KeepWhole
  <2> QED BY <2>4, <2>5
<1>7. ASSUME extractor.decompounder = "semitic", ICUNext, icu' # DONE,
             NEW p \in SemiticCompounds(lastStart, icu'),
             IF Len(p) > 1 THEN BreakUp(p, icu') ELSE KeepWhole(p, icu')
      PROVE  \A i \in DOMAIN boundaries' : WholeCharacter(boundaries'[i])
  <2> DEFINE S == {x \in (lastStart + 1)..icu' :
                     x = icu' \/ Unit(x - 1) \in Letters \/ Unit(x) \in Letters}
  <2>1. lastStart \in 0..End /\ icu' \in 0..End
    BY <1>1, <1>2, <1>7 DEF CompInv, Positions
  <2>2. p \in Rising(S) /\ S \in SUBSET Int /\ Len(p) # 1
    BY <2>1 DEF SemiticCompounds
  <2>3. ASSUME NEW x \in S, x # icu'
        PROVE  0 < x /\ x < End /\ (Unit(x - 1) \in Letters \/ Unit(x) \in Letters)
    BY <1>1, <2>1, <2>3
  <2> HIDE DEF S
  <2>4. Len(p) \in Nat /\ (~(Len(p) > 1) => p = << >>)
    <3>1. p \in Seq(S)
      BY <2>2, RisingSeq
    <3>2. Len(p) \in Nat /\ (Len(p) = 0 => p = << >>)
      BY <3>1, EmptySeq
    <3>3. Len(p) # 1
      BY <2>2
    <3>4. \A n \in Nat : n # 1 /\ ~(n > 1) => n = 0
      OBVIOUS
    <3> QED BY <3>2, <3>3, <3>4
  <2>5. CASE Len(p) > 1
    <3>1. boundaries' = WithEnd(p, icu') /\ p # << >>
      BY <1>7, <2>5, EmptySeq DEF BreakUp
    <3> QED BY <1>2, <2>1, <2>2, <2>3, <3>1, BrokenAtLetters
  <2>6. CASE ~(Len(p) > 1)
    BY <1>7, <2>4, <2>6 DEF KeepWhole
  <2> QED BY <2>5, <2>6
<1> QED BY <1>3, <1>4, <1>5, <1>6, <1>7 DEF ExtractorNext, GermanicNext, SemiticNext

LEMMA ExtractorKeeps ==
  ASSUME Given, Fixed, CompInv, CompBreaks, ExtractorBoundary # DONE, ExtractorNext
  PROVE  /\ CompBreaks' /\ Keeps(ExtractorBoundary, ExtractorBoundary')
         /\ WholeCharacter(ExtractorBoundary')
<1> DEFINE e == ExtractorBoundary
<1>1. icu # DONE
  BY EmptySeq DEF CompInv, ExtractorBoundary
<1>2. CompInv' /\ Moves(e, e')
  BY ExtractorMoves
<1>3. /\ End' = End /\ Given' /\ Positions' = Positions /\ \A x : WholeCharacter(x)' = WholeCharacter(x)
      /\ Positions = 0..End /\ Results = -1..End /\ End \in Nat
  BY PositionsAreNumbers DEF Fixed, Given, WellFormed, End, Unit, WholeCharacter, Results, Positions
<1>4. e \in 0..End /\ e <= icu /\ icu \in 0..End /\ wordBreaks \subseteq 0..End
  BY <1>1, <1>3, BelowBreak DEF CompInv, CompBreaks
<1>5. icu' # DONE => e' <= icu'
  <2> SUFFICES ASSUME icu' # DONE PROVE e' <= icu'
    OBVIOUS
  <2> QED BY <1>2, <1>3, BelowBreakNext
<1>6. \A i \in DOMAIN boundaries' : WholeCharacter(boundaries'[i])
  BY <1>1, <1>2, BoundariesWhole
<1>7. WholeCharacter(e')
  <2>1. CASE boundariesIdx' > 0
    <3>1. e' = boundaries'[boundariesIdx'] /\ boundariesIdx' \in DOMAIN boundaries'
      BY <1>2, <2>1 DEF ExtractorBoundary, CompInv
    <3> QED BY <1>6, <3>1
  <2>2. CASE ~(boundariesIdx' > 0)
    <3>1. e' = icu'
      BY <2>2 DEF ExtractorBoundary
    <3>2. WholeCharacter(icu)'
      BY <1>2, <1>3, WholeBreaksNext
    <3>3. WholeCharacter(icu)' = WholeCharacter(icu')
      BY DEF WholeCharacter, Fixed, Unit, End
    <3> QED BY <3>1, <3>2, <3>3
  <2> QED BY <2>1, <2>2
<1>8. icu' # DONE => e' \in e + 1..End
  BY <1>2, <1>3, <1>4, BelowBreakNext DEF Moves
<1> HIDE DEF e
<1>9. CASE boundariesIdx < Len(boundaries) /\ UNCHANGED <<icu, wordBreaks>>
  <2>1. ASSUME NEW x \in wordBreaks PROVE x \in 0..End /\ (x <= e \/ (x = icu /\ e' <= x))
    BY <1>1, <1>4, <1>5, <1>9, <2>1 DEF CompBreaks, e
  <2>2. \A x \in wordBreaks' : x \in wordBreaks
    BY <1>9
  <2>3. Keeps(e, e')
    BY <1>1, <1>4, <1>8, <1>9, <2>1, <2>2 DEF Keeps
  <2>4. \A x \in wordBreaks' : x <= e' \/ x = icu'
    BY <1>1, <1>4, <1>8, <1>9, <2>1, <2>2
  <2> QED BY <1>3, <1>4, <1>6, <1>7, <1>9, <2>3, <2>4 DEF CompBreaks, e
<1>10. CASE boundariesIdx >= Len(boundaries) /\ ICUNext
  <2>1. e = icu
    BY <1>10, AtBreak DEF e
  <2>2. \A x \in wordBreaks : x \in 0..End /\ x <= e
    BY <1>1, <1>4, <2>1 DEF CompBreaks, e
  <2>3. CASE icu' # DONE
    <3>1. /\ \A x \in wordBreaks' : x \in wordBreaks \/ x = icu'
          /\ icu' \in 0..End
      BY <1>4, <1>10, <2>3 DEF ICUNext
    <3>2. e \in Int /\ e' \in Int /\ e < e' /\ e' <= icu' /\ e' # DONE
      BY <1>3, <1>4, <1>5, <1>8, <2>3
    <3>3. ASSUME NEW x \in wordBreaks'
          PROVE  (x \in wordBreaks /\ x <= e) \/ e' <= x
      BY <2>2, <3>1, <3>2
    <3>4. ASSUME NEW x \in wordBreaks'
          PROVE  x \in 0..End /\ (x <= e' \/ x = icu')
      <4>1. CASE x \in wordBreaks
        <5>1. x \in 0..End /\ x <= e /\ x \in Int
          BY <2>2, <4>1
        <5> QED BY <3>2, <5>1
      <4> QED BY <3>1, <4>1
    <3>5. Keeps(e, e')
      BY <3>2, <3>3 DEF Keeps
    <3> QED BY <1>3, <1>6, <1>7, <3>4, <3>5 DEF CompBreaks, e
  <2>4. CASE icu' = DONE
    <3>1. wordBreaks' = wordBreaks
      BY <1>4, <1>10, <2>4 DEF ICUNext
    <3>2. Keeps(e, e')
      BY <2>2, <3>1 DEF Keeps
    <3> QED BY <1>3, <1>4, <1>6, <1>7, <2>4, <3>1, <3>2 DEF CompBreaks, e
  <2> QED BY <2>3, <2>4
<1> QED BY <1>9, <1>10, ExtractorAsks

LEMMA RegexKeeps ==
  ASSUME Given, Fixed, CompInv, RegexInv, CompBreaks, RegexBreaks, NotDone, RegexSplitNext
  PROVE  /\ CompBreaks' /\ RegexBreaks' /\ Keeps(RegexBoundary, RegexBoundary')
         /\ WholeCharacter(RegexBoundary')
<1>1. /\ End' = End /\ Positions' = Positions /\ \A x : WholeCharacter(x)' = WholeCharacter(x)
      /\ extractor' = extractor /\ Results = -1..End /\ Results' = Results /\ End \in Nat
  BY PositionsAreNumbers DEF Fixed, End, Unit, WholeCharacter, Positions, Results
<1>2. CompInv' /\ RegexInv' /\ Moves(RegexBoundary, RegexBoundary')
  BY RegexMoves
<1>3. CASE ~extractor.regex
  <2>1. ExtractorNext /\ ExtractorBoundary # DONE
    BY <1>3 DEF RegexSplitNext, NotDone, RegexBoundary
  <2>2. /\ CompBreaks' /\ Keeps(ExtractorBoundary, ExtractorBoundary')
        /\ WholeCharacter(ExtractorBoundary')
    BY <2>1, ExtractorKeeps
  <2>3. RegexBoundary = ExtractorBoundary /\ RegexBoundary' = ExtractorBoundary'
    BY <1>1, <1>3 DEF RegexBoundary
  <2> QED BY <1>1, <1>3, <2>2, <2>3 DEF RegexBreaks
<1>4. CASE extractor.regex /\ GroupNext
  <2> DEFINE u == previousBreak
  <2>1. /\ UNCHANGED <<rStart, rEnd, groupEnds, wordBreaks, icu, boundaries, boundariesIdx>>
        /\ NextRegexBoundary(groupEnds, group, rStart, rEnd) /\ u < rEnd /\ RegexBoundary = u
        /\ RegexBoundary' = u'
    BY <1>1, <1>4 DEF GroupNext, icuVars, compVars, RegexBoundary
  <2>2. /\ u \in -1..End /\ u' \in -1..End /\ rEnd \in -1..End /\ u' <= rEnd
        /\ u' \in (u + 1)..End
    <3>1. rEnd \in Results /\ u \in Results /\ u' \in Results' /\ u' <= rEnd'
      BY <1>2, <1>4, <1>1, ExtractorInResults DEF RegexInv
    <3> QED BY <1>1, <1>2, <2>1, <3>1 DEF Moves
  <2>3. \A x \in wordBreaks : x \in 0..End /\ (x <= u \/ rEnd <= x)
    BY <1>4, <2>1, <2>2 DEF RegexBreaks, CompBreaks, Positions
  <2>4. WholeCharacter(u')
    <3>1. CASE u' = rEnd
      <4>1. WholeCharacter(icu) /\ \A i \in DOMAIN boundaries : WholeCharacter(boundaries[i])
        BY WholeBreaks DEF CompBreaks
      <4>2. rEnd = ExtractorBoundary
        BY <1>4 DEF RegexInv
      <4>3. boundariesIdx > 0 => boundariesIdx \in DOMAIN boundaries
        BY DEF CompInv
      <4> QED BY <3>1, <4>1, <4>2, <4>3 DEF ExtractorBoundary
    <3>2. ASSUME NEW i \in group..Len(groupEnds), rStart < rStart + groupEnds[i],
                 u' = rStart + groupEnds[i]
          PROVE  WholeCharacter(u')
      <4>1. group \in Nat \ {0} /\ groupEnds \in Seq(Int) /\ rStart \in Int
        BY <1>1, <1>4, <2>1 DEF RegexInv
      <4>2. i \in DOMAIN groupEnds /\ groupEnds[i] \in Int
        BY <4>1, ElementOfSeq
      <4>3. groupEnds[i] >= 0
        BY <3>2, <4>1, <4>2
      <4> QED BY <1>4, <2>1, <3>2, <4>2, <4>3 DEF RegexBreaks
    <3> QED BY <2>1, <3>1, <3>2 DEF NextRegexBoundary
  <2> HIDE DEF u
  <2>5. \A x \in wordBreaks : x <= u \/ u' <= x
    BY <2>2, <2>3
  <2>6. Keeps(u, u')
    BY <2>1, <2>2, <2>5 DEF Keeps
  <2>7. CompBreaks'
    <3>1. ExtractorBoundary' = ExtractorBoundary
      BY <2>1 DEF ExtractorBoundary
    <3> QED BY <1>1, <2>1, <3>1 DEF CompBreaks
  <2>8. RegexBreaks'
    <3>1. \A x \in wordBreaks : x <= u' \/ rEnd <= x
      BY <2>2, <2>3
    <3>2. u < rEnd => \A i \in DOMAIN groupEnds : groupEnds[i] >= 0 => WholeCharacter(rStart + groupEnds[i])
      BY <1>4 DEF RegexBreaks, u
    <3> QED BY <1>1, <2>1, <2>4, <3>1, <3>2 DEF RegexBreaks, u
  <2> QED BY <2>1, <2>4, <2>6, <2>7, <2>8
<1>5. CASE extractor.regex /\ StretchNext
  <2> DEFINE u == previousBreak
  <2>1. /\ u >= rEnd /\ ExtractorNext /\ rStart' = rEnd /\ rEnd' = ExtractorBoundary'
        /\ RegexBoundary = u /\ RegexBoundary' = u'
    BY <1>1, <1>5 DEF StretchNext, RegexBoundary
  <2>2. /\ u \in 0..End /\ u = rEnd /\ ExtractorBoundary = rEnd /\ rEnd' \in -1..End
        /\ u' \in -1..End /\ u' <= rEnd' /\ (rEnd' # DONE => u' # DONE)
    <3>1. rEnd \in Results /\ ExtractorBoundary = rEnd /\ u <= rEnd /\ u \in Results /\ u # DONE
      BY <1>5, <2>1, ExtractorInResults DEF RegexInv, NotDone
    <3>2. u \in 0..End /\ u = rEnd
      BY <1>1, <2>1, <3>1
    <3>3. Moves(rEnd, rEnd')
      BY <2>1, <3>1, <3>2, ExtractorMoves
    <3>4. rEnd' \in -1..End
      BY <1>1, <3>2, <3>3 DEF Moves
    <3>5. u' \in Results /\ u' <= rEnd' /\ (rEnd' # DONE => u' # DONE)
      BY <1>1, <1>2, <1>5 DEF RegexInv
    <3> QED BY <1>1, <3>1, <3>2, <3>4, <3>5
  <2>3. CompBreaks' /\ Keeps(u, rEnd') /\ WholeCharacter(rEnd')
    BY <2>1, <2>2, ExtractorKeeps
  <2>4. \A x \in wordBreaks' : (x \in wordBreaks /\ x <= u) \/ (rEnd' # DONE /\ rEnd' <= x)
    BY <2>3 DEF Keeps
  <2>5. rEnd' # DONE => u' \in (u + 1)..rEnd'
    <3>1. CASE u = End
      BY <1>2, <2>1, <2>2, <3>1 DEF Moves
    <3>2. CASE u # End
      BY <1>2, <2>1, <2>2, <3>2 DEF Moves
    <3> QED BY <3>1, <3>2
  <2>6. \A x \in wordBreaks' : x \in 0..End
    BY <1>1, <2>3 DEF CompBreaks, Positions
  <2> HIDE DEF u
  <2>7. Keeps(u, u')
    <3>1. CASE rEnd' = DONE
      BY <2>4, <3>1 DEF Keeps
    <3>2. CASE rEnd' # DONE
      <4>1. u' \in Int /\ rEnd' \in Int /\ u' <= rEnd' /\ u' # DONE
        BY <1>1, <2>2, <3>2
      <4> QED BY <2>4, <2>6, <4>1 DEF Keeps
    <3> QED BY <3>1, <3>2
  <2>8. rEnd' # DONE => \A x \in wordBreaks' : x <= u' \/ rEnd' <= x
    <3> SUFFICES ASSUME rEnd' # DONE, NEW x \in wordBreaks' PROVE x <= u' \/ rEnd' <= x
      OBVIOUS
    <3>1. x <= u \/ rEnd' <= x
      BY <2>4
    <3> QED BY <1>1, <2>2, <2>5, <2>6, <3>1
  <2>9. CASE NotSplit(rEnd')
    <3>1. u' = rEnd'
      BY <2>9 DEF NotSplit, u
    <3> QED BY <1>1, <2>1, <2>2, <2>3, <2>7, <2>8, <3>1 DEF RegexBreaks, u
  <2>10. ASSUME rEnd' - rStart' >= 2, NEW ends \in Matches(rStart', rEnd'), groupEnds' = ends,
                NextRegexBoundary(ends, 1, rStart', rEnd')
         PROVE  /\ CompBreaks' /\ RegexBreaks' /\ Keeps(RegexBoundary, RegexBoundary')
                /\ WholeCharacter(RegexBoundary')
    <3>1. \A i \in DOMAIN ends : ends[i] >= 0 => WholeCharacter(rStart' + ends[i])
      BY DEF Matches
    <3>2. PICK n \in 1..MaxGroups : ends \in [1..n -> -1..(rEnd' - rStart')]
      BY DEF Matches
    <3>3. Len(ends) = n /\ DOMAIN ends = 1..n /\ \A i \in 1..n : ends[i] \in Int
      BY <2>1, <2>2, <3>2
    <3>4. WholeCharacter(u')
      <4>1. ASSUME NEW i \in 1..Len(ends), rStart' < rStart' + ends[i], u' = rStart' + ends[i]
            PROVE  WholeCharacter(u')
        <5>1. rStart' \in Int /\ ends[i] \in Int /\ i \in DOMAIN ends
          BY <2>1, <2>2, <3>3
        <5>2. ends[i] >= 0
          BY <4>1, <5>1
        <5> QED BY <3>1, <4>1, <5>1, <5>2
      <4> QED BY <2>3, <2>10, <4>1 DEF NextRegexBoundary, u
    <3> QED BY <1>1, <2>1, <2>3, <2>7, <2>8, <2>10, <3>1, <3>4 DEF RegexBreaks, u
  <2> QED BY <1>5, <2>9, <2>10 DEF StretchNext
<1> QED BY <1>3, <1>4, <1>5 DEF RegexSplitNext

\* A split is beside a digit or between two characters.
LEMMA SplitWhole ==
  ASSUME Given, NEW start \in 0..End, NEW end \in 0..End, NEW x \in start..end,
         SplitsAt(x, start, end)
  PROVE  WholeCharacter(x)
<1>1. start < x /\ x < end /\ End \in Nat
  BY SplitInside, PositionsAreNumbers
<1>2. Unit(x - 1) # "lead" \/ Unit(x) # "trail"
  BY <1>1 DEF SplitsAt, FirstOutside, Alpha, Letters, Punct
<1> QED BY <1>1, <1>2, BesideLetter

\* All layers together.
LEMMA BoundaryKeeps ==
  ASSUME IteratorInv, CompBreaks, RegexBreaks, NumBreaks, Boundary # DONE, NextBoundary
  PROVE  /\ CompBreaks' /\ RegexBreaks' /\ NumBreaks' /\ Keeps(Boundary, Boundary')
         /\ WholeCharacter(Boundary')
<1> USE DEF IteratorInv
<1>0. /\ Fixed /\ End' = End /\ Positions' = Positions /\ extractor' = extractor /\ text' = text
      /\ Results = -1..End /\ End \in Nat /\ \A x : WholeCharacter(x)' = WholeCharacter(x)
  BY PositionsAreNumbers DEF NextBoundary, Fixed, End, Unit, WholeCharacter, Positions
<1>1. IteratorInv' /\ Moves(Boundary, Boundary')
  BY BoundaryMoves
<1>2. CASE extractor.unmodified
  <2>1. RegexSplitNext /\ NotDone /\ Boundary = RegexBoundary /\ Boundary' = RegexBoundary'
    BY <1>0, <1>2 DEF NextBoundary, Boundary, NotDone
  <2> QED BY <1>0, <1>2, <2>1, RegexKeeps DEF NumBreaks
<1>3. CASE ~extractor.unmodified /\ SplitNext
  <2>1. /\ UNCHANGED <<nEnd, icu, wordBreaks, boundaries, boundariesIdx, rStart, rEnd,
                       previousBreak, groupEnds>>
        /\ split # DONE /\ split' = DONE
    BY <1>3 DEF SplitNext, icuVars, compVars, regexVars
  <2>2. ExtractorBoundary' = ExtractorBoundary /\ RegexBoundary' = RegexBoundary
    BY <1>0, <2>1 DEF ExtractorBoundary, RegexBoundary
  <2>3. CompBreaks' /\ RegexBreaks'
    BY <1>0, <2>1, <2>2 DEF CompBreaks, RegexBreaks
  <2>4. Boundary = split /\ Boundary' = nEnd
    BY <1>0, <1>3, <2>1 DEF Boundary
  <2>5. nEnd # DONE /\ \A x \in wordBreaks : x <= split \/ nEnd <= x
    <3>1. split \in -1..End /\ 0 < split /\ split < nEnd
      BY <1>0, <1>3, <2>1 DEF NumInv
    <3>2. nEnd # DONE
      BY <1>0, <3>1
    <3> QED BY <1>3, <2>1, <3>2 DEF NumBreaks
  <2>6. WholeCharacter(nEnd)
    <3>1. nEnd = RegexBoundary
      BY <1>3 DEF NumInv
    <3>2. extractor.regex => WholeCharacter(RegexBoundary)
      BY DEF RegexBreaks, RegexBoundary
    <3>3. WholeCharacter(ExtractorBoundary)
      <4>1. WholeCharacter(icu) /\ \A i \in DOMAIN boundaries : WholeCharacter(boundaries[i])
        BY WholeBreaks DEF CompBreaks
      <4>2. boundariesIdx > 0 => boundariesIdx \in DOMAIN boundaries
        BY DEF CompInv
      <4> QED BY <4>1, <4>2 DEF ExtractorBoundary
    <3> QED BY <3>1, <3>2, <3>3 DEF RegexBoundary
  <2> QED BY <1>0, <2>1, <2>3, <2>4, <2>5, <2>6 DEF NumBreaks, Keeps
<1>4. CASE ~extractor.unmodified /\ NumberNext
  <2>1. split = DONE /\ RegexSplitNext /\ nEnd' = RegexBoundary' /\ Boundary = nEnd
    BY <1>4 DEF NumberNext, Boundary
  <2>2. nEnd = RegexBoundary /\ NotDone
    BY <1>4, <2>1 DEF NumInv, NotDone
  <2>3. CompBreaks' /\ RegexBreaks' /\ Keeps(nEnd, nEnd') /\ WholeCharacter(nEnd')
    BY <1>0, <2>1, <2>2, RegexKeeps
  <2>4. nEnd \in 0..End
    BY <1>0, <2>2, ElementOfSeq, EmptySeq
       DEF NotDone, RegexBoundary, ExtractorBoundary, CompInv, RegexInv, Positions, Results
  <2>5. CASE split' = DONE
    BY <1>0, <1>4, <2>1, <2>3, <2>5 DEF Boundary, NumBreaks
  <2>6. ASSUME NEW x \in nEnd..nEnd', SplitsAt(x, nEnd, nEnd'), split' = x
        PROVE  /\ CompBreaks' /\ RegexBreaks' /\ NumBreaks' /\ Keeps(Boundary, Boundary')
               /\ WholeCharacter(Boundary')
    <3>1. nEnd' \in Int /\ nEnd' \in -1..End
      <4>1. RegexInv' /\ CompInv' /\ Moves(nEnd, nEnd')
        BY <1>0, <2>1, <2>2, RegexMoves
      <4> QED BY <1>0, <2>4, <4>1 DEF Moves
    <3>2. nEnd < x /\ x < nEnd'
      BY <1>0, <2>4, <2>6, <3>1, SplitInside
    <3>3. WholeCharacter(x)
      BY <1>0, <2>4, <2>6, <3>1, <3>2, SplitWhole
    <3>4. Boundary' = x /\ x \in Int
      BY <1>0, <1>4, <2>4, <2>6, <3>1, <3>2 DEF Boundary
    <3>5. \A y \in wordBreaks' : y \in Int /\ ((y \in wordBreaks /\ y <= nEnd) \/ nEnd' <= y)
      BY <1>0, <2>3 DEF Keeps, CompBreaks, Positions
    <3>6. Keeps(nEnd, x)
      BY <2>4, <3>1, <3>2, <3>5 DEF Keeps
    <3>7. NumBreaks'
      BY <1>0, <2>4, <2>6, <3>1, <3>2, <3>3, <3>5 DEF NumBreaks
    <3> QED BY <2>1, <2>3, <3>3, <3>4, <3>6, <3>7
  <2> QED BY <1>4, <2>5, <2>6 DEF NumberNext
<1> QED BY <1>2, <1>3, <1>4 DEF NextBoundary

\* A sequence with the k-th element replaced by others.
Spliced(s, k, p) == SubSeq(s, 1, k - 1) \o p \o SubSeq(s, k + 1, Len(s))

\* Element n of it is one of the first, of the new ones or of the last.
IsSpliced(q, s, k, p) ==
  /\ Len(q) = Len(s) + Len(p) - 1 /\ DOMAIN q = 1..(Len(s) + Len(p) - 1)
  /\ \A n \in 1..(k - 1) : q[n] = s[n]
  /\ \A i \in 1..Len(p) : q[k + i - 1] = p[i]
  /\ \A n \in (k + 1)..Len(s) : q[n + Len(p) - 1] = s[n]

\* q is u and then v.
Joins(q, u, v) ==
  /\ Len(q) = Len(u) + Len(v) /\ DOMAIN q = 1..(Len(u) + Len(v))
  /\ \A n \in 1..Len(u) : q[n] = u[n]
  /\ \A n \in (Len(u) + 1)..(Len(u) + Len(v)) : q[n] = v[n - Len(u)]

LEMMA Joining ==
  ASSUME NEW T, NEW u \in Seq(T), NEW v \in Seq(T)
  PROVE  u \o v \in Seq(T) /\ Joins(u \o v, u, v)
<1> DEFINE q == u \o v
<1>1. Len(u) \in Nat /\ Len(v) \in Nat
  OBVIOUS
<1>2. /\ q \in Seq(T) /\ Len(q) = Len(u) + Len(v)
      /\ \A i \in 1..(Len(u) + Len(v)) : q[i] = IF i <= Len(u) THEN u[i] ELSE v[i - Len(u)]
  BY ConcatProperties
<1>3. DOMAIN q = 1..(Len(u) + Len(v))
  BY <1>2
<1> HIDE DEF q
<1>4. Joins(q, u, v)
  BY <1>1, <1>2, <1>3 DEF Joins
<1> QED BY <1>2, <1>4 DEF q

LEMMA Splicing ==
  ASSUME NEW T, NEW s \in Seq(T), NEW k \in 1..Len(s), NEW p \in Seq(T)
  PROVE  IsSpliced(Spliced(s, k, p), s, k, p)
<1> DEFINE u == SubSeq(s, 1, k - 1)
           v == SubSeq(s, k + 1, Len(s))
           q == u \o p \o v
<1>1. Len(s) \in Nat /\ Len(p) \in Nat /\ k \in Int
  OBVIOUS
<1>2. u \in Seq(T) /\ Len(u) = k - 1 /\ \A n \in 1..(k - 1) : u[n] = s[n]
  BY <1>1, SubSeqProperties
<1>3. v \in Seq(T) /\ Len(v) = Len(s) - k /\ \A n \in 1..(Len(s) - k) : v[n] = s[n + k]
  BY <1>1, SubSeqProperties
<1> HIDE DEF u, v
<1> DEFINE w == u \o p
<1>4. w \in Seq(T) /\ Joins(w, u, p)
  BY <1>2, Joining, Zenon
<1>5. q = w \o v
  OBVIOUS
<1> HIDE DEF w, q
<1>6. Joins(q, w, v)
  <2>1. Joins(w \o v, w, v)
    BY <1>3, <1>4, Joining, Zenon
  <2> QED BY <1>5, <2>1
<1>7. Len(w) = k - 1 + Len(p) /\ Len(q) = Len(s) + Len(p) - 1 /\ DOMAIN q = 1..(Len(s) + Len(p) - 1)
  <2>1. Len(w) = k - 1 + Len(p)
    BY <1>1, <1>2, <1>4 DEF Joins
  <2>2. Len(w) + Len(v) = Len(s) + Len(p) - 1
    BY <1>1, <1>3, <2>1
  <2> QED BY <1>6, <2>1, <2>2 DEF Joins
<1>8. ASSUME NEW n \in 1..(k - 1) PROVE q[n] = s[n]
  <2>1. n \in 1..Len(w) /\ n \in 1..Len(u)
    BY <1>1, <1>2, <1>7
  <2>2. q[n] = w[n] /\ w[n] = u[n]
    BY <1>4, <1>6, <2>1 DEF Joins
  <2> QED BY <1>2, <2>2
<1>9. ASSUME NEW i \in 1..Len(p) PROVE q[k + i - 1] = p[i]
  <2>1. /\ k + i - 1 \in (Len(u) + 1)..(Len(u) + Len(p)) /\ (k + i - 1) - Len(u) = i
        /\ k + i - 1 \in 1..Len(w)
    BY <1>1, <1>2, <1>7
  <2>2. q[k + i - 1] = w[k + i - 1] /\ w[k + i - 1] = p[(k + i - 1) - Len(u)]
    BY <1>4, <1>6, <2>1 DEF Joins
  <2> QED BY <2>1, <2>2
<1>10. ASSUME NEW n \in (k + 1)..Len(s) PROVE q[n + Len(p) - 1] = s[n]
  <2>1. /\ n + Len(p) - 1 \in (Len(w) + 1)..(Len(w) + Len(v))
        /\ (n + Len(p) - 1) - Len(w) = n - k /\ n - k \in 1..(Len(s) - k) /\ (n - k) + k = n
    BY <1>1, <1>3, <1>7
  <2>2. q[n + Len(p) - 1] = v[(n + Len(p) - 1) - Len(w)]
    BY <1>6, <2>1 DEF Joins
  <2>3. v[n - k] = s[(n - k) + k]
    BY <1>3, <2>1
  <2> QED BY <2>1, <2>2, <2>3
<1> QED BY <1>7, <1>8, <1>9, <1>10 DEF IsSpliced, Spliced, q, u, v

\* A token within the text and between characters; one whose controls are apart.
Fits(t) == 0 <= t.start /\ t.end <= End /\ WholeCharacter(t.start) /\ WholeCharacter(t.end)
Apart(t) == Unit(t.end - 1) = "control" => t.end = t.start + 1
PieceOK(t) == Fits(t) /\ Apart(t)

LEMMA PiecesFine ==
  ASSUME Given, NEW token \in Stretch, Fits(token),
         NEW x \in token.start..token.end, x < token.end, IsTrail(x, token)
  PROVE  /\ Pieces(token, x) \in Seq(Stretch) /\ Len(Pieces(token, x)) \in Nat \ {0}
         /\ \A i \in 1..Len(Pieces(token, x)) : PieceOK(Pieces(token, x)[i])
         /\ Pieces(token, x)[Len(Pieces(token, x))].end = token.end
<1> DEFINE k == token.end - x
           controls == [i \in 1..k |->
                          [start |-> x + i - 1, end |-> x + i, class |-> "delim"]]
<1>1. token.start \in Int /\ token.end \in Int /\ x \in Int /\ k \in Nat \ {0} /\ End \in Nat
      /\ 0 <= token.start /\ token.end <= End
      /\ WholeCharacter(token.start) /\ WholeCharacter(token.end)
  BY PositionsAreNumbers DEF Stretch, Fits
<1>2. /\ Pieces(token, x) \in Seq(Stretch) /\ Len(Pieces(token, x)) \in Nat \ {0}
      /\ Pieces(token, x)[Len(Pieces(token, x))].end = token.end
  <2>1. Covers(Pieces(token, x), token.start, token.end)
    BY PiecesCover
  <2>2. Pieces(token, x) # << >>
    BY <1>1, <2>1 DEF Covers
  <2> QED BY <2>1, <2>2, EmptySeq DEF Covers
<1>3. ASSUME NEW y \in (x + 1)..token.end PROVE Unit(y - 1) = "control" /\ WholeCharacter(y)
  <2>1. y - 1 \in x..(token.end - 1)
    BY <1>1
  <2>2. Unit(y - 1) = "control"
    BY <2>1 DEF IsTrail
  <2> QED BY <2>2 DEF WholeCharacter
<1>4. WholeCharacter(x)
  <2>1. CASE x = token.start
    BY <1>1, <2>1
  <2>2. CASE x # token.start
    <3>1. 0 < x /\ x < End /\ Unit(x) = "control"
      BY <1>1, <2>2 DEF IsTrail
    <3> QED BY <1>1, <3>1, BesideLetter
  <2> QED BY <2>1, <2>2
<1>5. ASSUME NEW i \in 1..k
      PROVE  /\ PieceOK([start |-> x + i - 1, end |-> x + i, class |-> "delim"])
  <2>1. x + i \in (x + 1)..token.end /\ (x + i - 1 = x \/ x + i - 1 \in (x + 1)..token.end)
    BY <1>1
  <2>2. WholeCharacter(x + i) /\ WholeCharacter(x + i - 1)
    BY <1>3, <1>4, <2>1
  <2>3. x + i = x + i - 1 + 1 /\ 0 <= x + i - 1 /\ x + i <= End
    BY <1>1, <2>1
  <2> QED BY <2>2, <2>3 DEF PieceOK, Fits, Apart
<1>6. Len(controls) = k /\ DOMAIN controls = 1..k /\ controls \in Seq(Stretch)
      /\ \A i \in 1..k : PieceOK(controls[i])
  <2>0. \A i \in 1..k : [start |-> x + i - 1, end |-> x + i, class |-> "delim"] \in Stretch
    <3> TAKE i \in 1..k
    <3>1. x + i - 1 \in Int /\ x + i \in Int
      BY <1>1
    <3> QED BY <3>1 DEF Stretch
  <2> HIDE DEF k
  <2>1. controls \in [1..k -> Stretch]
    BY <2>0
  <2>3. \A i \in 1..k : PieceOK(controls[i])
    BY <1>5
  <2> HIDE DEF controls
  <2>2. Len(controls) = k /\ controls \in Seq(Stretch)
    BY <1>1, <2>1
  <2> QED BY <2>1, <2>2, <2>3
<1>7. CASE x = token.start
  <2>1. Pieces(token, x) = controls
    BY <1>7 DEF Pieces
  <2> QED BY <1>2, <1>6, <2>1
<1>8. CASE x # token.start
  <2> DEFINE front == [token EXCEPT !.end = x]
  <2>1. front \in Stretch /\ front.start = token.start /\ front.end = x /\ x > token.start
    BY <1>1, <1>8 DEF Stretch
  <2>2. PieceOK(front)
    <3>1. 0 <= front.start /\ front.end <= End
      BY <1>1, <2>1
    <3> QED BY <1>1, <1>4, <2>1, <3>1 DEF PieceOK, Fits, Apart, IsTrail
  <2>3. Pieces(token, x) = <<front>> \o controls
    BY <1>8 DEF Pieces
  <2> HIDE DEF front, controls, k
  <2>4. <<front>> \in Seq(Stretch) /\ Len(<<front>>) = 1 /\ <<front>>[1] = front
    BY <2>1
  <2>5. /\ DOMAIN Pieces(token, x) = 1..(1 + k) /\ Len(Pieces(token, x)) = 1 + k
        /\ Pieces(token, x)[1] = front
        /\ \A n \in 2..(1 + k) : Pieces(token, x)[n] = controls[n - 1]
    <3>1. Joins(<<front>> \o controls, <<front>>, controls)
      BY <1>6, <2>4, Joining, Zenon
    <3>2. Joins(Pieces(token, x), <<front>>, controls)
      BY <2>3, <3>1
    <3> QED BY <1>1, <1>6, <2>4, <3>2 DEF Joins
  <2>6. ASSUME NEW n \in 1..(1 + k) PROVE PieceOK(Pieces(token, x)[n])
    <3>1. n = 1 \/ (n \in 2..(1 + k) /\ n - 1 \in 1..k)
      BY <1>1
    <3> QED BY <1>6, <2>2, <2>5, <3>1
  <2> QED BY <1>2, <2>5, <2>6
<1> QED BY <1>7, <1>8

\* The tokens end at every word break so far and between characters, and those
\* before the one that is looked at are rid of their controls.
BreaksInv ==
  /\ TokensInv
  /\ CompBreaks /\ RegexBreaks /\ NumBreaks
  /\ phase = "tokenizing" => at = 1
  /\ WordBreaksKept /\ CharactersWhole
  /\ \A n \in DOMAIN tokens : 0 <= tokens[n].start /\ tokens[n].end <= End
  /\ ~extractor.unmodified => \A n \in DOMAIN tokens : n < at => Apart(tokens[n])
  /\ phase \in {"linked", "done"} /\ ~extractor.unmodified => at > Len(tokens)

LEMMA TokenFacts ==
  ASSUME TokensInv
  PROVE  /\ Given /\ End \in Nat /\ startIdx \in 0..End
         /\ tokens \in Seq(Stretch) /\ Len(tokens) \in Nat /\ DOMAIN tokens = 1..Len(tokens)
         /\ \A n \in 1..Len(tokens) : tokens[n] \in Stretch
<1>1. Given /\ IteratorInv /\ End \in Nat
  BY PositionsAreNumbers DEF TokensInv, IInv, IteratorInv
<1>2. startIdx \in 0..End
  BY <1>1 DEF TokensInv, IInv, Positions
<1>3. tokens \in Seq(Stretch)
  BY DEF TokensInv, Covers
<1> QED BY <1>1, <1>2, <1>3, ElementOfSeq

LEMMA StepBreaksInv == BreaksInv /\ [Next]_vars => BreaksInv'
<1> SUFFICES ASSUME BreaksInv, [Next]_vars PROVE BreaksInv'
  OBVIOUS
<1>0. TokensInv /\ TokensInv' /\ IInv /\ IteratorInv
  BY StepTokensInv DEF BreaksInv, TokensInv, IInv
<1>1. CASE NextToken
  <2>1. /\ phase = "tokenizing" /\ phase' = phase /\ NextBoundary /\ Boundary' # DONE
        /\ startIdx' = Boundary' /\ startIdx = Boundary /\ at = 1 /\ at' = at
        /\ text' = text /\ extractor' = extractor
    BY <1>0, <1>1 DEF NextToken, IInv, BreaksInv, NextBoundary
  <2>2. /\ startIdx' \in (startIdx + 1)..End /\ startIdx \in 0..End /\ End \in Nat /\ End' = End
    BY <1>0, <1>1, <2>1, CallMoves DEF Moves
  <2>3. /\ CompBreaks' /\ RegexBreaks' /\ NumBreaks' /\ Keeps(startIdx, startIdx')
        /\ WholeCharacter(startIdx')
    <3>1. Boundary # DONE
      BY <2>1, <2>2
    <3> QED BY <1>0, <2>1, <3>1, BoundaryKeeps DEF BreaksInv
  <2> DEFINE tk == Tokenized(startIdx, startIdx')
  <2>4. tk \in Stretch /\ tk.start = startIdx /\ tk.end = startIdx'
    BY <2>2 DEF Tokenized, Stretch
  <2>5. tokens' = Append(tokens, tk)
    BY <1>1, <2>2 DEF NextToken
  <2> HIDE DEF tk
  <2>6. /\ DOMAIN tokens' = 1..(Len(tokens) + 1) /\ tokens'[Len(tokens) + 1] = tk
        /\ Len(tokens) \in Nat /\ DOMAIN tokens = 1..Len(tokens)
        /\ \A n \in 1..Len(tokens) : tokens'[n] = tokens[n]
    BY <1>0, <2>4, <2>5, TokenFacts
  <2>7. WordBreaksKept'
    <3>1. ASSUME NEW x \in wordBreaks', x <= startIdx'
          PROVE  \E n \in DOMAIN tokens' : tokens'[n].end = x
      <4>1. CASE x \in wordBreaks /\ x <= startIdx
        <5>1. PICK n \in DOMAIN tokens : tokens[n].end = x
          BY <4>1 DEF BreaksInv, WordBreaksKept
        <5> QED BY <2>6, <5>1
      <4>2. CASE startIdx' <= x
        <5>1. x \in Int
          BY <2>3 DEF CompBreaks, Positions
        <5>2. x = startIdx'
          BY <2>2, <3>1, <4>2, <5>1
        <5>3. Len(tokens) + 1 \in DOMAIN tokens'
          BY <2>6
        <5> QED BY <2>4, <2>6, <5>2, <5>3
      <4> QED BY <2>3, <4>1, <4>2 DEF Keeps
    <3> QED BY <3>1 DEF WordBreaksKept
  <2>8. CharactersWhole'
    <3>1. \A x : WholeCharacter(x)' = WholeCharacter(x)
      BY <2>1 DEF WholeCharacter, Unit, End
    <3>2. WholeCharacter(startIdx)
      <4>1. CASE tokens = << >>
        <5>1. startIdx = 0
          BY <1>0, <4>1 DEF TokensInv, Covers
        <5> QED BY <5>1 DEF WholeCharacter
      <4>2. CASE tokens # << >>
        <5>1. startIdx = tokens[Len(tokens)].end /\ Len(tokens) \in DOMAIN tokens
          BY <1>0, <2>6, <4>2, EmptySeq DEF TokensInv, Covers
        <5> QED BY <5>1 DEF BreaksInv, CharactersWhole
      <4> QED BY <4>1, <4>2
    <3>3. ASSUME NEW n \in DOMAIN tokens'
          PROVE  WholeCharacter(tokens'[n].start) /\ WholeCharacter(tokens'[n].end)
      <4>1. CASE n = Len(tokens) + 1
        BY <2>3, <2>4, <2>6, <3>2, <4>1
      <4>2. CASE n \in DOMAIN tokens
        BY <2>6, <4>2 DEF BreaksInv, CharactersWhole
      <4> QED BY <2>6, <3>3, <4>1, <4>2
    <3> QED BY <3>1, <3>3 DEF CharactersWhole
  <2>9. \A n \in DOMAIN tokens' : ~(n < at')
    BY <2>1, <2>6
  <2>10. ASSUME NEW n \in DOMAIN tokens' PROVE 0 <= tokens'[n].start /\ tokens'[n].end <= End'
    <3>1. CASE n = Len(tokens) + 1
      BY <2>2, <2>4, <2>6, <3>1
    <3>2. CASE n \in DOMAIN tokens
      BY <2>2, <2>6, <3>2 DEF BreaksInv
    <3> QED BY <2>6, <2>10, <3>1, <3>2
  <2> QED BY <1>0, <2>1, <2>3, <2>7, <2>8, <2>9, <2>10 DEF BreaksInv
<1>2. CASE NoMoreTokens
  <2>1. /\ phase = "tokenizing" /\ NextBoundary /\ Boundary' = DONE /\ startIdx = Boundary
        /\ text' = text /\ extractor' = extractor /\ UNCHANGED <<startIdx, tokens, at>>
        /\ phase' = IF extractor.unmodified THEN "linked" ELSE "cleaving"
    BY <1>0, <1>2 DEF NoMoreTokens, IInv, NextBoundary
  <2>2. startIdx \in 0..End /\ End' = End
    BY <1>0, <2>1, CallMoves
  <2>3. CompBreaks' /\ RegexBreaks' /\ NumBreaks' /\ Keeps(startIdx, DONE)
    <3>1. Boundary # DONE
      BY <2>1, <2>2
    <3> QED BY <1>0, <2>1, <3>1, BoundaryKeeps DEF BreaksInv
  <2>4. WordBreaksKept'
    BY <2>1, <2>3 DEF WordBreaksKept, Keeps, BreaksInv
  <2>5. \A x : WholeCharacter(x)' = WholeCharacter(x) /\ Unit(x)' = Unit(x)
    BY <2>1 DEF WholeCharacter, Unit, End
  <2>6. CharactersWhole'
    BY <2>1, <2>5 DEF CharactersWhole, BreaksInv
  <2>7. ~extractor'.unmodified => \A n \in DOMAIN tokens' : n < at' => Apart(tokens[n])'
    BY <2>1, <2>5 DEF Apart, BreaksInv
  <2>8. phase' # "tokenizing" /\ (~extractor'.unmodified => phase' = "cleaving")
    BY <2>1
  <2> QED BY <1>0, <2>1, <2>2, <2>3, <2>4, <2>6, <2>7, <2>8 DEF BreaksInv
<1>3. ASSUME UNCHANGED <<text, extractor, iteratorVars>>
      PROVE  /\ CompBreaks' /\ RegexBreaks' /\ NumBreaks' /\ wordBreaks' = wordBreaks
             /\ End' = End /\ \A x : WholeCharacter(x)' = WholeCharacter(x) /\ Unit(x)' = Unit(x)
  BY <1>3 DEF BreaksInv, CompBreaks, RegexBreaks, NumBreaks, WholeCharacter, Unit, End, Positions,
     ExtractorBoundary, iteratorVars, icuVars, compVars, regexVars, numVars
<1>4. ASSUME UNCHANGED <<text, extractor, iteratorVars, startIdx, tokens, at>>,
             phase' = "tokenizing" => phase = "tokenizing",
             phase' \in {"linked", "done"} => at > Len(tokens) \/ phase \in {"linked", "done"}
      PROVE  BreaksInv'
  <2>1. WordBreaksKept' /\ CharactersWhole'
    BY <1>3, <1>4 DEF BreaksInv, WordBreaksKept, CharactersWhole
  <2>2. ~extractor'.unmodified => \A n \in DOMAIN tokens' : n < at' => Apart(tokens[n])'
    BY <1>3, <1>4 DEF Apart, BreaksInv
  <2> QED BY <1>0, <1>3, <1>4, <2>1, <2>2 DEF BreaksInv
<1>5. CASE Cleaved
  BY <1>4, <1>5 DEF Cleaved
<1>6. CASE BuildChain
  BY <1>4, <1>6 DEF BuildChain
<1>7. CASE UNCHANGED vars
  BY <1>4, <1>7 DEF vars
<1>8. CASE Cleave
  <2>1. /\ UNCHANGED <<text, extractor, iteratorVars, phase, startIdx>> /\ phase = "cleaving"
        /\ at \in Nat \ {0} /\ at <= Len(tokens) /\ at \in DOMAIN tokens
    BY <1>0, <1>8, TokenFacts DEF Cleave, TokensInv
  <2>2. /\ Given /\ tokens \in Seq(Stretch) /\ tokens[at] \in Stretch /\ DOMAIN tokens = 1..Len(tokens)
        /\ Len(tokens) \in Nat
    BY <1>0, <2>1, TokenFacts
  <2>3. CompBreaks' /\ RegexBreaks' /\ NumBreaks'
    BY <1>3, <2>1
  <2> DEFINE token == tokens[at]
  <2>4. PICK x \in token.start..token.end :
          /\ IsTrail(x, token)
          /\ IF token.end - token.start > 1 /\ x < token.end
             THEN /\ tokens' = Spliced(tokens, at, Pieces(token, x))
                  /\ at' = at + Len(Pieces(token, x))
             ELSE at' = at + 1 /\ UNCHANGED tokens
    BY <1>8 DEF Cleave, Spliced
  <2>5. Fits(token)
    BY <2>1 DEF BreaksInv, CharactersWhole, Fits
  <2>6. token.start \in Int /\ token.end \in Int /\ token.start < token.end
    BY <1>0, <2>1, <2>2 DEF Stretch, TokensInv, Covers
  <2>7. CASE at' = at + 1 /\ UNCHANGED tokens /\ ~(token.end - token.start > 1 /\ x < token.end)
    <3>1. Apart(token)
      <4>1. CASE x = token.end
        BY <2>4, <2>6, <4>1 DEF Apart, IsTrail
      <4>2. CASE x # token.end
        BY <2>4, <2>6, <2>7, <4>2 DEF Apart
      <4> QED BY <4>1, <4>2
    <3>2. ASSUME NEW n \in DOMAIN tokens, n < at + 1, ~extractor.unmodified PROVE Apart(tokens[n])
      BY <2>1, <2>2, <3>1, <3>2 DEF BreaksInv
    <3>3. ~extractor'.unmodified => \A n \in DOMAIN tokens' : n < at' => Apart(tokens[n])'
      BY <1>3, <2>1, <2>7, <3>2 DEF Apart
    <3>4. WordBreaksKept' /\ CharactersWhole'
      BY <1>3, <2>1, <2>7 DEF BreaksInv, WordBreaksKept, CharactersWhole
    <3> QED BY <1>0, <1>3, <2>1, <2>3, <2>7, <3>3, <3>4 DEF BreaksInv
  <2>8. CASE /\ token.end - token.start > 1 /\ x < token.end
             /\ tokens' = Spliced(tokens, at, Pieces(token, x))
             /\ at' = at + Len(Pieces(token, x))
    <3> DEFINE p == Pieces(token, x)
               l == Len(p)
    <3> HIDE DEF token
    <3>1. /\ p \in Seq(Stretch) /\ l \in Nat \ {0} /\ p[l].end = token.end
          /\ \A i \in 1..l : PieceOK(p[i])
      BY <2>2, <2>4, <2>5, <2>8, PiecesFine DEF token
    <3>2. tokens' = Spliced(tokens, at, p) /\ at' = at + l
      BY <2>8
    <3> HIDE DEF p
    <3>3. IsSpliced(tokens', tokens, at, p)
      BY <2>1, <2>2, <3>1, <3>2, Splicing
    <3> HIDE DEF l
    <3>4. /\ DOMAIN tokens' = 1..(Len(tokens) + l - 1)
          /\ \A n \in 1..(at - 1) : tokens'[n] = tokens[n]
          /\ \A i \in 1..l : tokens'[at + i - 1] = p[i]
          /\ \A n \in (at + 1)..Len(tokens) : tokens'[n + l - 1] = tokens[n]
      BY <3>3 DEF IsSpliced, l
    <3>5. ASSUME NEW n \in DOMAIN tokens PROVE \E m \in DOMAIN tokens' : tokens'[m].end = tokens[n].end
      <4>1. CASE n < at
        <5>1. n \in 1..(at - 1) /\ n \in DOMAIN tokens'
          BY <2>1, <2>2, <3>1, <3>4, <4>1
        <5> QED BY <3>4, <5>1
      <4>2. CASE n = at
        <5>0. /\ l \in Nat /\ l # 0 /\ at \in Nat /\ at # 0 /\ Len(tokens) \in Nat
              /\ at <= Len(tokens)
          BY <2>1, <2>2, <3>1
        <5>1. l \in 1..l /\ at + l - 1 \in 1..(Len(tokens) + l - 1)
          BY <5>0
        <5>2. at + l - 1 \in DOMAIN tokens' /\ tokens'[at + l - 1] = p[l]
          BY <3>4, <5>1
        <5> QED BY <3>1, <4>2, <5>2 DEF token
      <4>3. CASE n > at
        <5>1. n \in (at + 1)..Len(tokens) /\ n + l - 1 \in DOMAIN tokens'
          BY <2>1, <2>2, <3>1, <3>4, <4>3
        <5> QED BY <3>4, <5>1
      <4> QED BY <2>1, <2>2, <4>1, <4>2, <4>3
    <3>6. ASSUME NEW n \in DOMAIN tokens'
          PROVE  \/ n < at /\ n \in DOMAIN tokens /\ tokens'[n] = tokens[n]
                 \/ PieceOK(tokens'[n])
                 \/ n >= at + l /\ \E m \in DOMAIN tokens : tokens'[n] = tokens[m]
      <4>1. CASE n < at
        <5>1. n \in 1..(at - 1) /\ n \in DOMAIN tokens
          BY <2>1, <2>2, <3>1, <3>4, <4>1
        <5> QED BY <3>4, <4>1, <5>1
      <4>2. CASE n >= at /\ n < at + l
        <5>1. n - at + 1 \in 1..l /\ at + (n - at + 1) - 1 = n
          BY <2>1, <2>2, <3>1, <3>4, <4>2
        <5>2. tokens'[at + (n - at + 1) - 1] = p[n - at + 1] /\ PieceOK(p[n - at + 1])
          BY <3>1, <3>4, <5>1
        <5> QED BY <5>1, <5>2
      <4>3. CASE n >= at + l
        <5>1. /\ n - l + 1 \in (at + 1)..Len(tokens) /\ (n - l + 1) + l - 1 = n
              /\ n - l + 1 \in DOMAIN tokens
          <6>1. /\ l \in Nat /\ at \in Nat /\ Len(tokens) \in Nat /\ n \in Int
                /\ n <= Len(tokens) + l - 1
            BY <2>1, <2>2, <3>1, <3>4
          <6>2. n - l + 1 \in (at + 1)..Len(tokens) /\ (n - l + 1) + l - 1 = n
            BY <4>3, <6>1
          <6>3. n - l + 1 \in 1..Len(tokens)
            BY <6>1, <6>2
          <6> QED BY <2>2, <6>2, <6>3
        <5>2. tokens'[(n - l + 1) + l - 1] = tokens[n - l + 1]
          BY <3>4, <5>1
        <5> QED BY <4>3, <5>1, <5>2
      <4>4. n \in Int /\ at \in Int /\ l \in Int
        BY <2>1, <3>1, <3>4
      <4> QED BY <4>1, <4>2, <4>3, <4>4
    <3>7. \A n \in DOMAIN tokens : Fits(tokens[n])
      BY DEF BreaksInv, CharactersWhole, Fits
    <3>8. \A n \in DOMAIN tokens' : Fits(tokens'[n])
      BY <3>6, <3>7 DEF PieceOK
    <3>9. ASSUME ~extractor.unmodified, NEW n \in DOMAIN tokens', n < at' PROVE Apart(tokens'[n])
      <4>1. ~(n >= at + l)
        BY <2>1, <3>1, <3>2, <3>4, <3>9
      <4>2. n < at /\ n \in DOMAIN tokens => Apart(tokens[n])
        BY <3>9 DEF BreaksInv
      <4> QED BY <3>6, <4>1, <4>2 DEF PieceOK
    <3>10. WordBreaksKept'
      BY <1>3, <2>1, <3>5 DEF BreaksInv, WordBreaksKept
    <3>11. CharactersWhole' /\ \A n \in DOMAIN tokens' : 0 <= tokens'[n].start /\ tokens'[n].end <= End'
      BY <1>3, <2>1, <3>8 DEF CharactersWhole, Fits
    <3>12. ~extractor'.unmodified => \A n \in DOMAIN tokens' : n < at' => Apart(tokens[n])'
      BY <1>3, <2>1, <3>9 DEF Apart
    <3> QED BY <1>0, <2>1, <2>3, <3>10, <3>11, <3>12 DEF BreaksInv
  <2> QED BY <2>4, <2>7, <2>8
<1> QED BY <1>1, <1>2, <1>5, <1>6, <1>7, <1>8 DEF Next

\* Whatever the layers of iterators add or hold back, no word break of ICU is
\* lost, no character is cut in two, and with the default style a bidi control
\* at the end of a token is a token of its own (Tokenizer.cpp,
\* ControlCleaver.cpp), for any text and any stack of iterators.
THEOREM WordsAndCharacters == Spec => []BreaksRespected
<1>1. Init => BreaksInv
  <2> SUFFICES ASSUME Init PROVE BreaksInv
    OBVIOUS
  <2>1. TokensInv
    BY InitIInv, EmptySeq DEF Init, BoundariesInit, TokensInv, Covers, End
  <2>2. /\ wordBreaks = {} /\ boundaries = << >> /\ tokens = << >> /\ at = 1 /\ split = DONE
        /\ previousBreak = 0 /\ groupEnds = << >> /\ DOMAIN tokens = {} /\ Len(tokens) = 0
        /\ DOMAIN boundaries = {} /\ DOMAIN groupEnds = {}
    BY EmptySeq DEF Init, BoundariesInit
  <2> QED BY <2>1, <2>2 DEF BreaksInv, CompBreaks, RegexBreaks, NumBreaks, WordBreaksKept,
       CharactersWhole, WholeCharacter
<1>2. BreaksInv => BreaksRespected
  <2> SUFFICES ASSUME BreaksInv PROVE ControlsApart
    BY DEF BreaksRespected, BreaksInv
  <2>1. DOMAIN tokens = 1..Len(tokens) /\ Len(tokens) \in Nat /\ at \in Nat
    BY TokenFacts DEF BreaksInv, TokensInv
  <2>2. at > Len(tokens) => \A n \in DOMAIN tokens : n < at
    BY <2>1
  <2> QED BY <2>2 DEF BreaksInv, ControlsApart, Apart
<1> QED BY <1>1, <1>2, StepBreaksInv, PTL DEF Spec
-----------------------------------------------------------------------------
(* Chains, sub-chains and chunks *)

\* Induction over a set: the prover has none over predicates.
LEMMA SetInduction ==
  ASSUME NEW S, 0 \in S, \A n \in Nat : n \in S => n + 1 \in S
  PROVE  Nat \subseteq S
<1> DEFINE T == {n \in Nat : n \notin S}
           R == {ss \in Nat \X Nat : ss[1] < ss[2]}
<1>1. SUFFICES ASSUME T # {} PROVE FALSE
  OBVIOUS
<1>2. IsWellFoundedOn(R, Nat)
  BY NatLessThanWellFounded DEF OpToRel
<1>3. PICK x \in T : \A y \in T : <<y, x>> \notin R
  <2>1. T \subseteq Nat
    OBVIOUS
  <2> HIDE DEF T, R
  <2> QED BY <1>1, <1>2, <2>1, WFMin
<1>4. x \in Nat /\ x \notin S /\ x # 0
  OBVIOUS
<1>5. x - 1 \in Nat /\ x - 1 < x /\ (x - 1) + 1 = x
  BY <1>4
<1>6. x - 1 \in S
  <2> SUFFICES ASSUME x - 1 \notin S PROVE FALSE
    OBVIOUS
  <2>1. x - 1 \in T /\ <<x - 1, x>> \in R
    BY <1>4, <1>5
  <2> HIDE DEF R, T
  <2> QED BY <1>3, <2>1
<1> QED BY <1>4, <1>5, <1>6

\* A function that is defined by recursion exists, whatever its step does.
Recursion(f, n, a, step) == f = [i \in 0..n |-> IF i = 0 THEN a ELSE step[i][f[i - 1]]]

LEMMA RecursionExists ==
  ASSUME NEW n \in Nat, NEW A, NEW a \in A, NEW step \in [1..n -> [A -> A]]
  PROVE  \E f \in [0..n -> A] : Recursion(f, n, a, step)
<1> DEFINE Upto(k, f) == f \in [0..n -> A] /\ f[0] = a /\ \A i \in 1..n : i <= k => f[i] = step[i][f[i - 1]]
           S == {k \in Nat : k <= n => \E f : Upto(k, f)}
<1>1. 0 \in S
  <2>1. [i \in 0..n |-> a] \in [0..n -> A]
    OBVIOUS
  <2>2. Upto(0, [i \in 0..n |-> a])
    BY <2>1
  <2> QED BY <2>2
<1>2. ASSUME NEW k \in Nat, k \in S PROVE k + 1 \in S
  <2>1. SUFFICES ASSUME k + 1 <= n PROVE \E f : Upto(k + 1, f)
    OBVIOUS
  <2>2. PICK f : Upto(k, f)
    BY <1>2, <2>1
  <2> DEFINE g == [f EXCEPT ![k + 1] = step[k + 1][f[k]]]
  <2>3. f[k] \in A /\ k + 1 \in 1..n /\ step[k + 1][f[k]] \in A
    BY <2>1, <2>2
  <2>4. g \in [0..n -> A] /\ g[k + 1] = step[k + 1][f[k]] /\ \A i \in 0..n : i # k + 1 => g[i] = f[i]
    BY <2>2, <2>3
  <2>5. Upto(k + 1, g)
    <3> HIDE DEF g
    <3>1. g[0] = a
      BY <2>2, <2>4
    <3>2. ASSUME NEW i \in 1..n, i <= k + 1 PROVE g[i] = step[i][g[i - 1]]
      <4>1. CASE i = k + 1
        BY <2>4, <4>1
      <4>2. CASE i <= k
        <5>1. i - 1 \in 0..n /\ i - 1 # k + 1 /\ i # k + 1
          BY <4>2
        <5> QED BY <2>2, <2>4, <4>2, <5>1
      <4> QED BY <3>2, <4>1, <4>2
    <3> QED BY <2>4, <3>1, <3>2
  <2> QED BY <2>5
<1> HIDE DEF S
<1>3. n \in S
  BY <1>1, <1>2, SetInduction
<1>4. PICK f : Upto(n, f)
  BY <1>3 DEF S
<1>5. f = [i \in 0..n |-> IF i = 0 THEN a ELSE step[i][f[i - 1]]]
  BY <1>4
<1> QED BY <1>4, <1>5 DEF Recursion

-----------------------------------------------------------------------------
ChainFacts(s, a, b) ==
  /\ Len(s) \in Nat /\ DOMAIN s = 1..Len(s) /\ (Len(s) = 0 <=> s = << >>)
  /\ \A n \in DOMAIN s :
       /\ s[n] \in Stretch /\ s[n].start \in Int /\ s[n].end \in Int /\ s[n].start < s[n].end
       /\ s[n].start = IF n = 1 THEN a ELSE s[n - 1].end
  /\ b = IF s = << >> THEN a ELSE s[Len(s)].end

LEMMA CoversFacts ==
  ASSUME NEW a \in Int, NEW b \in Int, NEW s, Covers(s, a, b)
  PROVE  ChainFacts(s, a, b)
<1>1. s \in Seq(Stretch) /\ Len(s) \in Nat /\ DOMAIN s = 1..Len(s) /\ (Len(s) = 0 <=> s = << >>)
  BY EmptySeq DEF Covers
<1>2. \A n \in DOMAIN s : s[n] \in Stretch
  BY <1>1, ElementOfSeq
<1>3. \A t \in Stretch : t.start \in Int /\ t.end \in Int
  BY DEF Stretch
<1>4. \A n \in DOMAIN s : s[n].start = (IF n = 1 THEN a ELSE s[n - 1].end) /\ s[n].start < s[n].end
  BY DEF Covers
<1>5. b = IF s = << >> THEN a ELSE s[Len(s)].end
  BY DEF Covers
<1> QED BY <1>1, <1>2, <1>3, <1>4, <1>5 DEF ChainFacts

\* The tokens of a chain come after each other.
LEMMA Ordered ==
  ASSUME NEW a \in Int, NEW b \in Int, NEW s, Covers(s, a, b), NEW k \in DOMAIN s
  PROVE  \A n \in DOMAIN s : n < k => s[n].end <= s[k].start
<1> DEFINE S == {j \in Nat : j \in DOMAIN s => \A n \in DOMAIN s : n < j => s[n].end <= s[j].start}
<1>1. /\ Len(s) \in Nat /\ DOMAIN s = 1..Len(s)
      /\ \A n \in DOMAIN s : s[n].start \in Int /\ s[n].end \in Int /\ s[n].start < s[n].end
      /\ \A n \in DOMAIN s : n # 1 => s[n].start = s[n - 1].end
  <2>1. ChainFacts(s, a, b)
    BY CoversFacts
  <2> QED BY <2>1 DEF ChainFacts
<1>3. 0 \in S
  BY <1>1
<1>4. ASSUME NEW j \in Nat, j \in S PROVE j + 1 \in S
  <2> SUFFICES ASSUME j + 1 \in DOMAIN s, NEW n \in DOMAIN s, n < j + 1
               PROVE  s[n].end <= s[j + 1].start
    BY <1>4
  <2>1. j \in DOMAIN s /\ s[j + 1].start = s[j].end
    BY <1>1
  <2>2. n = j \/ (n < j /\ s[n].end <= s[j].start)
    BY <1>1, <1>4, <2>1
  <2> QED BY <1>1, <2>1, <2>2
<1> HIDE DEF S
<1>5. Nat \subseteq S
  BY <1>3, <1>4, SetInduction
<1>6. k \in S
  BY <1>1, <1>5
<1> QED BY <1>6 DEF S

\* Between the offsets of a chain's ends lie those of its tokens.
LEMMA WithinEnds ==
  ASSUME NEW a \in Int, NEW b \in Int, NEW s, Covers(s, a, b), NEW n \in DOMAIN s
  PROVE  a <= s[n].start /\ s[n].start < s[n].end /\ s[n].end <= b
<1> DEFINE N == Len(s)
<1>1. /\ N \in Nat /\ DOMAIN s = 1..N
      /\ \A k \in DOMAIN s : s[k].start \in Int /\ s[k].end \in Int /\ s[k].start < s[k].end
      /\ \A k \in DOMAIN s : s[k].start = IF k = 1 THEN a ELSE s[k - 1].end
      /\ s # << >> => b = s[N].end
  <2>1. ChainFacts(s, a, b)
    BY CoversFacts
  <2> QED BY <2>1, Zenon DEF ChainFacts
<1>2. \A j, k \in DOMAIN s : j < k => s[j].end <= s[k].start
  BY Ordered
<1>3. 1 \in DOMAIN s /\ N \in DOMAIN s /\ n \in 1..N /\ s # << >>
  BY <1>1, EmptySeq
<1>4. s[1].start = a /\ s[N].end = b
  BY <1>1, <1>3
<1>5. n = 1 \/ s[1].end <= s[n].start
  BY <1>1, <1>2, <1>3
<1>6. n = N \/ s[n].end <= s[N].start
  BY <1>1, <1>2, <1>3
<1> QED BY <1>1, <1>3, <1>4, <1>5, <1>6

\* What the index of a chain has where a token begins, and at its end.
LEMMA IndexFinds ==
  ASSUME NEW a \in Nat, NEW b \in Nat, NEW s, Covers(s, a, b)
  PROVE  AtBoundaries(s, Index(s, b))
<1> DEFINE N == Len(s)
           Here(i) == {n \in DOMAIN s : Reached(s, n) /\ i \in {s[n].start, s[n].end - 1}}
           At(i) == IF Here(i) # {}
                    THEN [kind |-> "token", token |-> s[CHOOSE n \in Here(i) : \A k \in Here(i) : k <= n]]
                    ELSE IF i = b THEN Token_Tail ELSE IF i = 0 THEN Token_Head ELSE NoToken
<1>1. /\ N \in Nat /\ DOMAIN s = 1..N
      /\ \A n \in DOMAIN s : s[n].start \in Int /\ s[n].end \in Int /\ s[n].start < s[n].end
      /\ \A n \in DOMAIN s : s[n].start = IF n = 1 THEN a ELSE s[n - 1].end
      /\ s # << >> => b = s[N].end
  <2>1. ChainFacts(s, a, b)
    BY CoversFacts
  <2> QED BY <2>1, Zenon DEF ChainFacts
<1>2. \A n, k \in DOMAIN s : n < k => s[n].end <= s[k].start
  BY Ordered
<1>3. \A n \in DOMAIN s : a <= s[n].start /\ s[n].end <= b
  BY WithinEnds
<1>4. \A n \in DOMAIN s : Reached(s, n)
  <2> SUFFICES ASSUME NEW n \in DOMAIN s, NEW i \in 1..(n - 1) PROVE s[i + 1].start >= s[i].end
    BY DEF Reached
  <2>1. i \in DOMAIN s /\ i + 1 \in DOMAIN s /\ i < i + 1
    BY <1>1
  <2> QED BY <1>1, <1>2, <2>1
<1>5. \A i \in 0..b : GetToken(Index(s, b), i) = At(i)
  <2> SUFFICES ASSUME NEW i \in 0..b PROVE GetToken(Index(s, b), i) = At(i)
    OBVIOUS
  <2>1. i + 1 \in 1..(b + 1) /\ (i + 1) - 1 = i
    OBVIOUS
  <2> QED BY <2>1 DEF GetToken, Index
<1> HIDE DEF N
<1>6. ASSUME NEW n \in DOMAIN s PROVE At(s[n].start) = [kind |-> "token", token |-> s[n]]
  <2>1. n \in Here(s[n].start)
    BY <1>4
  <2>2. ASSUME NEW k \in Here(s[n].start) PROVE k = n
    <3>1. k \in DOMAIN s /\ (s[k].start = s[n].start \/ s[k].end - 1 = s[n].start)
      OBVIOUS
    <3>2. k < n \/ n < k \/ k = n
      BY <1>1, <3>1
    <3>3. ~(k < n)
      BY <1>1, <1>2, <3>1
    <3>4. ~(n < k)
      BY <1>1, <1>2, <3>1
    <3> QED BY <3>2, <3>3, <3>4
  <2> DEFINE H == Here(s[n].start)
             c == CHOOSE m \in H : \A k \in H : k <= m
  <2>3. n \in H /\ (\A k \in H : k = n) /\ n <= n
    BY <1>1, <2>1, <2>2
  <2> HIDE DEF H
  <2>4. c \in H
    BY <2>3
  <2>5. c = n /\ H # {}
    BY <2>3, <2>4
  <2> QED BY <2>5 DEF H
<1>7. ASSUME NEW n \in DOMAIN s PROVE GetToken(Index(s, b), s[n].start) = [kind |-> "token", token |-> s[n]]
  <2>1. s[n].start \in 0..b
    BY <1>1, <1>3
  <2> HIDE DEF At
  <2> QED BY <1>5, <1>6, <2>1
<1>8. ASSUME NEW n \in DOMAIN s
      PROVE  GetToken(Index(s, b), s[n].end) =
               IF n = Len(s) THEN Token_Tail ELSE [kind |-> "token", token |-> s[n + 1]]
  <2>1. CASE n = Len(s)
    <3>1. s[n].end = b
      BY <1>1, <2>1, EmptySeq DEF N
    <3>2. Here(b) = {}
      BY <1>1, <1>3
    <3>3. At(b) = Token_Tail
      BY <3>2
    <3> HIDE DEF At
    <3>4. b \in 0..b
      OBVIOUS
    <3> QED BY <1>5, <2>1, <3>1, <3>3, <3>4
  <2>2. CASE n # Len(s)
    <3>1. n + 1 \in DOMAIN s /\ n + 1 # 1 /\ (n + 1) - 1 = n
      BY <1>1, <2>2 DEF N
    <3>2. s[n + 1].start = s[n].end
      BY <1>1, <3>1
    <3> QED BY <1>7, <2>2, <3>1, <3>2
  <2> QED BY <2>1, <2>2
<1> QED BY <1>7, <1>8 DEF AtBoundaries

\* What a part of the text has of the first k tokens when it is cut out: all of
\* them from one on, until one goes beyond the end of the part.
CutOut(q, k, from, to) ==
  q # << >> =>
    /\ k \in DOMAIN tokens /\ tokens[k].end > from
    /\ \E a, b \in Nat : Covers(q, a, b) /\ (b = tokens[k].end - from \/ tokens[k].end > to)

LEMMA MovedToken ==
  ASSUME NEW t \in Stretch, NEW from \in Int
  PROVE  LET x == [t EXCEPT !.start = @ - from, !.end = @ - from]
         IN  x \in Stretch /\ x.start = t.start - from /\ x.end = t.end - from
<1> DEFINE x == [t EXCEPT !.start = @ - from, !.end = @ - from]
           y == [t EXCEPT !.start = t.start - from]
<1>1. t.start - from \in Int /\ t.end - from \in Int
  BY DEF Stretch
<1>2. y \in Stretch /\ y.start = t.start - from /\ y.end = t.end
  BY <1>1 DEF Stretch
<1>3. x = [y EXCEPT !.end = t.end - from]
  BY DEF Stretch
<1> HIDE DEF x, y
<1>4. x \in Stretch /\ x.start = t.start - from /\ x.end = t.end - from
  BY <1>1, <1>2, <1>3 DEF Stretch
<1> QED BY <1>4 DEF x

LEMMA CuttingOn ==
  ASSUME NEW e \in Nat, Covers(tokens, 0, e), NEW from \in Int, NEW to \in Int,
         NEW k \in Nat, k + 1 \in DOMAIN tokens, NEW q, CutOut(q, k, from, to)
  PROVE  CutOut(IF tokens[k + 1].start < from \/ tokens[k + 1].end > to THEN q
                ELSE Append(q, [tokens[k + 1] EXCEPT !.start = @ - from, !.end = @ - from]),
                k + 1, from, to)
<1> DEFINE t == tokens[k + 1]
           x == [t EXCEPT !.start = @ - from, !.end = @ - from]
<1>1. t \in Stretch /\ t.start \in Int /\ t.end \in Int /\ t.start < t.end
  <2>1. 0 \in Int /\ e \in Int
    OBVIOUS
  <2>2. \A n \in DOMAIN tokens :
          tokens[n] \in Stretch /\ tokens[n].start \in Int /\ tokens[n].end \in Int
          /\ tokens[n].start < tokens[n].end
    <3>1. ChainFacts(tokens, 0, e)
      BY <2>1, CoversFacts
    <3> QED BY <3>1 DEF ChainFacts
  <2> QED BY <2>2
<1>2. ASSUME q # << >>
      PROVE  /\ k \in DOMAIN tokens /\ t.start = tokens[k].end /\ tokens[k].end > from
             /\ \E a, b \in Nat : Covers(q, a, b) /\ (b = tokens[k].end - from \/ tokens[k].end > to)
  <2>0. ChainFacts(tokens, 0, e)
    <3>1. 0 \in Int /\ e \in Int
      OBVIOUS
    <3> QED BY <3>1, CoversFacts
  <2>1. k \in DOMAIN tokens /\ k + 1 # 1 /\ (k + 1) - 1 = k
    BY <1>2, <2>0 DEF CutOut, ChainFacts
  <2>2. t.start = tokens[k].end
    BY <2>0, <2>1 DEF ChainFacts
  <2> QED BY <1>2, <2>1, <2>2 DEF CutOut
<1>3. CASE t.start < from \/ t.end > to
  <2>1. CASE q = << >>
    BY <1>3, <2>1 DEF CutOut
  <2>2. CASE q # << >>
    <3>1. PICK a \in Nat, b \in Nat : Covers(q, a, b)
      BY <1>2, <2>2
    <3>2. t.end > to /\ t.end > from
      BY <1>1, <1>2, <1>3, <2>2
    <3> QED BY <1>3, <3>1, <3>2 DEF CutOut
  <2> QED BY <2>1, <2>2
<1>4. CASE ~(t.start < from \/ t.end > to)
  <2>1. x \in Stretch /\ x.start = t.start - from /\ x.end = t.end - from
    <3> HIDE DEF t
    <3> QED BY <1>1, MovedToken
  <2>2. x.start \in Nat /\ x.end \in Nat /\ x.start < x.end /\ t.end > from
    <3>1. ~(t.start < from) /\ t.start \in Int /\ t.end \in Int /\ t.start < t.end
      BY <1>1, <1>4
    <3> HIDE DEF x, t
    <3> QED BY <2>1, <3>1
  <2> HIDE DEF x, t
  <2>3. Covers(<<x>>, x.start, x.end)
    BY <2>1, <2>2, CoversOne
  <2>4. CASE q = << >>
    <3>1. Append(q, x) = <<x>>
      BY <2>4
    <3>2. \E a, b \in Nat : Covers(<<x>>, a, b) /\ b = t.end - from
      BY <2>1, <2>2, <2>3
    <3>3. CutOut(<<x>>, k + 1, from, to)
      BY <2>2, <3>2 DEF CutOut, t
    <3> QED BY <1>4, <3>1, <3>3 DEF x, t
  <2>5. CASE q # << >>
    <3>1. PICK a \in Nat, b \in Nat : Covers(q, a, b) /\ (b = tokens[k].end - from \/ tokens[k].end > to)
      BY <1>2, <2>5
    <3>2. b = x.start
      BY <1>1, <1>2, <1>4, <2>1, <2>5, <3>1
    <3>3. Append(q, x) = q \o <<x>>
      <4>1. q \in Seq(Stretch)
        BY <3>1 DEF Covers
      <4> QED BY <2>1, <4>1, AppendIsConcat
    <3>4. Covers(q \o <<x>>, a, x.end)
      BY <2>3, <3>1, <3>2, CoversBoth
    <3>5. CutOut(q \o <<x>>, k + 1, from, to)
      BY <2>1, <2>2, <3>4 DEF CutOut, t
    <3> QED BY <1>4, <3>3, <3>5 DEF x, t
  <2> QED BY <2>4, <2>5
<1> QED BY <1>3, <1>4

\* A chain that is cut out of another is one: its tokens come after each other.
LEMMA SubChainCovers ==
  ASSUME NEW e \in Nat, Covers(tokens, 0, e), NEW from \in Int, NEW to \in Int, SubChain(from, to) # << >>
  PROVE  LET chain == SubChain(from, to) IN
         \E a, b \in Nat : Covers(chain, a, b) /\ b = chain[Len(chain)].end
<1> DEFINE n == Len(tokens)
           A == Seq(Stretch)
           Moved(i) == [tokens[i] EXCEPT !.start = @ - from, !.end = @ - from]
           Cut(i, x) == IF tokens[i].start < from \/ tokens[i].end > to THEN x ELSE Append(x, Moved(i))
           step == [i \in 1..n |-> [x \in A |-> Cut(i, x)]]
           upTo[i \in 0..Len(tokens)] ==
             IF i = 0 THEN << >>
             ELSE IF tokens[i].start < from \/ tokens[i].end > to THEN upTo[i - 1]
             ELSE Append(upTo[i - 1], [tokens[i] EXCEPT !.start = @ - from, !.end = @ - from])
<1>1. n \in Nat /\ DOMAIN tokens = 1..n /\ << >> \in A
  BY DEF Covers
<1>2. ASSUME NEW i \in 1..n, NEW x \in A PROVE Cut(i, x) \in A
  <2>1. tokens[i] \in Stretch
    BY <1>1, ElementOfSeq DEF Covers
  <2>2. Moved(i) \in Stretch
    <3> DEFINE t == tokens[i]
    <3>1. t \in Stretch
      BY <2>1
    <3> HIDE DEF t
    <3>2. [t EXCEPT !.start = @ - from, !.end = @ - from] \in Stretch
      BY <3>1, MovedToken
    <3> QED BY <3>2 DEF t
  <2> HIDE DEF Moved
  <2> QED BY <2>2
<1>3. step \in [1..n -> [A -> A]]
  BY <1>2
<1>4. PICK f \in [0..n -> A] : Recursion(f, n, << >>, step)
  <2> HIDE DEF step, A, n, Cut, upTo
  <2> QED BY <1>1, <1>3, RecursionExists, Zenon
<1>5. f = [i \in 0..n |-> IF i = 0 THEN << >> ELSE Cut(i, f[i - 1])]
  <2>1. \A i \in 0..n : i # 0 => i \in 1..n /\ i - 1 \in 0..n
    BY <1>1
  <2> HIDE DEF A, n, Cut
  <2>2. \A i \in 0..n : i # 0 => step[i][f[i - 1]] = Cut(i, f[i - 1])
    BY <1>4, <2>1
  <2> QED BY <1>4, <2>2 DEF Recursion
<1>6. upTo = [i \in 0..n |-> IF i = 0 THEN << >> ELSE Cut(i, upTo[i - 1])]
  <2> DEFINE U(g) == [i \in 0..n |-> IF i = 0 THEN << >> ELSE Cut(i, g[i - 1])]
  <2>1. upTo = CHOOSE g : g = U(g)
    BY Zenon
  <2> HIDE DEF upTo, U
  <2>2. f = U(f)
    BY <1>5 DEF U
  <2>3. upTo = U(upTo)
    BY <2>1, <2>2, Zenon
  <2> QED BY <2>3 DEF U
<1>7. SubChain(from, to) = upTo[n]
  BY Zenon DEF SubChain
<1> HIDE DEF upTo, Cut, A
<1>8. /\ upTo[0] = << >>
      /\ \A i \in 1..n : i - 1 \in Nat /\ upTo[i] = Cut(i, upTo[i - 1])
  <2>1. \A i \in 0..n : upTo[i] = IF i = 0 THEN << >> ELSE Cut(i, upTo[i - 1])
    BY <1>6, Zenon
  <2>2. 0 \in 0..n /\ \A i \in 1..n : i \in 0..n /\ i # 0 /\ i - 1 \in Nat
    BY <1>1
  <2> QED BY <2>1, <2>2, Zenon
<1>9. CutOut(upTo[n], n, from, to)
  <2> DEFINE S == {k \in Nat : k <= n => CutOut(upTo[k], k, from, to)}
  <2>1. 0 \in S
    BY <1>8 DEF CutOut
  <2>2. ASSUME NEW k \in Nat, k \in S PROVE k + 1 \in S
    <3> SUFFICES ASSUME k + 1 <= n PROVE CutOut(upTo[k + 1], k + 1, from, to)
      OBVIOUS
    <3>1. k + 1 \in 1..n /\ (k + 1) - 1 = k /\ k <= n /\ k + 1 \in DOMAIN tokens
      BY <1>1
    <3>2. CutOut(upTo[k], k, from, to)
      BY <2>2, <3>1
    <3>3. CutOut(Cut(k + 1, upTo[k]), k + 1, from, to)
      <4> HIDE DEF n
      <4> QED BY <3>1, <3>2, CuttingOn, Zenon DEF Cut
    <3>4. upTo[k + 1] = Cut(k + 1, upTo[k])
      BY <1>8, <3>1
    <3> QED BY <3>3, <3>4
  <2> HIDE DEF S
  <2>3. Nat \subseteq S
    BY <2>1, <2>2, SetInduction
  <2> QED BY <1>1, <2>3 DEF S
<1> DEFINE chain == SubChain(from, to)
<1>10. PICK a \in Nat, b \in Nat : Covers(chain, a, b)
  BY <1>7, <1>9, Zenon DEF CutOut
<1>11. b = chain[Len(chain)].end
  BY <1>10 DEF Covers
<1> QED BY <1>10, <1>11, Zenon

\* The chain with its head and its tail.
Link == [start : Int, end : Int, class : {"head", "word", "delim", "tail"}]

IsLinked(linked, e) ==
  /\ linked \in Seq(Link) /\ Len(linked) = Len(tokens) + 2 /\ DOMAIN linked = 1..(Len(tokens) + 2)
  /\ linked[1] = [start |-> 0, end |-> 0, class |-> "head"]
  /\ linked[Len(tokens) + 2] = [start |-> e, end |-> e, class |-> "tail"]
  /\ \A k \in 1..Len(tokens) : linked[k + 1] = tokens[k]

LEMMA LinkedIs ==
  ASSUME NEW e \in Nat, Covers(tokens, 0, e)
  PROVE  IsLinked(Linked(tokens, e), e)
<1> DEFINE head == [start |-> 0, end |-> 0, class |-> "head"]
           tail == [start |-> e, end |-> e, class |-> "tail"]
           n == Len(tokens)
           u == <<head>> \o tokens
           linked == u \o <<tail>>
<1>1. tokens \in Seq(Link) /\ n \in Nat
  <2>1. tokens \in Seq(Stretch) /\ n \in Nat /\ \A k \in 1..n : tokens[k] \in Stretch
    BY ElementOfSeq DEF Covers
  <2>2. \A t \in Stretch : t \in Link
    BY DEF Stretch, Link
  <2> QED BY <2>1, <2>2
<1>2. head \in Link /\ tail \in Link
  BY DEF Link
<1> HIDE DEF head, tail, n
<1>3. /\ <<head>> \in Seq(Link) /\ Len(<<head>>) = 1 /\ <<head>>[1] = head
      /\ <<tail>> \in Seq(Link) /\ Len(<<tail>>) = 1 /\ <<tail>>[1] = tail
  BY <1>2
<1>4. /\ u \in Seq(Link) /\ Len(u) = n + 1 /\ u[1] = head
      /\ \A k \in 1..n : u[k + 1] = tokens[k]
  <2>1. u \in Seq(Link) /\ Joins(u, <<head>>, tokens)
    BY <1>1, <1>3, Joining
  <2> HIDE DEF u
  <2>2. Len(u) = n + 1 /\ u[1] = head
    BY <1>1, <1>3, <2>1 DEF Joins, n
  <2>3. ASSUME NEW k \in 1..n PROVE u[k + 1] = tokens[k]
    <3>1. k + 1 \in 2..(1 + n) /\ (k + 1) - 1 = k
      BY <1>1
    <3> QED BY <1>1, <1>3, <2>1, <3>1 DEF Joins, n
  <2> QED BY <2>1, <2>2, <2>3
<1> HIDE DEF u
<1>5. linked \in Seq(Link) /\ Joins(linked, u, <<tail>>)
  BY <1>3, <1>4, Joining
<1> HIDE DEF linked
<1>6. Len(linked) = n + 2 /\ DOMAIN linked = 1..(n + 2) /\ linked[n + 2] = tail
  BY <1>1, <1>3, <1>4, <1>5 DEF Joins
<1>7. linked[1] = head /\ \A k \in 1..n : linked[k + 1] = tokens[k]
  BY <1>1, <1>4, <1>5 DEF Joins
<1>8. Linked(tokens, e) = linked
  BY DEF Linked, linked, u, head, tail
<1> QED BY <1>5, <1>6, <1>7, <1>8 DEF IsLinked, n, head, tail

\* Each begins where the one before it ends, from the head to the tail.
LinksOn(linked, e, n) ==
  /\ n \in Nat /\ n >= 1
  /\ \A i \in 1..(n + 1) :
       /\ linked[i] \in Link /\ linked[i].start \in 0..e /\ linked[i].end \in 0..e
       /\ linked[i].start <= linked[i].end
  /\ \A i \in 1..n : linked[i + 1].start = linked[i].end
  /\ linked[1].start = 0 /\ linked[1].end = 0 /\ linked[n].end = e

LEMMA LinkedLinksOn ==
  ASSUME NEW e \in Nat, Covers(tokens, 0, e), NEW linked, IsLinked(linked, e)
  PROVE  LinksOn(linked, e, Len(tokens) + 1)
<1> DEFINE n == Len(tokens)
<1>1. 0 \in Int /\ e \in Int
  OBVIOUS
<1>2. /\ n \in Nat /\ DOMAIN tokens = 1..n
      /\ \A k \in 1..n : tokens[k].start \in Int /\ tokens[k].end \in Int
      /\ \A k \in 1..n : tokens[k].start = IF k = 1 THEN 0 ELSE tokens[k - 1].end
      /\ e = IF n = 0 THEN 0 ELSE tokens[n].end
  <2>1. ChainFacts(tokens, 0, e)
    BY <1>1, CoversFacts
  <2> QED BY <2>1 DEF ChainFacts
<1>3. \A k \in 1..n : 0 <= tokens[k].start /\ tokens[k].start < tokens[k].end /\ tokens[k].end <= e
  BY <1>1, <1>2, WithinEnds
<1>4. /\ linked[1].start = 0 /\ linked[1].end = 0 /\ linked[n + 2].start = e /\ linked[n + 2].end = e
      /\ \A k \in 1..n : linked[k + 1] = tokens[k]
      /\ \A i \in 1..(n + 2) : linked[i] \in Link
  <2>1. \A i \in 1..Len(linked) : linked[i] \in Link
    BY ElementOfSeq DEF IsLinked
  <2> QED BY <2>1 DEF IsLinked
<1> HIDE DEF n
<1>5. ASSUME NEW i \in 1..((n + 1) + 1)
      PROVE  /\ linked[i] \in Link /\ linked[i].start \in 0..e /\ linked[i].end \in 0..e
             /\ linked[i].start <= linked[i].end
  <2>1. CASE i = 1 \/ i = n + 2
    BY <1>2, <1>4, <2>1
  <2>2. CASE i # 1 /\ i # n + 2
    <3>1. i - 1 \in 1..n /\ (i - 1) + 1 = i /\ i \in 1..(n + 2)
      BY <1>2, <2>2
    <3>2. linked[i] = tokens[i - 1]
      BY <1>4, <3>1
    <3> QED BY <1>2, <1>3, <1>4, <3>1, <3>2
  <2> QED BY <2>1, <2>2
<1>6. ASSUME NEW i \in 1..(n + 1) PROVE linked[i + 1].start = linked[i].end
  <2>1. CASE i = n + 1
    <3>1. n # 0 => n \in 1..n
      BY <1>2
    <3> QED BY <1>2, <1>4, <2>1, <3>1
  <2>2. CASE i # n + 1
    <3>1. i \in 1..n /\ (i # 1 => i - 1 \in 1..n /\ (i - 1) + 1 = i)
      BY <1>2, <2>2
    <3> QED BY <1>2, <1>4, <3>1
  <2> QED BY <2>1, <2>2
<1>7. linked[n + 1].end = e
  <2>1. n # 0 => n \in 1..n
    BY <1>2
  <2> QED BY <1>2, <1>4, <2>1
<1> QED BY <1>2, <1>4, <1>5, <1>6, <1>7 DEF LinksOn, n

\* A chain says its text: every token, and nothing twice.
LEMMA SaysItsText ==
  ASSUME Given, NEW linked, NEW n, LinksOn(linked, End, n), Len(linked) = n + 1
  PROVE  ToOriginatingString(linked) = text
<1> DEFINE taken[i \in 0..(Len(linked) - 1)] ==
             IF i = 0 THEN [string |-> << >>, lastIndex |-> -1]
             ELSE IF linked[i].start < taken[i - 1].lastIndex THEN taken[i - 1]
             ELSE [string |-> taken[i - 1].string \o Value(linked[i]), lastIndex |-> linked[i].end]
           a == [string |-> << >>, lastIndex |-> -1]
           Take(i, x) == IF linked[i].start < x.lastIndex THEN x
                         ELSE [string |-> x.string \o Value(linked[i]), lastIndex |-> linked[i].end]
           A == [string : Seq(Units), lastIndex : Int]
           step == [i \in 1..n |-> [x \in A |-> Take(i, x)]]
<1>1. /\ n \in Nat /\ n >= 1 /\ text \in Seq(Units) /\ End \in Nat /\ End = Len(text)
      /\ \A i \in 1..n : linked[i].start \in 0..End /\ linked[i].end \in 0..End
                         /\ linked[i].start <= linked[i].end
      /\ 0..(Len(linked) - 1) = 0..n /\ Len(linked) - 1 = n
  BY PositionsAreNumbers DEF LinksOn, Given, End
<1>2. \A i \in 1..n : Value(linked[i]) \in Seq(Units)
  <2> SUFFICES ASSUME NEW i \in 1..n PROVE Value(linked[i]) \in Seq(Units)
    OBVIOUS
  <2> DEFINE lo == linked[i].start + 1
             hi == linked[i].end
  <2>1. lo \in Int /\ hi \in Int /\ \A k \in lo..hi : text[k] \in Units
    <3>1. \A k \in 1..End : text[k] \in Units
      BY <1>1, ElementOfSeq
    <3>2. lo \in Int /\ hi \in Int /\ 1 <= lo /\ hi <= End
      BY <1>1
    <3> QED BY <1>1, <3>1, <3>2
  <2> HIDE DEF lo, hi
  <2>2. SubSeq(text, lo, hi) \in Seq(Units)
    BY <2>1, SubSeqProperties, Zenon
  <2> QED BY <2>2 DEF Value, lo, hi
<1>3. a \in A
  OBVIOUS
<1>4. ASSUME NEW i \in 1..n, NEW x \in A PROVE Take(i, x) \in A
  <2>1. x.string \o Value(linked[i]) \in Seq(Units)
    BY <1>2, ConcatProperties
  <2> QED BY <1>1, <2>1
<1>5. step \in [1..n -> [A -> A]]
  BY <1>4
<1>6. PICK f \in [0..n -> A] : Recursion(f, n, a, step)
  <2> HIDE DEF step, A, a, Take, taken
  <2> QED BY <1>1, <1>3, <1>5, RecursionExists, Zenon
<1>7. f = [i \in 0..n |-> IF i = 0 THEN a ELSE Take(i, f[i - 1])]
  <2>1. \A i \in 0..n : i # 0 => i \in 1..n /\ i - 1 \in 0..n
    BY <1>1
  <2> HIDE DEF A, a, Take
  <2>2. \A i \in 0..n : i # 0 => step[i][f[i - 1]] = Take(i, f[i - 1])
    BY <1>6, <2>1
  <2> QED BY <1>6, <2>2 DEF Recursion
<1>8. taken = [i \in 0..n |-> IF i = 0 THEN a ELSE Take(i, taken[i - 1])]
  <2> DEFINE U(g) == [i \in 0..(Len(linked) - 1) |-> IF i = 0 THEN a ELSE Take(i, g[i - 1])]
  <2>1. taken = CHOOSE g : g = U(g)
    BY Zenon
  <2> HIDE DEF taken
  <2>2. f = U(f)
    BY <1>1, <1>7, Zenon
  <2> HIDE DEF U
  <2>3. taken = U(taken)
    BY <2>1, <2>2, Zenon
  <2> QED BY <1>1, <2>3, Zenon DEF U
<1>9. ToOriginatingString(linked) = taken[n].string
  <2>1. ToOriginatingString(linked) = taken[Len(linked) - 1].string
    BY Zenon DEF ToOriginatingString
  <2> HIDE DEF taken
  <2> QED BY <1>1, <2>1, Zenon
<1> HIDE DEF taken, A
<1>10. /\ taken[0] = a
       /\ \A i \in 1..n : taken[i] = Take(i, taken[i - 1])
  <2>1. \A i \in 0..n : taken[i] = IF i = 0 THEN a ELSE Take(i, taken[i - 1])
    BY <1>8, Zenon DEF a, Take
  <2>2. 0 \in 0..n /\ \A i \in 1..n : i \in 0..n /\ i # 0
    BY <1>1
  <2> QED BY <2>1, <2>2, Zenon
<1> DEFINE Upto(i) == [string |-> SubSeq(text, 1, linked[i].end), lastIndex |-> linked[i].end]
           S == {k \in Nat : k + 1 <= n => taken[k + 1] = Upto(k + 1)}
<1>11. 0 \in S
  <2>1. linked[1].start = 0 /\ linked[1].end = 0
    BY DEF LinksOn
  <2>2. SubSeq(text, 1, 0) = << >>
    OBVIOUS
  <2>3. Value(linked[1]) = << >> /\ Upto(1).string = << >>
    BY <2>1, <2>2 DEF Value
  <2>4. taken[1] = Take(1, a)
    <3>1. 1 \in 1..n /\ 1 - 1 = 0
      BY <1>1
    <3> HIDE DEF Take, a
    <3> QED BY <1>10, <3>1
  <2> QED BY <2>1, <2>2, <2>3, <2>4
<1>12. ASSUME NEW k \in Nat, k \in S PROVE k + 1 \in S
  <2> SUFFICES ASSUME (k + 1) + 1 <= n PROVE taken[(k + 1) + 1] = Upto((k + 1) + 1)
    OBVIOUS
  <2> DEFINE j == k + 1
             i == j + 1
             lo == linked[j].end
             hi == linked[i].end
  <2>1. j \in 1..n /\ i \in 1..n /\ i - 1 = j /\ taken[j] = Upto(j)
    BY <1>1, <1>12
  <2>2. linked[i].start = lo
    BY <2>1 DEF LinksOn
  <2>3. lo \in 0..End /\ hi \in lo..End
    BY <1>1, <2>1, <2>2
  <2> HIDE DEF j, i, Take
  <2>4. taken[i] = Take(i, Upto(j))
    BY <1>10, <2>1
  <2>5. Take(i, Upto(j)) = [string |-> SubSeq(text, 1, lo) \o Value(linked[i]), lastIndex |-> hi]
    BY <2>2, <2>3 DEF Take
  <2>6. Value(linked[i]) = SubSeq(text, lo + 1, hi)
    BY <2>2 DEF Value
  <2>7. SubSeq(text, 1, lo) \o SubSeq(text, lo + 1, hi) = SubSeq(text, 1, hi)
    <3> HIDE DEF lo, hi
    <3>1. 1 \in 1..(Len(text) + 1) /\ lo \in (1 - 1)..Len(text) /\ hi \in lo..Len(text)
      BY <1>1, <2>3
    <3> QED BY <1>1, <3>1, ConcatAdjacentSubSeq, Zenon
  <2> QED BY <2>4, <2>5, <2>6, <2>7, Zenon DEF i, j
<1> HIDE DEF S, Upto
<1>13. n - 1 \in S
  <2>1. n - 1 \in Nat
    BY <1>1
  <2> QED BY <1>11, <1>12, <2>1, SetInduction
<1>14. taken[n] = Upto(n)
  <2>1. (n - 1) + 1 = n /\ n <= n
    BY <1>1
  <2> QED BY <1>13, <2>1 DEF S
<1>15. Upto(n).string = SubSeq(text, 1, Len(text))
  BY <1>1 DEF Upto, LinksOn
<1> QED BY <1>1, <1>9, <1>14, <1>15, SubSeqFull, Zenon

\* A chunk of the tokens from one to another says what the text says there, if
\* no delimiter is shown as a space.
PartOf(linked, first, last, trimmed) ==
  LET part == SubSeq(text, linked[first].start + 1, linked[last].end)
  IN  IF trimmed THEN Trim(part) ELSE part

LEMMA ChunkSaysItsPart ==
  ASSUME Given, NEW linked, NEW n, LinksOn(linked, End, n),
         NEW first \in 1..n, NEW last \in first..n, NEW chunk,
         chunk = [first |-> first, last |-> last], NEW normalizeDelim,
         \A i \in first..last : linked[i].class = "word" \/ ~normalizeDelim
  PROVE  GetNormalizedString(linked, chunk, normalizeDelim) = PartOf(linked, first, last, normalizeDelim)
<1> DEFINE Shown(token) ==
             IF token.class = "word" \/ ~normalizeDelim THEN Value(token)
             ELSE IF token.end > token.start THEN <<"space">> ELSE << >>
           result[i \in (chunk.first - 1)..chunk.last] ==
             IF i < chunk.first THEN << >> ELSE result[i - 1] \o Shown(linked[i])
           D == (chunk.first - 1)..chunk.last
           lo == linked[first].start
           To(i) == SubSeq(text, lo + 1, linked[i].end)
           U(g) == [i \in D |-> IF i < chunk.first THEN << >> ELSE g[i - 1] \o Shown(linked[i])]
           f == [i \in D |-> IF i < first THEN << >> ELSE To(i)]
<1>1. /\ n \in Nat /\ text \in Seq(Units) /\ End \in Nat /\ End = Len(text)
      /\ \A i \in 1..n : linked[i].start \in 0..End /\ linked[i].end \in 0..End
                         /\ linked[i].start <= linked[i].end
      /\ \A i \in 1..n : linked[i + 1].start = linked[i].end
      /\ first \in Int /\ last \in Int /\ 1 <= first /\ first <= last /\ last <= n
  <2>1. text \in Seq(Units) /\ End \in Nat /\ End = Len(text)
    BY PositionsAreNumbers DEF Given, End
  <2>2. n \in Nat /\ \A i \in 1..n : linked[i + 1].start = linked[i].end
    BY DEF LinksOn
  <2>3. ASSUME NEW i \in 1..n
        PROVE  linked[i].start \in 0..End /\ linked[i].end \in 0..End /\ linked[i].start <= linked[i].end
    <3>1. i \in 1..(n + 1)
      BY <2>2
    <3> QED BY <3>1 DEF LinksOn
  <2>4. first \in Int /\ last \in Int /\ 1 <= first /\ first <= last /\ last <= n
    BY <2>2
  <2> QED BY <2>1, <2>2, <2>3, <2>4
<1>2. chunk.first = first /\ chunk.last = last /\ D = (first - 1)..last
  OBVIOUS
<1>3. \A i \in first..last : Shown(linked[i]) = SubSeq(text, linked[i].start + 1, linked[i].end)
  BY DEF Value
<1> HIDE DEF Shown
\* The text up to a token, and the token, are the text up to the token's end.
<1>4. ASSUME NEW i \in first..last
      PROVE  /\ To(i) = IF i = first THEN Shown(linked[i]) ELSE To(i - 1) \o Shown(linked[i])
             /\ lo <= linked[i].end
  <2> DEFINE S == {k \in Nat : first + k <= last => lo <= linked[first + k].start}
  <2>1. 0 \in S
    BY <1>1
  <2>2. ASSUME NEW k \in Nat, k \in S PROVE k + 1 \in S
    <3> SUFFICES ASSUME first + (k + 1) <= last PROVE lo <= linked[first + (k + 1)].start
      OBVIOUS
    <3>1. first + k \in 1..n /\ first + k <= last /\ first + (k + 1) = (first + k) + 1
      BY <1>1
    <3>2. (first + k) + 1 \in 1..n
      BY <1>1, <3>1
    <3> DEFINE j == first + k
    <3>3. lo <= linked[j].start /\ j \in 1..n /\ j + 1 \in 1..n
      BY <2>2, <3>1, <3>2
    <3> HIDE DEF j
    <3>4. lo \in Int /\ linked[j].start \in Int /\ linked[j].end \in Int
      <4>1. \A m \in 1..n : linked[m].start \in Int /\ linked[m].end \in Int
        BY <1>1
      <4> QED BY <3>3, <4>1
    <3> HIDE DEF lo
    <3>5. linked[j + 1].start = linked[j].end /\ linked[j].start <= linked[j].end
      BY <1>1, <3>3
    <3>6. lo <= linked[j + 1].start
      BY <3>3, <3>4, <3>5
    <3> QED BY <3>1, <3>6 DEF j
  <2> HIDE DEF S
  <2>3. Nat \subseteq S
    BY <2>1, <2>2, SetInduction
  <2>4. \A j \in first..last : lo <= linked[j].start
    <3> SUFFICES ASSUME NEW j \in first..last PROVE lo <= linked[j].start
      OBVIOUS
    <3> DEFINE k == j - first
    <3>1. k \in Nat /\ first + k = j /\ first + k <= last
      BY <1>1
    <3> HIDE DEF k
    <3>2. k \in S
      BY <2>3, <3>1
    <3> QED BY <3>1, <3>2 DEF S
  <2>5. i \in 1..n /\ lo \in 0..End /\ linked[i].start \in lo..End /\ linked[i].end \in linked[i].start..End
    <3>1. i \in 1..n /\ first \in 1..n
      BY <1>1
    <3> QED BY <1>1, <2>4, <3>1
  <2>6. CASE i = first
    BY <1>3, <2>5, <2>6
  <2>7. CASE i # first
    <3>1. i - 1 \in 1..n /\ (i - 1) + 1 = i
      BY <1>1, <2>7
    <3>2. linked[i].start = linked[i - 1].end
      BY <1>1, <3>1
    <3> DEFINE x == linked[i - 1].end
               y == linked[i].end
    <3>3. To(i - 1) = SubSeq(text, lo + 1, x) /\ Shown(linked[i]) = SubSeq(text, x + 1, y)
          /\ To(i) = SubSeq(text, lo + 1, y)
      BY <1>3, <3>2
    <3>4. SubSeq(text, lo + 1, x) \o SubSeq(text, x + 1, y) = SubSeq(text, lo + 1, y)
      <4>1. x \in Int /\ y \in Int /\ lo \in Int /\ 0 <= lo /\ lo <= x /\ x <= y /\ y <= End
        BY <1>1, <2>5, <3>2
      <4> HIDE DEF lo, x, y
      <4>2. lo + 1 \in 1..(Len(text) + 1) /\ x \in ((lo + 1) - 1)..Len(text) /\ y \in x..Len(text)
        BY <1>1, <4>1
      <4> QED BY <1>1, <4>2, ConcatAdjacentSubSeq, Zenon
    <3>5. lo <= linked[i].end
      <4>1. linked[i].start \in Int /\ linked[i].end \in Int /\ lo \in Int
            /\ lo <= linked[i].start /\ linked[i].start <= linked[i].end
        BY <1>1, <2>5
      <4> HIDE DEF lo
      <4> QED BY <4>1
    <3> HIDE DEF To, x, y, lo
    <3>6. To(i) = To(i - 1) \o Shown(linked[i])
      BY <3>3, <3>4, Zenon
    <3> QED BY <2>7, <3>5, <3>6, Zenon
  <2> QED BY <2>6, <2>7
<1> HIDE DEF To, lo
<1>5. f = U(f)
  <2>1. ASSUME NEW i \in D
        PROVE f[i] = IF i < chunk.first THEN << >> ELSE f[i - 1] \o Shown(linked[i])
    <3>1. CASE i < first
      BY <1>2, <3>1
    <3>2. CASE ~(i < first)
      <4>1. i \in first..last /\ i - 1 \in D /\ f[i] = To(i)
        BY <1>1, <1>2, <3>2
      <4>2. CASE i = first
        <5>1. f[i - 1] = << >>
          BY <1>1, <4>1, <4>2
        <5>2. << >> \o Shown(linked[i]) = Shown(linked[i])
          <6>1. linked[i].start + 1 \in Int /\ linked[i].end \in Int
                /\ \A k \in (linked[i].start + 1)..linked[i].end : text[k] \in Units
            <7> DEFINE u == linked[i].start
                       v == linked[i].end
            <7>1. \A k \in 1..End : text[k] \in Units
              BY <1>1, ElementOfSeq
            <7>2. i \in 1..n
              BY <1>1, <4>1
            <7>3. u \in Int /\ v \in Int /\ 0 <= u /\ v <= End
              BY <1>1, <7>2
            <7> HIDE DEF u, v
            <7>4. u + 1 \in Int /\ v \in Int /\ \A k \in (u + 1)..v : text[k] \in Units
              BY <1>1, <7>1, <7>3
            <7> QED BY <7>4 DEF u, v
          <6> DEFINE a == linked[i].start + 1
                     b == linked[i].end
          <6>2. Shown(linked[i]) = SubSeq(text, a, b)
            BY <1>3, <4>1
          <6> HIDE DEF a, b
          <6>3. SubSeq(text, a, b) \in Seq(Units)
            BY <6>1, SubSeqProperties, Zenon DEF a, b
          <6> QED BY <6>2, <6>3, ConcatEmptySeq
        <5> QED BY <1>2, <1>4, <3>2, <4>1, <4>2, <5>1, <5>2
      <4>3. CASE i # first
        <5>1. f[i - 1] = To(i - 1)
          BY <1>1, <4>1, <4>3
        <5> HIDE DEF f
        <5> QED BY <1>2, <1>4, <3>2, <4>1, <4>3, <5>1
      <4> QED BY <4>2, <4>3
    <3> QED BY <3>1, <3>2
  <2>2. f = [i \in D |-> f[i]]
    OBVIOUS
  <2> HIDE DEF f, D
  <2> QED BY <2>1, <2>2
<1>6. result = U(result)
  <2>1. result = CHOOSE g : g = U(g)
    BY Zenon DEF Shown
  <2> HIDE DEF result, U
  <2> QED BY <1>5, <2>1, Zenon
<1>7. GetNormalizedString(linked, chunk, normalizeDelim)
        = IF normalizeDelim THEN Trim(result[chunk.last]) ELSE result[chunk.last]
  BY Zenon DEF GetNormalizedString, Shown
<1> HIDE DEF result
<1>8. \A i \in D : result[i] = IF i < chunk.first THEN << >> ELSE result[i - 1] \o Shown(linked[i])
  BY <1>6, Zenon
<1> DEFINE R == {k \in Nat : first + k <= last => result[first + k] = f[first + k]}
<1>9. \A i \in D : f[i] = IF i < chunk.first THEN << >> ELSE f[i - 1] \o Shown(linked[i])
  <2> HIDE DEF f, D
  <2> QED BY <1>5, Zenon
<1> HIDE DEF f
<1>10. result[first - 1] = f[first - 1]
  <2>1. first - 1 \in D /\ first - 1 < chunk.first
    BY <1>1, <1>2
  <2> HIDE DEF D
  <2> QED BY <1>8, <1>9, <2>1
<1>11. 0 \in R
  <2>1. first \in D /\ ~(first < chunk.first) /\ first + 0 = first
    BY <1>1, <1>2
  <2> HIDE DEF D
  <2> QED BY <1>8, <1>9, <1>10, <2>1
<1>12. ASSUME NEW k \in Nat, k \in R PROVE k + 1 \in R
  <2> SUFFICES ASSUME first + (k + 1) <= last PROVE result[first + (k + 1)] = f[first + (k + 1)]
    OBVIOUS
  <2> DEFINE i == first + (k + 1)
  <2>1. i \in D /\ ~(i < chunk.first) /\ i - 1 = first + k /\ first + k <= last
    BY <1>1, <1>2
  <2>2. result[i - 1] = f[i - 1]
    BY <1>12, <2>1
  <2> HIDE DEF D, i
  <2>3. result[i] = f[i]
    BY <1>8, <1>9, <2>1, <2>2
  <2> QED BY <2>3 DEF i
<1> HIDE DEF R
<1>13. result[last] = f[last]
  <2>1. last - first \in Nat /\ first + (last - first) = last
    BY <1>1
  <2>2. last - first \in R
    BY <1>11, <1>12, <2>1, SetInduction
  <2> QED BY <1>1, <2>1, <2>2 DEF R
<1>14. f[last] = To(last)
  BY <1>1, <1>2 DEF f
<1> QED BY <1>2, <1>7, <1>13, <1>14 DEF PartOf, To, lo

\* Every unit of a text is in one token of its chain.
HoldsUnit(k, x) == tokens[k].start <= x /\ x < tokens[k].end

LEMMA OneHolds ==
  ASSUME NEW e \in Nat, Covers(tokens, 0, e), NEW x \in 0..(e - 1)
  PROVE  \E k \in DOMAIN tokens : HoldsUnit(k, x) /\ \A j \in DOMAIN tokens : HoldsUnit(j, x) => j = k
<1> DEFINE n == Len(tokens)
           S == {k \in Nat : k \in DOMAIN tokens /\ x < tokens[k].end
                               => \E j \in DOMAIN tokens : HoldsUnit(j, x)}
<1>1. 0 \in Int /\ e \in Int
  OBVIOUS
<1>2. /\ n \in Nat /\ DOMAIN tokens = 1..n
      /\ \A k \in DOMAIN tokens : tokens[k].start \in Int /\ tokens[k].end \in Int
      /\ \A k \in DOMAIN tokens : tokens[k].start = IF k = 1 THEN 0 ELSE tokens[k - 1].end
      /\ e = IF tokens = << >> THEN 0 ELSE tokens[n].end
  <2>1. ChainFacts(tokens, 0, e)
    BY <1>1, CoversFacts
  <2> QED BY <2>1, Zenon DEF ChainFacts
<1>3. \A j, k \in DOMAIN tokens : j < k => tokens[j].end <= tokens[k].start
  BY <1>1, Ordered
<1>4. 0 \in S
  BY <1>2
<1>5. ASSUME NEW k \in Nat, k \in S PROVE k + 1 \in S
  <2> SUFFICES ASSUME k + 1 \in DOMAIN tokens, x < tokens[k + 1].end
               PROVE  \E j \in DOMAIN tokens : HoldsUnit(j, x)
    OBVIOUS
  <2>1. CASE tokens[k + 1].start <= x
    BY <2>1 DEF HoldsUnit
  <2>2. CASE ~(tokens[k + 1].start <= x)
    <3>1. tokens[k + 1].start = IF k + 1 = 1 THEN 0 ELSE tokens[(k + 1) - 1].end
      BY <1>2
    <3>2. k # 0
      BY <2>2, <3>1
    <3>3. k \in DOMAIN tokens /\ x < tokens[k].end
      BY <1>2, <2>2, <3>1, <3>2
    <3> QED BY <1>5, <3>3
  <2> QED BY <2>1, <2>2
<1> HIDE DEF S, n
<1>6. n \in DOMAIN tokens /\ x < tokens[n].end
  <2>1. tokens # << >>
    BY <1>2
  <2>2. n # 0
    BY <1>2, <2>1, EmptySeq DEF Covers, n
  <2> QED BY <1>2, <2>1, <2>2
<1>7. PICK k \in DOMAIN tokens : HoldsUnit(k, x)
  <2>1. n \in S
    BY <1>2, <1>4, <1>5, SetInduction
  <2> QED BY <1>6, <2>1 DEF S
<1>8. ASSUME NEW j \in DOMAIN tokens, HoldsUnit(j, x) PROVE j = k
  <2>1. ~(j < k)
    BY <1>2, <1>3, <1>7, <1>8 DEF HoldsUnit
  <2>2. ~(k < j)
    BY <1>2, <1>3, <1>7, <1>8 DEF HoldsUnit
  <2> QED BY <1>2, <2>1, <2>2
<1> QED BY <1>7, <1>8

LEMMA Between ==
  ASSUME NEW n \in Nat, NEW i \in 1..(n + 2), i # 1, i # n + 2
  PROVE  i - 1 \in 1..n /\ (i - 1) + 1 = i
OBVIOUS

LEMMA FirstOfOne ==
  ASSUME NEW i \in Int, NEW S, S = {i}
  PROVE  First(S) = i /\ S # {}
<1>1. \A j \in S : i <= j
  OBVIOUS
<1> QED BY <1>1 DEF First

\* A chunk between two offsets begins with the token that holds the first, and
\* ends with the one that holds the unit before the second.
IsChunk(linked, n, from, to) ==
  \E first \in 2..(n + 1), last \in 2..(n + 1) :
    /\ first <= last
    /\ GetSubChunk(linked, Whole(tokens), from, to) = [first |-> first, last |-> last]
    /\ linked[first].start <= from /\ from < linked[first].end
    /\ linked[last].start < to /\ to <= linked[last].end

LEMMA ChunkHolds ==
  ASSUME NEW e \in Nat, Covers(tokens, 0, e), NEW linked, IsLinked(linked, e),
         NEW from \in 0..e, NEW to \in 0..e, from < to
  PROVE  IsChunk(linked, Len(tokens), from, to)
<1> DEFINE n == Len(tokens)
           chunk == Whole(tokens)
           begins == {i \in chunk.first..chunk.last : linked[i].start <= from /\ from < linked[i].end}
           ends == {i \in chunk.first..chunk.last : linked[i].start < to /\ to <= linked[i].end}
<1>1. /\ 0 \in Int /\ e \in Int /\ from \in Int /\ to \in Int /\ 0 <= from /\ from < e /\ 0 < to /\ to <= e
      /\ from \in 0..(e - 1) /\ to - 1 \in 0..(e - 1)
  OBVIOUS
<1>2. /\ n \in Nat /\ DOMAIN tokens = 1..n
      /\ \A k \in DOMAIN tokens : tokens[k].start \in Int /\ tokens[k].end \in Int /\ tokens[k].start < tokens[k].end
  <2>1. ChainFacts(tokens, 0, e)
    BY <1>1, CoversFacts
  <2> QED BY <2>1, Zenon DEF ChainFacts
<1>3. /\ linked[1].start = 0 /\ linked[1].end = 0 /\ linked[n + 2].start = e /\ linked[n + 2].end = e
      /\ \A k \in 1..n : linked[k + 1] = tokens[k]
  BY DEF IsLinked
<1>4. chunk.first = 1 /\ chunk.last = n + 2
  BY DEF Whole
<1>5. PICK k \in DOMAIN tokens : HoldsUnit(k, from) /\ \A j \in DOMAIN tokens : HoldsUnit(j, from) => j = k
  BY <1>1, OneHolds
<1>6. PICK l \in DOMAIN tokens : HoldsUnit(l, to - 1) /\ \A j \in DOMAIN tokens : HoldsUnit(j, to - 1) => j = l
  BY <1>1, OneHolds
<1>6a. \A j \in DOMAIN tokens : HoldsUnit(j, to - 1) <=> tokens[j].start < to /\ to <= tokens[j].end
  <2> SUFFICES ASSUME NEW j \in DOMAIN tokens
               PROVE  HoldsUnit(j, to - 1) <=> tokens[j].start < to /\ to <= tokens[j].end
    OBVIOUS
  <2>1. \A u, v \in Int : (u <= to - 1 <=> u < to) /\ (to - 1 < v <=> to <= v)
    BY <1>1
  <2> QED BY <1>2, <2>1 DEF HoldsUnit
<1> HIDE DEF n, chunk
<1>7. begins = {k + 1}
  <2>1. k + 1 \in begins
    <3>1. k + 1 \in chunk.first..chunk.last /\ linked[k + 1] = tokens[k]
      BY <1>2, <1>3, <1>4
    <3> QED BY <1>5, <3>1 DEF HoldsUnit
  <2>2. ASSUME NEW i \in begins PROVE i = k + 1
    <3>0. linked[i].start <= from /\ from < linked[i].end
      OBVIOUS
    <3>1. i # 1 /\ i # n + 2
      <4> HIDE DEF begins
      <4> QED BY <1>1, <1>2, <1>3, <3>0
    <3>2. i - 1 \in 1..n /\ (i - 1) + 1 = i
      <4>1. i \in 1..(n + 2)
        BY <1>4, Zenon
      <4>2. n \in Nat
        BY <1>2
      <4> QED BY <3>1, <4>1, <4>2, Between
    <3>3. HoldsUnit(i - 1, from)
      BY <1>2, <1>3, <3>2 DEF HoldsUnit
    <3>4. i - 1 = k
      BY <1>2, <1>5, <3>2, <3>3
    <3> QED BY <3>2, <3>4
  <2> QED BY <2>1, <2>2
<1>8. ends = {l + 1}
  <2>1. l + 1 \in ends
    <3>1. l + 1 \in chunk.first..chunk.last /\ linked[l + 1] = tokens[l]
      BY <1>2, <1>3, <1>4
    <3> QED BY <1>6, <1>6a, <3>1
  <2>2. ASSUME NEW i \in ends PROVE i = l + 1
    <3>0. linked[i].start < to /\ to <= linked[i].end
      OBVIOUS
    <3>1. i # 1 /\ i # n + 2
      <4> HIDE DEF ends
      <4> QED BY <1>1, <1>2, <1>3, <3>0
    <3>2. i - 1 \in 1..n /\ (i - 1) + 1 = i
      <4>1. i \in 1..(n + 2)
        BY <1>4, Zenon
      <4>2. n \in Nat
        BY <1>2
      <4> QED BY <3>1, <4>1, <4>2, Between
    <3>3. HoldsUnit(i - 1, to - 1)
      BY <1>2, <1>3, <1>6a, <3>0, <3>2
    <3>4. i - 1 = l
      BY <1>2, <1>6, <3>2, <3>3
    <3> QED BY <3>2, <3>4
  <2> QED BY <2>1, <2>2
<1>9. k <= l
  <2> SUFFICES ASSUME l < k PROVE FALSE
    BY <1>2
  <2>1. tokens[l].end <= tokens[k].start
    BY <1>1, Ordered
  <2>2. tokens[k].start <= from /\ to - 1 < tokens[l].end
    BY <1>5, <1>6 DEF HoldsUnit
  <2> QED BY <1>1, <1>2, <2>1, <2>2
<1>10. k + 1 \in 2..(n + 1) /\ l + 1 \in 2..(n + 1) /\ k + 1 <= l + 1
  BY <1>2, <1>9
<1>11. GetSubChunk(linked, chunk, from, to) = [first |-> k + 1, last |-> l + 1]
  <2>1. First(begins) = k + 1 /\ begins # {} /\ First(ends) = l + 1 /\ ends # {}
    <3> HIDE DEF begins, ends
    <3>1. k + 1 \in Int /\ l + 1 \in Int
      BY <1>10
    <3> QED BY <1>7, <1>8, <3>1, FirstOfOne
  <2>2. GetSubChunk(linked, chunk, from, to) = Chunk(First(begins), First(ends))
    BY <2>1, Zenon DEF GetSubChunk
  <2> HIDE DEF begins, ends
  <2>3. Chunk(k + 1, l + 1) = [first |-> k + 1, last |-> l + 1]
    BY <1>10 DEF Chunk
  <2> QED BY <2>1, <2>2, <2>3
<1>12. /\ linked[k + 1].start <= from /\ from < linked[k + 1].end
       /\ linked[l + 1].start < to /\ to <= linked[l + 1].end
  BY <1>7, <1>8
<1> QED BY <1>10, <1>11, <1>12 DEF IsChunk, n, chunk

\* The words of a chain that are counted are those of its tokens: not the head.
LEMMA WordsCounted ==
  ASSUME NEW e \in Nat, Covers(tokens, 0, e), NEW linked, IsLinked(linked, e)
  PROVE  GetWordCount(linked, Whole(tokens)) = Cardinality({k \in DOMAIN tokens : IsSignificant(tokens[k])})
<1> DEFINE n == Len(tokens)
           S == {k \in DOMAIN tokens : IsSignificant(tokens[k])}
           T == {i \in 1..((n + 2) - 1) : IsSignificant(linked[i])}
           f == [k \in S |-> k + 1]
<1>1. n \in Nat /\ DOMAIN tokens = 1..n
  BY DEF Covers
<1>2. /\ linked[1].class = "head"
      /\ \A k \in 1..n : linked[k + 1] = tokens[k]
  BY DEF IsLinked
<1> HIDE DEF n
<1>3. \A k \in S : k \in 1..n /\ k + 1 \in T
  BY <1>1, <1>2
<1>4. \A i \in T : i - 1 \in S /\ (i - 1) + 1 = i
  <2> SUFFICES ASSUME NEW i \in T PROVE i - 1 \in S /\ (i - 1) + 1 = i
    OBVIOUS
  <2>1. i # 1
    BY <1>2 DEF IsSignificant
  <2>2. i - 1 \in 1..n /\ (i - 1) + 1 = i
    BY <1>1, <2>1
  <2> QED BY <1>1, <1>2, <2>2
<1>5. IsFiniteSet(S)
  <2>1. IsFiniteSet(1..n) /\ S \in SUBSET (1..n)
    BY <1>1, FS_Interval
  <2> QED BY <2>1, FS_Subset
<1> HIDE DEF S, T
<1>6. f \in Bijection(S, T)
  <2>1. f \in [S -> T]
    BY <1>3
  <2>2. \A a, b \in S : f[a] = f[b] => a = b
    BY <1>3
  <2>3. \A t \in T : \E s \in S : f[s] = t
    BY <1>4
  <2> QED BY <2>1, <2>2, <2>3 DEF Bijection, Injection, Surjection, IsInjective
<1>7. Cardinality(T) = Cardinality(S)
  BY <1>5, <1>6, FS_Bijection DEF ExistsBijection
<1>8. GetWordCount(linked, Whole(tokens)) = Cardinality(T)
  <2>1. Whole(tokens).first = 1 /\ Whole(tokens).last = n + 2
    BY DEF Whole, n
  <2> QED BY <2>1 DEF GetWordCount, T
<1> QED BY <1>7, <1>8 DEF S

LEMMA ChunksOfChain ==
  ASSUME Given, Covers(tokens, 0, End)
  PROVE  ChunksCover(Linked(tokens, End))
<1> DEFINE linked == Linked(tokens, End)
           n == Len(tokens)
<1>1. End \in Nat
  BY PositionsAreNumbers
<1>2. IsLinked(linked, End)
  BY <1>1, LinkedIs
<1> HIDE DEF linked
<1>3. LinksOn(linked, End, n + 1) /\ n \in Nat
  BY <1>1, <1>2, LinkedLinksOn DEF Covers
<1>4. ToOriginatingString(linked) = text
  <2>1. Len(linked) = (n + 1) + 1
    BY <1>2, <1>3 DEF IsLinked
  <2> QED BY <1>3, <2>1, SaysItsText
<1>5. GetWordCount(linked, Whole(tokens)) = Cardinality({k \in DOMAIN tokens : IsSignificant(tokens[k])})
  BY <1>1, <1>2, WordsCounted
<1>6. ASSUME NEW from \in 0..End, NEW to \in 0..End, from < to
      PROVE  LET chunk == GetSubChunk(linked, Whole(tokens), from, to)
                 first == linked[chunk.first]
                 last  == linked[chunk.last]
             IN  /\ chunk \notin {NoChunk, Unlinked}
                 /\ from \in first.start..(first.end - 1) /\ to \in (last.start + 1)..last.end
                 /\ GetNormalizedString(linked, chunk, FALSE) = SubSeq(text, first.start + 1, last.end)
                 /\ (\A i \in chunk.first..chunk.last : linked[i].class = "word")
                      => GetNormalizedString(linked, chunk, TRUE) = Trim(GetNormalizedString(linked, chunk, FALSE))
  <2> DEFINE chunk == GetSubChunk(linked, Whole(tokens), from, to)
  <2>1. IsChunk(linked, n, from, to)
    BY <1>1, <1>2, <1>6, ChunkHolds
  <2>2. PICK first \in 2..(n + 1), last \in 2..(n + 1) :
          /\ first <= last
          /\ chunk = [first |-> first, last |-> last]
          /\ linked[first].start <= from /\ from < linked[first].end
          /\ linked[last].start < to /\ to <= linked[last].end
    BY <2>1 DEF IsChunk
  <2> HIDE DEF chunk, n
  <2>3. first \in 1..(n + 1) /\ last \in first..(n + 1)
    BY <1>3, <2>2
  <2>4. chunk.first = first /\ chunk.last = last
    BY <2>2
  <2>5. chunk \notin {NoChunk, Unlinked}
    <3>1. first # 0
      BY <2>3
    <3> QED BY <2>4, <3>1 DEF NoChunk, Unlinked
  <2>6. /\ from \in linked[first].start..(linked[first].end - 1)
        /\ to \in (linked[last].start + 1)..linked[last].end
    <3>1. /\ linked[first].start \in Int /\ linked[first].end \in Int
          /\ linked[last].start \in Int /\ linked[last].end \in Int
      <4>1. \A i \in 1..((n + 1) + 1) : linked[i].start \in 0..End /\ linked[i].end \in 0..End
        BY <1>3 DEF LinksOn
      <4>2. first \in 1..((n + 1) + 1) /\ last \in 1..((n + 1) + 1)
        BY <1>3, <2>3
      <4> QED BY <1>1, <4>1, <4>2
    <3> QED BY <1>1, <2>2, <3>1
  <2> DEFINE part == SubSeq(text, linked[first].start + 1, linked[last].end)
             m == n + 1
  <2> HIDE DEF m, part
  <2>7. GetNormalizedString(linked, chunk, FALSE) = part
    <3>1. GetNormalizedString(linked, chunk, FALSE) = PartOf(linked, first, last, FALSE)
      BY <1>3, <2>2, <2>3, ChunkSaysItsPart, Zenon DEF m
    <3> QED BY <3>1 DEF PartOf, part
  <2>8. ASSUME \A i \in first..last : linked[i].class = "word"
        PROVE  GetNormalizedString(linked, chunk, TRUE) = Trim(part)
    <3>1. GetNormalizedString(linked, chunk, TRUE) = PartOf(linked, first, last, TRUE)
      BY <1>3, <2>2, <2>3, <2>8, ChunkSaysItsPart, Zenon DEF m
    <3> QED BY <3>1 DEF PartOf, part
  <2> QED BY <2>4, <2>5, <2>6, <2>7, <2>8, Zenon DEF chunk, part
<1> QED BY <1>4, <1>5, <1>6, Zenon DEF ChunksCover, linked

\* The index of the chain is made from its tokens.
ChainInv == TokensInv /\ (phase = "done" => tokenArray = Index(tokens, End))

LEMMA StepChainInv == ChainInv /\ [Next]_vars => ChainInv'
<1> SUFFICES ASSUME ChainInv, [Next]_vars PROVE ChainInv'
  OBVIOUS
<1>1. TokensInv'
  BY StepTokensInv DEF ChainInv
<1>2. (phase = "done" => tokenArray = Index(tokens, End))'
  <2>1. CASE BuildChain
    <3>1. tokens' = tokens /\ End' = End /\ tokenArray' = Index(tokens, End)
      BY <2>1 DEF BuildChain, End
    <3> QED BY <3>1 DEF Index, Reached
  <2>2. CASE NextToken \/ NoMoreTokens \/ Cleave \/ Cleaved
    <3>1. phase' # "done"
      BY <2>2 DEF NextToken, NoMoreTokens, Cleave, Cleaved
    <3> QED BY <3>1
  <2>3. CASE UNCHANGED vars
    BY <2>3 DEF vars, ChainInv, Index, Reached, End
  <2> QED BY <2>1, <2>2, <2>3 DEF Next
<1> QED BY <1>1, <1>2 DEF ChainInv

\* In the chain of every text the start of a token finds it and its end what
\* follows; so it is in every chain that is cut out of it.  The chain says the
\* whole text, and a chunk between two offsets what the text says there
\* (TokenChain.cpp, Chunk.cpp, TokenExtractor).
THEOREM ChainsFound == Spec => []BoundariesFound
<1>1. Init => ChainInv
  <2> SUFFICES ASSUME Init PROVE ChainInv
    OBVIOUS
  <2>1. TokensInv
    BY InitIInv, EmptySeq DEF Init, BoundariesInit, TokensInv, Covers, End
  <2> QED BY <2>1 DEF ChainInv, Init
<1>2. ChainInv => BoundariesFound
  <2> SUFFICES ASSUME ChainInv, phase = "done" PROVE BoundariesFound
    BY DEF BoundariesFound
  <2>1. Given /\ End \in Nat /\ Covers(tokens, 0, End) /\ tokenArray = Index(tokens, End)
    BY TokenFacts DEF ChainInv, TokensInv
  <2>2. AtBoundaries(tokens, tokenArray)
    <3>1. 0 \in Nat
      OBVIOUS
    <3> QED BY <2>1, <3>1, IndexFinds
  <2>3. ChunksCover(Linked(tokens, End))
    BY <2>1, ChunksOfChain
  <2>4. ASSUME NEW from \in 0..End, NEW to \in 0..End, SubChain(from, to) # << >>
        PROVE  LET chain == SubChain(from, to) IN AtBoundaries(chain, Index(chain, chain[Len(chain)].end))
    <3> DEFINE chain == SubChain(from, to)
    <3>1. from \in Int /\ to \in Int
      BY <2>1
    <3>2. \E a, b \in Nat : Covers(chain, a, b) /\ b = chain[Len(chain)].end
      BY <2>1, <2>4, <3>1, SubChainCovers
    <3> HIDE DEF chain
    <3>3. PICK a \in Nat, b \in Nat : Covers(chain, a, b) /\ b = chain[Len(chain)].end
      BY <3>2
    <3>4. AtBoundaries(chain, Index(chain, b))
      BY <3>3, IndexFinds
    <3> QED BY <3>3, <3>4, Zenon DEF chain
  <2> QED BY <2>2, <2>3, <2>4, Zenon DEF BoundariesFound
<1> QED BY <1>1, <1>2, StepChainInv, PTL DEF Spec

-----------------------------------------------------------------------------
(* Compounds *)

HIDE BoundariesAssumption

LEMMA PartIs ==
  ASSUME NEW Chars, NEW word \in Seq(Chars), NEW from \in Nat, NEW to \in Nat, to <= Len(word)
  PROVE  /\ Part(word, from, to) \in Seq(Chars)
         /\ from <= to => /\ Len(Part(word, from, to)) = to - from
                          /\ \A i \in 1..(to - from) : Part(word, from, to)[i] = word[from + i]
         /\ from > to => Len(Part(word, from, to)) = 0
<1>1. Len(word) \in Nat /\ DOMAIN word = 1..Len(word) /\ \A i \in 1..Len(word) : word[i] \in Chars
  BY LenProperties, ElementOfSeq
<1>2. from + 1 \in 1..(Len(word) + 1) \/ from > to
  BY <1>1
<1>3. SubSeq(word, from + 1, to) = [i \in 1..(to - from) |-> word[from + i]]
  BY <1>1
<1>4. ASSUME from <= to PROVE /\ [i \in 1..(to - from) |-> word[from + i]] \in Seq(Chars)
                              /\ Len([i \in 1..(to - from) |-> word[from + i]]) = to - from
  BY <1>1, <1>4
<1>5. ASSUME from > to PROVE SubSeq(word, from + 1, to) = << >>
  BY <1>1, <1>5
<1> QED BY <1>3, <1>4, <1>5 DEF Part

LEMMA WholePartIs ==
  ASSUME NEW Chars, NEW word \in Seq(Chars), NEW from \in Nat, NEW to \in Nat, from <= to, to <= Len(word)
  PROVE  /\ Part(word, from, to) \in Seq(Chars) /\ Len(Part(word, from, to)) = to - from
         /\ \A i \in 1..(to - from) : Part(word, from, to)[i] = word[from + i]
<1>1. /\ Part(word, from, to) \in Seq(Chars)
      /\ from <= to => /\ Len(Part(word, from, to)) = to - from
                       /\ \A i \in 1..(to - from) : Part(word, from, to)[i] = word[from + i]
      /\ from > to => Len(Part(word, from, to)) = 0
  BY PartIs, Zenon
<1> QED BY <1>1, Zenon

LEMMA PartsOf ==
  ASSUME NEW Chars, NEW word \in Seq(Chars), NEW m \in Nat, m <= Len(word)
  PROVE  /\ Part(word, 0, m) \in Seq(Chars) /\ Part(word, m, Len(word)) \in Seq(Chars)
         /\ word = Part(word, 0, m) \o Part(word, m, Len(word))
<1>1. Len(word) \in Nat /\ Len(word) <= Len(word) /\ 0 \in Nat
  BY LenProperties
<1>2. Part(word, 0, m) \in Seq(Chars) /\ Part(word, m, Len(word)) \in Seq(Chars)
  BY <1>1, PartIs, Zenon
<1>3. 1 \in 1..(Len(word) + 1) /\ m \in (1 - 1)..Len(word) /\ Len(word) \in m..Len(word)
  BY <1>1
<1>4. SubSeq(word, 1, m) \o SubSeq(word, m + 1, Len(word)) = SubSeq(word, 1, Len(word))
  BY <1>3, ConcatAdjacentSubSeq, Zenon
<1>5. 0 + 1 = 1 /\ SubSeq(word, 1, Len(word)) = word
  BY SubSeqFull
<1> QED BY <1>2, <1>4, <1>5 DEF Part

\* A set of bounded numbers has a greatest one.
LEMMA Greatest ==
  ASSUME NEW n \in Nat, NEW N, N \subseteq 0..n, N # {}
  PROVE  \E m \in N : \A k \in N : k <= m
<1> DEFINE S == {b \in Nat : \A T \in SUBSET (0..b) : T # {} => \E m \in T : \A k \in T : k <= m}
<1>1. 0 \in S
  <2> SUFFICES ASSUME NEW T \in SUBSET (0..0), T # {} PROVE \E m \in T : \A k \in T : k <= m
    OBVIOUS
  <2>1. \A k \in T : k = 0 /\ k <= 0
    BY 0..0 = {0}
  <2>2. 0 \in T
    BY <2>1
  <2> QED BY <2>1, <2>2
<1>2. ASSUME NEW b \in Nat, b \in S PROVE b + 1 \in S
  <2> SUFFICES ASSUME NEW T \in SUBSET (0..(b + 1)), T # {} PROVE \E m \in T : \A k \in T : k <= m
    OBVIOUS
  <2>1. CASE b + 1 \in T
    BY <2>1
  <2>2. CASE b + 1 \notin T
    <3>1. T \in SUBSET (0..b)
      BY <2>2
    <3> QED BY <1>2, <3>1
  <2> QED BY <2>1, <2>2
<1> HIDE DEF S
<1>3. Nat \subseteq S
  BY <1>1, <1>2, SetInduction
<1> QED BY <1>3 DEF S

\* What every step of a recursive function keeps holds of all of it.
LEMMA Stays ==
  ASSUME NEW n \in Nat, NEW A, NEW f, f[0] \in A, \A i \in 1..n : f[i - 1] \in A => f[i] \in A
  PROVE  \A i \in 0..n : f[i] \in A
<1> DEFINE S == {k \in Nat : k <= n => f[k] \in A}
<1>1. 0 \in S
  OBVIOUS
<1>2. ASSUME NEW k \in Nat, k \in S PROVE k + 1 \in S
  <2>1. SUFFICES ASSUME k + 1 <= n PROVE f[k + 1] \in A
    OBVIOUS
  <2>2. k + 1 \in 1..n /\ (k + 1) - 1 = k /\ f[k] \in A
    BY <1>2, <2>1
  <2> QED BY <2>2
<1> HIDE DEF S
<1>3. Nat \subseteq S
  BY <1>1, <1>2, SetInduction
<1> QED BY <1>3 DEF S

-----------------------------------------------------------------------------
(* Germanic compounds *)

Datas == {Unknown} \cup {Corpus[w] : w \in DOMAIN Corpus}
Best(chars) == [root : Seq(chars), freq : Nat, found : BOOLEAN]

\* A word of the dictionary that begins with a stem.
Made(word, stem, chars) == word \in DOMAIN Corpus /\ \E rest \in Seq(chars) : word = stem \o rest

LEMMA FreqIs ==
  ASSUME NEW letters, GermanicDictionary(letters), NEW word
  PROVE  /\ Freq(word) \in Nat /\ (Freq(word) > 0 => word \in DOMAIN Corpus)
         /\ Data(word) \in Datas /\ Data(word).freq \in Nat
         /\ Data(word).freq > Unknown.freq => word \in DOMAIN Corpus
BY DEF GermanicDictionary, Freq, Data, Datas, Unknown

LEMMA WiderSeq ==
  ASSUME NEW A, NEW B, A \subseteq B
  PROVE  Seq(A) \subseteq Seq(B)
OBVIOUS

LEMMA ConcatAgain ==
  ASSUME NEW Chars, NEW s \in Seq(Chars), NEW t \in Seq(Chars), NEW u \in Seq(Chars)
  PROVE  (s \o t) \o u = s \o (t \o u) /\ s \o << >> = s /\ t \o u \in Seq(Chars)
BY ConcatAssociative, ConcatEmptySeq, ConcatProperties

LEMMA BetterIs ==
  ASSUME NEW letters, GermanicDictionary(letters), NEW Chars, letters \subseteq Chars,
         NEW best \in Best(Chars), NEW stem \in Seq(Chars), NEW ending \in Seq(letters),
         NEW anyLength \in BOOLEAN, NEW first \in Seq(Chars),
         IF stem = << >> THEN best.root = first \/ Made(best.root, first, Chars) ELSE first = stem
  PROVE  LET better == Better(best, stem, ending, anyLength)
         IN  /\ better \in Best(Chars)
             /\ better = best \/ Made(better.root, first, Chars)
<1> DEFINE old == IF stem = << >> THEN best.root ELSE stem
           word == old \o ending
<1>1. ending \in Seq(Chars) /\ old \in Seq(Chars)
  <2>1. best.root \in Seq(Chars)
    BY DEF Best
  <2>2. Seq(letters) \subseteq Seq(Chars)
    OBVIOUS
  <2> QED BY <2>1, <2>2
<1>2. word \in Seq(Chars)
  <2> HIDE DEF old
  <2> QED BY <1>1, ConcatAgain
<1>3. CASE Better(best, stem, ending, anyLength) = best
  BY <1>3
<1>4. CASE Better(best, stem, ending, anyLength) # best
  <2>1. /\ Freq(word) > best.freq
        /\ Better(best, stem, ending, anyLength) = [root |-> word, freq |-> Freq(word), found |-> TRUE]
    BY <1>4 DEF Better
  <2>2. Freq(word) \in Nat /\ best.freq \in Nat /\ word \in DOMAIN Corpus
    <3>1. Freq(word) \in Nat /\ best.freq \in Nat /\ (Freq(word) > 0 => word \in DOMAIN Corpus)
      BY FreqIs DEF Best
    <3> HIDE DEF word
    <3> QED BY <2>1, <3>1
  <2>3. \E rest \in Seq(Chars) : old = first \o rest
    <3>1. old = first \/ Made(old, first, Chars)
      OBVIOUS
    <3>2. << >> \in Seq(Chars) /\ first = first \o << >>
      BY ConcatAgain
    <3> QED BY <3>1, <3>2, Zenon DEF Made
  <2>4. PICK rest \in Seq(Chars) : old = first \o rest
    BY <2>3
  <2>5. word = first \o (rest \o ending) /\ rest \o ending \in Seq(Chars)
    <3> HIDE DEF old
    <3>0. first \in Seq(Chars) /\ rest \in Seq(Chars) /\ ending \in Seq(Chars)
      BY <1>1, <2>4
    <3>1. (first \o rest) \o ending = first \o (rest \o ending) /\ rest \o ending \in Seq(Chars)
      BY <3>0, ConcatAgain
    <3> QED BY <2>4, <3>1
  <2>6. Made(word, first, Chars)
    <3> HIDE DEF word
    <3> QED BY <2>2, <2>5, Zenon DEF Made
  <2> HIDE DEF word
  <2>7. [root |-> word, freq |-> Freq(word), found |-> TRUE] \in Best(Chars)
    BY <1>2, <2>2 DEF Best
  <2> QED BY <2>1, <2>6, <2>7
<1> QED BY <1>3, <1>4

\* What endings make of a word is the word, or one of the dictionary that
\* begins with the word or with the stem.
LEMMA ImprovedIs ==
  ASSUME NEW letters, GermanicDictionary(letters), NEW Chars, letters \subseteq Chars,
         NEW best \in Best(Chars), NEW stem \in Seq(Chars), NEW endings \in Seq(Seq(letters)),
         NEW anyLength \in BOOLEAN
  PROVE  LET improved == Improved(best, stem, endings, anyLength)
         IN  /\ improved \in Best(Chars)
             /\ improved = best \/ Made(improved.root, IF stem = << >> THEN best.root ELSE stem, Chars)
<1> DEFINE n == Len(endings)
           first == IF stem = << >> THEN best.root ELSE stem
           A == {b \in Best(Chars) : b = best \/ Made(b.root, first, Chars)}
           step == [i \in 1..n |-> [b \in A |-> Better(b, stem, endings[i], anyLength)]]
           upTo[i \in 0..Len(endings)] ==
             IF i = 0 THEN best ELSE Better(upTo[i - 1], stem, endings[i], anyLength)
           U(g) == [i \in 0..n |-> IF i = 0 THEN best ELSE Better(g[i - 1], stem, endings[i], anyLength)]
<1>1. n \in Nat /\ DOMAIN endings = 1..n /\ best \in A /\ first \in Seq(Chars)
  <2>1. best.root \in Seq(Chars)
    BY DEF Best
  <2>2. n \in Nat /\ DOMAIN endings = 1..n
    BY LenProperties
  <2> QED BY <2>1, <2>2
<1>2. ASSUME NEW i \in 1..n, NEW b \in A PROVE Better(b, stem, endings[i], anyLength) \in A
  <2>1. endings[i] \in Seq(letters) /\ b \in Best(Chars)
    BY <1>1, ElementOfSeq
  <2>2. IF stem = << >> THEN b.root = first \/ Made(b.root, first, Chars) ELSE first = stem
    BY <1>2
  <2> DEFINE better == Better(b, stem, endings[i], anyLength)
  <2>3. better \in Best(Chars) /\ (better = b \/ Made(better.root, first, Chars))
    <3> HIDE DEF first, n, A
    <3> QED BY <1>1, <2>1, <2>2, BetterIs, Zenon
  <2>4. b = best \/ Made(b.root, first, Chars)
    BY <1>2
  <2> HIDE DEF first
  <2> QED BY <2>3, <2>4
<1>3. step \in [1..n -> [A -> A]]
  BY <1>2
<1>4. PICK f \in [0..n -> A] : Recursion(f, n, best, step)
  <2> HIDE DEF step, A, n, upTo, U
  <2> QED BY <1>1, <1>3, RecursionExists, Zenon
<1>5. f = U(f)
  <2>1. \A i \in 0..n : i # 0 => i \in 1..n /\ i - 1 \in 0..n
    BY <1>1
  <2> HIDE DEF A, n
  <2>2. \A i \in 0..n : i # 0 => step[i][f[i - 1]] = Better(f[i - 1], stem, endings[i], anyLength)
    BY <1>4, <2>1
  <2> QED BY <1>4, <2>2 DEF Recursion
<1>6. upTo = U(upTo)
  <2>1. upTo = CHOOSE g : g = U(g)
    BY Zenon
  <2> HIDE DEF upTo, U
  <2> QED BY <1>5, <2>1, Zenon
<1>7. Improved(best, stem, endings, anyLength) = upTo[n]
  BY Zenon DEF Improved
<1> HIDE DEF upTo
<1>8. upTo[0] = best /\ \A i \in 1..n : upTo[i] = Better(upTo[i - 1], stem, endings[i], anyLength)
  <2>1. \A i \in 0..n : upTo[i] = IF i = 0 THEN best ELSE Better(upTo[i - 1], stem, endings[i], anyLength)
    BY <1>6, Zenon
  <2>2. 0 \in 0..n /\ \A i \in 1..n : i \in 0..n /\ i # 0
    BY <1>1
  <2> QED BY <2>1, <2>2, Zenon
<1>9. \A i \in 0..n : upTo[i] \in A
  <2>1. upTo[0] \in A /\ \A i \in 1..n : upTo[i - 1] \in A => upTo[i] \in A
    BY <1>1, <1>2, <1>8
  <2> HIDE DEF A, n
  <2> QED BY <1>1, <2>1, Stays
<1>10. upTo[n] \in A
  BY <1>1, <1>9
<1> QED BY <1>7, <1>10

LEMMA PrefixOfLetters ==
  ASSUME NEW Chars, NEW letters, letters \subseteq Chars, NEW s \in Seq(Chars), NEW t \in Seq(Chars),
         s \o t \in Seq(letters)
  PROVE  s \in Seq(letters)
<1>1. /\ Len(s) \in Nat /\ Len(t) \in Nat /\ Len(s \o t) = Len(s) + Len(t)
      /\ \A i \in 1..Len(s) : (s \o t)[i] = s[i]
  BY ConcatProperties, LenProperties
<1>2. \A i \in 1..Len(s \o t) : (s \o t)[i] \in letters
  BY ElementOfSeq
<1>3. \A i \in 1..Len(s) : s[i] \in letters
  BY <1>1, <1>2
<1>4. s = [i \in 1..Len(s) |-> s[i]]
  OBVIOUS
<1> QED BY <1>1, <1>3, <1>4, IsASeq

\* A segment as it is cut out of a word.
IsCutOut(s, word, from, to, chars) ==
  /\ s.from = from /\ s.text = Part(word, from, to) /\ s.fuge = -1 /\ s.root = << >>
  /\ s.text \in Seq(chars) /\ Len(s.text) = to - from
  /\ s.data \in Datas /\ s.data.freq \in Nat
  /\ s.data.freq > Unknown.freq => s.text \in DOMAIN Corpus
  /\ s = [from |-> from, text |-> Part(word, from, to), root |-> << >>, fuge |-> -1,
          data |-> Data(Part(word, from, to))]

LEMMA CutOutOfWord ==
  ASSUME NEW letters, GermanicDictionary(letters), NEW Chars, NEW word \in Seq(Chars),
         NEW from \in Nat, NEW to \in Nat, from <= to, to <= Len(word)
  PROVE  IsCutOut(NewSegment(word, from, to), word, from, to, Chars)
<1> DEFINE part == Part(word, from, to)
           s == NewSegment(word, from, to)
<1>1. part \in Seq(Chars) /\ Len(part) = to - from
  BY WholePartIs, Zenon
<1>2. s = [from |-> from, text |-> part, root |-> << >>, fuge |-> -1, data |-> Data(part)]
  BY DEF NewSegment
<1> HIDE DEF part, s
<1>3. /\ s.from = from /\ s.text = part /\ s.fuge = -1 /\ s.root = << >> /\ s.data = Data(part)
  BY <1>2
<1>4. /\ Data(part) \in Datas /\ Data(part).freq \in Nat
      /\ Data(part).freq > Unknown.freq => part \in DOMAIN Corpus
  BY FreqIs
<1>5. IsCutOut(s, word, from, to, Chars)
  BY <1>1, <1>2, <1>3, <1>4 DEF IsCutOut, part
<1> QED BY <1>5 DEF s

\* The best so far for the root of a segment.
BestFits(b, root, chars) ==
  /\ b \in Best(chars)
  /\ b.root = root \/ Made(b.root, root, chars)
  /\ b.found => b.root \in DOMAIN Corpus

LEMMA ImprovedFits ==
  ASSUME NEW letters, GermanicDictionary(letters), NEW Chars, letters \subseteq Chars,
         NEW root \in Seq(Chars), NEW best, BestFits(best, root, Chars),
         NEW endings \in Seq(Seq(letters)), NEW anyLength \in BOOLEAN
  PROVE  BestFits(Improved(best, << >>, endings, anyLength), root, Chars)
<1> DEFINE b == Improved(best, << >>, endings, anyLength)
<1>1. best \in Best(Chars) /\ best.root \in Seq(Chars) /\ << >> \in Seq(Chars)
  BY DEF BestFits, Best
<1>2. b \in Best(Chars) /\ (b = best \/ Made(b.root, best.root, Chars))
  BY <1>1, ImprovedIs
<1> SUFFICES BestFits(b, root, Chars)
  OBVIOUS
<1> HIDE DEF b
<1>3. CASE b = best
  BY <1>3
<1>4. CASE Made(b.root, best.root, Chars) /\ best.root = root
  BY <1>2, <1>4 DEF BestFits, Made
<1>5. CASE Made(b.root, best.root, Chars) /\ Made(best.root, root, Chars)
  <2>1. PICK t \in Seq(Chars) : b.root = best.root \o t
    BY <1>5 DEF Made
  <2>2. PICK u \in Seq(Chars) : best.root = root \o u
    BY <1>5 DEF Made
  <2>3. b.root = root \o (u \o t) /\ u \o t \in Seq(Chars)
    <3>1. root \in Seq(Chars) /\ u \in Seq(Chars) /\ t \in Seq(Chars)
      BY <2>1, <2>2
    <3>2. (root \o u) \o t = root \o (u \o t) /\ u \o t \in Seq(Chars)
      BY <3>1, ConcatAgain
    <3> QED BY <2>1, <2>2, <3>2, Zenon
  <2>4. Made(b.root, root, Chars) /\ b.root \in DOMAIN Corpus
    BY <1>5, <2>3, Zenon DEF Made
  <2> QED BY <1>2, <2>4 DEF BestFits
<1> QED BY <1>2, <1>3, <1>4, <1>5 DEF BestFits

\* What is found to be the root of a segment shows that it is letters.
LEMMA AttemptFinds ==
  ASSUME NEW letters, GermanicDictionary(letters), NEW Chars, letters \subseteq Chars,
         NEW segment, segment.text \in Seq(Chars), segment.data.freq \in Nat,
         NEW l \in Nat, 1 <= l, l <= Len(segment.text),
         Attempt(segment, l).best.found
  PROVE  LET attempt == Attempt(segment, l)
         IN  /\ attempt.best.root \in Seq(Chars)
             /\ segment.text \in Seq(letters)
             /\ attempt.fuge \in {-1, l}
<1> DEFINE label == segment.text
           root == Part(label, 0, Len(label) - l)
           fuge == Part(label, Len(label) - l, Len(label))
           freq == segment.data.freq
           whole == [root |-> root, freq |-> freq, found |-> FALSE]
           plain == IF Freq(root) > freq
                    THEN [root |-> root, freq |-> Freq(root), found |-> LongEnough(root, Data(root))]
                    ELSE whole
           positive == IF fuge \in Config.positive THEN Improved(plain, << >>, Config.negative, FALSE)
                       ELSE whole
           settled == IF positive.found THEN positive ELSE whole
           replaced == IF fuge \in Config.replaceable /\ settled.freq <= Config.maxReplacementFreq
                       THEN Improved(settled, << >>, Config.replacements, TRUE) ELSE settled
           unsplit == IF LengthOf(segment) >= Config.minSegmentLength
                      THEN Improved(whole, label, Config.negative, FALSE) ELSE whole
           attempt == Attempt(segment, l)
<1>1. /\ Len(label) \in Nat /\ root \in Seq(Chars) /\ fuge \in Seq(Chars) /\ label # << >>
      /\ label = root \o fuge
  <2>1. Len(label) \in Nat /\ Len(label) - l \in Nat /\ 0 \in Nat /\ Len(label) - l <= Len(label) /\ label # << >>
    BY LenProperties
  <2>2. label \in Seq(Chars)
    OBVIOUS
  <2> HIDE DEF label
  <2>3. root \in Seq(Chars) /\ fuge \in Seq(Chars) /\ label = root \o fuge
    BY <2>1, <2>2, PartsOf, Zenon
  <2> QED BY <2>1, <2>3
<1> HIDE DEF root, fuge
<1>2. BestFits(whole, root, Chars)
  BY <1>1 DEF BestFits, Best
<1>3. BestFits(plain, root, Chars)
  <2>1. CASE Freq(root) > freq
    <3>1. Freq(root) \in Nat /\ (Freq(root) > 0 => root \in DOMAIN Corpus)
      BY FreqIs
    <3>2. root \in DOMAIN Corpus
      BY <2>1, <3>1
    <3> QED BY <1>1, <2>1, <3>1, <3>2 DEF BestFits, Best, LongEnough
  <2> QED BY <1>2, <2>1
<1> HIDE DEF plain
<1>4. /\ Config.negative \in Seq(Seq(letters)) /\ Config.replacements \in Seq(Seq(letters))
      /\ Config.positive \subseteq Seq(letters) /\ Config.replaceable \subseteq Seq(letters)
      /\ DOMAIN Corpus \subseteq Seq(letters)
  BY DEF GermanicDictionary
<1>5. BestFits(positive, root, Chars)
  <2>1. BestFits(Improved(plain, << >>, Config.negative, FALSE), root, Chars)
    <3> HIDE DEF whole
    <3> QED BY <1>1, <1>3, <1>4, ImprovedFits
  <2> QED BY <1>2, <2>1
<1> HIDE DEF positive
<1>6. BestFits(settled, root, Chars)
  BY <1>2, <1>5
<1>7. BestFits(replaced, root, Chars)
  <2> HIDE DEF settled
  <2>1. BestFits(Improved(settled, << >>, Config.replacements, TRUE), root, Chars)
    BY <1>1, <1>4, <1>6, ImprovedFits
  <2> QED BY <1>6, <2>1
<1>8. unsplit = whole \/ (unsplit \in Best(Chars) /\ Made(unsplit.root, label, Chars))
  <2> DEFINE u == Improved(whole, label, Config.negative, FALSE)
  <2>1. whole \in Best(Chars) /\ label \in Seq(Chars) /\ label # << >>
    BY <1>1, <1>2 DEF BestFits
  <2>2. u \in Best(Chars) /\ (u = whole \/ Made(u.root, label, Chars))
    <3> HIDE DEF label, whole
    <3> QED BY <1>4, <2>1, ImprovedIs
  <2> HIDE DEF u, whole
  <2>3. unsplit = u \/ unsplit = whole
    BY DEF u
  <2> QED BY <2>2, <2>3
<1>9. attempt = IF fuge \in Config.positive \cup Config.replaceable
                THEN [best |-> replaced, fuge |-> l] ELSE [best |-> unsplit, fuge |-> -1]
  BY Zenon DEF Attempt, plain, positive, root, fuge
<1> HIDE DEF replaced, unsplit
<1>10. CASE fuge \in Config.positive \cup Config.replaceable
  <2>1. attempt.best = replaced /\ attempt.fuge = l /\ replaced.found
    <3>1. attempt = [best |-> replaced, fuge |-> l]
      BY <1>9, <1>10
    <3> HIDE DEF attempt
    <3>2. attempt.best.found
      BY DEF attempt
    <3> QED BY <3>1, <3>2
  <2>2. replaced.root \in Seq(letters) /\ replaced.root \in Seq(Chars)
    BY <1>4, <1>7, <2>1 DEF BestFits, Best
  <2>3. root \in Seq(letters)
    <3>1. CASE replaced.root = root
      BY <2>2, <3>1
    <3>2. CASE Made(replaced.root, root, Chars)
      BY <1>1, <2>2, <3>2, PrefixOfLetters DEF Made
    <3> QED BY <1>7, <3>1, <3>2 DEF BestFits
  <2>4. fuge \in Seq(letters)
    BY <1>4, <1>10
  <2>5. root \o fuge \in Seq(letters)
    BY <2>3, <2>4, ConcatProperties
  <2> QED BY <1>1, <2>1, <2>2, <2>5
<1>11. CASE fuge \notin Config.positive \cup Config.replaceable
  <2>1. attempt.best = unsplit /\ attempt.fuge = -1 /\ unsplit.found
    <3>1. attempt = [best |-> unsplit, fuge |-> -1]
      BY <1>9, <1>11
    <3> HIDE DEF attempt
    <3>2. attempt.best.found
      BY DEF attempt
    <3> QED BY <3>1, <3>2
  <2>2. unsplit # whole
    BY <2>1
  <2>3. unsplit \in Best(Chars) /\ Made(unsplit.root, label, Chars)
    BY <1>8, <2>2
  <2>4. unsplit.root \in Seq(Chars) /\ unsplit.root \in Seq(letters)
    BY <1>4, <2>3 DEF Best, Made
  <2>5. label \in Seq(letters)
    <3> HIDE DEF label
    <3>1. label \in Seq(Chars)
      BY DEF label
    <3> QED BY <2>3, <2>4, <3>1, PrefixOfLetters DEF Made
  <2> QED BY <2>1, <2>4, <2>5
<1> QED BY <1>10, <1>11

SegmentsOf(chars) == [from : Nat, text : Seq(chars), root : Seq(chars), fuge : Int, data : Datas]

LEMMA RootFound ==
  ASSUME NEW A, NEW B, NEW C, NEW D, NEW E, NEW s \in [from : A, text : B, root : C, fuge : D, data : E],
         NEW root \in C, NEW fuge \in D, NEW data \in E
  PROVE  LET d == [s EXCEPT !.root = root, !.fuge = fuge, !.data = data]
         IN  /\ d \in [from : A, text : B, root : C, fuge : D, data : E]
             /\ d.from = s.from /\ d.text = s.text /\ d.fuge = fuge
OBVIOUS

\* A segment with or without its fuge element: it stays where it is, the
\* element is not all of it, and one that has a root is letters.
LEMMA DetachIs ==
  ASSUME NEW letters, GermanicDictionary(letters), NEW Chars, letters \subseteq Chars,
         NEW word \in Seq(Chars), NEW from \in Nat, NEW to \in Nat, from <= to, to <= Len(word)
  PROVE  LET s == NewSegment(word, from, to)
             d == DetachFugenelement(s)
         IN  /\ d \in SegmentsOf(Chars) /\ d.from = from /\ d.text = Part(word, from, to)
             /\ d.fuge = -1 \/ (1 <= d.fuge /\ d.fuge < to - from)
             /\ d = s \/ d.text \in Seq(letters)
<1> DEFINE s == NewSegment(word, from, to)
           label == Part(word, from, to)
           lengths == {l \in 1..Config.maxFugenelementLength :
                         Len(s.text) >= l + Config.minSegmentLength - 1}
           found == {l \in lengths : Attempt(s, l).best.found}
           longest == CHOOSE l \in found : \A k \in found : k <= l
           attempt == Attempt(s, longest)
<1>1. /\ s.from = from /\ s.text = label /\ s.fuge = -1 /\ s.root = << >>
      /\ label \in Seq(Chars) /\ Len(label) = to - from /\ Len(label) \in Nat
      /\ s.data \in Datas /\ s.data.freq \in Nat
      /\ s = [from |-> from, text |-> label, root |-> << >>, fuge |-> -1, data |-> Data(label)]
  <2>1. to - from \in Nat
    OBVIOUS
  <2>2. IsCutOut(s, word, from, to, Chars)
    BY CutOutOfWord
  <2> HIDE DEF s
  <2> QED BY <2>1, <2>2 DEF IsCutOut
<1>2. s \in SegmentsOf(Chars)
  BY <1>1 DEF SegmentsOf
<1>3. CASE DetachFugenelement(s) = s
  BY <1>1, <1>2, <1>3
<1>4. CASE DetachFugenelement(s) # s
  <2>1. /\ found # {}
        /\ DetachFugenelement(s) = [s EXCEPT !.root = attempt.best.root, !.fuge = attempt.fuge,
                                             !.data = Data(attempt.best.root)]
    <3> HIDE DEF s
    <3> QED BY <1>4 DEF DetachFugenelement
  <2> HIDE DEF s, label
  <2>2. longest \in found
    <3>1. found \subseteq 0..Config.maxFugenelementLength /\ Config.maxFugenelementLength \in Nat
      BY DEF GermanicDictionary
    <3> HIDE DEF found
    <3>2. \E l \in found : \A k \in found : k <= l
      BY <2>1, <3>1, Greatest
    <3> QED BY <3>2, Zenon
  <2>3. /\ longest \in Nat /\ 1 <= longest /\ longest < Len(label) /\ longest <= Len(label)
        /\ attempt.best.found
    <3>1. /\ longest \in 1..Config.maxFugenelementLength /\ attempt.best.found
          /\ Len(s.text) >= longest + Config.minSegmentLength - 1
      BY <2>2
    <3>2. /\ Config.minSegmentLength \in Nat /\ Config.minSegmentLength >= 2
          /\ Config.maxFugenelementLength \in Nat
      BY DEF GermanicDictionary
    <3> HIDE DEF longest
    <3>3. longest \in Nat /\ 1 <= longest
      BY <3>1, <3>2
    <3>4. Len(label) >= longest + Config.minSegmentLength - 1
      BY <1>1, <3>1
    <3> QED BY <1>1, <3>1, <3>2, <3>3, <3>4
  <2> HIDE DEF longest
  <2>4. attempt.best.root \in Seq(Chars) /\ s.text \in Seq(letters) /\ attempt.fuge \in {-1, longest}
    BY <1>1, <2>3, AttemptFinds
  <2>5. Data(attempt.best.root) \in Datas
    BY FreqIs
  <2> HIDE DEF attempt
  <2> DEFINE d == [s EXCEPT !.root = attempt.best.root, !.fuge = attempt.fuge,
                            !.data = Data(attempt.best.root)]
  <2>6. d \in SegmentsOf(Chars) /\ d.from = from /\ d.text = label /\ d.fuge = attempt.fuge
    <3>1. attempt.fuge \in Int
      BY <2>3, <2>4
    <3>2. d \in SegmentsOf(Chars) /\ d.from = s.from /\ d.text = s.text /\ d.fuge = attempt.fuge
      BY <1>2, <2>4, <2>5, <3>1, RootFound DEF SegmentsOf
    <3> QED BY <1>1, <3>2
  <2> HIDE DEF d
  <2>8. d.fuge = -1 \/ (1 <= d.fuge /\ d.fuge < to - from)
    BY <1>1, <2>3, <2>4, <2>6
  <2>9. DetachFugenelement(s) = d
    BY <2>1 DEF d
  <2> QED BY <1>1, <2>4, <2>6, <2>8, <2>9 DEF s, label
<1> QED BY <1>3, <1>4

LEMMA WholeSegment ==
  ASSUME NEW letters, GermanicDictionary(letters), NEW Chars,
         NEW word \in Seq(Chars), NEW from \in Nat, NEW to \in Nat, from <= to, to <= Len(word)
  PROVE  LET s == NewSegment(word, from, to)
         IN  s \in SegmentsOf(Chars) /\ s.from = from /\ s.fuge = -1 /\ s.text = Part(word, from, to)
<1> DEFINE s == NewSegment(word, from, to)
<1>1. /\ Part(word, from, to) \in Seq(Chars) /\ Data(Part(word, from, to)) \in Datas
      /\ << >> \in Seq(Chars) /\ -1 \in Int
  BY PartIs, FreqIs
<1>2. s = [from |-> from, text |-> Part(word, from, to), root |-> << >>, fuge |-> -1,
           data |-> Data(Part(word, from, to))]
  BY DEF NewSegment
<1> SUFFICES s \in SegmentsOf(Chars) /\ s.from = from /\ s.fuge = -1 /\ s.text = Part(word, from, to)
  OBVIOUS
<1> HIDE DEF s
<1> QED BY <1>1, <1>2 DEF SegmentsOf

LEMMA DetachedSegment ==
  ASSUME NEW letters, GermanicDictionary(letters), NEW Chars, letters \subseteq Chars,
         NEW word \in Seq(Chars), NEW from \in Nat, NEW to \in Nat, from <= to, to <= Len(word),
         NEW isStringTail \in BOOLEAN
  PROVE  Detached(NewSegment(word, from, to), isStringTail) \in SegmentsOf(Chars)
BY WholeSegment, DetachIs DEF Detached

LEMMA SegmentFreq ==
  ASSUME NEW letters, GermanicDictionary(letters), NEW Chars, NEW s \in SegmentsOf(Chars)
  PROVE  s.data.freq \in Nat
BY DEF GermanicDictionary, SegmentsOf, Datas, Unknown

\* The part that is split off is letters.
LEMMA LastIsLetters ==
  ASSUME NEW letters, GermanicDictionary(letters), NEW Chars, letters \subseteq Chars,
         NEW word \in Seq(Chars), NEW from \in Nat, NEW to \in Nat, from <= to, to <= Len(word),
         NEW isStringTail \in BOOLEAN, NEW before, NEW after,
         \A s \in Range(before \o after) : s.data.freq \in Nat, Range(before \o after) # {} \/ before = << >>,
         ValidateFirst(Detached(NewSegment(word, from, to), isStringTail), before, after, isStringTail)
  PROVE  LET s == Detached(NewSegment(word, from, to), isStringTail)
         IN  /\ s \in SegmentsOf(Chars) /\ s.from = from /\ s.text = Part(word, from, to)
             /\ s.fuge = -1 \/ (1 <= s.fuge /\ s.fuge < to - from)
             /\ s.text \in Seq(letters)
             /\ isStringTail => s.fuge = -1
<1> DEFINE whole == NewSegment(word, from, to)
           s == Detached(whole, isStringTail)
<1>1. /\ whole.from = from /\ whole.text = Part(word, from, to) /\ whole.fuge = -1 /\ whole.root = << >>
      /\ whole.text \in Seq(Chars) /\ whole.data \in Datas /\ whole.data.freq \in Nat
      /\ whole.data.freq > Unknown.freq => whole.text \in DOMAIN Corpus
      /\ whole = [from |-> from, text |-> Part(word, from, to), root |-> << >>, fuge |-> -1,
                  data |-> Data(Part(word, from, to))]
  <2>1. IsCutOut(whole, word, from, to, Chars)
    BY CutOutOfWord
  <2> HIDE DEF whole
  <2> QED BY <2>1 DEF IsCutOut
<1>2. /\ Config.minFrequency \in Nat /\ Config.minFrequency > Unknown.freq
      /\ Config.minFrequenciesDiff \in Nat /\ Config.minFrequenciesDiff > Unknown.freq
      /\ DOMAIN Corpus \subseteq Seq(letters) /\ Unknown.freq = 1
  BY DEF GermanicDictionary, Unknown
<1>3. ASSUME s = whole PROVE s.text \in Seq(letters)
  <2>1. \/ s.data.freq >= Config.minFrequency
        \/ /\ before # << >>
           /\ \A t \in Range(before \o after) : s.data.freq >= t.data.freq + Config.minFrequenciesDiff
    BY Zenon DEF ValidateFirst
  <2>2. s.data.freq > Unknown.freq
    <3> HIDE DEF s, whole
    <3>1. s.data.freq \in Nat
      BY <1>1, <1>3
    <3>2. CASE s.data.freq >= Config.minFrequency
      BY <1>2, <3>1, <3>2
    <3>3. CASE ~(s.data.freq >= Config.minFrequency)
      <4>1. PICK t \in Range(before \o after) : s.data.freq >= t.data.freq + Config.minFrequenciesDiff
        BY <2>1, <3>3
      <4>2. t.data.freq \in Nat
        BY <4>1
      <4> QED BY <1>2, <3>1, <4>1, <4>2
    <3> QED BY <3>2, <3>3
  <2> QED BY <1>1, <1>2, <1>3, <2>2
<1>4. CASE isStringTail
  <2>1. s = whole
    BY <1>4 DEF Detached
  <2>2. s \in SegmentsOf(Chars)
    BY <2>1, WholeSegment
  <2> QED BY <1>1, <1>3, <1>4, <2>1, <2>2
<1>5. CASE ~isStringTail
  <2>1. s = DetachFugenelement(whole)
    BY <1>5 DEF Detached
  <2>2. /\ s \in SegmentsOf(Chars) /\ s.from = from /\ s.text = Part(word, from, to)
        /\ s.fuge = -1 \/ (1 <= s.fuge /\ s.fuge < to - from)
        /\ s = whole \/ s.text \in Seq(letters)
    BY <2>1, DetachIs
  <2> QED BY <1>3, <1>5, <2>2
<1> QED BY <1>4, <1>5

\* All letters of a word from a place on are letters of the dictionary.
LettersFrom(word, x, letters) == \A i \in (x + 1)..Len(word) : word[i] \in letters

\* Where a part of a reading ends: where the next begins, the last with the word.
EndOf(parts, i, word) == IF i = Len(parts) - 1 THEN Len(word) ELSE parts[i + 1].from

PartFits(parts, i, word, letters) ==
  /\ parts[i].from \in Nat /\ parts[i].fuge \in Int
  /\ EndOf(parts, i, word) \in Nat /\ EndOf(parts, i, word) <= Len(word)
  /\ parts[i].from < EndOf(parts, i, word)
  /\ parts[i].fuge > 0 =>
       /\ i < Len(parts) - 1 /\ parts[i].fuge < EndOf(parts, i, word) - parts[i].from
       /\ LettersFrom(word, EndOf(parts, i, word) - parts[i].fuge, letters)
  /\ IF i = 1 THEN parts[i].from = 0
     ELSE /\ 0 < parts[i].from /\ parts[i].from <= Len(word) - Config.minCandidateLength
          /\ LettersFrom(word, parts[i].from, letters)

\* The parts of a reading follow one another, and all but the first are letters.
PartsFit(parts, word, letters, chars) ==
  /\ parts \in Seq(SegmentsOf(chars)) /\ Len(parts) >= 2
  /\ \A i \in 1..(Len(parts) - 1) : PartFits(parts, i, word, letters)

ReadingFits(r, word, letters, chars) ==
  /\ PartsFit(r.parts, word, letters, chars)
  /\ r.wordEnd \in Nat /\ r.trailing \in Nat
  /\ r.wordEnd + r.trailing = EndOf(r.parts, 1, word)

LEMMA UnsplitFits ==
  ASSUME NEW letters, GermanicDictionary(letters), NEW Chars, letters \subseteq Chars,
         NEW word \in Seq(Chars), word # << >>
  PROVE  ReadingFits(Unsplit(word), word, letters, Chars)
<1> DEFINE whole == NewSegment(word, 0, Len(word))
           r == Unsplit(word)
<1>1. Len(word) \in Nat /\ 0 < Len(word) /\ 0 <= Len(word) /\ Len(word) <= Len(word)
  BY LenProperties
<1>2. whole \in SegmentsOf(Chars) /\ whole.from = 0 /\ whole.fuge = -1
  BY <1>1, WholeSegment
<1>3. r = [parts |-> <<whole, whole>>, wordEnd |-> Len(word), trailing |-> 0]
  BY DEF Unsplit
<1> HIDE DEF whole, r
<1>5. /\ r.parts = <<whole, whole>> /\ r.wordEnd = Len(word) /\ r.trailing = 0
      /\ Len(r.parts) = 2 /\ r.parts[1] = whole /\ r.parts \in Seq(SegmentsOf(Chars))
  BY <1>2, <1>3
<1>6. EndOf(r.parts, 1, word) = Len(word)
  BY <1>5 DEF EndOf
<1>7. PartFits(r.parts, 1, word, letters)
  BY <1>1, <1>2, <1>5, <1>6 DEF PartFits
<1>8. \A i \in 1..(Len(r.parts) - 1) : i = 1
  BY <1>5
<1> QED BY <1>1, <1>5, <1>6, <1>7, <1>8 DEF ReadingFits, PartsFit, r

LEMMA Neighbours ==
  ASSUME NEW A, NEW before, NEW after,
         before = << >> \/ \E x \in A : before = <<x>>, after = << >> \/ \E y \in A : after = <<y>>
  PROVE  /\ \A s \in Range(before \o after) : s \in A
         /\ Range(before \o after) # {} \/ before = << >>
<1>1. before \in Seq(A) /\ after \in Seq(A)
  <2>1. << >> \in Seq(A) /\ \A x \in A : <<x>> \in Seq(A)
    OBVIOUS
  <2> QED BY <2>1, Zenon
<1>2. before \o after \in Seq(A) /\ Len(before \o after) = Len(before) + Len(after)
  BY <1>1, ConcatProperties
<1>3. \A i \in DOMAIN (before \o after) : (before \o after)[i] \in A
  BY <1>2, ElementOfSeq, LenProperties
<1>4. ASSUME before # << >> PROVE 1 \in DOMAIN (before \o after)
  <2>1. Len(before) = 1 /\ Len(after) \in Nat
    BY <1>1, <1>4, LenProperties
  <2>2. DOMAIN (before \o after) = 1..Len(before \o after)
    BY <1>2, LenProperties
  <2> QED BY <1>2, <2>1, <2>2
<1> QED BY <1>3, <1>4 DEF Range

\* What is known of the two parts a reading's first part is split into.
LEMMA TwoParts ==
  ASSUME NEW letters, GermanicDictionary(letters), NEW Chars, letters \subseteq Chars,
         NEW word \in Seq(Chars), NEW r, r.wordEnd \in Nat, r.trailing \in Nat,
         r.wordEnd + r.trailing <= Len(word), NEW k \in Nat, Config.minCandidateLength <= k,
         SplitsWith(word, r, k)
  PROVE  LET last == LastPart(word, r, k)
             second == FirstPart(word, r, k)
             place == r.wordEnd - k
             end == r.wordEnd + r.trailing
         IN  /\ place \in Nat /\ 0 < place /\ place < end /\ place <= Len(word) - Config.minCandidateLength
             /\ last \in SegmentsOf(Chars) /\ last.from = place /\ last.text = Part(word, place, end)
             /\ last.fuge = -1 \/ (1 <= last.fuge /\ last.fuge < end - place /\ Len(r.parts) # 2)
             /\ last.text \in Seq(letters)
             /\ second \in SegmentsOf(Chars) /\ second.from = 0 /\ second.text = Part(word, 0, place)
             /\ second.fuge = -1 \/ (1 <= second.fuge /\ second.fuge < place)
             /\ second.fuge > 0 => second.text \in Seq(letters)
<1> DEFINE place == r.wordEnd - k
           end == r.wordEnd + r.trailing
           last == LastPart(word, r, k)
           second == FirstPart(word, r, k)
           tail == Len(r.parts) = 2
           upper == r.wordEnd - Config.minCandidateLength
           before == IF k = Config.minCandidateLength THEN << >> ELSE <<LastPart(word, r, k - 1)>>
           after == IF k < upper THEN <<NewSegment(word, r.wordEnd - (k + 1), end)>> ELSE << >>
<1>1. /\ Config.minCandidateLength \in Nat /\ 1 <= Config.minCandidateLength /\ k <= upper
      /\ ValidateFirst(last, before, after, tail)
  BY DEF SplitsWith, GermanicDictionary
<1>2. /\ place \in Nat /\ end \in Nat /\ Len(word) \in Nat /\ 0 \in Nat /\ 0 < place /\ place < end /\ place <= end
      /\ 0 <= place /\ place <= Len(word) /\ end <= Len(word) /\ place <= Len(word) - Config.minCandidateLength
  <2>1. Len(word) \in Nat
    BY LenProperties
  <2>2. ASSUME NEW m \in Nat, NEW e \in Nat, NEW w \in Nat, NEW t \in Nat,
               1 <= m, m <= k, k <= e - m, e + t <= w
        PROVE  /\ e - k \in Nat /\ 0 < e - k /\ e - k < e + t /\ e - k <= e + t /\ 0 <= e - k
               /\ e - k <= w /\ e - k <= w - m
    BY <2>2
  <2>3. k <= r.wordEnd - Config.minCandidateLength /\ r.wordEnd + r.trailing \in Nat
    BY <1>1
  <2>4. /\ place \in Nat /\ 0 < place /\ place < end /\ place <= end /\ 0 <= place
        /\ place <= Len(word) /\ place <= Len(word) - Config.minCandidateLength
    BY <1>1, <2>1, <2>2, <2>3
  <2> HIDE DEF place
  <2> QED BY <2>1, <2>3, <2>4
<1> HIDE DEF place
<1>3. tail \in BOOLEAN /\ last = Detached(NewSegment(word, place, end), tail)
  BY DEF LastPart, place
<1>4. before = << >> \/ \E x \in SegmentsOf(Chars) : before = <<x>>
  <2> SUFFICES ASSUME k # Config.minCandidateLength
               PROVE  LastPart(word, r, k - 1) \in SegmentsOf(Chars)
    OBVIOUS
  <2> DEFINE from == r.wordEnd - (k - 1)
  <2>1. from \in Nat /\ from <= end
    <3>1. ASSUME NEW w \in Nat, w - k \in Nat, NEW t \in Nat
          PROVE  w - (k - 1) \in Nat /\ (1 <= k => w - (k - 1) <= w + t)
      BY <3>1
    <3>2. r.wordEnd \in Nat /\ r.trailing \in Nat
      OBVIOUS
    <3>3. 1 <= k
      BY <1>1
    <3> QED BY <1>2, <3>1, <3>2, <3>3 DEF place
  <2> HIDE DEF from, end, tail
  <2>2. Detached(NewSegment(word, from, end), tail) \in SegmentsOf(Chars)
    BY <1>2, <1>3, <2>1, DetachedSegment
  <2> QED BY <2>2 DEF LastPart, from, end, tail
<1>5. after = << >> \/ \E y \in SegmentsOf(Chars) : after = <<y>>
  <2> SUFFICES ASSUME k < upper PROVE NewSegment(word, r.wordEnd - (k + 1), end) \in SegmentsOf(Chars)
    OBVIOUS
  <2> DEFINE from == r.wordEnd - (k + 1)
  <2>1. from \in Nat /\ from <= end
    BY <1>1, <1>2
  <2> HIDE DEF from, end
  <2>2. NewSegment(word, from, end) \in SegmentsOf(Chars)
    BY <1>2, <2>1, WholeSegment
  <2> QED BY <2>2 DEF from, end
<1> HIDE DEF before, after
<1>6. /\ \A s \in Range(before \o after) : s \in SegmentsOf(Chars)
      /\ Range(before \o after) # {} \/ before = << >>
  BY <1>4, <1>5, Neighbours
<1>7. \A s \in Range(before \o after) : s.data.freq \in Nat
  BY <1>6, SegmentFreq
<1> HIDE DEF end, last, tail
<1>8. /\ last \in SegmentsOf(Chars) /\ last.from = place /\ last.text = Part(word, place, end)
      /\ last.fuge = -1 \/ (1 <= last.fuge /\ last.fuge < end - place)
      /\ last.text \in Seq(letters)
      /\ tail => last.fuge = -1
  <2>1. ValidateFirst(Detached(NewSegment(word, place, end), tail), before, after, tail)
    BY <1>1, <1>3
  <2> QED BY <1>2, <1>3, <1>6, <1>7, <2>1, LastIsLetters
<1>9. /\ second \in SegmentsOf(Chars) /\ second.from = 0 /\ second.text = Part(word, 0, place)
      /\ second.fuge = -1 \/ (1 <= second.fuge /\ second.fuge < place - 0)
      /\ second = NewSegment(word, 0, place) \/ second.text \in Seq(letters)
  <2>1. second = DetachFugenelement(NewSegment(word, 0, place))
    BY DEF FirstPart, place
  <2> HIDE DEF second
  <2> QED BY <1>2, <2>1, DetachIs
<1>10. second.fuge > 0 => second.text \in Seq(letters)
  <2>1. NewSegment(word, 0, place).fuge = -1
    BY <1>2, WholeSegment
  <2> HIDE DEF second
  <2> QED BY <1>9, <2>1
<1>11. place - 0 = place
  BY <1>2
<1> QED BY <1>2, <1>8, <1>9, <1>10, <1>11 DEF place, end, last, tail

LEMMA PartAtPlace ==
  ASSUME NEW letters, NEW Chars, NEW word \in Seq(Chars), NEW from \in Nat, NEW to \in Nat,
         from <= to, to <= Len(word), Part(word, from, to) \in Seq(letters)
  PROVE  \A i \in (from + 1)..to : word[i] \in letters
<1>1. /\ Len(Part(word, from, to)) = to - from
      /\ \A i \in 1..(to - from) : Part(word, from, to)[i] = word[from + i]
  BY PartIs
<1>2. \A i \in 1..(to - from) : Part(word, from, to)[i] \in letters
  BY <1>1, ElementOfSeq
<1> SUFFICES ASSUME NEW i \in (from + 1)..to PROVE word[i] \in letters
  OBVIOUS
<1>3. i - from \in 1..(to - from) /\ from + (i - from) = i
  OBVIOUS
<1> QED BY <1>1, <1>2, <1>3

LEMMA TwoThenTail ==
  ASSUME NEW A, NEW x \in A, NEW y \in A, NEW s \in Seq(A), Len(s) >= 2
  PROVE  LET t == <<x, y>> \o Tail(s)
         IN  /\ t \in Seq(A) /\ Len(t) = Len(s) + 1 /\ t[1] = x /\ t[2] = y
             /\ \A i \in 3..(Len(s) + 1) : t[i] = s[i - 1]
<1>1. Tail(s) \in Seq(A) /\ Len(Tail(s)) = Len(s) - 1 /\ Len(s) \in Nat
      /\ \A i \in 1..Len(Tail(s)) : Tail(s)[i] = s[i + 1]
  BY HeadTailProperties, LenProperties, EmptySeq
<1>2. <<x, y>> \in Seq(A) /\ Len(<<x, y>>) = 2 /\ <<x, y>>[1] = x /\ <<x, y>>[2] = y
  OBVIOUS
<1> DEFINE u == Tail(s)  v == <<x, y>>
<1> HIDE DEF u, v
<1>3. /\ v \o u \in Seq(A) /\ Len(v \o u) = Len(v) + Len(u)
      /\ \A i \in 1..(Len(v) + Len(u)) : (v \o u)[i] = IF i <= Len(v) THEN v[i] ELSE u[i - Len(v)]
  BY <1>1, <1>2, ConcatProperties DEF u, v
<1>4. /\ Len(v) = 2 /\ v[1] = x /\ v[2] = y /\ Len(u) = Len(s) - 1
      /\ \A i \in 1..Len(u) : u[i] = s[i + 1]
  BY <1>1, <1>2 DEF u, v
<1>5. (v \o u)[1] = x /\ (v \o u)[2] = y
  BY <1>1, <1>3, <1>4
<1>6. ASSUME NEW i \in 3..(Len(s) + 1) PROVE (v \o u)[i] = s[i - 1]
  <2>1. i - 2 \in 1..Len(u) /\ i \in 1..(Len(v) + Len(u)) /\ ~(i <= Len(v)) /\ (i - 2) + 1 = i - 1
    BY <1>1, <1>4
  <2>2. (v \o u)[i] = u[i - 2]
    BY <1>3, <1>4, <2>1
  <2> QED BY <1>4, <2>1, <2>2
<1>7. Len(v \o u) = Len(s) + 1
  BY <1>1, <1>3, <1>4
<1> QED BY <1>3, <1>5, <1>6, <1>7 DEF u, v

LEMMA SplitFits ==
  ASSUME NEW letters, GermanicDictionary(letters), NEW Chars, letters \subseteq Chars,
         NEW word \in Seq(Chars), NEW r, ReadingFits(r, word, letters, Chars),
         NEW k \in Nat, Config.minCandidateLength <= k, SplitsWith(word, r, k)
  PROVE  ReadingFits(SplitOff(word, r, k), word, letters, Chars)
<1> DEFINE last == LastPart(word, r, k)
           second == FirstPart(word, r, k)
           place == r.wordEnd - k
           end == EndOf(r.parts, 1, word)
           fuge == IF second.fuge > 0 THEN second.fuge ELSE 0
           parts == <<second, last>> \o Tail(r.parts)
           n == Len(r.parts)
           q == SplitOff(word, r, k)
<1>1. /\ r.parts \in Seq(SegmentsOf(Chars)) /\ n \in Nat /\ n >= 2 /\ Len(word) \in Nat
      /\ r.wordEnd \in Nat /\ r.trailing \in Nat /\ r.wordEnd + r.trailing = end
      /\ end \in Nat /\ end <= Len(word)
      /\ \A i \in 1..(n - 1) : PartFits(r.parts, i, word, letters)
  <2>1. n \in Nat /\ n >= 2 /\ \A i \in 1..(n - 1) : PartFits(r.parts, i, word, letters)
    BY LenProperties DEF ReadingFits, PartsFit
  <2>2. PartFits(r.parts, 1, word, letters)
    BY <2>1
  <2> QED BY <2>1, <2>2, LenProperties DEF ReadingFits, PartsFit, PartFits
<1>0. end = IF n = 2 THEN Len(word) ELSE r.parts[2].from
  BY <1>1 DEF EndOf
<1> HIDE DEF end
<1>2. /\ place \in Nat /\ 0 < place /\ place < end /\ place <= Len(word) - Config.minCandidateLength
      /\ last \in SegmentsOf(Chars) /\ last.from = place /\ last.text = Part(word, place, end)
      /\ last.fuge = -1 \/ (1 <= last.fuge /\ last.fuge < end - place /\ n # 2)
      /\ last.text \in Seq(letters)
      /\ second \in SegmentsOf(Chars) /\ second.from = 0 /\ second.text = Part(word, 0, place)
      /\ second.fuge = -1 \/ (1 <= second.fuge /\ second.fuge < place)
      /\ second.fuge > 0 => second.text \in Seq(letters)
  BY <1>1, TwoParts
<1>3. q = [parts |-> parts, wordEnd |-> place - fuge, trailing |-> fuge]
  BY DEF SplitOff
<1> HIDE DEF last, second, place, parts, n, q
<1>4. /\ parts \in Seq(SegmentsOf(Chars)) /\ Len(parts) = n + 1 /\ parts[1] = second /\ parts[2] = last
      /\ \A i \in 3..(n + 1) : parts[i] = r.parts[i - 1]
  BY <1>1, <1>2, TwoThenTail DEF parts, n
<1>5. EndOf(parts, 1, word) = place
  BY <1>1, <1>2, <1>4 DEF EndOf
<1>6. EndOf(parts, 2, word) = end
  <2>1. n # 2 => parts[3] = r.parts[2]
    BY <1>1, <1>4
  <2>2. 2 = Len(parts) - 1 <=> n = 2
    BY <1>1, <1>4
  <2> QED BY <1>0, <2>1, <2>2 DEF EndOf
<1>7. ASSUME NEW i \in 3..n PROVE EndOf(parts, i, word) = EndOf(r.parts, i - 1, word)
  <2>1. (i = Len(parts) - 1 <=> i - 1 = Len(r.parts) - 1) /\ (i - 1) + 1 = i
    BY <1>1, <1>4 DEF n
  <2>2. parts[i + 1] = r.parts[i]
    <3>1. i + 1 \in 3..(n + 1) /\ (i + 1) - 1 = i
      BY <1>1
    <3> QED BY <1>4, <3>1
  <2> QED BY <2>1, <2>2 DEF EndOf
<1>8. LettersFrom(word, end, letters)
  <2>1. CASE n = 2
    BY <1>0, <1>1, <2>1 DEF LettersFrom
  <2>2. CASE n # 2
    <3>1. 2 \in 1..(n - 1) /\ end = r.parts[2].from
      BY <1>0, <1>1, <2>2
    <3> QED BY <1>1, <3>1 DEF PartFits
  <2> QED BY <2>1, <2>2
<1>9. LettersFrom(word, place, letters)
  <2>1. \A i \in (place + 1)..end : word[i] \in letters
    BY <1>1, <1>2, PartAtPlace
  <2> QED BY <1>1, <1>2, <1>8, <2>1 DEF LettersFrom
<1>10. /\ second.from \in Int /\ second.fuge \in Int /\ last.from \in Int /\ last.fuge \in Int
       /\ Config.minCandidateLength \in Nat
  BY <1>2 DEF SegmentsOf, GermanicDictionary
<1>11. PartFits(parts, 1, word, letters)
  <2>1. ASSUME second.fuge > 0 PROVE LettersFrom(word, place - second.fuge, letters)
    <3>1. \A i \in (0 + 1)..place : word[i] \in letters
      <4>1. place <= Len(word) /\ 0 <= place /\ 0 \in Nat
        BY <1>1, <1>2
      <4>2. Part(word, 0, place) \in Seq(letters) /\ place \in Nat
        BY <1>2, <2>1
      <4> HIDE DEF place
      <4> QED BY <4>1, <4>2, PartAtPlace
    <3>2. \A i \in (place + 1)..Len(word) : word[i] \in letters
      BY <1>9 DEF LettersFrom
    <3>3. \A i \in ((place - second.fuge) + 1)..Len(word) : i \in (0 + 1)..place \/ i \in (place + 1)..Len(word)
      <4>1. /\ place \in Int /\ second.fuge \in Int /\ second.fuge < place /\ Len(word) \in Int
        BY <1>1, <1>2, <1>10, <2>1
      <4> QED BY <4>1
    <3> QED BY <3>1, <3>2, <3>3 DEF LettersFrom
  <2>2. 1 < Len(parts) - 1 /\ place <= Len(word)
    BY <1>1, <1>2, <1>4
  <2>3. second.fuge > 0 => second.fuge < place - 0
    BY <1>2, <1>10
  <2> QED BY <1>2, <1>4, <1>5, <1>10, <2>1, <2>2, <2>3 DEF PartFits
<1>12. PartFits(parts, 2, word, letters)
  <2>1. ASSUME last.fuge > 0 PROVE /\ 2 < Len(parts) - 1 /\ last.fuge < end - place
                                   /\ LettersFrom(word, end - last.fuge, letters)
    <3>1. n # 2 /\ last.fuge < end - place
      BY <1>2, <1>10, <2>1
    <3>2. LettersFrom(word, end - last.fuge, letters)
      BY <1>1, <1>2, <1>9, <1>10, <3>1 DEF LettersFrom
    <3> QED BY <1>1, <1>4, <3>1, <3>2
  <2> QED BY <1>1, <1>2, <1>4, <1>6, <1>9, <1>10, <2>1 DEF PartFits
<1>13. ASSUME NEW i \in 3..n PROVE PartFits(parts, i, word, letters)
  <2> DEFINE j == i - 1
  <2>1. /\ j \in 1..(n - 1) /\ j # 1 /\ i # 1 /\ parts[i] = r.parts[j]
        /\ EndOf(parts, i, word) = EndOf(r.parts, j, word)
        /\ (j < n - 1 <=> i < Len(parts) - 1)
    <3>1. j \in 1..(n - 1) /\ j # 1 /\ i # 1 /\ i \in 3..(n + 1)
      BY <1>1
    <3>2. j < n - 1 <=> i < Len(parts) - 1
      BY <1>1, <1>4
    <3>3. parts[i] = r.parts[j]
      BY <1>4, <3>1
    <3>4. EndOf(parts, i, word) = EndOf(r.parts, j, word)
      BY <1>7
    <3> QED BY <3>1, <3>2, <3>3, <3>4
  <2> HIDE DEF j
  <2>2. PartFits(r.parts, j, word, letters)
    BY <1>1, <2>1
  <2> QED BY <2>1, <2>2 DEF PartFits, n
<1>14. \A i \in 1..(Len(parts) - 1) : PartFits(parts, i, word, letters)
  <2>1. \A i \in 1..(Len(parts) - 1) : i = 1 \/ i = 2 \/ i \in 3..n
    BY <1>1, <1>4
  <2> QED BY <1>11, <1>12, <1>13, <2>1
<1>15. /\ q.parts = parts /\ q.wordEnd = place - fuge /\ q.trailing = fuge
       /\ fuge \in Nat /\ place - fuge \in Nat /\ (place - fuge) + fuge = place /\ Len(parts) >= 2
  <2>1. fuge \in Nat /\ place - fuge \in Nat /\ (place - fuge) + fuge = place
    BY <1>2, <1>10
  <2>2. Len(parts) >= 2
    BY <1>1, <1>4
  <2> HIDE DEF fuge
  <2> QED BY <1>3, <2>1, <2>2
<1> QED BY <1>4, <1>5, <1>14, <1>15 DEF ReadingFits, PartsFit, q

LEMMA AnalyzeFits ==
  ASSUME NEW letters, GermanicDictionary(letters), NEW Chars, letters \subseteq Chars,
         NEW word \in Seq(Chars), word # << >>
  PROVE  \A m \in 0..Config.maxDepth : \A r \in Analyze(word)[m] : ReadingFits(r, word, letters, Chars)
<1> DEFINE n == Config.maxDepth
           Fitting == {r \in [parts : Seq(SegmentsOf(Chars)), wordEnd : Nat, trailing : Nat] :
                         ReadingFits(r, word, letters, Chars)}
           A == SUBSET Fitting
           a == {Unsplit(word)}
           Body(x) == UNION {ReadingsWith(word, reading) : reading \in x}
           step == [i \in 1..n |-> [x \in A |-> Body(x)]]
           calls[i \in 0..Config.maxDepth] ==
             IF i = 0 THEN {Unsplit(word)}
             ELSE UNION {ReadingsWith(word, reading) : reading \in calls[i - 1]}
           U(g) == [i \in 0..n |-> IF i = 0 THEN a ELSE Body(g[i - 1])]
<1>1. n \in Nat /\ Config.minCandidateLength \in Nat
  BY DEF GermanicDictionary
<1>2. a \in A
  <2>1. ReadingFits(Unsplit(word), word, letters, Chars)
    BY UnsplitFits
  <2>2. Unsplit(word) = [parts |-> Unsplit(word).parts, wordEnd |-> Unsplit(word).wordEnd,
                         trailing |-> Unsplit(word).trailing]
    BY DEF Unsplit
  <2> DEFINE r == Unsplit(word)
  <2> HIDE DEF r
  <2>3. r \in Fitting
    BY <2>1, <2>2 DEF ReadingFits, PartsFit, r
  <2> QED BY <2>3 DEF r
<1>3. ASSUME NEW x \in A PROVE Body(x) \in A
  <2> SUFFICES ASSUME NEW reading \in x, NEW q \in ReadingsWith(word, reading) PROVE q \in Fitting
    OBVIOUS
  <2>1. PICK k \in Config.minCandidateLength..reading.wordEnd :
           SplitsWith(word, reading, k) /\ q = SplitOff(word, reading, k)
    BY DEF ReadingsWith
  <2>2. ReadingFits(reading, word, letters, Chars) /\ reading.wordEnd \in Nat
    BY DEF ReadingFits
  <2>3. k \in Nat /\ Config.minCandidateLength <= k
    BY <1>1, <2>1, <2>2
  <2>4. ReadingFits(q, word, letters, Chars)
    BY <2>1, <2>2, <2>3, SplitFits
  <2>5. q = [parts |-> q.parts, wordEnd |-> q.wordEnd, trailing |-> q.trailing]
    BY <2>1 DEF SplitOff
  <2> QED BY <2>4, <2>5 DEF ReadingFits, PartsFit
<1> HIDE DEF A, a, Body
<1>4. step \in [1..n -> [A -> A]]
  BY <1>3
<1>5. PICK f \in [0..n -> A] : Recursion(f, n, a, step)
  <2> HIDE DEF step, n, calls, U
  <2> QED BY <1>1, <1>2, <1>4, RecursionExists, Zenon
<1>6. f = U(f)
  <2>1. \A i \in 0..n : i # 0 => i \in 1..n /\ i - 1 \in 0..n
    BY <1>1
  <2> HIDE DEF n
  <2>2. \A i \in 0..n : i # 0 => step[i][f[i - 1]] = Body(f[i - 1])
    BY <1>5, <2>1
  <2> QED BY <1>5, <2>2 DEF Recursion
<1>7. calls = U(calls)
  <2>1. calls = CHOOSE g : g = U(g)
    BY Zenon DEF Body, a
  <2> HIDE DEF calls, U
  <2> QED BY <1>6, <2>1, Zenon
<1>8. Analyze(word) = calls
  BY Zenon DEF Analyze
<1> HIDE DEF calls
<1>9. calls[0] = a /\ \A i \in 1..n : calls[i] = Body(calls[i - 1])
  <2>1. \A i \in 0..n : calls[i] = IF i = 0 THEN a ELSE Body(calls[i - 1])
    BY <1>7, Zenon
  <2>2. 0 \in 0..n /\ \A i \in 1..n : i \in 0..n /\ i # 0
    BY <1>1
  <2> QED BY <2>1, <2>2, Zenon
<1>10. \A i \in 0..n : calls[i] \in A
  <2>1. calls[0] \in A /\ \A i \in 1..n : calls[i - 1] \in A => calls[i] \in A
    BY <1>2, <1>3, <1>9
  <2> HIDE DEF n
  <2> QED BY <1>1, <2>1, Stays
<1> QED BY <1>8, <1>10 DEF A

\* A place that goes on a rising sequence.
LEMMA RisesOn ==
  ASSUME NEW N, N \subseteq Int, NEW p \in Seq(N), Rises(p), NEW x \in N,
         \A i \in DOMAIN p : p[i] < x
  PROVE  /\ Append(p, x) \in Seq(N) /\ Rises(Append(p, x))
         /\ \A i \in DOMAIN Append(p, x) : Append(p, x)[i] <= x
<1>1. /\ Append(p, x) \in Seq(N) /\ Len(Append(p, x)) = Len(p) + 1 /\ Len(p) \in Nat
      /\ \A i \in 1..Len(p) : Append(p, x)[i] = p[i]
      /\ Append(p, x)[Len(p) + 1] = x /\ DOMAIN p = 1..Len(p)
  BY AppendProperties, LenProperties
<1>2. DOMAIN Append(p, x) = 1..(Len(p) + 1)
  BY <1>1, LenProperties
<1>3. \A i \in 1..Len(p) : p[i] \in Int
  BY <1>1, ElementOfSeq
<1> DEFINE q == Append(p, x)
<1> HIDE DEF q
<1>4. /\ \A i \in 1..Len(p) : q[i] = p[i] /\ q[i] < x
      /\ q[Len(p) + 1] = x /\ DOMAIN q = 1..(Len(p) + 1)
  BY <1>1, <1>2 DEF q
<1>5. Rises(q)
  <2> SUFFICES ASSUME NEW i \in 1..(Len(p) + 1), NEW j \in 1..(Len(p) + 1), i < j PROVE q[i] < q[j]
    BY <1>4 DEF Rises
  <2>1. CASE j = Len(p) + 1
    <3>1. i \in 1..Len(p)
      BY <1>1, <2>1
    <3> QED BY <1>4, <2>1, <3>1
  <2>2. CASE j # Len(p) + 1
    <3>1. i \in 1..Len(p) /\ j \in 1..Len(p)
      BY <1>1, <2>2
    <3> QED BY <1>1, <1>4, <3>1 DEF Rises
  <2> QED BY <2>1, <2>2
<1>6. \A i \in DOMAIN q : q[i] <= x
  <2> SUFFICES ASSUME NEW i \in 1..(Len(p) + 1) PROVE q[i] <= x
    BY <1>4
  <2>1. CASE i = Len(p) + 1
    BY <1>4, <2>1
  <2>2. CASE i # Len(p) + 1
    <3>1. i \in 1..Len(p)
      BY <1>1, <2>2
    <3>2. q[i] < x /\ q[i] \in Int
      BY <1>3, <1>4, <3>1
    <3> QED BY <3>2
  <2> QED BY <2>1, <2>2
<1> QED BY <1>1, <1>5, <1>6 DEF q

\* Where the boundaries of a compound may be.
Spots(word, letters) ==
  {x \in 1..(Len(word) - Config.minCandidateLength) : LettersFrom(word, x, letters)}

LEMMA OffsetsGoOn ==
  ASSUME NEW N, N \subseteq Int, NEW p \in Seq(N), Rises(p), NEW part, NEW next, NEW limit \in Int,
         part.from \in Int, part.fuge \in Int, next.from \in Int, part.from < limit,
         part.from = 0 => p = << >>,
         part.from # 0 => part.from \in N /\ \A i \in DOMAIN p : p[i] < part.from,
         part.fuge > 0 => /\ next.from - part.fuge \in N
                          /\ part.from < next.from - part.fuge /\ next.from - part.fuge < limit
  PROVE  LET q == p \o OffsetsOf(part, next)
         IN  q \in Seq(N) /\ Rises(q) /\ \A i \in DOMAIN q : q[i] < limit
<1> DEFINE x == part.from
           y == next.from - part.fuge
           s == IF x # 0 THEN <<x>> ELSE << >>
           t == IF part.fuge > 0 THEN <<y>> ELSE << >>
           q1 == IF x # 0 THEN Append(p, x) ELSE p
           q == IF part.fuge > 0 THEN Append(q1, y) ELSE q1
<1>1. x \in Int /\ y \in Int /\ x < limit
  OBVIOUS
<1>2. /\ p \in Seq(Int) /\ s \in Seq(Int) /\ t \in Seq(Int)
      /\ DOMAIN p = 1..Len(p) /\ Len(p) \in Nat /\ \A i \in 1..Len(p) : p[i] \in Int
  <2>1. \A i \in 1..Len(p) : p[i] \in N
    BY ElementOfSeq
  <2>2. Len(p) \in Nat /\ DOMAIN p = 1..Len(p) /\ \A i \in 1..Len(p) : p[i] \in Int
    BY <2>1, LenProperties
  <2>3. Seq(N) \subseteq Seq(Int)
    BY WiderSeq
  <2>4. s \in Seq(Int) /\ t \in Seq(Int)
    <3>1. <<x>> \in Seq(Int) /\ <<y>> \in Seq(Int) /\ << >> \in Seq(Int)
      BY <1>1
    <3> HIDE DEF x, y
    <3> QED BY <3>1
  <2> HIDE DEF s, t
  <2> QED BY <2>2, <2>3, <2>4
<1>3. p \o OffsetsOf(part, next) = (p \o s) \o t
  <2>1. OffsetsOf(part, next) = s \o t
    BY Zenon DEF OffsetsOf
  <2> HIDE DEF s, t
  <2>2. PICK Z : p \in Seq(Z) /\ s \in Seq(Z) /\ t \in Seq(Z)
    BY <1>2
  <2>3. (p \o s) \o t = p \o (s \o t)
    BY <2>2, ConcatAssociative, SMTT(40)
  <2> QED BY <2>1, <2>3
<1>4. p \o s = q1
  <2>1. p \o <<x>> = Append(p, x) /\ p \o << >> = p
    BY <1>1, <1>2
  <2> QED BY <2>1
<1>5. q1 \in Seq(N) /\ Rises(q1) /\ \A i \in DOMAIN q1 : q1[i] <= x
  <2>1. CASE x # 0
    <3>1. Append(p, x) \in Seq(N) /\ Rises(Append(p, x)) /\ \A i \in DOMAIN Append(p, x) : Append(p, x)[i] <= x
      <4>1. x \in N /\ \A i \in DOMAIN p : p[i] < x
        BY <2>1
      <4> HIDE DEF x
      <4> QED BY <4>1, RisesOn
    <3> QED BY <2>1, <3>1
  <2>2. CASE x = 0
    <3>1. DOMAIN p = {}
      BY <2>2
    <3> QED BY <2>2, <3>1
  <2> QED BY <2>1, <2>2
<1>6. q1 \in Seq(Int) /\ q1 \o t = q /\ \A i \in DOMAIN q1 : q1[i] \in Int
  <2>1. \A i \in DOMAIN q1 : q1[i] \in Int
    <3> HIDE DEF q1
    <3> QED BY <1>5, ElementOfSeq, LenProperties
  <2>2. q1 \in Seq(Int)
    <3> HIDE DEF q1
    <3>1. Seq(N) \subseteq Seq(Int)
      BY WiderSeq
    <3> QED BY <1>5, <3>1, Zenon
  <2> HIDE DEF q1, y
  <2>3. q1 \o <<y>> = Append(q1, y) /\ q1 \o << >> = q1
    BY <1>1, <2>2
  <2> QED BY <2>1, <2>2, <2>3
<1> HIDE DEF q1
<1>7. q \in Seq(N) /\ Rises(q) /\ \A i \in DOMAIN q : q[i] < limit
  <2>1. CASE part.fuge > 0
    <3>1. y \in N /\ x < y /\ y < limit
      BY <2>1
    <3> HIDE DEF x, y
    <3>2. \A i \in DOMAIN q1 : q1[i] < y
      BY <1>1, <1>5, <1>6, <3>1
    <3>3. /\ Append(q1, y) \in Seq(N) /\ Rises(Append(q1, y))
          /\ \A i \in DOMAIN Append(q1, y) : Append(q1, y)[i] <= y
      BY <1>5, <3>1, <3>2, RisesOn
    <3>4. q = Append(q1, y)
      BY <2>1
    <3> HIDE DEF q
    <3>5. \A i \in DOMAIN q : q[i] \in N
      BY <3>3, <3>4, ElementOfSeq, LenProperties
    <3>6. \A i \in DOMAIN q : q[i] <= y /\ q[i] \in Int
      BY <3>3, <3>4, <3>5
    <3>7. \A i \in DOMAIN q : q[i] < limit
      BY <1>1, <3>1, <3>6
    <3> QED BY <3>3, <3>4, <3>7
  <2>2. CASE ~(part.fuge > 0)
    <3>1. q = q1
      BY <2>2
    <3> HIDE DEF x, q
    <3>2. \A i \in DOMAIN q : q[i] < limit
      BY <1>1, <1>5, <1>6, <3>1
    <3> QED BY <1>5, <3>1, <3>2
  <2> QED BY <2>1, <2>2
<1>8. q = p \o OffsetsOf(part, next)
  BY <1>3, <1>4, <1>6
<1> QED BY <1>7, <1>8

\* What getBestOffsets makes of the parts of a reading rises, and is where
\* letters of the dictionary go on to the end of the word.
LEMMA OffsetsRise ==
  ASSUME NEW letters, GermanicDictionary(letters), NEW Chars, NEW word \in Seq(Chars),
         NEW parts, PartsFit(parts, word, letters, Chars)
  PROVE  Offsets(parts) \in Seq(Spots(word, letters)) /\ Rises(Offsets(parts))
<1> DEFINE n == Len(parts)
           N == Spots(word, letters)
           A == Seq(Int)
           Body(i, p) == IF i = Len(parts) THEN p ELSE p \o OffsetsOf(parts[i], parts[i + 1])
           step == [i \in 1..n |-> [p \in A |-> Body(i, p)]]
           upTo[i \in 0..Len(parts)] ==
             IF i = 0 THEN << >>
             ELSE IF i = Len(parts) THEN upTo[i - 1]
             ELSE upTo[i - 1] \o OffsetsOf(parts[i], parts[i + 1])
           U(g) == [i \in 0..n |-> IF i = 0 THEN << >> ELSE Body(i, g[i - 1])]
<1>1. /\ n \in Nat /\ n >= 2 /\ Len(word) \in Nat /\ N \subseteq Int /\ Config.minCandidateLength \in Nat
      /\ \A i \in 1..n : parts[i].from \in Int /\ parts[i].fuge \in Int
      /\ \A i \in 1..(n - 1) : PartFits(parts, i, word, letters)
  <2>1. \A i \in 1..n : parts[i].from \in Int /\ parts[i].fuge \in Int
    <3>1. \A i \in 1..n : parts[i] \in SegmentsOf(Chars)
      BY ElementOfSeq DEF PartsFit
    <3> QED BY <3>1 DEF SegmentsOf
  <2>2. N \subseteq Int
    BY DEF Spots
  <2> QED BY <2>1, <2>2, LenProperties DEF PartsFit, GermanicDictionary
<1> HIDE DEF N
<1>2. ASSUME NEW i \in 1..n, NEW p \in A PROVE Body(i, p) \in A
  <2>1. CASE i = Len(parts)
    BY <2>1
  <2>2. CASE i # Len(parts)
    <3>1. i \in 1..(n - 1) /\ i + 1 \in 1..n
      BY <1>1, <2>2
    <3> DEFINE x == parts[i].from  y == parts[i + 1].from - parts[i].fuge
               s == IF x # 0 THEN <<x>> ELSE << >>
               t == IF parts[i].fuge > 0 THEN <<y>> ELSE << >>
    <3>2. x \in Int /\ y \in Int
      BY <1>1, <3>1
    <3>3. OffsetsOf(parts[i], parts[i + 1]) = s \o t
      BY Zenon DEF OffsetsOf
    <3> HIDE DEF x, y
    <3>4. s \in Seq(Int) /\ t \in Seq(Int)
      <4>1. <<x>> \in Seq(Int) /\ <<y>> \in Seq(Int) /\ << >> \in Seq(Int)
        BY <3>2
      <4> QED BY <4>1
    <3> HIDE DEF s, t
    <3>5. s \o t \in Seq(Int)
      BY <3>4, ConcatProperties
    <3>6. p \o (s \o t) \in Seq(Int)
      BY <3>5, ConcatProperties
    <3> QED BY <2>2, <3>3, <3>6
  <2> QED BY <2>1, <2>2
<1>3. << >> \in A
  OBVIOUS
<1> HIDE DEF A, Body
<1>4. step \in [1..n -> [A -> A]]
  BY <1>2
<1>5. PICK f \in [0..n -> A] : Recursion(f, n, << >>, step)
  <2> HIDE DEF step, n, upTo, U
  <2> QED BY <1>1, <1>3, <1>4, RecursionExists, Zenon
<1>6. f = U(f)
  <2>1. \A i \in 0..n : i # 0 => i \in 1..n /\ i - 1 \in 0..n
    BY <1>1
  <2> HIDE DEF n
  <2>2. \A i \in 0..n : i # 0 => step[i][f[i - 1]] = Body(i, f[i - 1])
    BY <1>5, <2>1
  <2> QED BY <1>5, <2>2 DEF Recursion
<1>7. upTo = U(upTo)
  <2>1. upTo = CHOOSE g : g = U(g)
    BY Zenon DEF Body
  <2> HIDE DEF upTo, U
  <2> QED BY <1>6, <2>1, Zenon
<1>8. Offsets(parts) = upTo[n]
  BY Zenon DEF Offsets
<1> HIDE DEF upTo
<1>9. upTo[0] = << >> /\ \A i \in 1..n : upTo[i] = Body(i, upTo[i - 1])
  <2>1. \A i \in 0..n : upTo[i] = IF i = 0 THEN << >> ELSE Body(i, upTo[i - 1])
    BY <1>7, Zenon
  <2>2. 0 \in 0..n /\ \A i \in 1..n : i \in 0..n /\ i # 0
    BY <1>1
  <2> QED BY <2>1, <2>2, Zenon
<1> DEFINE Up(k) == /\ upTo[k] \in Seq(N) /\ Rises(upTo[k])
                    /\ IF k = 0 THEN upTo[k] = << >>
                       ELSE \A j \in DOMAIN upTo[k] : upTo[k][j] < EndOf(parts, k, word)
           S == {k \in Nat : k <= n - 1 => Up(k)}
<1>10. 0 \in S
  <2>1. << >> \in Seq(N) /\ Rises(<< >>)
    BY DEF Rises
  <2> QED BY <1>9, <2>1
<1>11. ASSUME NEW k \in Nat, k \in S PROVE k + 1 \in S
  <2> SUFFICES ASSUME k + 1 <= n - 1 PROVE Up(k + 1)
    OBVIOUS
  <2> DEFINE i == k + 1  p == upTo[k]  part == parts[i]  next == parts[i + 1]  limit == EndOf(parts, i, word)
  <2>1. i \in 1..(n - 1) /\ i \in 1..n /\ i + 1 \in 1..n /\ i - 1 = k /\ i # n /\ i # 0 /\ Up(k)
    BY <1>1, <1>11
  <2>2. upTo[i] = p \o OffsetsOf(part, next)
    <3>1. upTo[i] = Body(i, upTo[i - 1])
      BY <1>9, <2>1
    <3> HIDE DEF i
    <3> QED BY <2>1, <3>1 DEF Body
  <2>3. PartFits(parts, i, word, letters)
    BY <1>1, <2>1
  <2>4. /\ part.from \in Int /\ part.fuge \in Int /\ next.from \in Int /\ limit \in Int /\ part.from < limit
    <3>1. limit \in Nat /\ part.from < limit
      <4> HIDE DEF i
      <4> QED BY <2>3 DEF PartFits
    <3> HIDE DEF limit
    <3> QED BY <1>1, <2>1, <3>1
  <2>5. part.from = 0 => p = << >>
    <3>1. ASSUME k # 0 PROVE part.from # 0
      <4>1. i # 1
        BY <3>1
      <4>2. 0 < part.from
        <5> HIDE DEF i
        <5> QED BY <2>3, <4>1 DEF PartFits
      <4> QED BY <4>2
    <3> QED BY <2>1, <3>1
  <2>6. part.from # 0 => part.from \in N /\ \A j \in DOMAIN p : p[j] < part.from
    <3> SUFFICES ASSUME part.from # 0 PROVE part.from \in N /\ \A j \in DOMAIN p : p[j] < part.from
      OBVIOUS
    <3>1. i # 1
      <4> HIDE DEF i
      <4> QED BY <2>3 DEF PartFits
    <3>2. /\ 0 < part.from /\ part.from <= Len(word) - Config.minCandidateLength
          /\ LettersFrom(word, part.from, letters)
      <4> HIDE DEF i
      <4> QED BY <2>3, <3>1 DEF PartFits
    <3>3. part.from \in N
      <4> HIDE DEF part
      <4> QED BY <1>1, <2>4, <3>2 DEF N, Spots
    <3>4. EndOf(parts, k, word) = part.from /\ k # 0
      BY <1>1, <2>1, <3>1 DEF EndOf
    <3> QED BY <2>1, <3>3, <3>4
  <2>7. part.fuge > 0 => /\ next.from - part.fuge \in N
                         /\ part.from < next.from - part.fuge /\ next.from - part.fuge < limit
    <3> SUFFICES ASSUME part.fuge > 0
                 PROVE  /\ next.from - part.fuge \in N
                        /\ part.from < next.from - part.fuge /\ next.from - part.fuge < limit
      OBVIOUS
    <3>1. /\ i < n - 1 /\ part.fuge < limit - part.from /\ LettersFrom(word, limit - part.fuge, letters)
          /\ 0 <= part.from
      <4> HIDE DEF i
      <4>1. part.from \in Nat
        BY <2>3 DEF PartFits
      <4> QED BY <2>3, <4>1 DEF PartFits
    <3>2. limit = next.from
      <4>1. i # n - 1
        BY <1>1, <3>1
      <4> HIDE DEF i
      <4> QED BY <4>1 DEF EndOf
    <3>3. next.from <= Len(word) - Config.minCandidateLength
      <4> DEFINE h == i + 1
      <4>1. h \in 1..(n - 1) /\ h # 1
        BY <1>1, <2>1, <3>1
      <4>2. PartFits(parts, h, word, letters)
        <5> HIDE DEF h
        <5> QED BY <1>1, <4>1
      <4> HIDE DEF i
      <4>3. parts[h].from <= Len(word) - Config.minCandidateLength
        <5> HIDE DEF h
        <5> QED BY <4>1, <4>2 DEF PartFits
      <4> QED BY <4>3
    <3> HIDE DEF part, next, limit
    <3>4. ASSUME NEW x \in Int, NEW y \in Int, NEW z \in Int, NEW m \in Int,
                 y > 0, y < z - x, 0 <= x, z <= m
          PROVE  z - y \in 1..m /\ x < z - y /\ z - y < z
      BY <3>4
    <3>5. /\ part.fuge > 0 /\ part.fuge < next.from - part.from /\ 0 <= part.from
          /\ Len(word) - Config.minCandidateLength \in Int
      BY <1>1, <3>1, <3>2
    <3>6. /\ next.from - part.fuge \in 1..(Len(word) - Config.minCandidateLength)
          /\ part.from < next.from - part.fuge /\ next.from - part.fuge < next.from
      BY <2>4, <3>3, <3>4, <3>5
    <3> QED BY <3>1, <3>2, <3>6 DEF N, Spots
  <2>8. p \in Seq(N) /\ Rises(p)
    BY <2>1
  <2> DEFINE q == p \o OffsetsOf(part, next)
  <2>9. q \in Seq(N) /\ Rises(q) /\ \A j \in DOMAIN q : q[j] < limit
    <3> HIDE DEF part, next, limit, p
    <3> QED BY <1>1, <2>4, <2>5, <2>6, <2>7, <2>8, OffsetsGoOn
  <2> HIDE DEF p, part, next
  <2> QED BY <2>1, <2>2, <2>9
<1> HIDE DEF S
<1>12. Nat \subseteq S
  BY <1>10, <1>11, SetInduction
<1>13. Up(n - 1)
  <2>1. n - 1 \in Nat /\ n - 1 <= n - 1
    BY <1>1
  <2> QED BY <1>12, <2>1 DEF S
<1>14. upTo[n] = upTo[n - 1]
  <2>1. n \in 1..n
    BY <1>1
  <2> QED BY <1>9, <2>1 DEF Body
<1> QED BY <1>8, <1>13, <1>14 DEF N

\* There are no more numbers that rise than there are to choose from.
LEMMA RisingIsShort ==
  ASSUME NEW m \in Nat, NEW p \in Seq(1..m), Rises(p)
  PROVE  Len(p) <= m
<1> DEFINE S == {k \in Nat : \A i \in DOMAIN p : i = k + 1 => p[i] >= i}
<1>1. Len(p) \in Nat /\ DOMAIN p = 1..Len(p) /\ \A i \in 1..Len(p) : p[i] \in 1..m
  BY LenProperties, ElementOfSeq
<1>2. 0 \in S
  BY <1>1
<1>3. ASSUME NEW k \in Nat, k \in S PROVE k + 1 \in S
  <2> SUFFICES ASSUME NEW i \in DOMAIN p, i = (k + 1) + 1 PROVE p[i] >= i
    OBVIOUS
  <2> DEFINE j == k + 1
  <2>1. j \in 1..Len(p) /\ i \in 1..Len(p) /\ j < i /\ i = j + 1
    BY <1>1
  <2>2. p[j] >= j
    BY <1>1, <1>3, <2>1
  <2>3. p[j] < p[i]
    BY <1>1, <2>1 DEF Rises
  <2>4. p[i] \in Int /\ p[j] \in Int
    BY <1>1, <2>1
  <2> HIDE DEF j
  <2> QED BY <2>1, <2>2, <2>3, <2>4
<1> HIDE DEF S
<1>4. Nat \subseteq S
  BY <1>2, <1>3, SetInduction
<1>5. CASE Len(p) = 0
  BY <1>5
<1>6. CASE Len(p) # 0
  <2>1. Len(p) - 1 \in Nat /\ Len(p) \in 1..Len(p) /\ Len(p) = (Len(p) - 1) + 1
    BY <1>1, <1>6
  <2>2. p[Len(p)] >= Len(p)
    BY <1>1, <1>4, <2>1 DEF S
  <2>3. p[Len(p)] \in 1..m
    BY <1>1, <2>1
  <2> QED BY <1>1, <2>2, <2>3
<1> QED BY <1>5, <1>6

-----------------------------------------------------------------------------
(* Semitic compounds *)

\* How far a walk goes exists, and one word is left behind it.
LEMMA WalkIs ==
  ASSUME NEW letters, NEW Chars, NEW affixes, NEW word \in Seq(Chars), NEW place \in Nat, NEW room \in Nat,
         room > MINIMUM_WORD_LENGTH, affixes \subseteq Seq(letters), place + room <= Len(word)
  PROVE  LET walk == Walk(affixes, word, place, room)
         IN  /\ walk.letters \in 0..(room - 2)
             /\ walk.affix => walk.letters > 0 /\ Part(word, place, place + walk.letters) \in Seq(letters)
<1> DEFINE most == room - MINIMUM_WORD_LENGTH
           On(n) == OnPath(affixes, word, place, n)
           Good(n) == On(n) /\ (n < most => ~On(n + 1))
           far == CHOOSE n \in 0..most : Good(n)
           N == {n \in 0..most : \A j \in 0..n : On(j)}
<1>1. most \in Nat /\ most = room - 2
  BY DEF MINIMUM_WORD_LENGTH
<1>2. PICK m \in N : \A k \in N : k <= m
  <2>1. 0 \in N
    <3>1. \A j \in 0..0 : j = 0
      OBVIOUS
    <3> QED BY <1>1, <3>1 DEF OnPath
  <2>2. N \subseteq 0..most
    OBVIOUS
  <2> HIDE DEF N, most
  <2> QED BY <1>1, <2>1, <2>2, Greatest
<1> HIDE DEF most
<1>3. \E n \in 0..most : Good(n)
  <2>1. m \in 0..most /\ \A j \in 0..m : On(j)
    BY <1>2
  <2> HIDE DEF On
  <2>2. On(m)
    BY <1>1, <2>1
  <2>3. ASSUME m < most, On(m + 1) PROVE FALSE
    <3>1. m + 1 \in 0..most /\ \A j \in 0..(m + 1) : j \in 0..m \/ j = m + 1
      BY <1>1, <2>1, <2>3
    <3>2. m + 1 \in N
      BY <2>1, <2>3, <3>1
    <3>3. m + 1 <= m
      BY <1>2, <3>2
    <3> QED BY <2>1, <3>3
  <2> QED BY <2>1, <2>2, <2>3
<1>4. far \in 0..most
  BY <1>3, Zenon
<1>5. Walk(affixes, word, place, room)
        = [letters |-> far, affix |-> far > 0 /\ Part(word, place, place + far) \in affixes]
  BY Zenon DEF Walk, most
<1> HIDE DEF far
<1>6. ASSUME NEW x, NEW w, w = [letters |-> far, affix |-> x] PROVE w.letters = far /\ w.affix = x
  BY <1>6
<1> DEFINE w == Walk(affixes, word, place, room)
<1>7. w.letters = far /\ w.affix = (far > 0 /\ Part(word, place, place + far) \in affixes)
  BY <1>5, <1>6, Zenon
<1> HIDE DEF w
<1>8. w.affix => far > 0 /\ Part(word, place, place + far) \in Seq(letters)
  BY <1>7, Zenon
<1> QED BY <1>1, <1>4, <1>7, <1>8 DEF w

\* Two rising sequences, one behind the other.
LEMMA JoinRises ==
  ASSUME NEW N, N \subseteq Int, NEW p \in Seq(N), NEW q \in Seq(N), Rises(p), Rises(q),
         NEW mid \in Int, \A i \in DOMAIN p : p[i] <= mid, \A i \in DOMAIN q : mid < q[i]
  PROVE  p \o q \in Seq(N) /\ Rises(p \o q) /\ Len(p \o q) = Len(p) + Len(q)
<1> DEFINE r == p \o q
<1>1. /\ Len(p) \in Nat /\ Len(q) \in Nat /\ DOMAIN p = 1..Len(p) /\ DOMAIN q = 1..Len(q)
      /\ \A i \in 1..Len(p) : p[i] \in Int /\ \A j \in 1..Len(q) : q[j] \in Int
  BY LenProperties, ElementOfSeq
<1>2. /\ r \in Seq(N) /\ Len(r) = Len(p) + Len(q)
      /\ \A i \in 1..(Len(p) + Len(q)) : r[i] = IF i <= Len(p) THEN p[i] ELSE q[i - Len(p)]
  BY ConcatProperties
<1> HIDE DEF r
<1>3. DOMAIN r = 1..(Len(p) + Len(q))
  BY <1>2, LenProperties
<1>4. ASSUME NEW i \in DOMAIN r, NEW j \in DOMAIN r, i < j PROVE r[i] < r[j]
  <2>0. /\ i \in Int /\ j \in Int /\ 1 <= i /\ j <= Len(p) + Len(q)
        /\ r[i] = IF i <= Len(p) THEN p[i] ELSE q[i - Len(p)]
        /\ r[j] = IF j <= Len(p) THEN p[j] ELSE q[j - Len(p)]
    BY <1>1, <1>2, <1>3
  <2>1. CASE j <= Len(p)
    <3>1. i \in DOMAIN p /\ j \in DOMAIN p /\ i <= Len(p)
      BY <1>1, <1>4, <2>0, <2>1
    <3> QED BY <1>4, <2>0, <2>1, <3>1 DEF Rises
  <2>2. CASE i <= Len(p) /\ ~(j <= Len(p))
    <3>1. i \in DOMAIN p /\ j - Len(p) \in DOMAIN q
      BY <1>1, <2>0, <2>2
    <3>2. p[i] <= mid /\ mid < q[j - Len(p)] /\ p[i] \in Int /\ q[j - Len(p)] \in Int
      BY <1>1, <3>1
    <3>3. r[i] = p[i] /\ r[j] = q[j - Len(p)]
      BY <2>0, <2>2
    <3> QED BY <3>2, <3>3
  <2>3. CASE ~(i <= Len(p))
    <3>1. i - Len(p) \in DOMAIN q /\ j - Len(p) \in DOMAIN q /\ i - Len(p) < j - Len(p) /\ ~(j <= Len(p))
      BY <1>1, <1>4, <2>0, <2>3
    <3>2. q[i - Len(p)] < q[j - Len(p)]
      BY <3>1 DEF Rises
    <3> QED BY <2>0, <2>3, <3>1, <3>2
  <2> QED BY <2>1, <2>2, <2>3
<1>5. Rises(r)
  BY <1>4 DEF Rises
<1> QED BY <1>2, <1>5 DEF r

LEMMA LastIsGreatest ==
  ASSUME NEW N, N \subseteq Int, NEW p \in Seq(N), Rises(p), p # << >>
  PROVE  Last(p) \in N /\ \A i \in DOMAIN p : p[i] <= Last(p)
<1>1. Len(p) \in Nat /\ DOMAIN p = 1..Len(p) /\ Len(p) # 0
  BY LenProperties, EmptySeq
<1>2. \A i \in 1..Len(p) : p[i] \in N /\ p[i] \in Int
  BY <1>1, ElementOfSeq
<1>3. Last(p) = p[Len(p)] /\ Len(p) \in 1..Len(p)
  BY <1>1 DEF Last
<1>4. ASSUME NEW i \in 1..Len(p) PROVE p[i] <= p[Len(p)]
  <2>1. CASE i = Len(p)
    BY <1>2, <1>3, <2>1
  <2>2. CASE i # Len(p)
    <3>0. i \in Int /\ i <= Len(p) /\ Len(p) \in Int
      BY <1>1
    <3>1. i < Len(p)
      BY <2>2, <3>0
    <3>2. p[i] < p[Len(p)]
      BY <1>1, <1>3, <3>1 DEF Rises
    <3> QED BY <1>2, <1>3, <3>2
  <2> QED BY <2>1, <2>2
<1> QED BY <1>1, <1>2, <1>3, <1>4

\* Where a prefix of [start, end) may end.
PrefixEnds(word, start, end, letters) == {x \in (start + 1)..(end - 2) : word[x] \in letters}

LEMMA WithPrefixRises ==
  ASSUME NEW letters, NEW Chars, NEW word \in Seq(Chars), NEW start \in Nat, NEW end \in Nat,
         start <= end, end <= Len(word), NEW affixes, affixes \subseteq Seq(letters),
         NEW p \in Seq(PrefixEnds(word, start, end, letters)), Rises(p)
  PROVE  /\ WithPrefix(word, p, start, end, affixes) \in Seq(PrefixEnds(word, start, end, letters))
         /\ Rises(WithPrefix(word, p, start, end, affixes))
<1> DEFINE N == PrefixEnds(word, start, end, letters)
           place == IF p = << >> THEN start ELSE Last(p)
           walk == Walk(affixes, word, place, end - place)
           x == place + walk.letters
           q == WithPrefix(word, p, start, end, affixes)
<1>1. N \subseteq Int /\ N \subseteq Nat
  BY DEF PrefixEnds
<1>2. place \in Nat /\ start <= place /\ place <= end /\ \A i \in DOMAIN p : p[i] <= place
  <2>1. CASE p = << >>
    BY <2>1
  <2>2. CASE p # << >>
    <3> HIDE DEF N
    <3>1. Last(p) \in N /\ \A i \in DOMAIN p : p[i] <= Last(p)
      BY <1>1, <2>2, LastIsGreatest DEF N
    <3>2. Last(p) \in Nat /\ start <= Last(p) /\ Last(p) <= end
      BY <1>1, <3>1 DEF N, PrefixEnds
    <3> QED BY <2>2, <3>1, <3>2
  <2> QED BY <2>1, <2>2
<1>3. q = p \/ (end - place > MINIMUM_WORD_LENGTH /\ walk.affix /\ q = Append(p, x))
  <2>1. q = IF \/ end - place <= MINIMUM_WORD_LENGTH \/ IsWordToNotSplit(Part(word, place, end)) \/ ~walk.affix
            THEN p ELSE Append(p, x)
    BY Zenon DEF WithPrefix
  <2>2. end - place <= MINIMUM_WORD_LENGTH \/ end - place > MINIMUM_WORD_LENGTH
    BY <1>2 DEF MINIMUM_WORD_LENGTH
  <2> HIDE DEF place, walk, x, q
  <2> QED BY <2>1, <2>2, Zenon
<1> HIDE DEF place
<1>4. CASE q = p
  BY <1>4
<1>5. CASE end - place > MINIMUM_WORD_LENGTH /\ walk.affix /\ q = Append(p, x)
  <2>1. end - place \in Nat /\ place + (end - place) <= Len(word) /\ Len(word) \in Int
    BY <1>2, LenProperties
  <2>2. /\ walk.letters \in 0..((end - place) - 2)
        /\ walk.affix => walk.letters > 0 /\ Part(word, place, place + walk.letters) \in Seq(letters)
    BY <1>2, <1>5, <2>1, WalkIs
  <2>3. walk.letters > 0 /\ Part(word, place, x) \in Seq(letters)
    BY <1>5, <2>2
  <2> HIDE DEF walk
  <2>4. x \in Nat /\ place < x /\ place <= x /\ x <= end - 2 /\ x <= Len(word) /\ x \in (place + 1)..x
    BY <1>2, <2>1, <2>2, <2>3
  <2>5. word[x] \in letters
    <3> HIDE DEF x
    <3> QED BY <1>2, <2>3, <2>4, PartAtPlace
  <2> HIDE DEF x
  <2>6. x \in N
    BY <1>2, <2>4, <2>5 DEF PrefixEnds
  <2> HIDE DEF N, q
  <2>7. \A i \in DOMAIN p : p[i] < x
    <3>1. \A i \in DOMAIN p : p[i] \in Int
      BY <1>1, ElementOfSeq, LenProperties DEF N
    <3> QED BY <1>2, <2>4, <3>1
  <2>8. Append(p, x) \in Seq(N) /\ Rises(Append(p, x))
    BY <1>1, <2>6, <2>7, RisesOn DEF N
  <2> QED BY <1>5, <2>8 DEF N, q
<1> QED BY <1>3, <1>4, <1>5

LEMMA PrefixedRises ==
  ASSUME NEW letters, AffixTable(letters), NEW Chars, NEW word \in Seq(Chars),
         NEW start \in Nat, NEW end \in Nat, start <= end, end <= Len(word)
  PROVE  /\ Prefixed(word, start, end) \in Seq(PrefixEnds(word, start, end, letters))
         /\ Rises(Prefixed(word, start, end))
<1> DEFINE n == Len(Affixes.prefixes)
           N == PrefixEnds(word, start, end, letters)
           A == {p \in Seq(N) : Rises(p)}
           Body(i, p) == WithPrefix(word, p, start, end, Affixes.prefixes[i])
           step == [i \in 1..n |-> [p \in A |-> Body(i, p)]]
           ends[i \in 0..Len(Affixes.prefixes)] ==
             IF i = 0 THEN << >> ELSE WithPrefix(word, ends[i - 1], start, end, Affixes.prefixes[i])
           U(g) == [i \in 0..n |-> IF i = 0 THEN << >> ELSE Body(i, g[i - 1])]
<1>1. n \in Nat /\ \A i \in 1..n : Affixes.prefixes[i] \subseteq Seq(letters)
  <2>1. \A i \in 1..n : Affixes.prefixes[i] \in SUBSET Seq(letters)
    BY ElementOfSeq DEF AffixTable
  <2> QED BY <2>1, LenProperties DEF AffixTable
<1>2. ASSUME NEW i \in 1..n, NEW p \in A PROVE Body(i, p) \in A
  <2>1. Affixes.prefixes[i] \subseteq Seq(letters) /\ p \in Seq(N) /\ Rises(p)
    BY <1>1
  <2> HIDE DEF n
  <2> QED BY <2>1, WithPrefixRises
<1>3. << >> \in A
  BY DEF Rises
<1> HIDE DEF A, Body
<1>4. step \in [1..n -> [A -> A]]
  BY <1>2
<1>5. PICK f \in [0..n -> A] : Recursion(f, n, << >>, step)
  <2> HIDE DEF step, n, ends, U
  <2> QED BY <1>1, <1>3, <1>4, RecursionExists, Zenon
<1>6. f = U(f)
  <2>1. \A i \in 0..n : i # 0 => i \in 1..n /\ i - 1 \in 0..n
    BY <1>1
  <2> HIDE DEF n
  <2>2. \A i \in 0..n : i # 0 => step[i][f[i - 1]] = Body(i, f[i - 1])
    BY <1>5, <2>1
  <2> QED BY <1>5, <2>2 DEF Recursion
<1>7. ends = U(ends)
  <2>1. ends = CHOOSE g : g = U(g)
    BY Zenon DEF Body
  <2> HIDE DEF ends, U
  <2> QED BY <1>6, <2>1, Zenon
<1>8. Prefixed(word, start, end) = ends[n]
  BY Zenon DEF Prefixed
<1> HIDE DEF ends
<1>9. ends[0] = << >> /\ \A i \in 1..n : ends[i] = Body(i, ends[i - 1])
  <2>1. \A i \in 0..n : ends[i] = IF i = 0 THEN << >> ELSE Body(i, ends[i - 1])
    BY <1>7, Zenon
  <2>2. 0 \in 0..n /\ \A i \in 1..n : i \in 0..n /\ i # 0
    BY <1>1
  <2> QED BY <2>1, <2>2, Zenon
<1>10. \A i \in 0..n : ends[i] \in A
  <2>1. ends[0] \in A /\ \A i \in 1..n : ends[i - 1] \in A => ends[i] \in A
    BY <1>2, <1>3, <1>9
  <2> HIDE DEF n
  <2> QED BY <1>1, <2>1, Stays
<1>11. ends[n] \in A
  BY <1>1, <1>10
<1> QED BY <1>8, <1>11 DEF A

\* Where a boundary of a stretch [start, end) may be.
Cuts(word, start, end, letters) ==
  {x \in (start + 1)..end : x = end \/ word[x] \in letters \/ word[x + 1] \in letters}

\* What decompoundWord adds, if what the calls inside it add rises and is
\* where affixes meet the word.
Adds(p, word, call, letters) == p \in Seq(Cuts(word, call.start, call.end, letters)) /\ Rises(p)

LEMMA SuffixIs ==
  ASSUME NEW letters, AffixTable(letters), NEW Chars, NEW word \in Seq(Chars),
         NEW start \in Nat, NEW from \in Nat, NEW end \in Nat, start <= from, from <= end,
         end <= Len(word), end - from > MINIMUM_WORD_LENGTH
  PROVE  LET walk == Walk({Reverse(s) : s \in Affixes.suffixes}, Reverse(Part(word, start, end)), 0,
                          end - from)
             suffix == end - walk.letters
         IN  walk.affix => /\ suffix \in Nat /\ from < suffix /\ suffix < end
                           /\ word[suffix + 1] \in letters
<1> DEFINE stretch == Part(word, start, end)
           back == Reverse(stretch)
           affixes == {Reverse(s) : s \in Affixes.suffixes}
           room == end - from
           walk == Walk(affixes, back, 0, room)
           l == walk.letters
<1>1. /\ Len(stretch) = end - start /\ stretch \in Seq(Chars) /\ Len(word) \in Nat
      /\ \A i \in 1..(end - start) : stretch[i] = word[start + i]
  <2>1. start <= end
    OBVIOUS
  <2>2. /\ Part(word, start, end) \in Seq(Chars) /\ Len(Part(word, start, end)) = end - start
        /\ \A i \in 1..(end - start) : Part(word, start, end)[i] = word[start + i]
    BY <2>1, WholePartIs, Zenon
  <2>3. Len(word) \in Nat
    BY LenProperties
  <2> QED BY <2>1, <2>2, <2>3
<1>2. /\ back \in Seq(Chars) /\ Len(back) = end - start
      /\ \A i \in 1..(end - start) : back[i] = stretch[((end - start) - i) + 1]
  <2> HIDE DEF stretch
  <2>1. back = [i \in 1..(end - start) |-> stretch[((end - start) - i) + 1]]
    BY <1>1 DEF Reverse
  <2>2. \A i \in 1..(end - start) : ((end - start) - i) + 1 \in 1..(end - start)
    OBVIOUS
  <2>3. \A i \in 1..(end - start) : stretch[((end - start) - i) + 1] \in Chars
    <3> DEFINE n == end - start
    <3>1. n = Len(stretch)
      BY <1>1
    <3>2. \A i \in 1..n : stretch[i] \in Chars
      BY <1>1, <3>1, ElementOfSeq
    <3> QED BY <2>2, <3>2
  <2> DEFINE m == end - start
  <2>4. m \in Nat
    OBVIOUS
  <2> HIDE DEF back, m
  <2> QED BY <2>1, <2>3, <2>4, IsASeq DEF m
<1>3. affixes \subseteq Seq(letters)
  <2> SUFFICES ASSUME NEW s \in Affixes.suffixes PROVE Reverse(s) \in Seq(letters)
    OBVIOUS
  <2>1. s \in Seq(letters)
    BY DEF AffixTable
  <2>2. Len(s) \in Nat /\ \A i \in 1..Len(s) : s[i] \in letters
    BY <2>1, ElementOfSeq, LenProperties
  <2>3. \A i \in 1..Len(s) : s[(Len(s) - i) + 1] \in letters
    <3>1. \A i \in 1..Len(s) : (Len(s) - i) + 1 \in 1..Len(s)
      BY <2>2
    <3> QED BY <2>2, <3>1
  <2> QED BY <2>2, <2>3, IsASeq DEF Reverse
<1> HIDE DEF stretch, back, affixes, room
<1>4. room \in Nat /\ room > MINIMUM_WORD_LENGTH /\ 0 \in Nat /\ 0 + room <= Len(back)
  BY <1>2 DEF room
<1>5. /\ l \in 0..(room - 2)
      /\ walk.affix => l > 0 /\ Part(back, 0, 0 + l) \in Seq(letters)
  <2> HIDE DEF walk
  <2> USE DEF walk
  <2> QED BY <1>2, <1>3, <1>4, WalkIs
<1> SUFFICES ASSUME walk.affix
             PROVE  /\ end - l \in Nat /\ from < end - l /\ end - l < end
                    /\ word[(end - l) + 1] \in letters
  BY DEF stretch, back, affixes, room
<1> HIDE DEF walk
<1>6. l > 0 /\ Part(back, 0, 0 + l) \in Seq(letters)
  BY <1>5
<1>7. l \in Nat /\ 0 <= l /\ l <= Len(back) /\ l \in (0 + 1)..(0 + l) /\ 0 + l = l /\ l <= end - from - 2
  <2>1. l \in 0..(room - 2) /\ l > 0
    BY <1>5, <1>6
  <2> HIDE DEF l
  <2>2. room = end - from /\ Len(back) = end - start /\ room \in Int
    BY <1>2 DEF room
  <2> QED BY <2>1, <2>2
<1> HIDE DEF l
<1>8. back[l] \in letters
  <2>1. \A i \in (0 + 1)..l : back[i] \in letters
    BY <1>2, <1>6, <1>7, PartAtPlace
  <2> QED BY <1>7, <2>1
<1>9. l \in 1..(end - start) /\ ((end - start) - l) + 1 \in 1..(end - start)
      /\ start + (((end - start) - l) + 1) = (end - l) + 1
  BY <1>7
<1>10. word[(end - l) + 1] \in letters
  BY <1>1, <1>2, <1>8, <1>9
<1> QED BY <1>7, <1>10

LEMMA DecompoundRises ==
  ASSUME NEW letters, AffixTable(letters), NEW Chars, NEW word \in Seq(Chars),
         NEW call \in Calls(word), NEW inner,
         \A c \in Calls(word) : Adds(inner[c], word, c, letters)
  PROVE  LET d == Decompound(word, call, inner)
         IN  /\ Adds(d, word, call, letters)
             /\ call.end - call.start <= MINIMUM_WORD_LENGTH => d = << >>
             /\ ~call.any => Len(d) # 1
<1> DEFINE start == call.start
           end == call.end
           stretch == Part(word, start, end)
           prefixes == Prefixed(word, start, end)
           from == IF prefixes = << >> THEN start ELSE Last(prefixes)
           room == end - from
           walk == Walk({Reverse(s) : s \in Affixes.suffixes}, Reverse(stretch), 0, room)
           suffixed == ~IsWordToNotSplit(Part(word, from, end)) /\ room > MINIMUM_WORD_LENGTH /\ walk.affix
           suffix == end - walk.letters
           several == Len(prefixes) > 1
           inside == inner[CallFor(from, suffix, TRUE)]
           found == prefixes \o (IF ~suffixed THEN << >>
                                 ELSE IF several /\ inside # << >> THEN inside ELSE <<suffix>>)
           rest == IF suffixed THEN suffix ELSE from
           d == Decompound(word, call, inner)
           N == Cuts(word, start, end, letters)
<1>1. start \in Nat /\ end \in Nat /\ start <= Len(word) /\ end <= Len(word) /\ Len(word) \in Nat
      /\ call.any \in BOOLEAN /\ N \subseteq Int
  BY LenProperties DEF Calls, Cuts
<1>2. d = IF Len(stretch) <= MINIMUM_WORD_LENGTH \/ IsWordToNotSplit(stretch) THEN << >>
          ELSE IF several THEN found \o inner[CallFor(rest, end, TRUE)]
          ELSE IF call.any \/ found # << >> THEN Append(found, end) ELSE << >>
  BY Zenon DEF Decompound
<1>3. CASE d = << >>
  <2>1. << >> \in Seq(N) /\ Rises(<< >>) /\ Len(<< >>) = 0
    BY DEF Rises
  <2> QED BY <1>3, <2>1 DEF Adds
<1>4. CASE d # << >>
  <2>1. /\ ~(Len(stretch) <= MINIMUM_WORD_LENGTH)
        /\ d = IF several THEN found \o inner[CallFor(rest, end, TRUE)] ELSE Append(found, end)
        /\ several \/ call.any \/ found # << >>
    <3> HIDE DEF d, stretch, several, found, rest
    <3> QED BY <1>2, <1>4
  <2>2. /\ start < end /\ start <= end /\ end - start > MINIMUM_WORD_LENGTH
        /\ ~(end - start <= MINIMUM_WORD_LENGTH) /\ end \in N
    <3>1. CASE end < start
      <4>1. Len(stretch) = 0
        BY <1>1, <3>1, PartIs
      <4> HIDE DEF stretch
      <4>2. Len(stretch) <= MINIMUM_WORD_LENGTH
        BY <4>1 DEF MINIMUM_WORD_LENGTH
      <4> QED BY <2>1, <4>2
    <3>2. CASE start <= end
      <4>1. Len(stretch) = end - start
        <5>1. start \in Nat /\ end \in Nat /\ end <= Len(word)
          BY <1>1
        <5> HIDE DEF start, end
        <5>2. Len(Part(word, start, end)) = end - start
          BY <3>2, <5>1, WholePartIs, Zenon
        <5> QED BY <5>2
      <4> HIDE DEF stretch, start, end
      <4>2. end - start > MINIMUM_WORD_LENGTH /\ MINIMUM_WORD_LENGTH = 2
        <5>1. ~(end - start <= MINIMUM_WORD_LENGTH)
          BY <2>1, <4>1, Zenon
        <5>2. MINIMUM_WORD_LENGTH = 2
          BY DEF MINIMUM_WORD_LENGTH
        <5>3. start \in Nat /\ end \in Nat
          BY <1>1, Zenon
        <5> QED BY <5>1, <5>2, <5>3
      <4>3. /\ start < end /\ start <= end /\ ~(end - start <= MINIMUM_WORD_LENGTH)
            /\ start + 1 <= end /\ end <= end
        <5>1. start \in Nat /\ end \in Nat
          BY <1>1
        <5> QED BY <4>2, <5>1
      <4> QED BY <1>1, <4>2, <4>3 DEF Cuts
    <3> QED BY <1>1, <3>1, <3>2
  <2> HIDE DEF d, start, end
  <2>3. prefixes \in Seq(PrefixEnds(word, start, end, letters)) /\ Rises(prefixes)
    BY <1>1, <2>2, PrefixedRises
  <2> HIDE DEF prefixes
  <2>4. /\ from \in Nat /\ start <= from /\ from <= end - 2 /\ from <= end /\ from <= Len(word)
        /\ prefixes \in Seq(N) /\ \A i \in DOMAIN prefixes : prefixes[i] <= from
    <3> DEFINE E == PrefixEnds(word, start, end, letters)
    <3>1. E \subseteq N /\ E \subseteq Int
      BY <1>1 DEF PrefixEnds, Cuts
    <3>2. CASE prefixes = << >>
      <4>1. DOMAIN prefixes = {} /\ prefixes \in Seq(N)
        BY <3>2
      <4> HIDE DEF N
      <4> QED BY <1>1, <2>2, <3>2, <4>1 DEF MINIMUM_WORD_LENGTH
    <3>3. CASE prefixes # << >>
      <4>1. Last(prefixes) \in E /\ \A i \in DOMAIN prefixes : prefixes[i] <= Last(prefixes)
        <5> HIDE DEF E
        <5> QED BY <2>3, <3>1, <3>3, LastIsGreatest DEF E
      <4>2. from \in (start + 1)..(end - 2) /\ from = Last(prefixes)
        BY <3>3, <4>1 DEF PrefixEnds
      <4>3. prefixes \in Seq(N)
        <5> HIDE DEF E, N
        <5>1. prefixes \in Seq(E)
          BY <2>3 DEF E
        <5> QED BY <3>1, <5>1, WiderSeq
      <4> HIDE DEF from
      <4> QED BY <1>1, <4>1, <4>2, <4>3
    <3> QED BY <3>2, <3>3
  <2> HIDE DEF from
  <2>5. suffixed => /\ suffix \in Nat /\ from < suffix /\ suffix < end /\ suffix <= Len(word)
                    /\ word[suffix + 1] \in letters /\ suffix \in N
    <3> SUFFICES ASSUME suffixed
                 PROVE  /\ suffix \in Nat /\ from < suffix /\ suffix < end /\ suffix <= Len(word)
                        /\ word[suffix + 1] \in letters /\ suffix \in N
      OBVIOUS
    <3>1. room > MINIMUM_WORD_LENGTH /\ walk.affix
      BY Zenon
    <3>2. suffix \in Nat /\ from < suffix /\ suffix < end /\ word[suffix + 1] \in letters
      BY <1>1, <2>2, <2>4, <3>1, SuffixIs
    <3> HIDE DEF suffix
    <3>3. suffix <= Len(word) /\ suffix \in (start + 1)..end
      BY <1>1, <2>2, <2>4, <3>2
    <3> QED BY <3>2, <3>3 DEF Cuts
  <2> HIDE DEF suffixed, suffix
  \* What is found behind the prefixes rises from their end to the suffix.
  <2> DEFINE behind == IF ~suffixed THEN << >>
                       ELSE IF several /\ inside # << >> THEN inside ELSE <<suffix>>
  <2>6. /\ behind \in Seq(N) /\ Rises(behind)
        /\ \A i \in DOMAIN behind : from < behind[i] /\ behind[i] <= rest
    <3>1. CASE ~suffixed
      <4>1. behind = << >> /\ DOMAIN << >> = {} /\ << >> \in Seq(N)
        BY <3>1
      <4> HIDE DEF behind
      <4> QED BY <4>1 DEF Rises
    <3>2. CASE suffixed /\ behind = <<suffix>>
      <4>1. suffix \in N /\ from < suffix /\ rest = suffix /\ suffix \in Int
        BY <2>5, <3>2
      <4>2. <<suffix>> \in Seq(N) /\ DOMAIN <<suffix>> = {1} /\ <<suffix>>[1] = suffix
        BY <4>1
      <4> HIDE DEF behind, N, rest
      <4>3. \A i \in DOMAIN behind : i = 1 /\ behind[i] = suffix
        BY <3>2, <4>2
      <4>4. Rises(behind)
        BY <4>3 DEF Rises
      <4> QED BY <3>2, <4>1, <4>2, <4>3, <4>4
    <3>3. CASE suffixed /\ behind = inside
      <4> DEFINE c == CallFor(from, suffix, TRUE)
      <4>1. c \in Calls(word) /\ c.start = from /\ c.end = suffix /\ rest = suffix
        BY <1>1, <2>4, <2>5, <3>3 DEF Calls, CallFor
      <4> HIDE DEF c
      <4>2. Adds(inner[c], word, c, letters)
        BY <4>1
      <4> DEFINE M == Cuts(word, from, suffix, letters)
      <4>3. behind \in Seq(M) /\ Rises(behind)
        BY <3>3, <4>1, <4>2 DEF Adds, c
      <4>4. M \subseteq N
        <5> SUFFICES ASSUME NEW x \in M PROVE x \in N
          OBVIOUS
        <5>1. x \in (from + 1)..suffix /\ (x = suffix \/ word[x] \in letters \/ word[x + 1] \in letters)
          BY DEF Cuts
        <5>2. x \in (start + 1)..end
          BY <1>1, <2>4, <2>5, <3>3, <5>1
        <5> QED BY <2>5, <3>3, <5>1, <5>2 DEF Cuts
      <4>5. \A x \in M : from < x /\ x <= suffix
        BY <2>4, <2>5, <3>3 DEF Cuts
      <4> HIDE DEF M, N, behind, rest
      <4>6. behind \in Seq(N) /\ \A i \in DOMAIN behind : behind[i] \in M
        BY <4>3, <4>4, WiderSeq, ElementOfSeq, LenProperties
      <4> QED BY <4>1, <4>3, <4>5, <4>6
    <3>4. ~suffixed \/ (suffixed /\ behind = <<suffix>>) \/ (suffixed /\ behind = inside)
      OBVIOUS
    <3> QED BY <3>1, <3>2, <3>3, <3>4
  <2>7. found = prefixes \o behind
    OBVIOUS
  <2> HIDE DEF behind, found
  <2>8. rest \in Nat /\ from <= rest /\ rest < end /\ rest <= Len(word)
    BY <1>1, <2>4, <2>5
  <2> HIDE DEF rest, N
  <2>9. found \in Seq(N) /\ Rises(found) /\ Len(found) = Len(prefixes) + Len(behind)
        /\ \A i \in DOMAIN found : found[i] <= rest
    <3>1. found \in Seq(N) /\ Rises(found) /\ Len(found) = Len(prefixes) + Len(behind)
      <4>1. \A i \in DOMAIN behind : from < behind[i]
        BY <2>6
      <4>2. from \in Int
        BY <2>4
      <4> QED BY <1>1, <2>3, <2>4, <2>6, <2>7, <4>1, <4>2, JoinRises
    <3>2. CASE found = << >>
      <4>1. DOMAIN found = {}
        BY <3>2
      <4> QED BY <3>1, <4>1
    <3>3. CASE found # << >>
      <4>1. Last(found) \in N /\ \A i \in DOMAIN found : found[i] <= Last(found)
        BY <1>1, <3>1, <3>3, LastIsGreatest
      <4>2. Last(found) <= rest
        <5>1. Len(prefixes) \in Nat /\ Len(behind) \in Nat /\ DOMAIN prefixes = 1..Len(prefixes)
              /\ DOMAIN behind = 1..Len(behind)
          BY <2>4, <2>6, LenProperties
        <5>2. Len(found) # 0 /\ Last(found) = found[Len(found)]
          BY <3>1, <3>3, EmptySeq DEF Last
        <5>3. found[Len(found)] = IF Len(found) <= Len(prefixes) THEN prefixes[Len(found)]
                                  ELSE behind[Len(found) - Len(prefixes)]
          <6>1. Len(found) \in 1..(Len(prefixes) + Len(behind))
            BY <3>1, <5>1, <5>2
          <6>2. \A i \in 1..(Len(prefixes) + Len(behind)) :
                   (prefixes \o behind)[i] = IF i <= Len(prefixes) THEN prefixes[i]
                                             ELSE behind[i - Len(prefixes)]
            BY <2>4, <2>6, ConcatProperties
          <6> QED BY <2>7, <6>1, <6>2
        <5>4. CASE Len(found) <= Len(prefixes)
          <6>1. Len(found) \in DOMAIN prefixes
            BY <3>1, <5>1, <5>2, <5>4
          <6>2. prefixes[Len(found)] <= from /\ prefixes[Len(found)] \in Int
            BY <1>1, <2>4, <5>1, <6>1, ElementOfSeq
          <6> QED BY <2>4, <2>8, <5>2, <5>3, <5>4, <6>2
        <5>5. CASE ~(Len(found) <= Len(prefixes))
          <6>1. Len(found) - Len(prefixes) \in DOMAIN behind
            BY <3>1, <5>1, <5>5
          <6> QED BY <2>6, <5>2, <5>3, <5>5, <6>1
        <5> QED BY <5>4, <5>5
      <4>3. \A i \in DOMAIN found : found[i] \in Int
        BY <1>1, <3>1, ElementOfSeq, LenProperties
      <4>4. Last(found) \in Int /\ rest \in Int
        <5>1. N \subseteq Int /\ Last(found) \in N
          BY <1>1, <4>1
        <5>2. rest \in Int
          BY <2>8
        <5> QED BY <5>1, <5>2
      <4>5. \A i \in DOMAIN found : found[i] <= rest
        BY <4>1, <4>2, <4>3, <4>4
      <4> QED BY <3>1, <4>5
    <3> QED BY <3>2, <3>3
  <2>10. CASE several
    <3> DEFINE c == CallFor(rest, end, TRUE)
               more == inner[CallFor(rest, end, TRUE)]
    <3>1. c \in Calls(word) /\ c.start = rest /\ c.end = end
      BY <1>1, <2>8 DEF Calls, CallFor
    <3> HIDE DEF c
    <3>2. Adds(inner[c], word, c, letters)
      BY <3>1
    <3> DEFINE M == Cuts(word, rest, end, letters)
    <3>3. more \in Seq(M) /\ Rises(more)
      BY <3>1, <3>2 DEF Adds, c
    <3>4. M \subseteq N /\ M \subseteq Int
      <4> SUFFICES ASSUME NEW x \in M PROVE x \in N /\ x \in Int
        OBVIOUS
      <4>1. x \in (rest + 1)..end /\ (x = end \/ word[x] \in letters \/ word[x + 1] \in letters)
        BY DEF Cuts
      <4>2. x \in (start + 1)..end
        BY <1>1, <2>4, <2>8, <4>1
      <4> QED BY <4>1, <4>2 DEF Cuts, N
    <3>5. \A x \in M : rest < x
      BY <2>8 DEF Cuts
    <3> HIDE DEF M, more
    <3>6. more \in Seq(N) /\ \A i \in DOMAIN more : rest < more[i]
      BY <3>3, <3>4, <3>5, WiderSeq, ElementOfSeq, LenProperties
    <3>7. rest \in Int
      BY <2>8
    <3>8. found \o more \in Seq(N) /\ Rises(found \o more) /\ Len(found \o more) = Len(found) + Len(more)
      BY <1>1, <2>9, <3>3, <3>6, <3>7, JoinRises
    <3>9. d = found \o more
      BY <2>1, <2>10 DEF more
    <3>10. Len(d) # 1
      <4>1. Len(prefixes) \in Nat /\ Len(behind) \in Nat /\ Len(more) \in Nat /\ Len(prefixes) > 1
        BY <2>4, <2>6, <2>10, <3>6, LenProperties
      <4> QED BY <2>9, <3>8, <3>9, <4>1
    <3>20. Adds(d, word, call, letters)
      BY <3>8, <3>9 DEF Adds, N, start, end
    <3>21. ~(call.end - call.start <= MINIMUM_WORD_LENGTH)
      BY <2>2 DEF start, end
    <3> QED BY <3>10, <3>20, <3>21 DEF d
  <2>11. CASE ~several
    <3>1. d = Append(found, end) /\ (call.any \/ found # << >>)
      BY <2>1, <2>11
    <3>2. \A i \in DOMAIN found : found[i] < end
      <4>1. \A i \in DOMAIN found : found[i] \in Int
        BY <1>1, <2>9, ElementOfSeq, LenProperties
      <4> QED BY <1>1, <2>8, <2>9, <4>1
    <3>3. Append(found, end) \in Seq(N) /\ Rises(Append(found, end))
      BY <1>1, <2>2, <2>9, <3>2, RisesOn DEF N
    <3>4. ~call.any => Len(d) # 1
      <4>1. Len(Append(found, end)) = Len(found) + 1 /\ Len(found) \in Nat
        BY <2>9, LenProperties, AppendProperties
      <4>2. found # << >> => Len(found) # 0
        BY <2>9, EmptySeq
      <4> QED BY <3>1, <4>1, <4>2
    <3>20. Adds(d, word, call, letters)
      BY <3>1, <3>3 DEF Adds, N, start, end
    <3>21. ~(call.end - call.start <= MINIMUM_WORD_LENGTH)
      BY <2>2 DEF start, end
    <3> QED BY <3>4, <3>20, <3>21 DEF d
  <2> QED BY <2>10, <2>11
<1> QED BY <1>3, <1>4

LEMMA SemiticRises ==
  ASSUME NEW letters, AffixTable(letters), NEW Chars, NEW word \in Seq(Chars)
  PROVE  /\ Semitic(word) \in Seq(Cuts(word, 0, Len(word), letters)) /\ Rises(Semitic(word))
         /\ Len(Semitic(word)) # 1 /\ (Len(word) <= MINIMUM_WORD_LENGTH => Semitic(word) = << >>)
<1> DEFINE n == Len(word)
           H == [Calls(word) -> Seq(Int)]
           A == {h \in H : \A c \in Calls(word) : Adds(h[c], word, c, letters)}
           a == [call \in Calls(word) |-> << >>]
           Body(h) == [call \in Calls(word) |-> Decompound(word, call, h)]
           step == [i \in 1..n |-> [h \in A |-> Body(h)]]
           calls[i \in 0..Len(word)] ==
             IF i = 0 THEN [call \in Calls(word) |-> << >>]
             ELSE [call \in Calls(word) |-> Decompound(word, call, calls[i - 1])]
           U(g) == [i \in 0..n |-> IF i = 0 THEN a ELSE Body(g[i - 1])]
           top == CallFor(0, Len(word), FALSE)
<1>1. n \in Nat /\ top \in Calls(word) /\ top.start = 0 /\ top.end = n /\ top.any = FALSE
  <2>1. n \in Nat
    BY LenProperties
  <2> QED BY <2>1 DEF Calls, CallFor
<1>2. a \in A
  <2>1. \A S : << >> \in Seq(S) /\ Rises(<< >>)
    BY DEF Rises
  <2>2. a \in H
    OBVIOUS
  <2>3. \A c \in Calls(word) : Adds(a[c], word, c, letters)
    BY <2>1 DEF Adds
  <2> QED BY <2>2, <2>3
<1>3. ASSUME NEW h \in A PROVE Body(h) \in A
  <2>1. \A c \in Calls(word) : Adds(h[c], word, c, letters)
    OBVIOUS
  <2>2. ASSUME NEW c \in Calls(word) PROVE Adds(Decompound(word, c, h), word, c, letters)
    <3> HIDE DEF A
    <3> QED BY <2>1, DecompoundRises
  <2>3. \A c \in Calls(word) : Decompound(word, c, h) \in Seq(Int)
    <3> SUFFICES ASSUME NEW c \in Calls(word) PROVE Decompound(word, c, h) \in Seq(Int)
      OBVIOUS
    <3>1. Decompound(word, c, h) \in Seq(Cuts(word, c.start, c.end, letters))
      BY <2>2 DEF Adds
    <3>2. Cuts(word, c.start, c.end, letters) \subseteq Int
      BY DEF Cuts
    <3> QED BY <3>1, <3>2, WiderSeq
  <2>4. Body(h) \in H /\ \A c \in Calls(word) : Body(h)[c] = Decompound(word, c, h)
    BY <2>3
  <2> HIDE DEF H, Body
  <2> QED BY <2>2, <2>4
<1> HIDE DEF A, a, Body
<1>4. step \in [1..n -> [A -> A]]
  BY <1>3
<1>5. PICK f \in [0..n -> A] : Recursion(f, n, a, step)
  <2> HIDE DEF step, n, calls, U
  <2> QED BY <1>1, <1>2, <1>4, RecursionExists, Zenon
<1>6. f = U(f)
  <2>1. \A i \in 0..n : i # 0 => i \in 1..n /\ i - 1 \in 0..n
    BY <1>1
  <2> HIDE DEF n
  <2>2. \A i \in 0..n : i # 0 => step[i][f[i - 1]] = Body(f[i - 1])
    BY <1>5, <2>1
  <2> QED BY <1>5, <2>2 DEF Recursion
<1>7. calls = U(calls)
  <2>1. calls = CHOOSE g : g = U(g)
    BY Zenon DEF Body, a
  <2> HIDE DEF calls, U
  <2> QED BY <1>6, <2>1, Zenon
<1>8. Semitic(word) = calls[n][top]
  BY Zenon DEF Semitic, DecompoundWord
<1> HIDE DEF calls, top
<1>9. calls[0] = a /\ \A i \in 1..n : calls[i] = Body(calls[i - 1])
  <2>1. \A i \in 0..n : calls[i] = IF i = 0 THEN a ELSE Body(calls[i - 1])
    BY <1>7, Zenon
  <2>2. 0 \in 0..n /\ \A i \in 1..n : i \in 0..n /\ i # 0
    BY <1>1
  <2> QED BY <2>1, <2>2, Zenon
<1>10. \A i \in 0..n : calls[i] \in A
  <2>1. calls[0] \in A /\ \A i \in 1..n : calls[i - 1] \in A => calls[i] \in A
    BY <1>2, <1>3, <1>9
  <2> HIDE DEF n
  <2> QED BY <1>1, <2>1, Stays
<1>11. CASE n = 0
  <2>1. Semitic(word) = << >>
    BY <1>1, <1>8, <1>9, <1>11 DEF a
  <2> QED BY <2>1 DEF Rises
<1>12. CASE n # 0
  <2>1. n \in 1..n /\ n - 1 \in 0..n
    BY <1>1, <1>12
  <2>2. calls[n] = Body(calls[n - 1]) /\ calls[n - 1] \in A
    BY <1>9, <1>10, <2>1
  <2> DEFINE h == calls[n - 1]  d == Decompound(word, top, h)
  <2>3. Semitic(word) = d
    BY <1>1, <1>8, <2>2 DEF Body
  <2>4. \A c \in Calls(word) : Adds(h[c], word, c, letters)
    BY <2>2 DEF A
  <2> HIDE DEF h
  <2>5. /\ Adds(d, word, top, letters)
        /\ top.end - top.start <= MINIMUM_WORD_LENGTH => d = << >>
        /\ ~top.any => Len(d) # 1
    BY <1>1, <2>4, DecompoundRises
  <2> HIDE DEF d, n
  <2>6. n - 0 = n
    BY <1>1
  <2>7. n <= MINIMUM_WORD_LENGTH => d = << >>
    BY <1>1, <2>5, <2>6
  <2>8. d \in Seq(Cuts(word, 0, n, letters)) /\ Rises(d) /\ Len(d) # 1
    BY <1>1, <2>5 DEF Adds
  <2> QED BY <2>3, <2>7, <2>8 DEF n
<1> QED BY <1>11, <1>12

-----------------------------------------------------------------------------
(* What the iterators are given *)

\* The boundaries of a word as the text that it begins in at start has them.
LEMMA ShiftedRises ==
  ASSUME NEW N, NEW p \in Seq(N), Rises(p), NEW m \in Nat, N \subseteq 1..m, m <= MaxBoundaries,
         NEW start \in Nat, NEW S, \A x \in N : x + start \in S
  PROVE  Shifted(p, start) \in Rising(S) /\ Len(Shifted(p, start)) = Len(p)
<1> DEFINE q == Shifted(p, start)
           n == Len(p)
<1>1. /\ n \in Nat /\ DOMAIN p = 1..n /\ \A i \in 1..n : p[i] \in N
      /\ \A i \in 1..n : p[i] \in Int
  <2>1. n \in Nat /\ DOMAIN p = 1..n /\ \A i \in 1..n : p[i] \in N
    BY LenProperties, ElementOfSeq
  <2>2. \A i \in 1..n : p[i] \in 1..m
    BY <2>1
  <2> HIDE DEF n
  <2> QED BY <2>1, <2>2
<1>2. n <= m
  <2>1. p \in Seq(1..m)
    BY WiderSeq
  <2> QED BY <2>1, RisingIsShort
<1>3. n \in 0..MaxBoundaries
  BY <1>1, <1>2, BoundariesAssumption
<1>4. q = [i \in 1..n |-> p[i] + start]
  BY <1>1 DEF Shifted
<1> HIDE DEF q, n
<1>5. q \in [1..n -> S] /\ DOMAIN q = 1..n
  BY <1>1, <1>4
<1>6. \A i, j \in DOMAIN q : i < j => q[i] < q[j]
  <2> SUFFICES ASSUME NEW i \in 1..n, NEW j \in 1..n, i < j PROVE q[i] < q[j]
    BY <1>5
  <2>1. p[i] < p[j] /\ p[i] \in Int /\ p[j] \in Int
    BY <1>1 DEF Rises
  <2> QED BY <1>4, <2>1
<1>7. q \in UNION {[1..k -> S] : k \in 0..MaxBoundaries}
  BY <1>3, <1>5
<1>8. Len(q) = n
  BY <1>1, <1>4
<1> QED BY <1>6, <1>7, <1>8 DEF Rising, q, n

\* Whatever words a dictionary has, and however it rates them: what
\* GermanicDecompounder makes of a word of the text is what the iterator over
\* it relies on. Every boundary it returns is followed by letters of the
\* dictionary up to the end of the word and leaves a candidate behind it, and
\* each is after the one before, fuge elements with them, so no call of
\* getNextBoundary goes back (GermanicDecompounder.cpp and
\* GermanicTokenExtractorIterator.cpp).
THEOREM GermanicBoundaries ==
  ASSUME NEW letters, NEW Chars, letters \subseteq Chars, GermanicDictionary(letters),
         Config.minCandidateLength = MinCandidate,
         NEW word \in Seq(Chars), word # << >>, Len(word) <= MaxBoundaries, NEW start \in Nat,
         \A i \in 1..Len(word) : word[i] \in letters => Unit(start + (i - 1)) \in Letters,
         NEW offsets \in Germanic(word)
  PROVE  Shifted(offsets, start) \in GermanicCompounds(start, start + Len(word))
<1> DEFINE N == Spots(word, letters)
           m == Len(word)
           S == {x \in (start + 1)..((start + m) - MinCandidate) :
                   \A i \in x..((start + m) - 1) : Unit(i) \in Letters}
<1>1. m \in Nat /\ MinCandidate \in Nat /\ Config.maxDepth \in Nat
  BY LenProperties, BoundariesAssumption DEF GermanicDictionary
<1>2. PICK k \in 0..Config.maxDepth : \E r \in Analyze(word)[k] : offsets = Offsets(r.parts)
  BY Zenon DEF Germanic
<1>3. PICK r \in Analyze(word)[k] : offsets = Offsets(r.parts)
  BY <1>2
<1>4. PartsFit(r.parts, word, letters, Chars)
  BY <1>2, <1>3, AnalyzeFits, Zenon DEF ReadingFits
<1>5. offsets \in Seq(N) /\ Rises(offsets)
  BY <1>3, <1>4, OffsetsRise
<1>6. N \subseteq 1..m
  BY <1>1 DEF Spots
<1>7. ASSUME NEW x \in N PROVE x + start \in S
  <2>1. x \in 1..(m - MinCandidate) /\ \A i \in (x + 1)..m : word[i] \in letters
    BY DEF Spots, LettersFrom
  <2>2. ASSUME NEW i \in (x + start)..((start + m) - 1) PROVE Unit(i) \in Letters
    <3> DEFINE j == (i - start) + 1
    <3>1. j \in (x + 1)..m /\ j \in 1..m /\ start + (j - 1) = i
      BY <1>1, <2>1
    <3> HIDE DEF j
    <3> QED BY <2>1, <3>1
  <2>3. x + start \in (start + 1)..((start + m) - MinCandidate)
    BY <1>1, <2>1
  <2> QED BY <2>2, <2>3
<1> HIDE DEF N, S
<1>8. Shifted(offsets, start) \in Rising(S)
  <2>1. m <= MaxBoundaries
    OBVIOUS
  <2> HIDE DEF m
  <2> QED BY <1>1, <1>5, <1>6, <1>7, <2>1, ShiftedRises
<1> QED BY <1>8 DEF S, GermanicCompounds

\* Whatever affixes a Semitic language has: what decompoundWord makes of a word
\* of the text is what the iterator over it relies on.  The boundaries rise to
\* the end of the word at most, are beside a letter of the affixes or at that
\* end, are never a single one, and are none in a word of the least length
\* (SemiticWordAndDelimiterTokenExtractor.cpp).
THEOREM SemiticBoundaries ==
  ASSUME NEW letters, NEW Chars, AffixTable(letters), MinimumWord = MINIMUM_WORD_LENGTH,
         NEW word \in Seq(Chars), Len(word) <= MaxBoundaries, NEW start \in Nat,
         \A i \in 1..Len(word) : word[i] \in letters => Unit(start + (i - 1)) \in Letters
  PROVE  Shifted(Semitic(word), start) \in SemiticCompounds(start, start + Len(word))
<1> DEFINE m == Len(word)
           end == start + m
           N == Cuts(word, 0, m, letters)
           p == Semitic(word)
           S == {x \in (start + 1)..end : x = end \/ Unit(x - 1) \in Letters \/ Unit(x) \in Letters}
<1>1. m \in Nat
  BY LenProperties
<1>2. /\ p \in Seq(N) /\ Rises(p) /\ Len(p) # 1
      /\ m <= MINIMUM_WORD_LENGTH => p = << >>
  BY SemiticRises
<1>3. N \subseteq 1..m
  BY <1>1 DEF Cuts
<1>4. ASSUME NEW x \in N PROVE x + start \in S
  <2>1. x \in (0 + 1)..m /\ (x = m \/ word[x] \in letters \/ word[x + 1] \in letters)
    BY DEF Cuts
  <2>2. x + start \in (start + 1)..end
    BY <1>1, <2>1
  <2>3. CASE x = m
    BY <1>1, <2>2, <2>3
  <2>4. CASE x # m /\ word[x] \in letters
    <3>1. x \in 1..m /\ start + (x - 1) = (x + start) - 1
      BY <1>1, <2>1
    <3>2. Unit((x + start) - 1) \in Letters
      BY <2>4, <3>1
    <3> QED BY <2>2, <3>2
  <2>5. CASE x # m /\ word[x + 1] \in letters
    <3>1. x + 1 \in 1..m /\ start + ((x + 1) - 1) = x + start
      BY <1>1, <2>1, <2>5
    <3>2. Unit(x + start) \in Letters
      BY <2>5, <3>1
    <3> QED BY <2>2, <3>2
  <2> QED BY <2>1, <2>3, <2>4, <2>5
<1> HIDE DEF N, S, p
<1>5. Shifted(p, start) \in Rising(S) /\ Len(Shifted(p, start)) = Len(p)
  <2>1. m <= MaxBoundaries
    OBVIOUS
  <2> HIDE DEF m
  <2> QED BY <1>1, <1>2, <1>3, <1>4, <2>1, ShiftedRises
<1>6. end - start <= MinimumWord => Shifted(p, start) = << >>
  <2>1. end - start = m
    BY <1>1
  <2>2. DOMAIN << >> = {}
    OBVIOUS
  <2> HIDE DEF end, m
  <2>3. p = << >> => Shifted(p, start) = << >>
    BY <2>2 DEF Shifted
  <2> QED BY <1>2, <2>1, <2>3
<1>7. Shifted(p, start) \in SemiticCompounds(start, end)
  <2> DEFINE q == Shifted(p, start)
  <2>1. q \in Rising(S) /\ Len(q) # 1 /\ (end - start <= MinimumWord => q = << >>)
    BY <1>2, <1>5, <1>6
  <2> HIDE DEF q, end
  <2> QED BY <2>1 DEF SemiticCompounds, S, q
<1> QED BY <1>7 DEF p
=============================================================================
