-------------------------- MODULE TokenBoundaries --------------------------
(***************************************************************************)
(* The iterators that find the ends of tokens, each on top of the one      *)
(* below (src/src/inflection/tokenizer/iterator and .../locale):           *)
(*                                                                         *)
(*   ICU's word breaks, the only layer that reads on in the text;          *)
(*   the Germanic and the Semitic iterators, which break up a compound and *)
(*     keep the boundaries inside it for the calls to come;                *)
(*   RegexSplitIterator, which breaks a stretch at the groups of a match;  *)
(*   NumberCleaverIterator, which parts digits from letters.               *)
(*                                                                         *)
(* XNext is one call of X's getNextBoundary with the calls it makes of the *)
(* layer below; what it returns can be read off its variables after it.    *)
(* What a dictionary or an expression finds in a stretch is chosen, within *)
(* what the algorithm can find.                                            *)
(***************************************************************************)
EXTENDS Integers, Sequences

CONSTANTS Texts,            \* sequences of UTF-16 code units, by their class
          Extractors,       \* how a language is tokenized
          MinCandidate,     \* DictionaryTokenizerConfig::minCandidateLength
          MinimumWord,      \* MINIMUM_WORD_LENGTH
          MaxGroups,        \* no expression here has more groups
          MaxBoundaries     \* no decompounder here finds more boundaries

\* The letters of a dictionary's language ("s" is one of them), letters of
\* another script, and of one outside the basic plane, of two units.
Letters == {"s", "w"}
Alpha   == Letters \cup {"k", "lead", "trail"}
Punct   == {"apos", "dash", "punct"}
Units   == Alpha \cup Punct \cup {"digit", "space", "control"}
DONE    == -1   \* UBRK_DONE

WellFormed(t) ==
  /\ \A i \in 1..Len(t) : t[i] = "lead" => i < Len(t) /\ t[i + 1] = "trail"
  /\ \A i \in 1..Len(t) : t[i] = "trail" => i > 1 /\ t[i - 1] = "lead"

ASSUME BoundariesAssumption ==
  /\ Texts \subseteq {t \in Seq(Units) : WellFormed(t)}
  /\ Extractors \subseteq [decompounder : {"none", "germanic", "semitic"},
                           regex : BOOLEAN, unmodified : BOOLEAN]
  /\ MinCandidate \in Nat /\ MinCandidate >= 2
  /\ MinimumWord \in Nat \ {0} /\ MaxGroups \in Nat \ {0}
  /\ MaxBoundaries \in Nat

VARIABLES text, extractor,
          icu,            \* what ICU's iterator returned last
          wordBreaks,     \* the boundaries it has returned
          boundaries, boundariesIdx, lastStart,        \* of a decompounder
          rStart, rEnd, previousBreak, groupEnds, group, \* RegexSplitIterator
          nEnd, split                                  \* NumberCleaverIterator

icuVars   == <<icu, wordBreaks>>
compVars  == <<boundaries, boundariesIdx, lastStart>>
regexVars == <<rStart, rEnd, previousBreak, groupEnds, group>>
numVars   == <<nEnd, split>>
iteratorVars == <<icuVars, compVars, regexVars, numVars>>

\* Positions count from 0, as the code's do.
End       == Len(text)
Unit(i)   == text[i + 1]
Positions == 0..End
Results   == {DONE} \cup Positions

BoundariesInit ==
  /\ text \in Texts /\ extractor \in Extractors
  /\ icu = 0 /\ wordBreaks = {}
  /\ boundaries = << >> /\ boundariesIdx = 0 /\ lastStart = 0
  /\ rStart = DONE /\ rEnd = 0 /\ previousBreak = 0 /\ groupEnds = << >> /\ group = -1
  /\ nEnd = 0 /\ split = DONE

-----------------------------------------------------------------------------
\* ICU breaks words by the rules of UAX #29; here it may break anywhere except
\* inside a character, between two letters of one script (WB5) and beside an
\* apostrophe that has such letters on both sides (WB6, WB7).
WholeCharacter(i) == ~(0 < i /\ i < End /\ Unit(i - 1) = "lead")
BetweenLetters(i) == 0 < i /\ i < End /\ Unit(i - 1) \in Letters /\ Unit(i) \in Letters
BesideApostrophe(i) ==
  \/ /\ 0 < i /\ i + 1 < End
     /\ Unit(i - 1) \in Letters /\ Unit(i) = "apos" /\ Unit(i + 1) \in Letters
  \/ /\ 1 < i /\ i < End
     /\ Unit(i - 2) \in Letters /\ Unit(i - 1) = "apos" /\ Unit(i) \in Letters
MayBreak(i) == WholeCharacter(i) /\ ~BetweenLetters(i) /\ ~BesideApostrophe(i)

ICUNext ==
  \/ \E b \in (icu + 1)..End :
       MayBreak(b) /\ icu' = b /\ wordBreaks' = wordBreaks \cup {b}
  \/ icu = End /\ icu' = DONE /\ UNCHANGED wordBreaks

\* The sequences of elements of a set of positions that rise.
Rising(S) ==
  {p \in UNION {[1..n -> S] : n \in 0..MaxBoundaries} :
     \A i, j \in DOMAIN p : i < j => p[i] < p[j]}

-----------------------------------------------------------------------------
\* GermanicDecompounder::decompound of [start, end): a boundary is where a
\* word of the dictionary, or the fuge element before it, begins, and only the
\* first part of a compound may be no word.  So all that follows a boundary is
\* letters.  It returns none for what is no compound.
GermanicCompounds(start, end) ==
  Rising({x \in (start + 1)..(end - MinCandidate) :
            \A i \in x..(end - 1) : Unit(i) \in Letters})

\* A compound is looked up without its 's.
Suffixless(end) ==
  IF Unit(end - 1) = "s" /\ Unit(end - 2) = "apos" THEN end - 2 ELSE end

\* Mutant of SemiticCompounds: the end of the word is not added to its only affix.
SemiticCompounds_Single(start, end) ==
  Rising({x \in (start + 1)..(end - 1) : Unit(x - 1) \in Letters \/ Unit(x) \in Letters})

\* SemiticWordAndDelimiterTokenExtractor::decompoundWord: none, or the end of
\* a prefix or the beginning of a suffix together with the end of the word, or
\* at least two prefixes.
SemiticCompounds(start, end) ==
  {p \in Rising({x \in (start + 1)..end :
                   x = end \/ Unit(x - 1) \in Letters \/ Unit(x) \in Letters}) :
     Len(p) # 1 /\ (end - start <= MinimumWord => p = << >>)}

WithEnd(p, end) == IF p[Len(p)] # end THEN Append(p, end) ELSE p

ExtractorBoundary == IF boundariesIdx > 0 THEN boundaries[boundariesIdx] ELSE icu

\* A boundary kept from an earlier call.  Only the Semitic iterator moves
\* lastStart along.
CompoundNext ==
  /\ boundariesIdx < Len(boundaries)
  /\ boundariesIdx' = boundariesIdx + 1
  /\ lastStart' = IF extractor.decompounder = "semitic"
                  THEN boundaries[boundariesIdx + 1] ELSE lastStart
  /\ UNCHANGED <<boundaries, icuVars>>

\* The first boundary of a stretch that was broken up at p.
BreakUp(p, end) ==
  /\ boundaries' = WithEnd(p, end) /\ boundariesIdx' = 1
  /\ lastStart' = WithEnd(p, end)[1]

\* A stretch that was not, or the end of the text.
KeepWhole(p, end) ==
  /\ boundaries' = p /\ boundariesIdx' = 0
  /\ lastStart' = IF end = DONE THEN lastStart ELSE end

GermanicNext ==
  \/ CompoundNext
  \/ /\ boundariesIdx >= Len(boundaries)
     /\ ICUNext
     /\ IF icu' # DONE /\ icu' - lastStart >= MinCandidate
        THEN \E p \in GermanicCompounds(lastStart, Suffixless(icu')) :
               IF p # << >> THEN BreakUp(p, icu') ELSE KeepWhole(p, icu')
        ELSE KeepWhole(<< >>, icu')

SemiticNext ==
  \/ CompoundNext
  \/ /\ boundariesIdx >= Len(boundaries)
     /\ ICUNext
     /\ IF icu' # DONE /\ icu' - lastStart >= MinimumWord
        THEN \E p \in SemiticCompounds(lastStart, icu') :
               IF Len(p) > 1 THEN BreakUp(p, icu') ELSE KeepWhole(p, icu')
        ELSE KeepWhole(<< >>, icu')

\* The iterator a TokenExtractor creates.
ExtractorNext ==
  \/ extractor.decompounder = "none" /\ ICUNext /\ UNCHANGED compVars
  \/ extractor.decompounder = "germanic" /\ GermanicNext
  \/ extractor.decompounder = "semitic" /\ SemiticNext

-----------------------------------------------------------------------------
\* The ends of the groups of a match of [start, end), relative to start, -1
\* for a group that took no part.  The expression is ^(...)$: group 1 is all.
Matches(start, end) ==
  {g \in UNION {[1..n -> -1..(end - start)] : n \in 1..MaxGroups} :
     /\ g[1] = end - start
     /\ \A i \in DOMAIN g : g[i] >= 0 => WholeCharacter(start + g[i])}

\* getNextRegexBoundary, with the groups from `from' on still to look at.
NextRegexBoundary(ends, from, start, end) ==
  LET Usable(i) == start < start + ends[i] /\ start + ends[i] < end
                     /\ previousBreak < start + ends[i]
  IN  \/ \E i \in from..Len(ends) :
           /\ Usable(i) /\ \A j \in from..(i - 1) : ~Usable(j)
           /\ group' = i /\ previousBreak' = start + ends[i]
      \/ /\ \A i \in from..Len(ends) : ~Usable(i)
         /\ group' = Len(ends) + 1 /\ previousBreak' = end

\* The next group of the match of an earlier call.
GroupNext ==
  /\ previousBreak < rEnd
  /\ NextRegexBoundary(groupEnds, group, rStart, rEnd)
  /\ UNCHANGED <<rStart, rEnd, groupEnds, icuVars, compVars>>

\* A stretch too short to split, that does not match, or that isWordToNotSplit.
NotSplit(end) == previousBreak' = end /\ UNCHANGED <<groupEnds, group>>

StretchNext ==
  /\ previousBreak >= rEnd
  /\ ExtractorNext
  /\ rStart' = rEnd /\ rEnd' = ExtractorBoundary'
  /\ \/ NotSplit(rEnd')
     \/ /\ rEnd' - rStart' >= 2
        /\ \E ends \in Matches(rStart', rEnd') :
             groupEnds' = ends /\ NextRegexBoundary(ends, 1, rStart', rEnd')

RegexSplitNext ==
  IF extractor.regex THEN GroupNext \/ StretchNext
                     ELSE ExtractorNext /\ UNCHANGED regexVars

RegexBoundary == IF extractor.regex THEN previousBreak ELSE ExtractorBoundary

-----------------------------------------------------------------------------
\* Where a stretch like 9AM or HAL9000 is split: after its first digits and
\* marks or its first letters, unless there is a mark at that place.
FirstOutside(x, start, end, class) ==
  /\ \A i \in start..(x - 1) : Unit(i) \in class
  /\ x < end => Unit(x) \notin class

\* Mutant of SplitsAt: a unit is taken for a character.
SplitsAt_Units(x, start, end) ==
  LET startsDigit == Unit(start) = "digit"
      endsDigit   == Unit(end - 1) = "digit"
  IN  /\ end - start >= 2
      /\ startsDigit # endsDigit
      /\ (Unit(start) \in Alpha) # (Unit(end - 1) \in Alpha)
      /\ FirstOutside(x, start, end, IF startsDigit THEN Punct \cup {"digit"}
                                                    ELSE Alpha \ {"trail"})
      /\ (IF startsDigit THEN Unit(x - 1) ELSE Unit(x)) \notin Punct

SplitsAt(x, start, end) ==
  LET startsDigit == Unit(start) = "digit"
      endsDigit   == Unit(end - 1) = "digit"
  IN  /\ end - start >= 2
      /\ startsDigit # endsDigit
      /\ (Unit(start) \in Alpha) # (Unit(end - 1) \in Alpha)
      /\ FirstOutside(x, start, end, IF startsDigit THEN Punct \cup {"digit"} ELSE Alpha)
      /\ (IF startsDigit THEN Unit(x - 1) ELSE Unit(x)) \notin Punct

\* Mutant of SplitNext: the split is not forgotten.
SplitNext_Kept ==
  split # DONE /\ UNCHANGED <<numVars, icuVars, compVars, regexVars>>

\* The end of a stretch that the call before split.
SplitNext ==
  /\ split # DONE /\ split' = DONE
  /\ UNCHANGED <<nEnd, icuVars, compVars, regexVars>>

NumberNext ==
  /\ split = DONE
  /\ RegexSplitNext
  /\ nEnd' = RegexBoundary'
  /\ \/ \E x \in nEnd..nEnd' : SplitsAt(x, nEnd, nEnd') /\ split' = x
     \/ (\A x \in nEnd..nEnd' : ~SplitsAt(x, nEnd, nEnd')) /\ split' = DONE

\* The iterator Tokenizer::createTokenChain asks.
NextBoundary ==
  /\ UNCHANGED <<text, extractor>>
  /\ IF extractor.unmodified THEN RegexSplitNext /\ UNCHANGED numVars
                             ELSE SplitNext \/ NumberNext

Boundary ==
  IF extractor.unmodified THEN RegexBoundary
  ELSE IF split # DONE THEN split ELSE nEnd
=============================================================================
