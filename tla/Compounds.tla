----------------------------- MODULE Compounds -----------------------------
(***************************************************************************)
(* How a compound is broken up: GermanicDecompounder with its Segments,    *)
(* SegmentValidator and ParsingsScorer; the affixes of                     *)
(* SemiticWordAndDelimiterTokenExtractor; FiTokenExtractorIterator with    *)
(* FiSegment, FiSuffixSplit and FiCompound.                                *)
(*                                                                         *)
(* A word is a sequence of letters in lower case and its positions count   *)
(* from 0.  Frequencies are in tenths, as a word of no dictionary has one  *)
(* of 0.1.  Which reading scores best, by floating point, is left open.    *)
(***************************************************************************)
EXTENDS Integers, Sequences, SequencesExt

CONSTANTS
    Corpus,     \* a function from words to what the trie keeps of them
    Config,     \* a DictionaryTokenizerConfig
    Affixes,    \* [prefixes: a sequence of sets, suffixes: a set, whole: words not to split]
    Endings     \* the tables of FiSuffixSplit

Part(word, from, to) == SubSeq(word, from + 1, to)

----------------------------------------------------------------------------
(* Danish, Dutch, Norwegian and Swedish *)

Unknown == [freq |-> 1, noAtomic |-> FALSE, noHead |-> FALSE, noCompound |-> FALSE,
            segment |-> FALSE, english |-> FALSE]

Freq(word) == IF word \in DOMAIN Corpus THEN Corpus[word].freq ELSE 0
Data(word) == IF word \in DOMAIN Corpus THEN Corpus[word] ELSE Unknown

NewSegment(word, from, to) ==
    [from |-> from, text |-> Part(word, from, to), root |-> <<>>, fuge |-> -1,
     data |-> Data(Part(word, from, to))]

LengthOf(segment) == IF segment.root = <<>> THEN Len(segment.text) ELSE Len(segment.root)

LongEnough(word, data) == Len(word) >= Config.minSegmentLength \/ data.segment

\* A dictionary of a Germanic language: its words and the endings of its
\* configuration are letters, and a word of the dictionary is more frequent
\* than one that is not.
GermanicDictionary(letters) ==
  /\ DOMAIN Corpus \subseteq Seq(letters)
  /\ \A w \in DOMAIN Corpus : Corpus[w].freq \in Nat
  /\ Config.positive \subseteq Seq(letters) /\ Config.replaceable \subseteq Seq(letters)
  /\ Config.negative \in Seq(Seq(letters)) /\ Config.replacements \in Seq(Seq(letters))
  /\ Config.minSegmentLength \in Nat /\ Config.minSegmentLength >= 2
  /\ Config.minCandidateLength \in Nat \ {0}
  /\ Config.minFrequency \in Nat /\ Config.minFrequency > Unknown.freq
  /\ Config.minFrequenciesDiff \in Nat /\ Config.minFrequenciesDiff > Unknown.freq
  /\ Config.maxFugenelementLength \in Nat /\ Config.maxDepth \in Nat

\* The better of a word and of what an ending makes of a stem, or of the word
\* itself if there is no stem.
Better(best, stem, ending, anyLength) ==
    LET word == (IF stem = <<>> THEN best.root ELSE stem) \o ending
    IN  IF Freq(word) > best.freq /\ (anyLength \/ LongEnough(word, Data(word)))
        THEN [root |-> word, freq |-> Freq(word), found |-> TRUE] ELSE best

\* The best that endings make, one after another.
Improved(best, stem, endings, anyLength) ==
    LET upTo[i \in 0..Len(endings)] ==
          IF i = 0 THEN best ELSE Better(upTo[i - 1], stem, endings[i], anyLength)
    IN  upTo[Len(endings)]

\* Without the last fugeLength letters.
Attempt(segment, fugeLength) ==
    LET text == segment.text
        root == Part(text, 0, Len(text) - fugeLength)
        fuge == Part(text, Len(text) - fugeLength, Len(text))
        freq == segment.data.freq
        whole == [root |-> root, freq |-> freq, found |-> FALSE]
        plain == IF Freq(root) > freq
                 THEN [root |-> root, freq |-> Freq(root), found |-> LongEnough(root, Data(root))]
                 ELSE whole
        positive == IF fuge \in Config.positive THEN Improved(plain, <<>>, Config.negative, FALSE)
                    ELSE whole
        settled == IF positive.found THEN positive ELSE whole
    IN  IF fuge \in Config.positive \cup Config.replaceable
        THEN [best |-> IF fuge \in Config.replaceable /\ settled.freq <= Config.maxReplacementFreq
                       THEN Improved(settled, <<>>, Config.replacements, TRUE) ELSE settled,
              fuge |-> fugeLength]
        ELSE [best |-> IF LengthOf(segment) >= Config.minSegmentLength
                       THEN Improved(whole, text, Config.negative, FALSE) ELSE whole,
              fuge |-> -1]

DetachFugenelement(segment) ==
    LET lengths == {l \in 1..Config.maxFugenelementLength :
                      Len(segment.text) >= l + Config.minSegmentLength - 1}
        found == {l \in lengths : Attempt(segment, l).best.found}
        longest == CHOOSE l \in found : \A k \in found : k <= l
        attempt == Attempt(segment, longest)
    IN  IF Len(segment.text) < Config.minSegmentLength \/ found = {} THEN segment
        ELSE [segment EXCEPT !.root = attempt.best.root, !.fuge = attempt.fuge,
                             !.data = Data(attempt.best.root)]

Detached(segment, isStringTail) ==
    IF isStringTail THEN segment ELSE DetachFugenelement(segment)

\* before and after are the segments one letter shorter and longer, if any.
ValidateFirst(segment, before, after, isStringTail) ==
    LET freq == segment.data.freq
    IN  /\ ~(isStringTail /\ segment.data.noHead)
        /\ LengthOf(segment) >= Config.minSegmentLength \/ segment.data.segment
        /\ ~segment.data.noAtomic
        /\ \/ freq >= Config.minFrequency
           \/ /\ before # <<>> /\ after # <<>>
              /\ \A s \in Range(before \o after) : freq >= s.data.freq + Config.minFrequenciesDiff

ValidateSecond(segment) ==
    /\ LengthOf(segment) >= Config.minSegmentLength \/ segment.data.segment
    /\ ~segment.data.noAtomic

\* How far the analysis has come: the parts of the word, the first of them the
\* one that is split next, and the word itself last; the end of that first part
\* without its fuge element, and how many letters that has.
Unsplit(word) ==
    LET whole == NewSegment(word, 0, Len(word))
    IN  [parts |-> <<whole, whole>>, wordEnd |-> Len(word), trailing |-> 0]

MaySplit(reading) ==
    LET data == reading.parts[1].data
    IN  /\ ~data.noCompound /\ ~data.english /\ data.freq <= Config.maxCompoundFreq
        /\ Len(reading.parts) - 1 <= Config.maxDepth

\* The last part, of k letters before wordEnd, is the end of the string at first.
LastPart(word, reading, k) ==
    Detached(NewSegment(word, reading.wordEnd - k, reading.wordEnd + reading.trailing),
             Len(reading.parts) = 2)

FirstPart(word, reading, k) == DetachFugenelement(NewSegment(word, 0, reading.wordEnd - k))

SplitsWith(word, reading, k) ==
    LET upper == reading.wordEnd - Config.minCandidateLength
        before == IF k = Config.minCandidateLength THEN <<>> ELSE <<LastPart(word, reading, k - 1)>>
        after == IF k < upper
                 THEN <<NewSegment(word, reading.wordEnd - (k + 1), reading.wordEnd + reading.trailing)>>
                 ELSE <<>>
    IN  /\ k <= upper /\ k < Config.maxCompoundLength - 1
        /\ ValidateFirst(LastPart(word, reading, k), before, after, Len(reading.parts) = 2)
        /\ ValidateSecond(FirstPart(word, reading, k))

\* A reading whose first part is split in two, the last of k letters.
SplitOff(word, reading, k) ==
    LET second == FirstPart(word, reading, k)
        fuge == IF second.fuge > 0 THEN second.fuge ELSE 0
    IN  [parts |-> <<second, LastPart(word, reading, k)>> \o Tail(reading.parts),
         wordEnd |-> reading.wordEnd - k - fuge, trailing |-> fuge]

ReadingsWith(word, reading) ==
    IF MaySplit(reading)
    THEN {SplitOff(word, reading, k) :
            k \in {n \in Config.minCandidateLength..reading.wordEnd : SplitsWith(word, reading, n)}}
    ELSE {}

\* The readings of a word after n calls of analyze, each in the one before.
Analyze(word) ==
    LET calls[n \in 0..Config.maxDepth] ==
          IF n = 0 THEN {Unsplit(word)}
          ELSE UNION {ReadingsWith(word, reading) : reading \in calls[n - 1]}
    IN  calls

\* Mutant of OffsetsOf: a fuge element is put behind the part that follows it.
OffsetsOf_FugeBehind(part, next) ==
    (IF part.from # 0 THEN <<part.from>> ELSE <<>>)
      \o (IF part.fuge > 0 THEN <<next.from + part.fuge>> ELSE <<>>)

\* Where a part begins, and its fuge element.
OffsetsOf(part, next) ==
    (IF part.from # 0 THEN <<part.from>> ELSE <<>>)
      \o (IF part.fuge > 0 THEN <<next.from - part.fuge>> ELSE <<>>)

\* What getBestOffsets makes of a reading.
Offsets(parts) ==
    LET upTo[i \in 0..Len(parts)] ==
          IF i = 0 THEN <<>>
          ELSE IF i = Len(parts) THEN upTo[i - 1]
          ELSE upTo[i - 1] \o OffsetsOf(parts[i], parts[i + 1])
    IN  upTo[Len(parts)]

\* The boundaries GermanicDecompounder::decompound may find.
Germanic(word) ==
    {Offsets(reading.parts) : reading \in UNION {Analyze(word)[n] : n \in 0..Config.maxDepth}}

----------------------------------------------------------------------------
(* Arabic and Hebrew *)

MINIMUM_WORD_LENGTH == 2

\* The affixes of a Semitic language are letters.
AffixTable(letters) ==
  Affixes.prefixes \in Seq(SUBSET Seq(letters)) /\ Affixes.suffixes \subseteq Seq(letters)


IsWordToNotSplit(word) == word \in Affixes.whole

\* Whether n letters from `at' on lie on a path of the tree of affixes.
OnPath(affixes, word, at, n) ==
    n = 0 \/ \E a \in affixes : n <= Len(a) /\ SubSeq(a, 1, n) = Part(word, at, at + n)

\* How many letters do, of `room' of which one word is always left, and whether
\* the path is an affix.
Walk(affixes, word, at, room) ==
    LET most == room - MINIMUM_WORD_LENGTH
        n == CHOOSE n \in 0..most : /\ OnPath(affixes, word, at, n)
                                    /\ n < most => ~OnPath(affixes, word, at, n + 1)
    IN  [letters |-> n, affix |-> n > 0 /\ Part(word, at, at + n) \in affixes]

WithPrefix(word, ends, start, end, affixes) ==
    LET at == IF ends = <<>> THEN start ELSE Last(ends)
        step == Walk(affixes, word, at, end - at)
    IN  IF end - at <= MINIMUM_WORD_LENGTH \/ IsWordToNotSplit(Part(word, at, end)) \/ ~step.affix
        THEN ends ELSE Append(ends, at + step.letters)

\* The ends of the prefixes of [start, end), one of each class at most.
Prefixed(word, start, end) ==
    LET ends[i \in 0..Len(Affixes.prefixes)] ==
          IF i = 0 THEN <<>> ELSE WithPrefix(word, ends[i - 1], start, end, Affixes.prefixes[i])
    IN  ends[Len(Affixes.prefixes)]

\* The calls of decompoundWord: `any' says whether there are boundaries already.
Calls(word) == [start : 0..Len(word), end : 0..Len(word), any : BOOLEAN]
CallFor(start, end, any) == [start |-> start, end |-> end, any |-> any]

\* What a call adds to the boundaries, given what the calls inside it add.
Decompound(word, call, inner) ==
    LET stretch == Part(word, call.start, call.end)
        prefixes == Prefixed(word, call.start, call.end)
        from == IF prefixes = <<>> THEN call.start ELSE Last(prefixes)
        room == call.end - from
        walk == Walk({Reverse(s) : s \in Affixes.suffixes}, Reverse(stretch), 0, room)
        suffixed == ~IsWordToNotSplit(Part(word, from, call.end)) /\ room > MINIMUM_WORD_LENGTH /\ walk.affix
        suffix == call.end - walk.letters
        several == Len(prefixes) > 1
        inside == inner[CallFor(from, suffix, TRUE)]
        found == prefixes \o (IF ~suffixed THEN <<>>
                              ELSE IF several /\ inside # <<>> THEN inside ELSE <<suffix>>)
        rest == IF suffixed THEN suffix ELSE from
    IN  IF Len(stretch) <= MINIMUM_WORD_LENGTH \/ IsWordToNotSplit(stretch) THEN <<>>
        ELSE IF several THEN found \o inner[CallFor(rest, call.end, TRUE)]
        ELSE IF call.any \/ found # <<>> THEN Append(found, call.end) ELSE <<>>

\* What a call adds of which n others go on, one inside the other; each is for
\* fewer letters than the one it is in.
DecompoundWord(word) ==
    LET calls[n \in 0..Len(word)] ==
          IF n = 0 THEN [call \in Calls(word) |-> <<>>]
          ELSE [call \in Calls(word) |-> Decompound(word, call, calls[n - 1])]
    IN  calls[Len(word)]

Semitic(word) == DecompoundWord(word)[CallFor(0, Len(word), FALSE)]

----------------------------------------------------------------------------
(* Finnish *)

FiMin == [suffixSplit |-> 6, compoundSplit |-> 7, unknownStem |-> 5, stem |-> 3,
          middleSuffix |-> 3, suffix |-> 10, sequence |-> 4]
FiMinLogProb == -1000

FiSegment(word, from, to, isTail) ==
    LET label == Part(word, from, to)
        known == label \in DOMAIN Corpus
    IN  [label |-> label, from |-> from, to |-> to, isTail |-> isTail, found |-> known,
         prob |-> IF known THEN Corpus[label].prob ELSE 0,
         breakPoint |-> IF known THEN Corpus[label].breakPoint ELSE 0,
         isCompound |-> known /\ Corpus[label].isCompound]

IsSuffixSequence(text) == text \in Endings.all

\* Where a sequence of suffixes is split: before the first of the splitting
\* ones, and where it goes on with another.
BreakPoints(suffixes) ==
    LET first(i) == Part(suffixes, 0, i)
        second(i) == Part(suffixes, i, Len(suffixes))
        afterI(i) == Len(second(i)) > 1 /\ second(i)[1] = "i" /\ Tail(second(i)) \in Endings.split
        splits == {i \in 1..(Len(suffixes) - 2) :
                     /\ IsSuffixSequence(first(i)) /\ IsSuffixSequence(second(i))
                     /\ first(i) \in Endings.split \/ second(i) \in Endings.split \/ afterI(i)}
        i == CHOOSE i \in splits : \A j \in splits : i <= j
    IN  IF suffixes \in Endings.notNominative THEN <<1>>
        ELSE IF suffixes \in Endings.split THEN <<0>>
        ELSE IF Len(suffixes) < FiMin.sequence \/ splits = {} THEN <<>>
        ELSE IF first(i) \in Endings.split THEN <<0, i>>
        ELSE IF second(i) \in Endings.split THEN <<i>> ELSE <<i + 1>>

Shifted(boundaries, start) == [i \in DOMAIN boundaries |-> boundaries[i] + start]

SuffixInfo(suffixes, at) ==
    IF IsSuffixSequence(suffixes) THEN Shifted(BreakPoints(suffixes), at) ELSE <<>>

\* "an" and "en" count as suffixes only of a word in "aan" and "een".
IsInNotNominative(segment, suffix) ==
    \A long \in Endings.notNominative :
       suffix = Tail(long) => IsSuffix(long, segment.label)

\* What the dictionary itself says of a word's parts.
KnownBoundaries(word, segment) ==
    LET known[from \in 0..Len(word), to \in 0..Len(word), isTail \in BOOLEAN] ==
          LET whole == FiSegment(word, from, to, isTail)
              at == to - whole.breakPoint
              suffixes == Part(word, at, to)
          IN  IF ~whole.found \/ whole.breakPoint = 0 THEN <<>>
              ELSE known[from, at, FALSE] \o
                   (IF whole.isCompound /\ ~IsSuffixSequence(suffixes)
                    THEN <<at>> \o known[at, to, TRUE]
                    ELSE IF isTail /\ IsInNotNominative(whole, suffixes)
                    THEN SuffixInfo(suffixes, at) ELSE <<>>)
    IN  known[segment.from, segment.to, segment.isTail]

\* How much of a label may be suffixes, in the order they are tried.
Affix(label, n, middle) ==
    LET affix == Part(label, Len(label) - n, Len(label))
    IN  IF middle THEN affix \in Endings.middle
        ELSE \/ affix \in Endings.clitic \/ IsSuffixSequence(affix)
             \/ \E j \in 1..(n - 2) : /\ IsSuffixSequence(Part(affix, 0, n - j))
                                     /\ Part(affix, n - j, n) \in Endings.clitic

Stemming(label, middle) ==
    LET most == IF middle THEN FiMin.middleSuffix ELSE FiMin.suffix
        longest == IF most < Len(label) - FiMin.stem THEN most ELSE Len(label) - FiMin.stem
    IN  SelectSeq([n \in 1..(IF longest < 0 THEN 0 ELSE longest) |-> n],
                  LAMBDA n : Affix(label, n, middle))

\* A word without its suffixes: FiSuffixSplit::addBoundaries.
SuffixSplit(word, segment, middle) ==
    LET label == segment.label
        stem(n) == FiSegment(word, segment.from, segment.to - n, FALSE)
        tried == Stemming(label, middle)
        known == {n \in Range(tried) : stem(n).found}
        best == CHOOSE n \in known : \A k \in known :
                   \/ stem(n).prob > stem(k).prob
                   \/ stem(n).prob = stem(k).prob /\ n <= k
        long == {n \in Range(tried) : Len(label) - n >= FiMin.unknownStem}
        removed == IF known # {} THEN best
                   ELSE IF long = {} THEN 0 ELSE CHOOSE n \in long : \A k \in long : k <= n
        suffix == Part(label, Len(label) - removed, Len(label))
    IN  IF segment.found
        THEN [found |-> TRUE, prob |-> segment.prob, boundaries |-> KnownBoundaries(word, segment)]
        ELSE [found |-> known # {},
              prob |-> IF known # {} THEN stem(best).prob ELSE FiMinLogProb,
              boundaries |->
                 (IF known # {} THEN KnownBoundaries(word, stem(best)) ELSE <<>>) \o
                 (IF ~middle /\ IsInNotNominative(segment, suffix)
                  THEN SuffixInfo(suffix, segment.to - removed) ELSE <<>>)]

\* Two words, of which the second may be two again: the better of what was
\* found and of a split at i, given what is made of the second word in turn.
SplitAt(best, word, from, i, nested) ==
    LET one == SuffixSplit(word, FiSegment(word, from, i, FALSE), TRUE)
        two == SuffixSplit(word, FiSegment(word, i, Len(word), TRUE), FALSE)
        deeper == ~two.found /\ ~best.found /\ one.found /\ Len(word) - i >= FiMin.compoundSplit
        second == IF deeper THEN nested ELSE two
        newFound == one.found /\ two.found
    IN  IF best.thrown \/ (best.found /\ ~one.found) THEN best
        ELSE IF deeper /\ nested.thrown THEN [best EXCEPT !.thrown = TRUE]
        ELSE IF one.prob + second.prob > best.prob \/ (~best.found /\ newFound)
        THEN [best EXCEPT !.boundaries = one.boundaries \o <<i>> \o second.boundaries,
                          !.prob = one.prob + second.prob, !.found = @ \/ newFound]
        ELSE best

\* It gives up at a depth.
FiCompound(word) ==
    LET none == [found |-> FALSE, thrown |-> FALSE, prob |-> 2 * FiMinLogProb, boundaries |-> <<>>]
        compound[from \in 0..Len(word), depth \in 0..Config.maxDepth] ==
          LET first == from + FiMin.stem
              splits == first..(Len(word) - FiMin.stem)
          IN  IF depth = 0 THEN [none EXCEPT !.thrown = TRUE]
              ELSE FoldLeft(LAMBDA best, i : SplitAt(best, word, from, i, compound[i, depth - 1]),
                            none, [k \in 1..Cardinality(splits) |-> first + k - 1])
    IN  compound[0, Config.maxDepth]

\* The boundaries inside a word: FiTokenExtractorIterator::getNextBoundary.
Finnish(word) ==
    LET whole == FiSegment(word, 0, Len(word), TRUE)
        split == SuffixSplit(word, whole, FALSE)
    IN  IF Len(word) <= FiMin.stem THEN <<>>
        ELSE IF whole.found THEN KnownBoundaries(word, whole)
        ELSE IF Len(word) < FiMin.suffixSplit THEN <<>>
        ELSE IF split.found \/ Len(word) < FiMin.compoundSplit THEN split.boundaries
        ELSE FiCompound(word).boundaries
============================================================================
