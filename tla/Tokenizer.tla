----------------------------- MODULE Tokenizer -----------------------------
(***************************************************************************)
(* Tokenizer::createTokenChain of one text: a token for every boundary,    *)
(* ControlCleaver's pass over the tokens, and the TokenChain with its      *)
(* index of tokens (src/src/inflection/tokenizer).                         *)
(*                                                                         *)
(* A token is where it starts, where it ends, and its class.  The head and *)
(* the tail, which have no text, are implied at both ends of `tokens'.     *)
(***************************************************************************)
EXTENDS TokenBoundaries, FiniteSets

VARIABLES phase,      \* where createTokenChain is
          startIdx,   \* the end of the last token
          tokens,     \* the tokens between head and tail
          at,         \* the token ControlCleaver looks at
          tokenArray  \* TokenChain::tokenArray, once it is there

vars == <<text, extractor, iteratorVars, phase, startIdx, tokens, at, tokenArray>>

Token  == [start : Positions, end : Positions, class : {"word", "delim"}]
Places == [kind : {"head", "tail", "none"}] \cup [kind : {"token"}, token : Token]
Token_Head == [kind |-> "head"]
Token_Tail == [kind |-> "tail"]
NoToken == [kind |-> "none"]

TypeOK ==
  /\ text \in Texts /\ extractor \in Extractors
  /\ icu \in Results /\ wordBreaks \in SUBSET Positions
  /\ boundaries \in Seq(Positions) /\ boundariesIdx \in 0..Len(boundaries)
  /\ lastStart \in Positions
  /\ rStart \in Results /\ rEnd \in Results /\ previousBreak \in Results
  /\ groupEnds \in Seq(Results) /\ group \in Int
  /\ nEnd \in Results /\ split \in Results
  /\ phase \in {"tokenizing", "cleaving", "linked", "done"}
  /\ startIdx \in Positions
  /\ tokens \in Seq(Token) /\ at \in Nat
  /\ tokenArray \in Seq(Places)

Init ==
  /\ BoundariesInit
  /\ phase = IF text = << >> THEN "linked" ELSE "tokenizing"
  /\ startIdx = 0 /\ tokens = << >> /\ at = 1 /\ tokenArray = << >>

-----------------------------------------------------------------------------
Delimiters  == {"space", "control", "apos"}   \* DELIMITER_CHARACTERS
PriorToDash == Letters                        \* PRIOR_TO_DASH_DELIMITER

ContainsAllDelimiters(start, end) == \A i \in start..(end - 1) : Unit(i) \in Delimiters

IsDash(start, end) == end = start + 1 /\ Unit(start) = "dash"

\* isDelimiterPriorToDash(tail): the last token so far begins with a letter.
AfterLetter ==
  tokens # << >> /\ Unit(tokens[Len(tokens)].start) \in PriorToDash

Tokenized(start, end) ==
  [start |-> start, end |-> end,
   class |-> IF ContainsAllDelimiters(start, end) \/ (IsDash(start, end) /\ AfterLetter)
             THEN "delim" ELSE "word"]

\* An end that is not after the last one is logged, and still moves startIdx.
NextToken ==
  /\ phase = "tokenizing"
  /\ NextBoundary /\ Boundary' # DONE
  /\ startIdx' = Boundary'
  /\ tokens' = IF startIdx >= startIdx' THEN tokens
               ELSE Append(tokens, Tokenized(startIdx, startIdx'))
  /\ UNCHANGED <<phase, at, tokenArray>>

NoMoreTokens ==
  /\ phase = "tokenizing"
  /\ NextBoundary /\ Boundary' = DONE
  /\ phase' = IF extractor.unmodified THEN "linked" ELSE "cleaving"
  /\ UNCHANGED <<startIdx, tokens, at, tokenArray>>

-----------------------------------------------------------------------------
\* ControlCleaver: a token that ends in bidi controls loses them to tokens of
\* their own, and disappears if it had nothing else.
IsTrail(x, token) ==
  /\ \A i \in x..(token.end - 1) : Unit(i) = "control"
  /\ x > token.start => Unit(x - 1) # "control"

Pieces(token, x) ==
  LET controls == [i \in 1..(token.end - x) |->
                     [start |-> x + i - 1, end |-> x + i, class |-> "delim"]]
  IN  IF x = token.start THEN controls
                         ELSE <<[token EXCEPT !.end = x]>> \o controls

Cleave ==
  /\ phase = "cleaving" /\ at <= Len(tokens)
  /\ LET token == tokens[at] IN
     \E x \in token.start..token.end :
        /\ IsTrail(x, token)
        /\ IF token.end - token.start > 1 /\ x < token.end
           THEN /\ tokens' = SubSeq(tokens, 1, at - 1) \o Pieces(token, x)
                               \o SubSeq(tokens, at + 1, Len(tokens))
                /\ at' = at + Len(Pieces(token, x))
           ELSE at' = at + 1 /\ UNCHANGED tokens
  /\ UNCHANGED <<text, extractor, iteratorVars, phase, startIdx, tokenArray>>

Cleaved ==
  /\ phase = "cleaving" /\ at > Len(tokens)
  /\ phase' = "linked"
  /\ UNCHANGED <<text, extractor, iteratorVars, startIdx, tokens, at, tokenArray>>

-----------------------------------------------------------------------------
\* The tokens TokenChain's constructor comes to: it stops behind the first
\* whose successor (the tail, for the last) starts before its end.
Reached(chain, n) ==
  \A i \in 1..(n - 1) : chain[i + 1].start >= chain[i].end

\* Mutant of Index: a token is entered one behind its last unit.
Index_End(chain, end) ==
  LET Here(i) == {n \in DOMAIN chain : Reached(chain, n) /\ i \in {chain[n].start, chain[n].end}}
  IN  [p \in 1..(end + 1) |->
        LET i == p - 1 IN
        IF Here(i) # {}
        THEN [kind |-> "token",
              token |-> chain[CHOOSE n \in Here(i) : \A k \in Here(i) : k <= n]]
        ELSE IF i = end THEN Token_Tail ELSE IF i = 0 THEN Token_Head ELSE NoToken]

\* The index of a chain has a token at its first and its last unit, and the
\* tail at the end; the head is overwritten by the first token.  A later
\* token wins.
Index(chain, end) ==
  LET Here(i) == {n \in DOMAIN chain : Reached(chain, n) /\ i \in {chain[n].start, chain[n].end - 1}}
  IN  [p \in 1..(end + 1) |->
        LET i == p - 1 IN
        IF Here(i) # {}
        THEN [kind |-> "token",
              token |-> chain[CHOOSE n \in Here(i) : \A k \in Here(i) : k <= n]]
        ELSE IF i = end THEN Token_Tail ELSE IF i = 0 THEN Token_Head ELSE NoToken]

\* TokenChain::getNewTokenChain: the tokens that lie between two offsets,
\* counted from the first.  The tail is where the last of them ends.
SubChain(from, to) ==
  LET upTo[n \in 0..Len(tokens)] ==
        IF n = 0 THEN << >>
        ELSE IF tokens[n].start < from \/ tokens[n].end > to THEN upTo[n - 1]
        ELSE Append(upTo[n - 1], [tokens[n] EXCEPT !.start = @ - from, !.end = @ - from])
  IN  upTo[Len(tokens)]

-----------------------------------------------------------------------------
\* Chunk: a part of a chain, from one of its tokens to another; the chain itself
\* is the chunk from its head to its tail.
Linked(chain, end) ==
  <<[start |-> 0, end |-> 0, class |-> "head"]>> \o chain
    \o <<[start |-> end, end |-> end, class |-> "tail"]>>
Whole(chain) == [first |-> 1, last |-> Len(chain) + 2]

NoChunk == [first |-> 0, last |-> 0]
Unlinked == [first |-> 0, last |-> -1]  \* IllegalArgumentException

\* checkSize: the last token is linked to from the first.
Chunk(first, last) == IF last < first THEN Unlinked ELSE [first |-> first, last |-> last]

First(S) == CHOOSE i \in S : \A j \in S : i <= j
GetSubChunk(linked, chunk, from, to) ==
  LET begins == {i \in chunk.first..chunk.last : linked[i].start <= from /\ from < linked[i].end}
      ends   == {i \in chunk.first..chunk.last : linked[i].start < to /\ to <= linked[i].end}
  IN  IF begins = {} \/ ends = {} THEN NoChunk ELSE Chunk(First(begins), First(ends))

\* A word, unless it is a single unit that is neither a letter nor a digit.
IsSignificant(token) ==
  token.class = "word" /\ (token.end - token.start > 1 \/ Unit(token.start) \in Alpha \cup {"digit"})

\* The last token of a chunk is not counted.
GetWordCount(linked, chunk) ==
  Cardinality({i \in chunk.first..(chunk.last - 1) : IsSignificant(linked[i])})

Value(token) == SubSeq(text, token.start + 1, token.end)

Trim(string) ==
  LET solid == {i \in DOMAIN string : string[i] # "space"}
  IN  IF solid = {} THEN << >>
      ELSE SubSeq(string, First(solid), CHOOSE i \in solid : \A j \in solid : j <= i)

GetNormalizedString(linked, chunk, normalizeDelim) ==
  LET Shown(token) ==
        IF token.class = "word" \/ ~normalizeDelim THEN Value(token)
        ELSE IF token.end > token.start THEN <<"space">> ELSE << >>
      result[n \in (chunk.first - 1)..chunk.last] ==
        IF n < chunk.first THEN << >> ELSE result[n - 1] \o Shown(linked[n])
  IN  IF normalizeDelim THEN Trim(result[chunk.last]) ELSE result[chunk.last]

\* TokenChain::toOriginatingString: the tokens before the tail, without one that
\* begins before the end of the last that was taken.
ToOriginatingString(linked) ==
  LET taken[n \in 0..(Len(linked) - 1)] ==
        IF n = 0 THEN [string |-> << >>, lastIndex |-> -1]
        ELSE IF linked[n].start < taken[n - 1].lastIndex THEN taken[n - 1]
        ELSE [string |-> taken[n - 1].string \o Value(linked[n]), lastIndex |-> linked[n].end]
  IN  taken[Len(linked) - 1].string

-----------------------------------------------------------------------------
BuildChain ==
  /\ phase = "linked"
  /\ tokenArray' = Index(tokens, End) /\ phase' = "done"
  /\ UNCHANGED <<text, extractor, iteratorVars, startIdx, tokens, at>>

Next == NextToken \/ NoMoreTokens \/ Cleave \/ Cleaved \/ BuildChain

Spec == Init /\ [][Next]_vars
FairSpec == Spec /\ WF_vars(Next)

-----------------------------------------------------------------------------
\* TokenChain::getToken, for an offset within the text of a chain.
GetToken(index, i) == index[i + 1]

\* The tokens are a partition of the text at every moment: each begins where
\* the one before ends, the last at startIdx, and at last at the end of the
\* text.  So toOriginatingString gives the text back.
TokensPartitionText ==
  /\ \A n \in DOMAIN tokens :
       /\ tokens[n].start = (IF n = 1 THEN 0 ELSE tokens[n - 1].end)
       /\ tokens[n].start < tokens[n].end
  /\ startIdx = (IF tokens = << >> THEN 0 ELSE tokens[Len(tokens)].end)
  /\ phase # "tokenizing" => startIdx = End

\* No layer loses a word break: wherever ICU broke the text, a token ends.
WordBreaksKept ==
  \A x \in wordBreaks : x <= startIdx => \E n \in DOMAIN tokens : tokens[n].end = x

\* No layer, and not the cleaving of controls, cuts a character into halves.
CharactersWhole ==
  \A n \in DOMAIN tokens : WholeCharacter(tokens[n].start) /\ WholeCharacter(tokens[n].end)

\* With the default style, no token of the finished chain has a bidi control
\* at its end that is not a token of its own (ControlCleaver).
ControlsApart ==
  phase \in {"linked", "done"} /\ ~extractor.unmodified =>
    \A n \in DOMAIN tokens :
      LET t == tokens[n] IN Unit(t.end - 1) = "control" => t.end = t.start + 1

\* What the layers and ControlCleaver keep and must not undo for each other.
BreaksRespected == WordBreaksKept /\ CharactersWhole /\ ControlsApart

\* "Only the indexes provided by Token::getStartChar() and Token::getEndChar()
\* in this TokenChain are valid" (TokenChain.hpp): the start of a token finds
\* it, and its end what follows it.
AtBoundaries(chain, index) ==
  \A n \in DOMAIN chain :
    /\ GetToken(index, chain[n].start) = [kind |-> "token", token |-> chain[n]]
    /\ GetToken(index, chain[n].end) =
         IF n = Len(chain) THEN Token_Tail ELSE [kind |-> "token", token |-> chain[n + 1]]

\* A chunk between any two offsets is the tokens that hold them and all between:
\* it says what the text says there, and the chain says the whole text and has
\* every word that counts.
ChunksCover(linked) ==
  /\ ToOriginatingString(linked) = text
  /\ GetWordCount(linked, Whole(tokens)) = Cardinality({n \in DOMAIN tokens : IsSignificant(tokens[n])})
  /\ \A from, to \in 0..End :
       from < to =>
         LET chunk == GetSubChunk(linked, Whole(tokens), from, to)
             first == linked[chunk.first]
             last  == linked[chunk.last]
         IN  /\ chunk \notin {NoChunk, Unlinked}
             /\ from \in first.start..(first.end - 1) /\ to \in (last.start + 1)..last.end
             /\ GetNormalizedString(linked, chunk, FALSE) = SubSeq(text, first.start + 1, last.end)
             /\ (\A i \in chunk.first..chunk.last : linked[i].class = "word")
                  => GetNormalizedString(linked, chunk, TRUE) = Trim(GetNormalizedString(linked, chunk, FALSE))

\* The index finds the tokens of the chain, and of every chain that is cut out of
\* it, whether the cuts are between tokens or within one, which a cut leaves out;
\* and so do chunks.
BoundariesFound ==
  phase = "done" =>
    /\ AtBoundaries(tokens, tokenArray)
    /\ ChunksCover(Linked(tokens, End))
    /\ \A from, to \in 0..End :
         LET chain == SubChain(from, to)
         IN  chain # << >> => AtBoundaries(chain, Index(chain, chain[Len(chain)].end))

\* The error "Boundaries did not progress" (Tokenizer.cpp) is never logged.
BoundariesProgress == [][phase' = "tokenizing" => startIdx < startIdx']_vars

\* The iterators on top of each other keep the promise of each: boundaries
\* that rise, the last one the end of the text, and only then UBRK_DONE.
Segments == INSTANCE Segmentation WITH
  Lengths <- {Len(t) : t \in Texts},
  length <- Len(text), cut <- startIdx, ended <- phase # "tokenizing"
ImplementsSegmentation == Segments!Spec

\* Every text is tokenized: no layer returns a boundary for ever.
Terminates == <>(phase = "done")
=============================================================================
