------------------------- MODULE BreakIteratorPool -------------------------
(***************************************************************************)
(* The process-wide pool of ICU break iterators behind                     *)
(* ICUTokenExtractorIterator                                               *)
(* (src/src/inflection/tokenizer/iterator/ICUTokenExtractorIterator.cpp).  *)
(*                                                                         *)
(* A thread that tokenizes checks an iterator out of the stack, or clones  *)
(* one when the stack is empty, points it at its text, iterates, and       *)
(* checks it in again when the ICUTokenExtractorIterator is destroyed.     *)
(* Checkout and checkin each run under CLASS_MUTEX and call nothing that   *)
(* takes another lock, so each is one step.  The texts of other threads    *)
(* are gone when their iterators are back in the pool: an iterator that    *)
(* still points at one dangles.                                            *)
(***************************************************************************)
EXTENDS Naturals, Sequences, FiniteSets, TLC

CONSTANTS Threads,
          Iterators,     \* the addresses ubrk_clone can return
          MaxPoolSize,   \* MAX_TOKENIZER_POOL_SIZE
          None           \* no iterator, no text

ASSUME PoolAssumption ==
  /\ MaxPoolSize \in Nat
  /\ None \notin Iterators /\ None \notin Threads
  /\ IsFiniteSet(Threads)

VARIABLES pool,      \* gTokenizerCache, its top last
          open,      \* the iterators cloned and not yet closed
          held,      \* breakIterator of each thread's ICUTokenExtractorIterator
          text,      \* the thread whose string an iterator points at
          pc,        \* idle, checkedOut (no text set yet) or iterating
          lost       \* open iterators whose owner was never constructed

vars == <<pool, open, held, text, pc, lost>>

\* The iterators in the pool.
Pooled == {pool[i] : i \in 1..Len(pool)}

\* Type correctness: an iterator is an address, a text belongs to a thread.
TypeOK ==
  /\ pool \in Seq(Iterators)
  /\ open \subseteq Iterators /\ lost \subseteq Iterators
  /\ held \in [Threads -> Iterators \cup {None}]
  /\ text \in [Iterators -> Threads \cup {None}]
  /\ pc \in [Threads -> {"idle", "checkedOut", "iterating"}]

Init ==
  /\ pool = << >>
  /\ open = {} /\ lost = {}
  /\ held = [t \in Threads |-> None]
  /\ text = [i \in Iterators |-> None]
  /\ pc = [t \in Threads |-> "idle"]

-----------------------------------------------------------------------------
Hold(t, i, site) ==
  /\ held' = [held EXCEPT ![t] = i]
  /\ pc' = [pc EXCEPT ![t] = site]

\* Mutant of Checkout: the top is read and popped only on the next checkout.
Checkout_NoPop(t) ==
  /\ pc[t] = "idle" /\ pool # << >>
  /\ Hold(t, pool[Len(pool)], "checkedOut")
  /\ UNCHANGED <<pool, open, text, lost>>

\* checkoutCachedTokenizer with a pool that is not empty: the top is popped.
Checkout(t) ==
  /\ pc[t] = "idle" /\ pool # << >>
  /\ Hold(t, pool[Len(pool)], "checkedOut")
  /\ pool' = SubSeq(pool, 1, Len(pool) - 1)
  /\ UNCHANGED <<open, text, lost>>

\* checkoutCachedTokenizer with an empty pool: a clone of the source iterator.
Clone(t) ==
  /\ pc[t] = "idle" /\ pool = << >>
  /\ \E i \in Iterators \ open :
       /\ open' = open \cup {i}
       /\ text' = [text EXCEPT ![i] = None]
       /\ Hold(t, i, "checkedOut")
  /\ UNCHANGED <<pool, lost>>

\* A clone that fails, or is null, throws out of the caller's constructor and
\* leaves nothing behind.
CloneThrows(t) ==
  /\ pc[t] = "idle" /\ pool = << >>
  /\ UNCHANGED vars

\* Mutant of SetText: a recycled iterator keeps the text it has.
SetText_FirstOnly(t) ==
  /\ pc[t] = "checkedOut"
  /\ text' = [text EXCEPT ![held[t]] = IF @ = None THEN t ELSE @]
  /\ Hold(t, held[t], "iterating")
  /\ UNCHANGED <<pool, open, lost>>

\* getCachedWordBreakIterator sets the caller's text.
SetText(t) ==
  /\ pc[t] = "checkedOut"
  /\ text' = [text EXCEPT ![held[t]] = t]
  /\ Hold(t, held[t], "iterating")
  /\ UNCHANGED <<pool, open, lost>>

\* ubrk_setText fails: the exception leaves the constructor, so that no
\* destructor runs and the iterator is neither checked in nor closed.
SetTextThrows(t) ==
  /\ pc[t] = "checkedOut"
  /\ lost' = lost \cup {held[t]}
  /\ Hold(t, None, "idle")
  /\ UNCHANGED <<pool, open, text>>

\* The destructor, checkinCachedTokenizer: the iterator is pushed when the
\* pool has room (line 67 compares with <=).
Checkin(t) ==
  /\ pc[t] = "iterating"
  /\ Len(pool) <= MaxPoolSize
  /\ pool' = Append(pool, held[t])
  /\ Hold(t, None, "idle")
  /\ UNCHANGED <<open, text, lost>>

\* Mutant of Close: the full pool just drops the iterator.
Close_Drops(t) ==
  /\ pc[t] = "iterating"
  /\ Hold(t, None, "idle")
  /\ UNCHANGED <<pool, open, text, lost>>

\* checkinCachedTokenizer with a full pool, or when push throws bad_alloc: the
\* iterator is closed.
Close(t) ==
  /\ pc[t] = "iterating"
  /\ open' = open \ {held[t]}
  /\ Hold(t, None, "idle")
  /\ UNCHANGED <<pool, text, lost>>

Next == \E t \in Threads :
  Checkout(t) \/ Clone(t) \/ CloneThrows(t) \/ SetText(t)
  \/ SetTextThrows(t) \/ Checkin(t) \/ Close(t)

Spec == Init /\ [][Next]_vars

-----------------------------------------------------------------------------
\* An iterator is never used by two threads, nor by one while another could
\* pop it, nor pooled twice, and none in use or in the pool is closed.
Exclusive ==
  /\ \A t, u \in Threads : held[t] # None /\ held[t] = held[u] => t = u
  /\ \A t \in Threads : held[t] \notin Pooled
  /\ \A i, j \in 1..Len(pool) : pool[i] = pool[j] => i = j
  /\ Pooled \subseteq open
  /\ \A t \in Threads : held[t] # None => held[t] \in open

\* Whatever string a recycled iterator was last pointed at, the thread that
\* iterates with it reads its own.
ReadsOwnText == \A t \in Threads : pc[t] = "iterating" => text[held[t]] = t

\* Every open iterator can be accounted for: it is in the pool, in use, or
\* lost by a constructor that threw. Nothing else leaks.
NothingElseLeaks ==
  open = Pooled \cup ({held[t] : t \in Threads} \ {None}) \cup lost

\* What the code bounds the pool by: one more than the maximum (line 67).
PoolBounded == Len(pool) <= MaxPoolSize + 1

\* The iterators are accounted for and the pool is bounded, whatever fails.
PoolAccounted == NothingElseLeaks /\ PoolBounded

\* Recycling works: apart from the lost ones there are never more iterators
\* than threads that tokenized at the same time, however often they do.
NoMoreThanThreads == Cardinality(open \ lost) <= Cardinality(Threads)

\* Threads and iterators are interchangeable.
Symmetry == Permutations(Threads) \cup Permutations(Iterators)
=============================================================================
