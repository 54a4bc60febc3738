---------------------- MODULE BreakIteratorPoolProofs ----------------------
(***************************************************************************)
(* Proofs about BreakIteratorPool for any number of threads and iterators  *)
(* and any maximum.                                                        *)
(***************************************************************************)
EXTENDS BreakIteratorPool, FiniteSetTheorems, SequenceTheorems, TLAPS

\* A thread has an iterator exactly while it is not idle; what was lost is
\* open, and nobody can reach it again.
OwnerInv ==
  /\ \A t \in Threads : pc[t] = "idle" <=> held[t] = None
  /\ lost \subseteq open
  /\ \A t \in Threads : held[t] \notin lost
  /\ Pooled \cap lost = {}

IInv == /\ TypeOK /\ OwnerInv /\ Exclusive /\ ReadsOwnText
        /\ NothingElseLeaks /\ PoolBounded

-----------------------------------------------------------------------------
LEMMA Predecessor ==
  ASSUME NEW n \in Nat \ {0}
  PROVE  /\ IF 1 <= n - 1 THEN (n - 1) - 1 + 1 = n - 1 ELSE n - 1 = 0
         /\ 1 <= n - 1 \/ n = 1
         /\ n \in 1..n
         /\ \A i \in 1..n : i = n \/ i \in 1..n - 1
         /\ \A i \in 1..n - 1 : 1 + i - 1 = i /\ i \in 1..n
OBVIOUS

\* Popping the top of a stack without duplicates removes the top and only it.
LEMMA PopProps ==
  ASSUME NEW s \in Seq(Iterators), s # << >>,
         \A i, j \in 1..Len(s) : s[i] = s[j] => i = j
  PROVE  LET r == SubSeq(s, 1, Len(s) - 1)
         IN  /\ r \in Seq(Iterators)
             /\ Len(r) = Len(s) - 1
             /\ \A i \in 1..Len(r) : r[i] = s[i]
             /\ s[Len(s)] \in Iterators
             /\ {r[i] : i \in 1..Len(r)} = {s[i] : i \in 1..Len(s)} \ {s[Len(s)]}
<1> DEFINE r == SubSeq(s, 1, Len(s) - 1)
<1>1. Len(s) \in Nat \ {0}
  OBVIOUS
<1>2. /\ r \in Seq(Iterators)
      /\ Len(r) = Len(s) - 1
      /\ \A i \in 1..Len(r) : r[i] = s[i]
      /\ s[Len(s)] \in Iterators
  <2>1. 1 \in 1..Len(s) + 1 /\ Len(s) - 1 \in 0..Len(s) /\ Len(s) \in 1..Len(s)
    BY <1>1
  <2>2. /\ r \in Seq(Iterators)
        /\ Len(r) = IF 1 <= Len(s) - 1 THEN (Len(s) - 1) - 1 + 1 ELSE 0
        /\ \A i \in 1..(Len(s) - 1) - 1 + 1 : r[i] = s[1 + i - 1]
    BY <2>1, SubSeqProperties
  <2>3. s[Len(s)] \in Iterators
    BY <2>1
  <2> HIDE DEF r
  <2>4. /\ (Len(s) - 1) - 1 + 1 = Len(s) - 1
        /\ \A i \in 1..Len(s) - 1 : 1 + i - 1 = i
    BY <1>1
  <2>5. Len(r) = Len(s) - 1
    <3>1. Len(r) = IF 1 <= Len(s) - 1 THEN (Len(s) - 1) - 1 + 1 ELSE 0
      BY <2>2
    <3>2. IF 1 <= Len(s) - 1 THEN (Len(s) - 1) - 1 + 1 = Len(s) - 1
                             ELSE Len(s) - 1 = 0
      BY <1>1, Predecessor
    <3> QED BY <3>1, <3>2
  <2>6. \A i \in 1..Len(r) : r[i] = s[i]
    BY <2>2, <2>4, <2>5
  <2> QED
    BY <2>2, <2>3, <2>5, <2>6
<1> HIDE DEF r
<1>3. {r[i] : i \in 1..Len(r)} \subseteq {s[i] : i \in 1..Len(s)} \ {s[Len(s)]}
  BY <1>1, <1>2
<1>4. ASSUME NEW x \in {s[i] : i \in 1..Len(s)} \ {s[Len(s)]}
      PROVE  x \in {r[i] : i \in 1..Len(r)}
  <2>1. PICK i \in 1..Len(s) : x = s[i]
    OBVIOUS
  <2>2. i \in 1..Len(r)
    BY <1>1, <1>2, <2>1
  <2> QED BY <1>2, <2>1, <2>2
<1> QED
  BY <1>2, <1>3, <1>4 DEF r

\* Pushing puts the new iterator on top of the same others.
LEMMA PushProps ==
  ASSUME NEW s \in Seq(Iterators), NEW x \in Iterators
  PROVE  LET r == Append(s, x)
         IN  /\ r \in Seq(Iterators)
             /\ Len(r) = Len(s) + 1
             /\ r[Len(r)] = x
             /\ \A i \in 1..Len(s) : r[i] = s[i]
             /\ {r[i] : i \in 1..Len(r)} = {s[i] : i \in 1..Len(s)} \cup {x}
OBVIOUS

LEMMA InitIInv == Init => IInv
BY PoolAssumption DEF Init, IInv, TypeOK, OwnerInv, Exclusive, ReadsOwnText,
   NothingElseLeaks, PoolBounded, Pooled

\* The inductive step, one action at a time.
LEMMA StepIInv == IInv /\ [Next]_vars => IInv'
<1> SUFFICES ASSUME IInv, [Next]_vars PROVE IInv'
  OBVIOUS
<1> USE PoolAssumption DEF IInv
<1>1. ASSUME NEW t \in Threads, Checkout(t) PROVE IInv'
  <2> DEFINE top == pool[Len(pool)]
  <2>1. /\ pool \in Seq(Iterators) /\ pool # << >>
        /\ pool' = SubSeq(pool, 1, Len(pool) - 1)
        /\ held' = [held EXCEPT ![t] = top]
        /\ pc' = [pc EXCEPT ![t] = "checkedOut"]
        /\ UNCHANGED <<open, text, lost>>
    BY <1>1 DEF Checkout, Hold, TypeOK
  <2>2. /\ pool' \in Seq(Iterators)
        /\ Len(pool') = Len(pool) - 1
        /\ \A i \in 1..Len(pool') : pool'[i] = pool[i]
        /\ top \in Iterators
        /\ Pooled' = Pooled \ {top}
        /\ top \in Pooled
    <3>1. Len(pool) \in 1..Len(pool)
      BY <2>1
    <3>2. \A i, j \in 1..Len(pool) : pool[i] = pool[j] => i = j
      BY DEF Exclusive
    <3> DEFINE r == SubSeq(pool, 1, Len(pool) - 1)
    <3>3. /\ r \in Seq(Iterators)
          /\ Len(r) = Len(pool) - 1
          /\ \A i \in 1..Len(r) : r[i] = pool[i]
          /\ top \in Iterators
          /\ {r[i] : i \in 1..Len(r)} = Pooled \ {top}
      BY <2>1, <3>2, PopProps DEF Pooled
    <3>4. pool' = r
      BY <2>1
    <3> HIDE DEF r
    <3> QED
      BY <3>1, <3>3, <3>4 DEF Pooled
  <2> HIDE DEF top
  <2>3. TypeOK' /\ OwnerInv' /\ ReadsOwnText' /\ NothingElseLeaks'
    BY <1>1, <2>1, <2>2
       DEF Checkout, TypeOK, OwnerInv, Exclusive, ReadsOwnText, NothingElseLeaks
  <2>4. Exclusive'
    BY <2>1, <2>2 DEF TypeOK, Exclusive
  <2>5. PoolBounded'
    BY <2>1, <2>2 DEF PoolBounded
  <2> QED
    BY <2>3, <2>4, <2>5
<1>2. ASSUME NEW t \in Threads, Clone(t) PROVE IInv'
  BY <1>2 DEF Clone, Hold, TypeOK, OwnerInv, Exclusive, ReadsOwnText,
     NothingElseLeaks, PoolBounded, Pooled
<1>3. ASSUME NEW t \in Threads, SetText(t) PROVE IInv'
  BY <1>3 DEF SetText, Hold, TypeOK, OwnerInv, Exclusive, ReadsOwnText,
     NothingElseLeaks, PoolBounded, Pooled
<1>4. ASSUME NEW t \in Threads, SetTextThrows(t) PROVE IInv'
  BY <1>4 DEF SetTextThrows, Hold, TypeOK, OwnerInv, Exclusive, ReadsOwnText,
     NothingElseLeaks, PoolBounded, Pooled
<1>5. ASSUME NEW t \in Threads, Checkin(t) PROVE IInv'
  <2> DEFINE mine == held[t]
  <2>1. /\ pool \in Seq(Iterators) /\ mine \in Iterators /\ mine \notin Pooled
        /\ mine \in open /\ mine \notin lost
        /\ \A u \in Threads : u # t => held[u] # mine
        /\ Len(pool) <= MaxPoolSize
        /\ pool' = Append(pool, mine)
        /\ held' = [held EXCEPT ![t] = None]
        /\ pc' = [pc EXCEPT ![t] = "idle"]
        /\ UNCHANGED <<open, text, lost>>
    BY <1>5 DEF Checkin, Hold, TypeOK, OwnerInv, Exclusive
  <2> HIDE DEF mine
  <2>2. /\ pool' \in Seq(Iterators)
        /\ Len(pool') = Len(pool) + 1
        /\ pool'[Len(pool')] = mine
        /\ \A i \in 1..Len(pool) : pool'[i] = pool[i]
        /\ Pooled' = Pooled \cup {mine}
    BY <2>1, PushProps DEF Pooled
  <2>3. TypeOK' /\ OwnerInv' /\ ReadsOwnText' /\ NothingElseLeaks'
    BY <2>1, <2>2
       DEF TypeOK, OwnerInv, Exclusive, ReadsOwnText, NothingElseLeaks, mine
  <2>4. Exclusive'
    <3>1. ASSUME NEW i \in 1..Len(pool'), NEW j \in 1..Len(pool'), pool'[i] = pool'[j]
          PROVE  i = j
      <4>1. \A k \in 1..Len(pool') : k \in 1..Len(pool) \/ k = Len(pool')
        BY <2>1, <2>2
      <4>2. \A k \in 1..Len(pool) : pool'[k] \in Pooled
        BY <2>2 DEF Pooled
      <4> QED
        BY <2>1, <2>2, <3>1, <4>1, <4>2 DEF Exclusive
    <3> QED
      BY <2>1, <2>2, <3>1 DEF TypeOK, Exclusive
  <2>5. PoolBounded'
    BY <2>1, <2>2 DEF PoolBounded
  <2> QED
    BY <2>3, <2>4, <2>5
<1>6. ASSUME NEW t \in Threads, Close(t) PROVE IInv'
  BY <1>6 DEF Close, Hold, TypeOK, OwnerInv, Exclusive, ReadsOwnText,
     NothingElseLeaks, PoolBounded, Pooled
<1>7. CASE UNCHANGED vars
  BY <1>7 DEF vars, TypeOK, OwnerInv, Exclusive, ReadsOwnText,
     NothingElseLeaks, PoolBounded, Pooled
<1> QED
  BY <1>1, <1>2, <1>3, <1>4, <1>5, <1>6, <1>7 DEF Next, CloneThrows

\* The strengthened invariant holds in every reachable state.
THEOREM Invariance == Spec => []IInv
<1>1. Init => IInv
  BY InitIInv
<1>2. IInv /\ [Next]_vars => IInv'
  BY StepIInv
<1> QED
  BY <1>1, <1>2, PTL DEF Spec

-----------------------------------------------------------------------------
\* No iterator is ever shared, pooled twice or closed while reachable.
THEOREM Exclusion == Spec => []Exclusive
<1>1. IInv => Exclusive
  BY DEF IInv
<1> QED
  BY <1>1, Invariance, PTL

\* Nobody iterates over another thread's string.
THEOREM OwnText == Spec => []ReadsOwnText
<1>1. IInv => ReadsOwnText
  BY DEF IInv
<1> QED
  BY <1>1, Invariance, PTL

\* Only a constructor whose ubrk_setText fails loses an iterator.
THEOREM Accounting == Spec => []NothingElseLeaks
<1>1. IInv => NothingElseLeaks
  BY DEF IInv
<1> QED
  BY <1>1, Invariance, PTL

\* The pool holds at most MAX_TOKENIZER_POOL_SIZE + 1 iterators.
THEOREM Bound == Spec => []PoolBounded
<1>1. IInv => PoolBounded
  BY DEF IInv
<1> QED
  BY <1>1, Invariance, PTL

\* Every open iterator is pooled, used or lost by a constructor that threw,
\* and the pool stays bounded, for any number of threads.
THEOREM PoolAccounting == Spec => []PoolAccounted
<1>1. NothingElseLeaks /\ PoolBounded => PoolAccounted
  BY DEF PoolAccounted
<1> QED
  BY <1>1, Accounting, Bound, PTL

-----------------------------------------------------------------------------
\* The iterators that threads hold are no more than the threads.
LEMMA HeldCount ==
  ASSUME NEW S, NEW h, IsFiniteSet(Threads),
         \A i \in S : \E t \in Threads : h[t] = i
  PROVE  IsFiniteSet(S) /\ Cardinality(S) <= Cardinality(Threads)
<1> DEFINE owner == [i \in S |-> CHOOSE t \in Threads : h[t] = i]
<1>1. \A i \in S : owner[i] \in Threads /\ h[owner[i]] = i
  OBVIOUS
<1>2. owner \in Injection(S, Threads)
  BY <1>1 DEF Injection, IsInjective
<1> QED
  BY <1>2, FS_Injection

\* The bound, with the finiteness its cardinality needs.
CountInv == IsFiniteSet(open \ lost) /\ NoMoreThanThreads

\* Iterators are cloned only when none is pooled, that is when all that are not
\* lost are held.
LEMMA StepCount ==
  IInv /\ IInv' /\ CountInv /\ [Next]_vars => CountInv'
<1> SUFFICES ASSUME IInv, IInv', CountInv, [Next]_vars PROVE CountInv'
  OBVIOUS
<1>1. ASSUME open' \ lost' \subseteq open \ lost
      PROVE  CountInv'
  <2>1. /\ IsFiniteSet(open' \ lost')
        /\ Cardinality(open' \ lost') <= Cardinality(open \ lost)
    BY <1>1, FS_Subset DEF CountInv
  <2>2. /\ Cardinality(open' \ lost') \in Nat /\ Cardinality(open \ lost) \in Nat
        /\ Cardinality(Threads) \in Nat
    BY <2>1, FS_CardinalityType, PoolAssumption DEF CountInv
  <2> QED
    BY <2>1, <2>2 DEF NoMoreThanThreads, CountInv
<1>2. ASSUME NEW t \in Threads, Clone(t)
      PROVE  CountInv'
  <2>1. Pooled' = {}
    BY <1>2 DEF Clone, Pooled
  <2>2. \A i \in open' \ lost' : \E u \in Threads : held'[u] = i
    BY <2>1 DEF IInv, NothingElseLeaks
  <2> QED
    BY <2>2, HeldCount, PoolAssumption DEF NoMoreThanThreads, CountInv
<1>3. ASSUME NEW t \in Threads,
             \/ Checkout(t) \/ CloneThrows(t) \/ SetText(t)
             \/ SetTextThrows(t) \/ Checkin(t) \/ Close(t)
      PROVE  open' \ lost' \subseteq open \ lost
  BY <1>3 DEF Checkout, CloneThrows, SetText, SetTextThrows, Checkin, Close, vars
<1>4. CASE UNCHANGED vars
  BY <1>1, <1>4 DEF vars
<1> QED
  BY <1>1, <1>2, <1>3, <1>4 DEF Next

\* Leaks aside, the process never opens more iterators than it has threads.
THEOREM Recycling == Spec => []NoMoreThanThreads
<1>1. Init => CountInv
  <2>1. Cardinality(Threads) \in Nat
    BY PoolAssumption, FS_CardinalityType
  <2> QED
    BY <2>1, FS_EmptySet DEF Init, NoMoreThanThreads, CountInv
<1>2. IInv /\ IInv' /\ CountInv /\ [Next]_vars => CountInv'
  BY StepCount
<1>3. CountInv => NoMoreThanThreads
  BY DEF CountInv
<1> QED
  BY <1>1, <1>2, <1>3, Invariance, PTL DEF Spec
=============================================================================
