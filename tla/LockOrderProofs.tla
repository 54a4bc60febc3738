-------------------------- MODULE LockOrderProofs --------------------------
(***************************************************************************)
(* Deadlock freedom of the library's mutexes, for any number of threads.   *)
(*                                                                         *)
(* The mutexes have a rank that every nested call increases.  A thread thus*)
(* waits for a mutex of a higher rank than any it holds, and in any set of *)
(* waiting threads the one that waits for the highest rank waits for a     *)
(* thread outside the set.                                                 *)
(***************************************************************************)
EXTENDS LockOrder, SequenceTheorems, TLAPS

Rank(m) == CASE m = "provider" -> 0
             [] m \in {"tokenizers", "dictionaries", "pronouns"} -> 1
             [] m = "logger" -> 2
             [] OTHER -> 3

\* A mutex that is asked for under another has a higher rank.
LEMMA UnderIsHigher ==
  ASSUME NEW m \in Mutexes, NEW n \in Under(m)
  PROVE  n \in Mutexes /\ Rank(m) < Rank(n)
BY LockAssumption
   DEF Under, UnderProvider, UnderTokenizers, UnderPronouns, UnderDictionaries,
       UnderLogger, Rank, Mutexes

LEMMA RankType == ASSUME NEW m \in Mutexes PROVE Rank(m) \in 0..3
BY DEF Rank, Mutexes

\* A thread's locks are in increasing order, up to the one it wants.
OrderInv ==
  \A t \in Threads :
    /\ \A i, j \in DOMAIN held[t] : i < j => Rank(held[t][i]) < Rank(held[t][j])
    /\ wants[t] # Nobody => \A i \in DOMAIN held[t] : Rank(held[t][i]) < Rank(wants[t])

\* A stack without its last element.
LEMMA Pop ==
  ASSUME NEW S, NEW s \in Seq(S), s # << >>
  PROVE  LET r == SubSeq(s, 1, Len(s) - 1) IN
         /\ r \in Seq(S) /\ Len(r) = Len(s) - 1 /\ DOMAIN r = 1..(Len(s) - 1)
         /\ \A i \in DOMAIN r : r[i] = s[i]
         /\ Len(s) \in DOMAIN s /\ s[Len(s)] \in S
         /\ \A i \in DOMAIN s : i \in DOMAIN r \/ i = Len(s)
         /\ \A i \in DOMAIN r : i \in DOMAIN s /\ i < Len(s)
<1>1. Len(s) \in Nat \ {0} /\ DOMAIN s = 1..Len(s)
  BY EmptySeq
<1>2. \A n \in Nat \ {0} : /\ n - 1 <= n /\ n - 1 \in Nat /\ n \in 1..n /\ 1 - 1 = 0
                           /\ \A i \in 1..n : i \in 1..(n - 1) \/ i = n
                           /\ \A i \in 1..(n - 1) : i \in 1..n /\ i < n
  OBVIOUS
<1> QED BY <1>1, <1>2, SubSeqProperties

IInv == TypeOK /\ OrderInv

LEMMA InitIInv == Init => IInv
BY LockAssumption DEF Init, IInv, TypeOK, OrderInv

\* The innermost lock has the highest rank a thread holds.
LEMMA InnermostIsHighest ==
  ASSUME IInv, NEW t \in Threads, held[t] # << >>
  PROVE  /\ Innermost(t) \in Mutexes
         /\ \A i \in DOMAIN held[t] : /\ held[t][i] \in Mutexes
                                     /\ Rank(held[t][i]) <= Rank(Innermost(t))
<1>1. /\ held[t] \in Seq(Mutexes) /\ Len(held[t]) \in DOMAIN held[t]
      /\ \A i \in DOMAIN held[t] : i < Len(held[t]) \/ i = Len(held[t])
  BY Pop DEF IInv, TypeOK
<1>2. \A i \in DOMAIN held[t] : held[t][i] \in Mutexes /\ Rank(held[t][i]) \in 0..3
  BY <1>1, RankType
<1> QED BY <1>1, <1>2 DEF IInv, OrderInv, Innermost

\* A step of thread t, one action at a time.
LEMMA StepIInv == IInv /\ [Next]_vars => IInv'
<1> SUFFICES ASSUME IInv, [Next]_vars PROVE IInv'
  OBVIOUS
<1> USE LockAssumption DEF IInv
<1>1. ASSUME NEW t \in Threads, NEW m \in Mutexes, Call(t, m) PROVE IInv'
  <2>1. \A i \in DOMAIN held[t] : Rank(held[t][i]) < Rank(m)
    <3>1. CASE held[t] = << >>
      BY <3>1
    <3>2. CASE held[t] # << >>
      <4>1. m \in Under(Innermost(t)) /\ Innermost(t) \in Mutexes
        BY <1>1, <3>2, InnermostIsHighest DEF Call
      <4>2. Rank(Innermost(t)) < Rank(m)
        BY <4>1, UnderIsHigher
      <4>3. Rank(m) \in 0..3 /\ Rank(Innermost(t)) \in 0..3
        BY <4>1, RankType
      <4>4. \A i \in DOMAIN held[t] : /\ Rank(held[t][i]) \in 0..3
                                     /\ Rank(held[t][i]) <= Rank(Innermost(t))
        BY <3>2, InnermostIsHighest, RankType
      <4> QED BY <4>2, <4>3, <4>4
    <3> QED BY <3>1, <3>2
  <2> QED BY <1>1, <2>1 DEF Call, TypeOK, OrderInv
<1>2. ASSUME NEW t \in Threads, Lock(t) PROVE IInv'
  <2> DEFINE m == wants[t]  s == held[t]  n == Len(held[t])
  <2>1. /\ m \in Mutexes /\ s \in Seq(Mutexes) /\ n \in Nat /\ DOMAIN s = 1..n
        /\ held' = [held EXCEPT ![t] = Append(s, m)]
        /\ wants' = [wants EXCEPT ![t] = Nobody]
        /\ owner' = [owner EXCEPT ![m] = t] /\ owner[m] = Nobody
        /\ unwinding' = unwinding
    BY <1>2 DEF Lock, TypeOK
  <2>0. \A k \in Mutexes : owner[k] = t <=> \E i \in DOMAIN s : s[i] = k
    BY DEF TypeOK
  <2>2. /\ Append(s, m) \in Seq(Mutexes) /\ DOMAIN Append(s, m) = 1..(n + 1)
        /\ \A i \in 1..(n + 1) : Append(s, m)[i] = IF i = n + 1 THEN m ELSE s[i]
    BY <2>1
  <2> HIDE DEF m, s, n
  <2>3. \A i \in 1..(n + 1) : i = n + 1 \/ i \in 1..n
    BY <2>1
  <2>4. TypeOK'
    <3>1. \A k \in Mutexes : owner'[k] = t <=> \E i \in 1..(n + 1) : Append(s, m)[i] = k
      <4>1. \A k \in Mutexes : owner[k] = t <=> \E i \in 1..n : s[i] = k
        BY <2>0, <2>1
      <4>2. n + 1 \in 1..(n + 1) /\ \A i \in 1..n : i \in 1..(n + 1) /\ i # n + 1
        BY <2>1
      <4> QED BY <2>1, <2>2, <2>3, <4>1, <4>2 DEF TypeOK
    <3>2. \A u \in Threads, k \in Mutexes : u # t => (owner'[k] = u <=> owner[k] = u)
      BY <2>1 DEF TypeOK
    <3>3. /\ held' \in [Threads -> Seq(Mutexes)]
          /\ wants' \in [Threads -> Mutexes \cup {Nobody}]
          /\ owner' \in [Mutexes -> Threads \cup {Nobody}]
          /\ unwinding' \subseteq Threads
      BY <2>1, <2>2 DEF TypeOK
    <3>4. held'[t] = Append(s, m) /\ \A u \in Threads : u # t => held'[u] = held[u]
      BY <2>1 DEF TypeOK
    <3>5. \A u \in Threads, k \in Mutexes :
            owner'[k] = u <=> \E i \in DOMAIN held'[u] : held'[u][i] = k
      <4>1. ASSUME NEW u \in Threads, NEW k \in Mutexes, u # t
            PROVE  owner'[k] = u <=> \E i \in DOMAIN held'[u] : held'[u][i] = k
        BY <3>2, <3>4, <4>1 DEF TypeOK
      <4>2. \A k \in Mutexes : owner'[k] = t <=> \E i \in DOMAIN held'[t] : held'[t][i] = k
        BY <2>2, <3>1, <3>4
      <4> QED BY <4>1, <4>2
    <3> QED BY <3>3, <3>5 DEF TypeOK
  <2>5. OrderInv'
    <3>1. /\ \A i, j \in 1..n : i < j => Rank(s[i]) < Rank(s[j])
          /\ \A i \in 1..n : Rank(s[i]) < Rank(m)
      BY <1>2, <2>1 DEF OrderInv, Lock, s, m
    <3>2. \A i, j \in 1..(n + 1) : i < j => i \in 1..n /\ i # n + 1
      BY <2>1
    <3>3. \A i, j \in 1..(n + 1) : i < j => Rank(Append(s, m)[i]) < Rank(Append(s, m)[j])
      BY <2>2, <2>3, <3>1, <3>2
    <3> QED BY <2>1, <2>2, <3>3 DEF OrderInv, TypeOK
  <2> QED BY <2>4, <2>5
<1>3. ASSUME NEW t \in Threads, Unlock(t) PROVE IInv'
  <2> DEFINE s == held[t]  n == Len(held[t])  r == SubSeq(s, 1, n - 1)
  <2>1. /\ s \in Seq(Mutexes) /\ s # << >> /\ wants[t] = Nobody /\ wants' = wants
        /\ held' = [held EXCEPT ![t] = r] /\ unwinding' \subseteq unwinding
        /\ owner' = [owner EXCEPT ![s[n]] = Nobody]
    BY <1>3 DEF Unlock, TypeOK, Innermost
  <2>2. /\ r \in Seq(Mutexes) /\ DOMAIN r = 1..(n - 1) /\ \A i \in DOMAIN r : r[i] = s[i]
        /\ n \in DOMAIN s /\ s[n] \in Mutexes
        /\ \A i \in DOMAIN s : i \in DOMAIN r \/ i = n
        /\ \A i \in DOMAIN r : i \in DOMAIN s /\ i < n
    BY <2>1, Pop
  <2> HIDE DEF s, n, r
  <2>3. \A i \in DOMAIN r : s[i] # s[n]
    <3>1. \A i \in DOMAIN s : Rank(s[i]) \in 0..3
      BY <2>1, RankType DEF s, TypeOK
    <3> QED BY <2>2, <3>1 DEF OrderInv, s
  <2>4. TypeOK'
    <3>1. \A k \in Mutexes : owner[k] = t <=> \E i \in DOMAIN s : s[i] = k
      BY DEF TypeOK, s
    <3>2. \A k \in Mutexes : owner'[k] = t <=> \E i \in DOMAIN r : r[i] = k
      <4>1. \A k \in Mutexes : owner'[k] = t <=> owner[k] = t /\ k # s[n]
        BY <2>1, <2>2 DEF TypeOK
      <4>2. \A k \in Mutexes : (\E i \in DOMAIN r : r[i] = k)
                                 <=> (\E i \in DOMAIN s : s[i] = k) /\ k # s[n]
        BY <2>2, <2>3
      <4> QED BY <3>1, <4>1, <4>2
    <3>3. \A u \in Threads, k \in Mutexes : u # t => (owner'[k] = u <=> owner[k] = u)
      BY <2>1, <2>2, <3>1 DEF TypeOK
    <3> QED BY <2>1, <2>2, <3>2, <3>3 DEF TypeOK
  <2>5. OrderInv'
    BY <2>1, <2>2 DEF OrderInv, TypeOK, s
  <2> QED BY <2>4, <2>5
<1>4. ASSUME NEW t \in Threads, Throw(t) \/ Catch(t) PROVE IInv'
  BY <1>4 DEF Throw, Catch, TypeOK, OrderInv
<1>5. CASE UNCHANGED vars
  BY <1>5 DEF vars, TypeOK, OrderInv
<1> QED BY <1>1, <1>2, <1>3, <1>4, <1>5 DEF Next

\* A set of threads that wait has one that waits for the highest rank.
LEMMA HighestWait ==
  ASSUME TypeOK, NEW S \in (SUBSET Threads) \ {{}}, \A t \in S : wants[t] # Nobody
  PROVE  \E t \in S : \A u \in S : Rank(wants[u]) <= Rank(wants[t])
<1>1. \A t \in S : Rank(wants[t]) \in 0..3
  BY RankType DEF TypeOK
<1>2. CASE \E t \in S : Rank(wants[t]) = 3
  BY <1>1, <1>2
<1>3. CASE (\A t \in S : Rank(wants[t]) # 3) /\ \E t \in S : Rank(wants[t]) = 2
  BY <1>1, <1>3
<1>4. CASE (\A t \in S : Rank(wants[t]) \notin {2, 3}) /\ \E t \in S : Rank(wants[t]) = 1
  BY <1>1, <1>4
<1>5. CASE \A t \in S : Rank(wants[t]) \notin {1, 2, 3}
  <2>1. \E t \in S : TRUE
    <3>1. S # {}
      OBVIOUS
    <3> QED BY <3>1, Zenon
  <2>2. \A u \in S : Rank(wants[u]) = 0
    BY <1>1, <1>5
  <2> QED BY <2>1, <2>2
<1> QED BY <1>2, <1>3, <1>4, <1>5

LEMMA IInvImplies == IInv => NoCircularWait
<1> SUFFICES ASSUME IInv, NEW S \in (SUBSET Threads) \ {{}},
                    \A t \in S : \E u \in S : WaitsFor(t, u)
             PROVE  FALSE
  BY DEF NoCircularWait
<1>1. \A t \in S : wants[t] # Nobody
  BY DEF WaitsFor
<1>2. PICK t \in S : \A u \in S : Rank(wants[u]) <= Rank(wants[t])
  BY <1>1, HighestWait DEF IInv
<1>3. PICK u \in S : owner[wants[t]] = u
  BY DEF WaitsFor
<1>4. wants[t] \in Mutexes /\ wants[u] \in Mutexes
  BY <1>1 DEF IInv, TypeOK
<1>5. PICK i \in DOMAIN held[u] : held[u][i] = wants[t]
  BY <1>3, <1>4 DEF IInv, TypeOK
<1>6. Rank(wants[t]) < Rank(wants[u])
  BY <1>1, <1>5 DEF IInv, OrderInv
<1>7. Rank(wants[t]) \in 0..3 /\ Rank(wants[u]) \in 0..3
  BY <1>4, RankType
<1> QED BY <1>2, <1>6, <1>7

-----------------------------------------------------------------------------
\* A mutex is held exactly as long as a guard for it is on its owner's stack,
\* by any number of threads and through any exception.
THEOREM GuardsMatchLocks == Spec => []TypeOK
BY InitIInv, StepIInv, PTL DEF Spec, IInv

\* No threads wait for each other in a circle, whatever the calls, exceptions
\* and callbacks, as long as callbacks do nothing that logs.
THEOREM NoDeadlock == Spec => []NoCircularWait
BY InitIInv, StepIInv, IInvImplies, PTL DEF Spec
=============================================================================
