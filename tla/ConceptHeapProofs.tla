-------------------------- MODULE ConceptHeapProofs --------------------------
(***************************************************************************)
(* That concepts can be used as values although they are objects on a heap.*)
(*                                                                         *)
(* The heap is a forest of depth two: every object has one owner, or is an *)
(* item of one list that has one.  Each operation adds a tree of new       *)
(* objects, removes one, or changes objects of one tree and the pointers   *)
(* of none; there is a lemma for each of the three.  From that it follows  *)
(* that the caller of one handle never sees what is done through another,  *)
(* and so that the heap implements module Concepts.                        *)
(***************************************************************************)
EXTENDS ConceptHeap, SequenceTheorems, WellFoundedInduction, TLAPS

\* Induction over a set: the prover has none over predicates.
LEMMA SetInduction ==
  ASSUME NEW S, 0 \in S, \A n \in Nat : n \in S => n + 1 \in S
  PROVE  Nat \subseteq S
<1> DEFINE T == {n \in Nat : n \notin S}
           R == {ss \in Nat \X Nat : ss[1] < ss[2]}
<1>1. SUFFICES ASSUME T # {} PROVE FALSE
  OBVIOUS
<1>2. IsWellFoundedOn(R, Nat)
  BY NatLessThanWellFounded DEF OpToRel
<1>3. PICK x \in T : \A y \in T : <<y, x>> \notin R
  <2>1. T \subseteq Nat
    OBVIOUS
  <2> HIDE DEF T, R
  <2> QED BY <1>1, <1>2, <2>1, WFMin
<1>4. x \in Nat /\ x \notin S /\ x # 0
  OBVIOUS
<1>5. x - 1 \in Nat /\ x - 1 < x /\ (x - 1) + 1 = x
  BY <1>4
<1>6. x - 1 \in S
  <2> SUFFICES ASSUME x - 1 \notin S PROVE FALSE
    OBVIOUS
  <2>1. x - 1 \in T /\ <<x - 1, x>> \in R
    BY <1>4, <1>5
  <2> HIDE DEF R, T
  <2> QED BY <1>3, <2>1
<1> QED BY <1>4, <1>5, <1>6

\* A function that is defined by recursion exists, whatever its step does.
Recursion(f, n, a, step) == f = [i \in 0..n |-> IF i = 0 THEN a ELSE step[i][f[i - 1]]]

LEMMA RecursionExists ==
  ASSUME NEW n \in Nat, NEW A, NEW a \in A, NEW step \in [1..n -> [A -> A]]
  PROVE  \E f \in [0..n -> A] : Recursion(f, n, a, step)
<1> DEFINE Upto(k, f) == f \in [0..n -> A] /\ f[0] = a /\ \A i \in 1..n : i <= k => f[i] = step[i][f[i - 1]]
           S == {k \in Nat : k <= n => \E f : Upto(k, f)}
<1>1. 0 \in S
  <2>1. [i \in 0..n |-> a] \in [0..n -> A]
    OBVIOUS
  <2>2. Upto(0, [i \in 0..n |-> a])
    BY <2>1
  <2> QED BY <2>2
<1>2. ASSUME NEW k \in Nat, k \in S PROVE k + 1 \in S
  <2>1. SUFFICES ASSUME k + 1 <= n PROVE \E f : Upto(k + 1, f)
    OBVIOUS
  <2>2. PICK f : Upto(k, f)
    BY <1>2, <2>1
  <2> DEFINE g == [f EXCEPT ![k + 1] = step[k + 1][f[k]]]
  <2>3. f[k] \in A /\ k + 1 \in 1..n /\ step[k + 1][f[k]] \in A
    BY <2>1, <2>2
  <2>4. g \in [0..n -> A] /\ g[k + 1] = step[k + 1][f[k]] /\ \A i \in 0..n : i # k + 1 => g[i] = f[i]
    BY <2>2, <2>3
  <2>5. Upto(k + 1, g)
    <3> HIDE DEF g
    <3>1. g[0] = a
      BY <2>2, <2>4
    <3>2. ASSUME NEW i \in 1..n, i <= k + 1 PROVE g[i] = step[i][g[i - 1]]
      <4>1. CASE i = k + 1
        BY <2>4, <4>1
      <4>2. CASE i <= k
        <5>1. i - 1 \in 0..n /\ i - 1 # k + 1 /\ i # k + 1
          BY <4>2
        <5> QED BY <2>2, <2>4, <4>2, <5>1
      <4> QED BY <3>2, <4>1, <4>2
    <3> QED BY <2>4, <3>1, <3>2
  <2> QED BY <2>5
<1> HIDE DEF S
<1>3. n \in S
  BY <1>1, <1>2, SetInduction
<1>4. PICK f : Upto(n, f)
  BY <1>3 DEF S
<1>5. f = [i \in 0..n |-> IF i = 0 THEN a ELSE step[i][f[i - 1]]]
  BY <1>4
<1> QED BY <1>4, <1>5 DEF Recursion

-----------------------------------------------------------------------------
USE HeapAssumption, TextAssumption

\* The heap and the pointers at it, as parameters, to speak of the next ones.
ItemsIn(H, a) == {H[a].items[i] : i \in DOMAIN H[a].items}
ReachIn(H, a) == {a} \cup ItemsIn(H, a)
UsedIn(O) == {o \in Owners : O[o] # NULL}

\* Every object is a string or a list of strings that are there.
ObjectIn(H, a) ==
  /\ H[a] \in Concept
  /\ ~IsList(H[a]) => H[a].items = << >>
  /\ \A i \in DOMAIN H[a].items : H[a].items[i] \in DOMAIN H /\ ~IsList(H[H[a].items[i]])
  /\ \A i, j \in DOMAIN H[a].items : H[a].items[i] = H[a].items[j] => i = j
Objects(H) == DOMAIN H \subseteq Addresses /\ \A a \in DOMAIN H : ObjectIn(H, a)

\* Each belongs to one owner.
Owned(H, O) ==
  /\ O \in [Owners -> Addresses \cup {NULL}]
  /\ \A o \in UsedIn(O) : O[o] \in DOMAIN H
  /\ \A a \in DOMAIN H : \E o \in UsedIn(O) : a \in ReachIn(H, O[o])
  /\ \A o, p \in UsedIn(O) : o # p => ReachIn(H, O[o]) \cap ReachIn(H, O[p]) = {}

LEMMA ItemsAreThere ==
  ASSUME NEW H, Objects(H), NEW a \in DOMAIN H
  PROVE  /\ ItemsIn(H, a) \subseteq DOMAIN H /\ a \notin ItemsIn(H, a)
         /\ \A b \in ItemsIn(H, a) : ItemsIn(H, b) = {} /\ ~IsList(H[b])
         /\ H[a].items \in Seq(DOMAIN H)
<1>1. H[a].items \in Seq(Addresses)
  BY DEF Objects, ObjectIn, Concept
<1>2. \A i \in DOMAIN H[a].items : H[a].items[i] \in DOMAIN H /\ ~IsList(H[H[a].items[i]])
  BY DEF Objects, ObjectIn
<1>3. ASSUME NEW b \in ItemsIn(H, a)
      PROVE  /\ b \in DOMAIN H /\ ~IsList(H[b]) /\ ItemsIn(H, b) = {}
  <2>1. b \in DOMAIN H /\ ~IsList(H[b])
    BY <1>2 DEF ItemsIn
  <2>2. H[b].items = << >>
    BY <2>1 DEF Objects, ObjectIn
  <2> QED BY <2>1, <2>2 DEF ItemsIn
<1>4. a \notin ItemsIn(H, a)
  BY <1>3 DEF ItemsIn
<1>5. H[a].items \in Seq(DOMAIN H)
  BY <1>1, <1>2
<1> QED BY <1>3, <1>4, <1>5

-----------------------------------------------------------------------------
(* A new tree *)

\* W has the old objects, a new one, and copies of those at `from' as its items.
Adds(W, p, c, from) ==
  /\ DOMAIN W = DOMAIN heap \cup {p[i] : i \in 0..Len(from)}
  /\ \A i \in 0..Len(from) : p[i] \in Addresses \ DOMAIN heap
  /\ \A i, j \in 0..Len(from) : p[i] = p[j] => i = j
  /\ \A x \in DOMAIN heap : W[x] = heap[x]
  /\ W[p[0]] = [c EXCEPT !.items = [i \in 1..Len(from) |-> p[i]]]
  /\ \A i \in 1..Len(from) : W[p[i]] = heap[from[i]]

LEMMA WithAdds ==
  ASSUME NEW from \in Seq(DOMAIN heap), NEW p \in NewAddresses(Len(from)), NEW c
  PROVE  Adds(With(p, c, from), p, c, from)
<1> DEFINE n == Len(from)
           W == With(p, c, from)
<1>1. n \in Nat
  OBVIOUS
<1>2. /\ \A i \in 0..n : p[i] \in Addresses \ DOMAIN heap
      /\ \A i, j \in 0..n : p[i] = p[j] => i = j
  BY DEF NewAddresses, Free
<1>3. DOMAIN W = DOMAIN heap \cup {p[i] : i \in 0..n}
  BY DEF With
<1>4. \A x \in DOMAIN heap : W[x] = heap[x]
  BY DEF With
<1>5. 0 \in 0..n /\ p[0] \notin DOMAIN heap /\ p[0] \in DOMAIN W
  BY <1>1, <1>2, <1>3
<1>6. W[p[0]] = [c EXCEPT !.items = [i \in 1..n |-> p[i]]]
  BY <1>5 DEF With
<1>7. ASSUME NEW i \in 1..n PROVE W[p[i]] = heap[from[i]]
  <2>1. i \in 0..n /\ i # 0
    BY <1>1
  <2>2. p[i] # p[0] /\ p[i] \notin DOMAIN heap /\ p[i] \in DOMAIN W
    BY <2>1, <1>2, <1>3, <1>5
  <2>3. (CHOOSE k \in 1..n : p[k] = p[i]) = i
    BY <1>1, <1>2
  <2> QED BY <2>2, <2>3 DEF With
<1> QED BY <1>2, <1>3, <1>4, <1>6, <1>7 DEF Adds

LEMMA NewObjects ==
  ASSUME Objects(heap), NEW from \in Seq(DOMAIN heap), NEW p,
         NEW c \in Concept, from # << >> => IsList(c),
         \A i \in 1..Len(from) : ~IsList(heap[from[i]]),
         NEW W, Adds(W, p, c, from)
  PROVE  Objects(W)
<1> DEFINE n == Len(from)
<1>1. n \in Nat
  OBVIOUS
<1>2. /\ DOMAIN W = DOMAIN heap \cup {p[i] : i \in 0..n}
      /\ \A i \in 0..n : p[i] \in Addresses \ DOMAIN heap
      /\ \A i, j \in 0..n : p[i] = p[j] => i = j
      /\ \A x \in DOMAIN heap : W[x] = heap[x]
      /\ W[p[0]] = [c EXCEPT !.items = [i \in 1..n |-> p[i]]]
      /\ \A i \in 1..n : W[p[i]] = heap[from[i]]
  BY DEF Adds
<1>3. DOMAIN W \subseteq Addresses
  BY <1>2 DEF Objects
<1>4. ASSUME NEW a \in DOMAIN heap PROVE ObjectIn(W, a)
  BY <1>2 DEF Objects, ObjectIn
<1>5. ASSUME NEW i \in 1..n
      PROVE  W[p[i]] \in Concept /\ ~IsList(W[p[i]]) /\ W[p[i]].items = << >>
  BY <1>2 DEF Objects, ObjectIn
<1>6. /\ W[p[0]] \in Concept /\ W[p[0]].word = c.word
      /\ W[p[0]].items = [i \in 1..n |-> p[i]]
  <2>1. [i \in 1..n |-> p[i]] \in Seq(Addresses)
    BY <1>1, <1>2
  <2> QED BY <1>2, <2>1 DEF Concept
<1>7. ObjectIn(W, p[0])
  <2>1. ~IsList(W[p[0]]) => n = 0
    BY <1>6 DEF IsList
  <2>2. n = 0 => W[p[0]].items = << >>
    BY <1>6
  <2>3. DOMAIN W[p[0]].items = 1..n
    BY <1>6
  <2>4. \A i \in 1..n : W[p[0]].items[i] = p[i] /\ p[i] \in DOMAIN W
    BY <1>1, <1>2, <1>6
  <2>5. \A i, j \in 1..n : p[i] = p[j] => i = j
    BY <1>1, <1>2
  <2> QED BY <1>5, <1>6, <2>1, <2>2, <2>3, <2>4, <2>5 DEF ObjectIn
<1>8. ASSUME NEW i \in 1..n PROVE ObjectIn(W, p[i])
  BY <1>5, <1>8 DEF ObjectIn
<1>9. ASSUME NEW a \in DOMAIN W PROVE a \in DOMAIN heap \/ a = p[0] \/ \E i \in 1..n : a = p[i]
  BY <1>1, <1>2, <1>9
<1> QED BY <1>3, <1>4, <1>7, <1>8, <1>9 DEF Objects

\* The new tree is its owner's alone.
LEMMA NewOwner ==
  ASSUME Objects(heap), Owned(heap, object), NEW from \in Seq(DOMAIN heap), NEW p, NEW c \in Concept,
         NEW W, Adds(W, p, c, from), NEW o \in Owners, object[o] = NULL
  PROVE  /\ Owned(W, [object EXCEPT ![o] = p[0]])
         /\ \A u \in UsedIn(object) : ReachIn(W, object[u]) = ReachIn(heap, object[u])
         /\ ReachIn(W, p[0]) = {p[i] : i \in 0..Len(from)}
<1> DEFINE n == Len(from)
           O == [object EXCEPT ![o] = p[0]]
<1>1. n \in Nat /\ 0 \in 0..n
  OBVIOUS
<1>2. /\ DOMAIN W = DOMAIN heap \cup {p[i] : i \in 0..n}
      /\ \A i \in 0..n : p[i] \in Addresses /\ p[i] \notin DOMAIN heap
      /\ \A x \in DOMAIN heap : W[x] = heap[x]
      /\ W[p[0]].items = [i \in 1..n |-> p[i]]
  BY DEF Adds, Concept
<1>3. /\ O \in [Owners -> Addresses \cup {NULL}] /\ O[o] = p[0] /\ p[0] # NULL
      /\ UsedIn(O) = UsedIn(object) \cup {o} /\ o \notin UsedIn(object)
      /\ \A u \in UsedIn(object) : O[u] = object[u]
  BY <1>1, <1>2 DEF UsedIn, Owned
<1>4. ReachIn(W, p[0]) = {p[i] : i \in 0..n}
  <2>1. DOMAIN W[p[0]].items = 1..n /\ \A i \in 1..n : W[p[0]].items[i] = p[i]
    BY <1>2
  <2>2. 0..n = {0} \cup 1..n
    BY <1>1
  <2> HIDE DEF n
  <2>3. ItemsIn(W, p[0]) = {p[i] : i \in 1..n}
    <3>1. ItemsIn(W, p[0]) = {W[p[0]].items[i] : i \in 1..n}
      BY <2>1, Zenon DEF ItemsIn
    <3>2. ASSUME NEW x PROVE x \in {W[p[0]].items[i] : i \in 1..n} <=> x \in {p[i] : i \in 1..n}
      BY <2>1, Zenon
    <3> QED BY <3>1, <3>2
  <2>4. {p[i] : i \in 0..n} = {p[0]} \cup {p[i] : i \in 1..n}
    BY <2>2
  <2> QED BY <2>3, <2>4 DEF ReachIn, n
<1>5. ASSUME NEW u \in UsedIn(object)
      PROVE  /\ object[u] \in DOMAIN heap
             /\ ReachIn(W, object[u]) = ReachIn(heap, object[u])
             /\ ReachIn(heap, object[u]) \subseteq DOMAIN heap
  <2>1. object[u] \in DOMAIN heap
    BY DEF Owned
  <2>2. ReachIn(heap, object[u]) \subseteq DOMAIN heap
    BY <2>1, ItemsAreThere DEF ReachIn
  <2> QED BY <1>2, <2>1, <2>2 DEF ReachIn, ItemsIn
<1> HIDE DEF O, n
<1>6. \A u \in UsedIn(O) : O[u] \in DOMAIN W
  <2>1. p[0] \in DOMAIN W
    BY <1>1, <1>2
  <2>2. \A u \in UsedIn(object) : O[u] \in DOMAIN W
    BY <1>2, <1>3, <1>5
  <2> QED BY <1>3, <2>1, <2>2
<1>7. ASSUME NEW a \in DOMAIN W PROVE \E u \in UsedIn(O) : a \in ReachIn(W, O[u])
  <2>1. CASE a \in DOMAIN heap
    <3>1. PICK u \in UsedIn(object) : a \in ReachIn(heap, object[u])
      BY <2>1 DEF Owned
    <3> QED BY <3>1, <1>3, <1>5
  <2>2. CASE a \in {p[i] : i \in 0..n}
    BY <2>2, <1>3, <1>4
  <2> QED BY <2>1, <2>2, <1>2
<1>8. ASSUME NEW u \in UsedIn(O), NEW v \in UsedIn(O), u # v
      PROVE  ReachIn(W, O[u]) \cap ReachIn(W, O[v]) = {}
  <2>1. \A w \in UsedIn(object) : ReachIn(heap, object[w]) \cap {p[i] : i \in 0..n} = {}
    <3>1. \A i \in 0..n : \A w \in UsedIn(object) : p[i] \notin ReachIn(heap, object[w])
      BY <1>2, <1>5
    <3> QED BY <3>1
  <2>2. u # o /\ v # o => ReachIn(heap, object[u]) \cap ReachIn(heap, object[v]) = {}
    BY <1>3, <1>8 DEF Owned
  <2> QED BY <2>1, <2>2, <1>3, <1>4, <1>5, <1>8
<1> QED BY <1>3, <1>4, <1>5, <1>6, <1>7, <1>8 DEF Owned, O, n

-----------------------------------------------------------------------------
(* A tree deleted *)

\* W is what is left when the tree of one owner is gone.
Removes(W, a) ==
  /\ DOMAIN W = DOMAIN heap \ ReachIn(heap, a)
  /\ \A x \in DOMAIN W : W[x] = heap[x]

LEMMA WithoutRemoves ==
  ASSUME NEW o \in Owners PROVE Removes(Without(object[o]), object[o])
BY DEF Without, Removes, Reach, Items, ReachIn, ItemsIn

LEMMA Removal ==
  ASSUME Objects(heap), Owned(heap, object), NEW o \in UsedIn(object), NEW W, Removes(W, object[o])
  PROVE  /\ Objects(W) /\ Owned(W, [object EXCEPT ![o] = NULL])
         /\ \A u \in UsedIn(object) \ {o} : ReachIn(heap, object[u]) \subseteq DOMAIN W
<1> DEFINE O == [object EXCEPT ![o] = NULL]
<1>1. /\ O \in [Owners -> Addresses \cup {NULL}] /\ UsedIn(O) = UsedIn(object) \ {o}
      /\ \A u \in UsedIn(O) : O[u] = object[u]
  BY DEF UsedIn, Owned
<1>2. ASSUME NEW u \in UsedIn(O)
      PROVE  /\ ReachIn(heap, object[u]) \subseteq DOMAIN W
             /\ object[u] \in DOMAIN W
             /\ ReachIn(W, object[u]) = ReachIn(heap, object[u])
  <2>1. object[u] \in DOMAIN heap /\ ReachIn(heap, object[u]) \cap ReachIn(heap, object[o]) = {}
    BY <1>1 DEF Owned
  <2>2. ReachIn(heap, object[u]) \subseteq DOMAIN W
    BY <2>1, ItemsAreThere DEF ReachIn, Removes
  <2>3. object[u] \in DOMAIN W
    BY <2>2 DEF ReachIn
  <2>4. W[object[u]] = heap[object[u]]
    BY <2>3 DEF Removes
  <2> QED BY <2>2, <2>3, <2>4 DEF ReachIn, ItemsIn
<1> HIDE DEF O
<1>3. ASSUME NEW a \in DOMAIN W PROVE \E u \in UsedIn(O) : a \in ReachIn(W, O[u])
  <2>1. PICK u \in UsedIn(object) : a \in ReachIn(heap, object[u])
    BY DEF Owned, Removes
  <2>2. u # o
    BY <2>1 DEF Removes
  <2> QED BY <2>1, <2>2, <1>1, <1>2
<1>4. Owned(W, O)
  <2>1. \A u \in UsedIn(O) : O[u] \in DOMAIN W
    BY <1>1, <1>2
  <2>2. \A u, v \in UsedIn(O) : u # v => ReachIn(W, O[u]) \cap ReachIn(W, O[v]) = {}
    <3>1. \A u, v \in UsedIn(object) : u # v => ReachIn(heap, object[u]) \cap ReachIn(heap, object[v]) = {}
      BY DEF Owned
    <3>2. \A u \in UsedIn(O) : ReachIn(W, O[u]) = ReachIn(heap, object[u])
      BY <1>1, <1>2
    <3> QED BY <1>1, <3>1, <3>2
  <2> QED BY <1>1, <1>3, <2>1, <2>2 DEF Owned
<1>5. ASSUME NEW a \in DOMAIN W PROVE ObjectIn(W, a)
  <2>1. a \in DOMAIN heap /\ W[a] = heap[a] /\ ObjectIn(heap, a)
    BY DEF Removes, Objects
  <2>2. PICK u \in UsedIn(O) : a \in ReachIn(W, O[u])
    BY <1>3
  <2>3. ItemsIn(heap, a) \subseteq ReachIn(heap, object[u])
    <3>1. object[u] \in DOMAIN heap
      BY <1>1 DEF Owned
    <3>2. a \in ReachIn(heap, object[u])
      BY <2>2, <1>1, <1>2
    <3> QED BY <3>1, <3>2, ItemsAreThere DEF ReachIn
  <2>4. ItemsIn(heap, a) \subseteq DOMAIN W
    BY <2>3, <1>2
  <2>5. \A i \in DOMAIN heap[a].items : heap[a].items[i] \in DOMAIN W
    BY <2>4 DEF ItemsIn
  <2> QED BY <2>1, <2>5 DEF ObjectIn, Removes
<1>6. DOMAIN W \subseteq Addresses
  BY DEF Removes, Objects
<1> QED BY <1>1, <1>2, <1>4, <1>5, <1>6 DEF Objects, O

-----------------------------------------------------------------------------
(* Objects changed *)

\* W has the objects of the heap, and each still points at what it did.
KeepsShape(W) ==
  /\ DOMAIN W = DOMAIN heap
  /\ \A x \in DOMAIN heap :
       W[x] \in Concept /\ W[x].word = heap[x].word /\ W[x].items = heap[x].items

LEMMA ShapeKept ==
  ASSUME Objects(heap), Owned(heap, object), NEW W, KeepsShape(W)
  PROVE  /\ Objects(W) /\ Owned(W, object)
         /\ \A a \in DOMAIN heap : ReachIn(W, a) = ReachIn(heap, a)
<1>1. ASSUME NEW a \in DOMAIN heap PROVE ItemsIn(W, a) = ItemsIn(heap, a)
  BY DEF KeepsShape, ItemsIn
<1>2. \A a \in DOMAIN heap : ReachIn(W, a) = ReachIn(heap, a)
  BY <1>1 DEF ReachIn
<1>3. Objects(W)
  BY DEF Objects, ObjectIn, KeepsShape, IsList
<1>4. Owned(W, object)
  <2>1. \A o \in UsedIn(object) : object[o] \in DOMAIN heap
    BY DEF Owned
  <2> QED BY <1>2, <2>1 DEF Owned, KeepsShape
<1> QED BY <1>2, <1>3, <1>4

LEMMA ConstrainedKeepsShape ==
  ASSUME Objects(heap), NEW a \in DOMAIN heap, NEW F, NEW v \in Values \cup {NoValue}
  PROVE  KeepsShape(Constrained(a, F, v))
<1> DEFINE W == Constrained(a, F, v)
<1>1. ASSUME NEW x \in DOMAIN heap
      PROVE  W[x] \in Concept /\ W[x].word = heap[x].word /\ W[x].items = heap[x].items
  <2>1. heap[x] \in Concept
    BY DEF Objects, ObjectIn
  <2>2. [f \in Features |-> IF f \in F THEN v ELSE heap[x].constraints[f]] \in Constraints
    BY <2>1 DEF Concept, Constraints
  <2> QED BY <2>1, <2>2 DEF Constrained, Concept
<1> QED BY <1>1 DEF KeepsShape, Constrained

-----------------------------------------------------------------------------
(* The invariant *)

CallInv ==
  /\ call \in Calls \cup {NoCall}
  /\ call # NoCall => object[call.of] # NULL
  /\ call.phase \in {"put", "speak"} <=> object[Local] # NULL

HeapInv == Objects(heap) /\ Owned(heap, object) /\ CallInv

LEMMA Roots ==
  ASSUME HeapInv, NEW o \in Owners, object[o] # NULL
  PROVE  /\ o \in UsedIn(object) /\ object[o] \in DOMAIN heap /\ heap[object[o]] \in Concept
         /\ heap[object[o]].items \in Seq(DOMAIN heap)
         /\ \A i \in 1..Len(heap[object[o]].items) : ~IsList(heap[heap[object[o]].items[i]])
         /\ heap[object[o]].items # << >> => IsList(heap[object[o]])
<1>1. o \in UsedIn(object) /\ object[o] \in DOMAIN heap
  BY DEF HeapInv, Owned, UsedIn
<1>2. ObjectIn(heap, object[o]) /\ heap[object[o]].items \in Seq(DOMAIN heap)
  BY <1>1, ItemsAreThere DEF HeapInv, Objects
<1>3. DOMAIN heap[object[o]].items = 1..Len(heap[object[o]].items)
  BY <1>2
<1> QED BY <1>1, <1>2, <1>3 DEF ObjectIn

LEMMA SourcesAreStrings ==
  ASSUME HeapInv, NEW n \in Nat, NEW from \in Sources(n)
  PROVE  /\ from \in Seq(DOMAIN heap) /\ Len(from) = n
         /\ \A i \in 1..Len(from) :
              ~IsList(heap[from[i]]) /\ \E g \in Handles : object[g] = from[i] /\ object[g] # NULL
<1>1. \A g \in Handles : object[g] # NULL => object[g] \in DOMAIN heap
  BY Roots DEF Owners
<1>2. \A i \in 1..n : /\ from[i] \in DOMAIN heap /\ ~IsList(heap[from[i]])
                     /\ \E g \in Handles : object[g] = from[i] /\ object[g] # NULL
  BY <1>1 DEF Sources
<1>3. from \in [1..n -> DOMAIN heap]
  BY <1>2 DEF Sources
<1> QED BY <1>2, <1>3

LEMMA StringIsConcept == \A w \in Words : StringConcept(w) \in Concept
BY DEF StringConcept, Concept, Plain, Format, NoConstraints, Constraints, Text

LEMMA ListIsConcept ==
  \A c \in Conjunctions, n \in Int : ListConcept(c, n) \in Concept /\ IsList(ListConcept(c, n))
<1> SUFFICES ASSUME NEW c \in Conjunctions, NEW n \in Int
             PROVE  ListConcept(c, n) \in Concept /\ IsList(ListConcept(c, n))
  OBVIOUS
<1>1. c.two \in Text /\ c.first \in Text /\ c.second \in Text
  OBVIOUS
<1>2. Plain.text \in [Separators -> Text]
  BY DEF Plain, Text
<1>3. Conjoined(c, n) \in Format
  BY <1>1, <1>2 DEF Conjoined, Format, Plain
<1>4. NoConstraints \in Constraints
  BY DEF NoConstraints, Constraints
<1> QED BY <1>3, <1>4 DEF ListConcept, Concept, IsList

\* The steps that keep the call, by what they do to the heap.
LEMMA StepAdds ==
  ASSUME HeapInv, NEW o \in Owners, object[o] = NULL, NEW c \in Concept,
         NEW from \in Seq(DOMAIN heap), from # << >> => IsList(c),
         \A i \in 1..Len(from) : ~IsList(heap[from[i]]),
         NEW p \in NewAddresses(Len(from)), heap' = With(p, c, from),
         object' = [object EXCEPT ![o] = p[0]]
  PROVE  Objects(heap') /\ Owned(heap', object')
<1>1. Adds(heap', p, c, from)
  BY WithAdds
<1> QED BY <1>1, NewObjects, NewOwner DEF HeapInv

LEMMA CloneAdds ==
  ASSUME HeapInv, NEW o \in Owners, object[o] = NULL, NEW g \in Owners, object[g] # NULL,
         CloneTo(o, object[g])
  PROVE  Objects(heap') /\ Owned(heap', object')
         /\ \E p : /\ object' = [object EXCEPT ![o] = p[0]] /\ p[0] # NULL
                   /\ Adds(heap', p, [heap[object[g]] EXCEPT !.format.avoidAffixRedundancy = TRUE],
                           heap[object[g]].items)
<1> DEFINE a == object[g]
           c == [heap[a] EXCEPT !.format.avoidAffixRedundancy = TRUE]
           from == heap[a].items
<1>1. PICK p \in NewAddresses(Len(from)) : heap' = With(p, c, from) /\ object' = [object EXCEPT ![o] = p[0]]
  BY DEF CloneTo
<1>2. /\ heap[a] \in Concept /\ from \in Seq(DOMAIN heap) /\ (from # << >> => IsList(heap[a]))
      /\ \A i \in 1..Len(from) : ~IsList(heap[from[i]])
  BY Roots
<1>3. c \in Concept /\ (from # << >> => IsList(c))
  BY <1>2 DEF Concept, Format, IsList
<1>4. Adds(heap', p, c, from)
  BY <1>1, <1>2, WithAdds
<1>5. p[0] # NULL
  BY <1>2, <1>4 DEF Adds
<1> QED BY <1>1, <1>2, <1>3, <1>4, <1>5, StepAdds

LEMMA StepChanges ==
  ASSUME HeapInv, KeepsShape(heap'), UNCHANGED object
  PROVE  Objects(heap') /\ Owned(heap', object')
BY ShapeKept DEF HeapInv

LEMMA StepRemoves ==
  ASSUME HeapInv, NEW o \in Owners, object[o] # NULL, heap' = Without(object[o]),
         object' = [object EXCEPT ![o] = NULL]
  PROVE  Objects(heap') /\ Owned(heap', object')
BY WithoutRemoves, Removal DEF HeapInv, UsedIn

LEMMA InitHeapInv == Init => HeapInv
BY DEF Init, HeapInv, Objects, Owned, UsedIn, CallInv, NoCall, Owners

LEMMA StepHeapInv == HeapInv /\ [Next]_vars => HeapInv'
<1> SUFFICES ASSUME HeapInv, [Next]_vars PROVE HeapInv'
  OBVIOUS
<1> DEFINE Kept == Objects(heap') /\ Owned(heap', object')
<1>0. NoCall \notin Calls /\ NoCall.phase = "idle" /\ Local \in Owners /\ Handles \subseteq Owners
      /\ \A h \in Handles : h # Local
  BY DEF Calls, NoCall, Owners
<1>1. ASSUME NEW h \in Handles, Create(h) PROVE HeapInv'
  <2>1. PICK w \in Words, p \in NewAddresses(0) :
          heap' = With(p, StringConcept(w), << >>) /\ object' = [object EXCEPT ![h] = p[0]]
    BY <1>1 DEF Create
  <2>2. /\ h \in Owners /\ object[h] = NULL /\ StringConcept(w) \in Concept
        /\ << >> \in Seq(DOMAIN heap) /\ Len(<< >>) = 0
    BY <1>0, <1>1, StringIsConcept DEF Create, Held
  <2>3. p \in NewAddresses(Len(<< >>)) /\ \A i \in 1..Len(<< >>) : ~IsList(heap[<< >>[i]])
    BY <2>2
  <2>4. Kept
    BY <2>1, <2>2, <2>3, StepAdds, Zenon
  <2>5. call = NoCall /\ call' = NoCall
    BY <1>1 DEF Create, Called
  <2>6. object'[Local] = object[Local]
    BY <1>0, <2>1 DEF HeapInv, Owned
  <2> QED BY <1>0, <2>4, <2>5, <2>6 DEF HeapInv, CallInv
<1>2. ASSUME NEW h \in Handles, CreateList(h) PROVE HeapInv'
  <2>0. PICK n \in 0..MaxItems :
          \E from \in Sources(n), size \in n..MaxItems, c \in Conjunctions, p \in NewAddresses(n) :
            heap' = With(p, ListConcept(c, size), from) /\ object' = [object EXCEPT ![h] = p[0]]
    BY <1>2 DEF CreateList
  <2>1. PICK from \in Sources(n), size \in n..MaxItems, c \in Conjunctions, p \in NewAddresses(n) :
          heap' = With(p, ListConcept(c, size), from) /\ object' = [object EXCEPT ![h] = p[0]]
    BY <2>0
  <2>2. /\ h \in Owners /\ object[h] = NULL
        /\ ListConcept(c, size) \in Concept /\ IsList(ListConcept(c, size))
    BY <1>0, <1>2, ListIsConcept DEF CreateList, Held
  <2>3. /\ from \in Seq(DOMAIN heap) /\ Len(from) = n
        /\ \A i \in 1..Len(from) : ~IsList(heap[from[i]])
    BY SourcesAreStrings
  <2>4. Kept
    BY <2>1, <2>2, <2>3, StepAdds, Zenon
  <2>5. call = NoCall /\ call' = NoCall
    BY <1>2 DEF CreateList, Called
  <2>6. object'[Local] = object[Local]
    BY <1>0, <2>1 DEF HeapInv, Owned
  <2> QED BY <1>0, <2>4, <2>5, <2>6 DEF HeapInv, CallInv
<1>3. ASSUME NEW h \in Handles, PutConstraint(h) \/ ClearConstraint(h) \/ Reset(h) PROVE HeapInv'
  <2>1. object[h] \in DOMAIN heap
    BY <1>0, <1>3, Roots DEF PutConstraint, ClearConstraint, Reset, Held
  <2>2. PICK F \in SUBSET Features, v \in Values \cup {NoValue} : heap' = Constrained(object[h], F, v)
    <3>1. CASE PutConstraint(h)
      <4>1. PICK f \in Features, v \in Values : heap' = Constrained(object[h], {f}, v)
        BY <3>1 DEF PutConstraint
      <4> QED BY <4>1, {f} \in SUBSET Features, v \in Values \cup {NoValue}, Zenon
    <3>2. CASE ClearConstraint(h)
      <4>1. PICK f \in Features : heap' = Constrained(object[h], {f}, NoValue)
        BY <3>2 DEF ClearConstraint
      <4> QED BY <4>1, {f} \in SUBSET Features, NoValue \in Values \cup {NoValue}, Zenon
    <3>3. CASE Reset(h)
      BY <3>3, Features \in SUBSET Features, NoValue \in Values \cup {NoValue}, Zenon DEF Reset
    <3> QED BY <1>3, <3>1, <3>2, <3>3
  <2>3. Kept
    BY <1>3, <2>1, <2>2, ConstrainedKeepsShape, StepChanges
       DEF HeapInv, PutConstraint, ClearConstraint, Reset
  <2> QED BY <1>3, <2>3 DEF HeapInv, CallInv, PutConstraint, ClearConstraint, Reset
<1>4. ASSUME NEW h \in Handles, SetSeparator(h) \/ SetAvoidItemAffixRedundancy(h) PROVE HeapInv'
  <2>1. object[h] \in DOMAIN heap /\ heap[object[h]] \in Concept
    BY <1>0, <1>4, Roots DEF SetSeparator, SetAvoidItemAffixRedundancy, Held
  <2>2. \A x \in DOMAIN heap : heap[x] \in Concept
    BY DEF HeapInv, Objects, ObjectIn
  <2>3. KeepsShape(heap')
    <3>1. ASSUME NEW s \in Settings, heap' = [heap EXCEPT ![object[h]].format.text[s[1]] = s[2]]
          PROVE  KeepsShape(heap')
      <4>1. s[1] \in Separators /\ s[2] \in Text
        OBVIOUS
      <4> QED BY <2>1, <2>2, <3>1, <4>1 DEF KeepsShape, Concept, Format
    <3>2. ASSUME NEW b \in BOOLEAN, heap' = [heap EXCEPT ![object[h]].format.avoidAffixRedundancy = b]
          PROVE  KeepsShape(heap')
      BY <2>1, <2>2, <3>2 DEF KeepsShape, Concept, Format
    <3> QED BY <1>4, <3>1, <3>2 DEF SetSeparator, SetAvoidItemAffixRedundancy
  <2>4. Kept
    BY <1>4, <2>3, StepChanges DEF SetSeparator, SetAvoidItemAffixRedundancy
  <2> QED BY <1>4, <2>4 DEF HeapInv, CallInv, SetSeparator, SetAvoidItemAffixRedundancy
<1>5. ASSUME NEW h \in Handles, NEW g \in Handles, Clone(h, g) PROVE HeapInv'
  <2>1. Kept /\ \E p : object' = [object EXCEPT ![g] = p[0]]
    BY <1>0, <1>5, CloneAdds, Zenon DEF Clone, Held
  <2> QED BY <1>0, <1>5, <2>1 DEF HeapInv, CallInv, Clone, Called, Owned
<1>6. ASSUME NEW h \in Handles, Delete(h) PROVE HeapInv'
  <2>1. Kept
    BY <1>0, <1>6, StepRemoves DEF Delete, Held
  <2> QED BY <1>0, <1>6, <2>1 DEF HeapInv, CallInv, Delete, Called, Owned
<1>7. ASSUME NEW h \in Handles, ToSpeakableString(h) \/ GetFeatureValue(h) PROVE HeapInv'
  BY <1>7 DEF HeapInv, CallInv, ToSpeakableString, GetFeatureValue
<1>8. ASSUME NEW h \in Handles, NEW n \in DOMAIN Numbers, NEW counts \in Counting,
             QuantifyStart(h, n, counts)
      PROVE  HeapInv'
  <2>1. heap[object[h]].constraints["count"] \in Values \cup {NoValue}
    BY <1>0, <1>8, Roots DEF QuantifyStart, Held, Concept, Constraints
  <2>2. call' \in Calls /\ call'.of = h /\ call'.phase \in {"clone", "show"}
    BY <1>8, <2>1 DEF QuantifyStart, Calls
  <2> QED BY <1>0, <1>8, <2>2 DEF HeapInv, CallInv, QuantifyStart, Called, Held
<1>9. CASE QuantifyClone
  <2>1. call \in Calls /\ object[call.of] # NULL /\ object[Local] = NULL /\ call.of \in Handles
    BY <1>0, <1>9 DEF QuantifyClone, HeapInv, CallInv, Calls
  <2>2. Kept /\ \E p : object' = [object EXCEPT ![Local] = p[0]] /\ p[0] # NULL
    BY <1>0, <1>9, <2>1, CloneAdds, Zenon DEF QuantifyClone
  <2>3. call' \in Calls /\ call'.of = call.of /\ call'.phase = "put"
    BY <1>9, <2>1 DEF QuantifyClone, Calls
  <2> QED BY <1>0, <2>1, <2>2, <2>3 DEF HeapInv, CallInv, Owned
<1>10. CASE QuantifyPut
  <2>1. call \in Calls /\ object[Local] # NULL
    BY <1>0, <1>10 DEF QuantifyPut, HeapInv, CallInv
  <2>2. object[Local] \in DOMAIN heap
    BY <1>0, <2>1, Roots
  <2>3. KeepsShape(heap')
    <3>1. CASE heap' = heap
      BY <3>1 DEF KeepsShape, HeapInv, Objects, ObjectIn
    <3>2. CASE CountOf[call.number] \in CountForms
      BY <1>10, <2>2, <3>2, ConstrainedKeepsShape DEF QuantifyPut, HeapInv
    <3> QED BY <1>10, <3>1, <3>2 DEF QuantifyPut
  <2>4. Kept
    BY <1>10, <2>3, StepChanges DEF QuantifyPut
  <2>5. call' \in Calls /\ call'.of = call.of /\ call'.phase = "speak"
    BY <1>10, <2>1 DEF QuantifyPut, Calls
  <2> QED BY <1>0, <1>10, <2>1, <2>4, <2>5 DEF HeapInv, CallInv, QuantifyPut
<1>11. CASE QuantifySpeak \/ QuantifySpeakThrows
  <2>1. call \in Calls /\ object[Local] # NULL /\ object[call.of] # NULL /\ call.of \in Handles
    BY <1>0, <1>11 DEF QuantifySpeak, QuantifySpeakThrows, HeapInv, CallInv, Calls
  <2>2. heap' = Without(object[Local]) /\ object' = [object EXCEPT ![Local] = NULL]
    BY <1>11 DEF QuantifySpeak, QuantifySpeakThrows
  <2>3. Kept
    BY <1>0, <2>1, <2>2, StepRemoves
  <2>4. call' = NoCall \/ (call' \in Calls /\ call'.of = call.of /\ call'.phase = "show")
    BY <1>11, <2>1 DEF QuantifySpeak, QuantifySpeakThrows, Returns, Calls
  <2>5. object'[Local] = NULL /\ object'[call.of] = object[call.of]
    BY <1>0, <2>1, <2>2 DEF HeapInv, Owned
  <2> QED BY <1>0, <2>1, <2>3, <2>4, <2>5 DEF HeapInv, CallInv
<1>12. CASE QuantifyShow
  BY <1>0, <1>12 DEF QuantifyShow, Returns, HeapInv, CallInv
<1>13. CASE UNCHANGED vars
  BY <1>13 DEF vars, HeapInv, CallInv
<1> QED BY <1>1, <1>2, <1>3, <1>4, <1>5, <1>6, <1>7, <1>8, <1>9, <1>10, <1>11, <1>12, <1>13 DEF Next

\* Every object has one owner: nothing is leaked, none deleted twice, and no
\* pointer dangles (the std::unique_ptrs and the destructor of
\* SemanticConceptList).
THEOREM OneOwner == Spec => []OwnedOnce
<1>1. HeapInv => OwnedOnce
  <2> SUFFICES ASSUME HeapInv PROVE OwnedOnce
    OBVIOUS
  <2>1. /\ Used = UsedIn(object)
        /\ \A a : Items(a) = ItemsIn(heap, a) /\ Reach(a) = ReachIn(heap, a)
    BY DEF Used, UsedIn, Items, ItemsIn, Reach, ReachIn
  <2>2. \A o \in Used : Reach(object[o]) \subseteq DOMAIN heap
    <3> SUFFICES ASSUME NEW o \in UsedIn(object) PROVE ReachIn(heap, object[o]) \subseteq DOMAIN heap
      BY <2>1
    <3>1. object[o] \in DOMAIN heap /\ Objects(heap)
      BY DEF HeapInv, Owned
    <3> QED BY <3>1, ItemsAreThere DEF ReachIn
  <2>3. /\ \A a \in DOMAIN heap : \E o \in Used : a \in Reach(object[o])
        /\ \A o, p \in Used : o # p => Reach(object[o]) \cap Reach(object[p]) = {}
    BY <2>1 DEF HeapInv, Owned
  <2>4. \A a \in DOMAIN heap :
          /\ a \notin Items(a)
          /\ \A i, j \in DOMAIN heap[a].items : heap[a].items[i] = heap[a].items[j] => i = j
    BY <2>1, ItemsAreThere DEF HeapInv, Objects, ObjectIn
  <2>5. call.phase \in {"put", "speak"} <=> Local \in Used
    BY DEF HeapInv, CallInv, Used, Owners
  <2> QED BY <2>2, <2>3, <2>4, <2>5 DEF OwnedOnce
<1> QED BY <1>1, InitHeapInv, StepHeapInv, PTL DEF Spec

LEMMA HeapInvHolds == Spec => []HeapInv
BY InitHeapInv, StepHeapInv, PTL DEF Spec

-----------------------------------------------------------------------------
(* Constraints of lists *)

\* An object that has items is the root of a tree, and they are of that tree
\* alone.
LEMMA TreesApart ==
  ASSUME HeapInv, NEW x \in DOMAIN heap, NEW y \in ItemsIn(heap, x), NEW o \in Owners, object[o] # NULL
  PROVE  /\ y \in ReachIn(heap, object[o]) <=> x = object[o]
         /\ x \in ReachIn(heap, object[o]) <=> x = object[o]
<1>1. o \in UsedIn(object) /\ object[o] \in DOMAIN heap /\ Objects(heap)
  BY Roots DEF HeapInv
<1>2. PICK u \in UsedIn(object) : x \in ReachIn(heap, object[u])
  BY DEF HeapInv, Owned
<1>3. object[u] \in DOMAIN heap
  BY DEF HeapInv, Owned
<1>4. x = object[u]
  BY <1>1, <1>2, <1>3, ItemsAreThere DEF ReachIn
<1>5. y \in ReachIn(heap, object[u])
  BY <1>4 DEF ReachIn
<1>6. (y \in ReachIn(heap, object[o]) \/ x \in ReachIn(heap, object[o])) => u = o
  BY <1>1, <1>2, <1>5 DEF HeapInv, Owned
<1> QED BY <1>4, <1>5, <1>6 DEF ReachIn

HandedOn(H) ==
  \A a \in DOMAIN H : \A b \in ItemsIn(H, a), f \in Features :
    H[a].constraints[f] # NoValue => H[b].constraints[f] = H[a].constraints[f]

LEMMA AddsHandedOn ==
  ASSUME HeapInv, HandedOn(heap), NEW c \in Concept, NEW from \in Seq(DOMAIN heap), NEW p, NEW W,
         Adds(W, p, c, from), \A i \in 1..Len(from) : ~IsList(heap[from[i]]),
         \A i \in 1..Len(from), f \in Features :
           c.constraints[f] # NoValue => heap[from[i]].constraints[f] = c.constraints[f]
  PROVE  HandedOn(W)
<1> DEFINE n == Len(from)
<1>1. n \in Nat /\ 0..n = {0} \cup 1..n
  OBVIOUS
<1>2. /\ DOMAIN W = DOMAIN heap \cup {p[i] : i \in 0..n}
      /\ \A x \in DOMAIN heap : W[x] = heap[x]
      /\ W[p[0]] = [c EXCEPT !.items = [i \in 1..n |-> p[i]]]
      /\ \A i \in 1..n : W[p[i]] = heap[from[i]]
  BY DEF Adds
<1>3. \A i \in 1..n : from[i] \in DOMAIN heap
  OBVIOUS
<1>4. /\ W[p[0]].constraints = c.constraints
      /\ DOMAIN W[p[0]].items = 1..n /\ \A i \in 1..n : W[p[0]].items[i] = p[i]
  BY <1>1, <1>2 DEF Concept
<1> HIDE DEF n
<1> SUFFICES ASSUME NEW a \in DOMAIN W, NEW b \in ItemsIn(W, a), NEW f \in Features,
                    W[a].constraints[f] # NoValue
             PROVE  W[b].constraints[f] = W[a].constraints[f]
  BY DEF HandedOn
<1>5. CASE a \in DOMAIN heap
  <2>1. W[a] = heap[a] /\ ItemsIn(W, a) = ItemsIn(heap, a)
    BY <1>2, <1>5 DEF ItemsIn
  <2>2. b \in DOMAIN heap
    BY <1>5, <2>1, ItemsAreThere DEF HeapInv
  <2> QED BY <1>2, <1>5, <2>1, <2>2 DEF HandedOn
<1>6. CASE a = p[0]
  <2>1. PICK i \in 1..n : b = p[i]
    BY <1>4, <1>6 DEF ItemsIn
  <2>2. W[b] = heap[from[i]]
    BY <1>2, <2>1
  <2>3. c.constraints[f] # NoValue => heap[from[i]].constraints[f] = c.constraints[f]
    BY <2>1 DEF n
  <2> QED BY <1>4, <1>6, <2>2, <2>3
<1>7. CASE \E i \in 1..n : a = p[i]
  <2>1. PICK i \in 1..n : a = p[i]
    BY <1>7
  <2>2. W[a].items = << >>
    BY <1>2, <1>3, <2>1 DEF HeapInv, Objects, ObjectIn, n
  <2> QED BY <2>2 DEF ItemsIn
<1> QED BY <1>1, <1>2, <1>5, <1>6, <1>7

ListsInv == HandedOn(heap)

LEMMA StepListsInv == HeapInv /\ ListsInv /\ [Next]_vars => ListsInv'
<1> SUFFICES ASSUME HeapInv, HandedOn(heap), [Next]_vars PROVE HandedOn(heap')
  BY DEF ListsInv
<1>0. Local \in Owners /\ Handles \subseteq Owners /\ Objects(heap)
  BY DEF Owners, HeapInv
<1>1. ASSUME NEW o \in Owners, object[o] # NULL, NEW F, NEW v \in Values \cup {NoValue},
             heap' = Constrained(object[o], F, v)
      PROVE  HandedOn(heap')
  <2>1. /\ object[o] \in DOMAIN heap
        /\ \A a \in DOMAIN heap : Reach(object[o]) = ReachIn(heap, object[o])
    BY <1>1, Roots DEF Reach, Items, ReachIn, ItemsIn
  <2>2. KeepsShape(heap')
    BY <1>0, <1>1, <2>1, ConstrainedKeepsShape
  <2> SUFFICES ASSUME NEW x \in DOMAIN heap, NEW y \in ItemsIn(heap, x), NEW f \in Features,
                      heap'[x].constraints[f] # NoValue
               PROVE  heap'[y].constraints[f] = heap'[x].constraints[f]
    BY <2>2 DEF KeepsShape, HandedOn, ItemsIn
  <2>3. y \in DOMAIN heap /\ (y \in Reach(object[o]) <=> x \in Reach(object[o]))
    BY <1>0, <1>1, <2>1, ItemsAreThere, TreesApart
  <2>4. heap[x] \in Concept /\ heap[y] \in Concept
    BY <1>0, <2>3 DEF Objects, ObjectIn
  <2>5. CASE x \in Reach(object[o])
    <3>1. \A z \in {x, y} : heap'[z].constraints =
            [g \in Features |-> IF g \in F THEN v ELSE heap[z].constraints[g]]
      BY <1>1, <2>3, <2>4, <2>5 DEF Constrained, Concept
    <3> QED BY <3>1 DEF HandedOn
  <2>6. CASE x \notin Reach(object[o])
    BY <1>1, <2>3, <2>6 DEF Constrained, HandedOn
  <2> QED BY <2>5, <2>6
<1>2. ASSUME NEW o \in Owners, object[o] # NULL, heap' = Without(object[o]) PROVE HandedOn(heap')
  <2>1. Removes(heap', object[o])
    BY <1>2, WithoutRemoves
  <2> SUFFICES ASSUME NEW x \in DOMAIN heap', NEW y \in ItemsIn(heap, x)
               PROVE  y \in DOMAIN heap'
    BY <2>1 DEF Removes, HandedOn, ItemsIn
  <2>2. x \in DOMAIN heap /\ x \notin ReachIn(heap, object[o])
    BY <2>1 DEF Removes
  <2> QED BY <1>0, <1>2, <2>1, <2>2, ItemsAreThere, TreesApart DEF Removes
<1>3. ASSUME NEW o \in Owners, NEW g \in Owners, object[o] = NULL, object[g] # NULL, CloneTo(o, object[g])
      PROVE  HandedOn(heap')
  <2> DEFINE a == object[g]
             c == [heap[a] EXCEPT !.format.avoidAffixRedundancy = TRUE]
             from == heap[a].items
  <2>1. PICK p : Adds(heap', p, c, from)
    BY <1>3, CloneAdds
  <2>2. /\ a \in DOMAIN heap /\ heap[a] \in Concept /\ from \in Seq(DOMAIN heap)
        /\ \A i \in 1..Len(from) : ~IsList(heap[from[i]])
    BY <1>3, Roots
  <2>3. c \in Concept /\ c.constraints = heap[a].constraints
    BY <2>2 DEF Concept, Format
  <2>4. \A i \in 1..Len(from) : from[i] \in ItemsIn(heap, a)
    BY <2>2 DEF ItemsIn
  <2>5. \A i \in 1..Len(from), f \in Features :
          c.constraints[f] # NoValue => heap[from[i]].constraints[f] = c.constraints[f]
    BY <2>2, <2>3, <2>4 DEF HandedOn
  <2> QED BY <2>1, <2>2, <2>3, <2>5, AddsHandedOn, Zenon
<1>4. ASSUME NEW h \in Handles, Create(h) PROVE HandedOn(heap')
  <2>1. PICK w \in Words, p \in NewAddresses(0) : heap' = With(p, StringConcept(w), << >>)
    BY <1>4 DEF Create
  <2>2. /\ << >> \in Seq(DOMAIN heap) /\ Len(<< >>) = 0 /\ p \in NewAddresses(Len(<< >>))
        /\ StringConcept(w) \in Concept
    BY StringIsConcept
  <2>3. Adds(heap', p, StringConcept(w), << >>)
    BY <2>1, <2>2, WithAdds
  <2>4. \A i \in 1..Len(<< >>) : FALSE
    BY <2>2
  <2> QED BY <2>2, <2>3, <2>4, AddsHandedOn, Zenon
<1>5. ASSUME NEW h \in Handles, CreateList(h) PROVE HandedOn(heap')
  <2>0. PICK n \in 0..MaxItems :
          \E from \in Sources(n), size \in n..MaxItems, c \in Conjunctions, p \in NewAddresses(n) :
            heap' = With(p, ListConcept(c, size), from)
    BY <1>5 DEF CreateList
  <2>1. PICK from \in Sources(n), size \in n..MaxItems, c \in Conjunctions, p \in NewAddresses(n) :
          heap' = With(p, ListConcept(c, size), from)
    BY <2>0
  <2>2. /\ from \in Seq(DOMAIN heap) /\ Len(from) = n
        /\ \A i \in 1..Len(from) : ~IsList(heap[from[i]])
    BY <1>0, SourcesAreStrings
  <2>3. /\ ListConcept(c, size) \in Concept
        /\ \A f \in Features : ListConcept(c, size).constraints[f] = NoValue
    <3>1. size \in Int
      OBVIOUS
    <3>2. ListConcept(c, size).constraints = NoConstraints
      BY DEF ListConcept
    <3> QED BY <3>1, <3>2, ListIsConcept DEF NoConstraints
  <2>4. Adds(heap', p, ListConcept(c, size), from)
    BY <2>1, <2>2, WithAdds
  <2> QED BY <2>2, <2>3, <2>4, AddsHandedOn
<1>6. ASSUME NEW h \in Handles, PutConstraint(h) \/ ClearConstraint(h) \/ Reset(h) PROVE HandedOn(heap')
  BY <1>0, <1>1, <1>6 DEF PutConstraint, ClearConstraint, Reset, Held
<1>7. ASSUME NEW h \in Handles, SetSeparator(h) \/ SetAvoidItemAffixRedundancy(h) PROVE HandedOn(heap')
  <2>1. object[h] \in DOMAIN heap /\ heap[object[h]] \in Concept
    BY <1>0, <1>7, Roots DEF SetSeparator, SetAvoidItemAffixRedundancy, Held
  <2>2. PICK F : heap' = [heap EXCEPT ![object[h]].format = F]
    BY <1>7, Zenon DEF SetSeparator, SetAvoidItemAffixRedundancy
  <2>3. /\ DOMAIN heap' = DOMAIN heap
        /\ \A x \in DOMAIN heap : heap'[x].constraints = heap[x].constraints /\ heap'[x].items = heap[x].items
    BY <2>1, <2>2 DEF Concept
  <2>4. \A x \in DOMAIN heap : ItemsIn(heap', x) = ItemsIn(heap, x) /\ ItemsIn(heap, x) \subseteq DOMAIN heap
    BY <1>0, <2>3, ItemsAreThere DEF ItemsIn
  <2> QED BY <2>3, <2>4 DEF HandedOn
<1>8. CASE QuantifyClone
  <2>1. object[call.of] # NULL /\ object[Local] = NULL /\ call.of \in Owners
    BY <1>0, <1>8 DEF QuantifyClone, HeapInv, CallInv, Calls, NoCall
  <2> QED BY <1>0, <1>3, <1>8, <2>1 DEF QuantifyClone
<1>9. CASE QuantifyPut
  <2>1. object[Local] # NULL
    BY <1>9 DEF QuantifyPut, HeapInv, CallInv
  <2> QED BY <1>0, <1>1, <1>9, <2>1 DEF QuantifyPut
<1>10. CASE QuantifySpeak \/ QuantifySpeakThrows
  <2>1. object[Local] # NULL /\ heap' = Without(object[Local])
    BY <1>10 DEF QuantifySpeak, QuantifySpeakThrows, HeapInv, CallInv
  <2> QED BY <1>0, <1>2, <2>1
<1>11. ASSUME NEW h \in Handles, NEW g \in Handles, Clone(h, g) PROVE HandedOn(heap')
  BY <1>0, <1>3, <1>11 DEF Clone, Held
<1>12. ASSUME NEW h \in Handles, Delete(h) PROVE HandedOn(heap')
  BY <1>0, <1>2, <1>12 DEF Delete, Held
<1>13. ASSUME UNCHANGED heap PROVE HandedOn(heap')
  BY <1>13
<1>14. (\E h \in Handles : \/ ToSpeakableString(h) \/ GetFeatureValue(h)
                         \/ \E n \in DOMAIN Numbers, counts \in Counting : QuantifyStart(h, n, counts))
         \/ QuantifyShow \/ UNCHANGED vars
       => UNCHANGED heap
  BY DEF ToSpeakableString, GetFeatureValue, QuantifyStart, QuantifyShow, vars
<1> QED BY <1>4, <1>5, <1>6, <1>7, <1>8, <1>9, <1>10, <1>11, <1>12, <1>13, <1>14 DEF Next

\* What a list says of itself is what its items are shown by
\* (SemanticConceptList::putConstraint and clearConstraint).
THEOREM ListsHandOn == Spec => []ConstraintsReachItems
<1>1. Init => ListsInv
  BY DEF Init, ListsInv, HandedOn
<1>2. ListsInv => ConstraintsReachItems
  BY DEF ListsInv, HandedOn, ConstraintsReachItems, Items, ItemsIn
<1> QED BY <1>1, <1>2, StepListsInv, HeapInvHolds, PTL DEF Spec

-----------------------------------------------------------------------------
(* The text of a list *)

LEMMA TextsAreConcatenated ==
  /\ << >> \in Text
  /\ \A s, t \in Text : s \o t \in Text
  /\ \A t \in Text : << >> \o t = t /\ t \o << >> = t
  /\ \A s, t, u \in Text : (s \o t) \o u = s \o (t \o u)
BY DEF Text

Regroups(s, t, u, v) == (s \o t) \o << >> \o u \o v = s \o (t \o (u \o v))

LEMMA Regrouped ==
  ASSUME NEW s \in Text, NEW t \in Text, NEW u \in Text, NEW v \in Text PROVE Regroups(s, t, u, v)
<1>1. s \o t \in Text /\ u \o v \in Text
  BY TextsAreConcatenated
<1>2. (s \o t) \o << >> = s \o t
  BY <1>1, TextsAreConcatenated
<1>3. ((s \o t) \o u) \o v = (s \o t) \o (u \o v)
  <2>1. \A x \in Text : (x \o u) \o v = x \o (u \o v)
    BY TextsAreConcatenated
  <2> QED BY <1>1, <2>1, Zenon
<1>4. \A x \in Text : (s \o t) \o x = s \o (t \o x)
  BY TextsAreConcatenated
<1>5. (s \o t) \o (u \o v) = s \o (t \o (u \o v))
  BY <1>1, <1>4
<1> QED BY <1>2, <1>3, <1>5, Zenon DEF Regroups

LEMMA PartsAreTexts ==
  ASSUME NEW format \in Format, NEW t \in Text
  PROVE  /\ WithAffixes(format, t) \in Text
         /\ \A n, i, p : Delimiter(format.text, n, i, p) \in Text
<1>1. \A s \in Separators : format.text[s] \in Text
  BY DEF Format
<1>2. /\ "itemPrefix" \in Separators /\ "itemSuffix" \in Separators /\ "afterFirst" \in Separators
      /\ "beforeLast" \in Separators /\ "itemDelimiter" \in Separators
  BY DEF Separators
<1>3. WithAffixes(format, t) \in Text
  <2> DEFINE Affixed(x, y) == (IF x THEN << >> ELSE format.text["itemPrefix"]) \o t
                                \o (IF y THEN << >> ELSE format.text["itemSuffix"])
  <2>1. \A x, y : Affixed(x, y) \in Text
    BY <1>1, <1>2, TextsAreConcatenated
  <2>2. \E x, y : WithAffixes(format, t) = Affixed(x, y)
    BY Zenon DEF WithAffixes
  <2> QED BY <2>1, <2>2
<1>4. ASSUME NEW n, NEW i, NEW p PROVE Delimiter(format.text, n, i, p) \in Text
  BY <1>1, <1>2, TextsAreConcatenated DEF Delimiter
<1> QED BY <1>3, <1>4

LEMMA ItemIsText ==
  ASSUME NEW format \in Format, NEW r, NEW i, r[i] \in Text, NEW before \in Text, NEW p
  PROVE  WithItem(format, r, i, before, p) \in Text
<1>1. WithAffixes(format, r[i]) \in Text /\ Delimiter(format.text, Len(r), i, p) \in Text
  BY PartsAreTexts
<1>2. format.text["beforeFirst"] \in Text /\ format.text["afterLast"] \in Text
  BY DEF Format, Separators
<1> QED BY <1>1, <1>2, TextsAreConcatenated DEF WithItem

\* What Joined is defined by is defined.
LEMMA JoinedUnfolds ==
  ASSUME NEW format \in Format, NEW r \in Seq(Text \cup {NoText})
  PROVE  \E f \in [0..Len(r) -> [text : Text, previous : Nat]] :
           /\ f[0] = [text |-> << >>, previous |-> 0]
           /\ \A i \in 1..Len(r) : f[i] =
                IF ~Shows(r[i]) THEN f[i - 1]
                ELSE [text |-> WithItem(format, r, i, f[i - 1].text, f[i - 1].previous), previous |-> i]
           /\ Joined(format, r) = f[Len(r)].text
<1> DEFINE n == Len(r)
           A == [text : Text, previous : Nat]
           a == [text |-> << >>, previous |-> 0]
           Item(i, x) == IF ~Shows(r[i]) THEN x
                         ELSE [text |-> WithItem(format, r, i, x.text, x.previous), previous |-> i]
           step == [i \in 1..n |-> [x \in A |-> Item(i, x)]]
           upTo[i \in 0..Len(r)] ==
             IF i = 0 THEN [text |-> << >>, previous |-> 0]
             ELSE IF ~Shows(r[i]) THEN upTo[i - 1]
             ELSE [text |-> WithItem(format, r, i, upTo[i - 1].text, upTo[i - 1].previous),
                   previous |-> i]
<1>1. n \in Nat /\ a \in A
  BY TextsAreConcatenated
<1>2. ASSUME NEW i \in 1..n, NEW x \in A PROVE Item(i, x) \in A
  <2>1. Shows(r[i]) => r[i] \in Text
    BY DEF Shows
  <2>2. Shows(r[i]) => WithItem(format, r, i, x.text, x.previous) \in Text
    BY <2>1, ItemIsText
  <2> QED BY <2>2
<1>3. step \in [1..n -> [A -> A]]
  BY <1>2
<1>4. PICK f \in [0..n -> A] : Recursion(f, n, a, step)
  <2> HIDE DEF step, A, a, n, Item, upTo
  <2> QED BY <1>1, <1>3, RecursionExists, Zenon
<1>5. f = [i \in 0..n |-> IF i = 0 THEN a ELSE Item(i, f[i - 1])]
  <2>1. \A i \in 0..n : i # 0 => i \in 1..n /\ i - 1 \in 0..n
    BY <1>1
  <2> HIDE DEF A, a, n, Item
  <2>2. \A i \in 0..n : i # 0 => step[i][f[i - 1]] = Item(i, f[i - 1])
    BY <1>4, <2>1
  <2> QED BY <1>4, <2>2 DEF Recursion
<1>6. upTo = [i \in 0..n |-> IF i = 0 THEN a ELSE Item(i, upTo[i - 1])]
  <2> DEFINE U(g) == [i \in 0..n |-> IF i = 0 THEN a ELSE Item(i, g[i - 1])]
  <2>1. upTo = CHOOSE g : g = U(g)
    BY Zenon
  <2> HIDE DEF upTo, U
  <2>2. f = U(f)
    BY <1>5 DEF U
  <2>3. upTo = U(upTo)
    BY <2>1, <2>2, Zenon
  <2> QED BY <2>3 DEF U
<1>7. Joined(format, r) = upTo[n].text
  BY Zenon DEF Joined
<1> HIDE DEF upTo, Item, A, a
<1>8. /\ upTo[0] = a
      /\ \A i \in 1..n : i - 1 \in Nat /\ upTo[i] = Item(i, upTo[i - 1])
  <2>1. \A i \in 0..n : upTo[i] = IF i = 0 THEN a ELSE Item(i, upTo[i - 1])
    BY <1>6, Zenon
  <2>2. 0 \in 0..n /\ \A i \in 1..n : i \in 0..n /\ i # 0 /\ i - 1 \in Nat
    BY <1>1
  <2> QED BY <2>1, <2>2, Zenon
<1>9. \A i \in 0..n : upTo[i] \in A
  <2> DEFINE S == {k \in Nat : k <= n => upTo[k] \in A}
  <2>1. 0 \in S
    BY <1>1, <1>8
  <2>2. ASSUME NEW k \in Nat, k \in S PROVE k + 1 \in S
    BY <1>1, <1>2, <1>8, <2>2
  <2> HIDE DEF S
  <2>3. Nat \subseteq S
    BY <2>1, <2>2, SetInduction
  <2> QED BY <1>1, <2>3 DEF S
<1>10. upTo \in [0..n -> A]
  BY <1>6, <1>9
<1> QED BY <1>7, <1>8, <1>10, Zenon DEF a, A, Item

LEMMA FlattenUnfolds ==
  ASSUME NEW s \in Seq(Text), s # << >>
  PROVE  \E f \in [1..Len(s) -> Text] :
           /\ f[1] = s[1] /\ \A i \in 2..Len(s) : f[i] = f[i - 1] \o s[i]
           /\ FlattenSeq(s) = f[Len(s)]
<1> DEFINE n == Len(s)
           step == [i \in 1..n |-> [x \in Text |-> x \o s[i]]]
           flatten[i \in 1..Len(s)] == IF i = 1 THEN s[i] ELSE flatten[i - 1] \o s[i]
           U(g) == [i \in 1..n |-> IF i = 1 THEN s[i] ELSE g[i - 1] \o s[i]]
<1>1. n \in Nat /\ n # 0 /\ \A i \in 1..n : s[i] \in Text
  BY EmptySeq
<1>2. step \in [1..n -> [Text -> Text]] /\ << >> \in Text
  BY <1>1, TextsAreConcatenated
<1>3. PICK f \in [0..n -> Text] : Recursion(f, n, << >>, step)
  <2> HIDE DEF step, n, flatten
  <2> QED BY <1>1, <1>2, RecursionExists, Zenon
<1>0. /\ 0 \in 0..n /\ \A i \in 1..n : i \in 0..n /\ i # 0 /\ i - 1 \in 0..n /\ (i # 1 => i - 1 \in 1..n)
      /\ \A i \in 2..n : i \in 1..n /\ i # 1
      /\ \A k \in Nat : k + 1 \in 1..n => (k = 0 \/ k \in 1..n) /\ (k + 1) - 1 = k /\ (k = 0 <=> k + 1 = 1)
      /\ 1 \in 1..n /\ n \in 1..n /\ 1 - 1 = 0
  BY <1>1
<1> HIDE DEF n
<1>4. f[0] = << >> /\ \A i \in 1..n : f[i - 1] \in Text /\ f[i] = f[i - 1] \o s[i]
  <2>1. \A i \in 0..n : f[i] = IF i = 0 THEN << >> ELSE step[i][f[i - 1]]
    BY <1>3, Zenon DEF Recursion
  <2>2. \A i \in 0..n : f[i] \in Text
    BY <1>3
  <2>3. \A i \in 1..n : f[i - 1] \in Text
    BY <1>0, <2>2
  <2>4. ASSUME NEW i \in 1..n PROVE f[i] = f[i - 1] \o s[i]
    <3>1. f[i] = step[i][f[i - 1]]
      BY <1>0, <2>1
    <3> QED BY <2>3, <3>1
  <2> QED BY <1>0, <2>1, <2>3, <2>4
<1>5. [i \in 1..n |-> f[i]] = U([i \in 1..n |-> f[i]])
  <2> DEFINE h == [i \in 1..n |-> f[i]]
  <2>1. \A i \in 1..n : h[i] = IF i = 1 THEN s[i] ELSE h[i - 1] \o s[i]
    <3> SUFFICES ASSUME NEW i \in 1..n PROVE h[i] = IF i = 1 THEN s[i] ELSE h[i - 1] \o s[i]
      OBVIOUS
    <3>1. CASE i = 1
      <4>1. h[1] = f[0] \o s[1] /\ s[1] \in Text
        BY <1>0, <1>1, <1>4
      <4> QED BY <1>4, <3>1, <4>1, TextsAreConcatenated
    <3>2. CASE i # 1
      BY <1>0, <1>4, <3>2
    <3> QED BY <3>1, <3>2
  <2> QED BY <2>1, Zenon
<1>6. flatten = U(flatten)
  <2>1. flatten = CHOOSE g : g = U(g)
    BY Zenon DEF n
  <2> HIDE DEF flatten, U
  <2> QED BY <1>5, <2>1, Zenon
<1>7. FlattenSeq(s) = flatten[n]
  BY <1>1, Zenon DEF FlattenSeq, n
<1> HIDE DEF flatten
<1>8. \A i \in 1..n : flatten[i] = IF i = 1 THEN s[i] ELSE flatten[i - 1] \o s[i]
  BY <1>6, Zenon
<1>9. \A i \in 1..n : flatten[i] \in Text
  <2> DEFINE S == {k \in Nat : k \in 1..n => flatten[k] \in Text}
  <2>1. 0 \in S
    BY <1>0
  <2>2. ASSUME NEW k \in Nat, k \in S PROVE k + 1 \in S
    <3> SUFFICES ASSUME k + 1 \in 1..n PROVE flatten[k + 1] \in Text
      OBVIOUS
    <3>1. k # 0 => flatten[k] \in Text
      BY <1>0, <2>2
    <3>2. flatten[k + 1] = IF k = 0 THEN s[k + 1] ELSE flatten[k] \o s[k + 1]
      BY <1>0, <1>8
    <3> QED BY <1>1, <3>1, <3>2, TextsAreConcatenated
  <2> HIDE DEF S
  <2>3. Nat \subseteq S
    BY <2>1, <2>2, SetInduction
  <2> QED BY <1>1, <2>3 DEF S
<1>10. flatten \in [1..n -> Text]
  BY <1>6, <1>9
<1>11. flatten[1] = s[1] /\ \A i \in 2..n : flatten[i] = flatten[i - 1] \o s[i]
  BY <1>0, <1>8
<1> QED BY <1>7, <1>10, <1>11 DEF n

\* One step of Joined when everything is shown, as Documented has it.
Between(format, n, i) ==
  IF i = 1 THEN << >> ELSE Delimiter(format.text, n, i, i - 1)

LEMMA JoinedIsDocumented ==
  ASSUME NEW format \in Format, NEW r \in Seq(Text \cup {NoText}), r # << >>,
         \A i \in DOMAIN r : Shows(r[i])
  PROVE  Joined(format, r) = Documented(format, r)
<1> DEFINE n == Len(r)
           text == format.text
           last(i) == IF i = n THEN text["afterLast"] ELSE << >>
           items == [i \in 1..n |-> Between(format, n, i) \o WithAffixes(format, r[i])]
<1>1. /\ n \in Nat /\ n # 0 /\ DOMAIN r = 1..n /\ \A i \in 1..n : r[i] \in Text
      /\ 1 \in 1..n /\ n \in 1..n /\ 1 - 1 = 0
  BY EmptySeq DEF Shows
<1>2. /\ \A s \in Separators : text[s] \in Text
      /\ {"beforeFirst", "afterFirst", "beforeLast", "itemDelimiter", "afterLast"} \subseteq Separators
      /\ \A i \in 1..n : WithAffixes(format, r[i]) \in Text
      /\ \A i, p : Delimiter(text, n, i, p) \in Text
  BY <1>1, PartsAreTexts DEF Format, Separators
<1> HIDE DEF n, text
<1>3. \A i \in 1..n : Between(format, n, i) \in Text
  BY <1>2, TextsAreConcatenated DEF Between, text
<1>4. items \in Seq(Text) /\ Len(items) = n /\ items # << >> /\ DOMAIN items = 1..n
      /\ \A i \in 1..n : items[i] = Between(format, n, i) \o WithAffixes(format, r[i])
  <2>1. \A i \in 1..n : Between(format, n, i) \o WithAffixes(format, r[i]) \in Text
    BY <1>2, <1>3, TextsAreConcatenated
  <2>2. items \in [1..n -> Text]
    BY <2>1
  <2>3. \A i \in 1..n : items[i] = Between(format, n, i) \o WithAffixes(format, r[i])
    OBVIOUS
  <2> HIDE DEF items
  <2>4. items \in Seq(Text) /\ DOMAIN items = 1..n /\ Len(items) = n
    BY <1>1, <2>2
  <2> QED BY <1>1, <2>3, <2>4
<1>5. Documented(format, r) = text["beforeFirst"] \o FlattenSeq(items) \o text["afterLast"]
  <2> DEFINE both(i) == IF 2 = i /\ i = Len(r) THEN text["afterFirst"] \o text["beforeLast"]
                        ELSE IF i = 2 THEN text["afterFirst"]
                        ELSE IF i = Len(r) THEN text["beforeLast"] ELSE << >>
             before(i) == IF i = 1 THEN << >>
                          ELSE IF both(i) = << >> THEN text["itemDelimiter"] ELSE both(i)
  <2>1. ASSUME NEW i \in 1..n PROVE before(i) = Between(format, n, i)
    <3>1. CASE i = 1
      BY <3>1 DEF Between
    <3>2. CASE i # 1
      <4>1. both(i) = (IF i - 1 = 1 THEN text["afterFirst"] ELSE << >>)
                        \o (IF i = n THEN text["beforeLast"] ELSE << >>)
        <5>1. i - 1 = 1 <=> i = 2
          OBVIOUS
        <5> QED BY <1>2, <5>1, TextsAreConcatenated DEF n
      <4> HIDE DEF both
      <4> QED BY <3>2, <4>1 DEF Between, Delimiter, text
    <3> QED BY <3>1, <3>2
  <2> HIDE DEF items
  <2>2. [i \in DOMAIN r |-> before(i) \o WithAffixes(format, r[i])] = items
    <3> HIDE DEF before
    <3> QED BY <1>1, <2>1, Zenon DEF items
  <2>3. Documented(format, r) =
          text["beforeFirst"]
            \o FlattenSeq([i \in DOMAIN r |-> before(i) \o WithAffixes(format, r[i])])
            \o text["afterLast"]
    BY Zenon DEF Documented, text
  <2> QED BY <2>2, <2>3, Zenon
<1> HIDE DEF items
<1>6. PICK f \in [0..n -> [text : Text, previous : Nat]] :
        /\ f[0] = [text |-> << >>, previous |-> 0]
        /\ \A i \in 1..n : f[i] =
             [text |-> WithItem(format, r, i, f[i - 1].text, f[i - 1].previous), previous |-> i]
        /\ Joined(format, r) = f[n].text
  <2>1. PICK f \in [0..n -> [text : Text, previous : Nat]] :
          /\ f[0] = [text |-> << >>, previous |-> 0]
          /\ \A i \in 1..n : f[i] =
               IF ~Shows(r[i]) THEN f[i - 1]
               ELSE [text |-> WithItem(format, r, i, f[i - 1].text, f[i - 1].previous), previous |-> i]
          /\ Joined(format, r) = f[n].text
    BY JoinedUnfolds DEF n
  <2>2. \A i \in 1..n : Shows(r[i])
    BY <1>1
  <2> QED BY <2>1, <2>2, Zenon
<1>7. PICK g \in [1..n -> Text] :
        /\ g[1] = items[1] /\ \A i \in 2..n : g[i] = g[i - 1] \o items[i]
        /\ FlattenSeq(items) = g[n]
  BY <1>4, FlattenUnfolds
<1> DEFINE Same(i) == f[i].previous = i /\ f[i].text = (text["beforeFirst"] \o g[i]) \o last(i)
<1>8. Same(1)
  <2>1. f[1].previous = 1 /\ f[1].text = WithItem(format, r, 1, << >>, 0)
    <3>1. f[1] = [text |-> WithItem(format, r, 1, f[1 - 1].text, f[1 - 1].previous), previous |-> 1]
      BY <1>1, <1>6, Zenon
    <3>2. f[1 - 1] = [text |-> << >>, previous |-> 0]
      BY <1>1, <1>6
    <3> QED BY <3>1, <3>2
  <2>2. /\ Between(format, n, 1) = << >> /\ WithAffixes(format, r[1]) \in Text
        /\ text["beforeFirst"] \in Text
    BY <1>1, <1>2 DEF Between
  <2>3. g[1] = WithAffixes(format, r[1])
    <3>1. g[1] = << >> \o WithAffixes(format, r[1])
      BY <1>1, <1>4, <1>7, <2>2, Zenon
    <3> QED BY <2>2, <3>1, TextsAreConcatenated
  <2>4. WithItem(format, r, 1, << >>, 0) =
          << >> \o text["beforeFirst"] \o << >> \o WithAffixes(format, r[1]) \o last(1)
    BY DEF WithItem, text, n
  <2>5. << >> \o text["beforeFirst"] \o << >> = text["beforeFirst"]
    BY <2>2, TextsAreConcatenated
  <2> QED BY <2>1, <2>3, <2>4, <2>5
<1>9. ASSUME NEW k \in 1..n, k # n, Same(k) PROVE Same(k + 1)
  <2>1. k + 1 \in 2..n /\ k + 1 \in 1..n /\ (k + 1) - 1 = k /\ k + 1 # 1 /\ k + 1 > 1 /\ k > 0
    BY <1>1, <1>9
  <2> DEFINE d == Delimiter(text, n, k + 1, k)
             w == WithAffixes(format, r[k + 1])
             b == text["beforeFirst"]
  <2>2. d \in Text /\ w \in Text /\ b \in Text /\ g[k] \in Text /\ last(k + 1) \in Text
        /\ << >> \in Text
    BY <1>2, <1>7, <2>1, TextsAreConcatenated
  <2>3. f[k].previous = k /\ f[k].text = b \o g[k]
    BY <1>9, <2>2, TextsAreConcatenated
  <2>4. f[k + 1].previous = k + 1 /\ f[k + 1].text = WithItem(format, r, k + 1, b \o g[k], k)
    <3>1. f[k + 1] = [text |-> WithItem(format, r, k + 1, f[(k + 1) - 1].text, f[(k + 1) - 1].previous),
                      previous |-> k + 1]
      BY <1>6, <2>1, Zenon
    <3>2. f[(k + 1) - 1].text = b \o g[k] /\ f[(k + 1) - 1].previous = k
      BY <2>1, <2>3
    <3>3. f[k + 1] = [text |-> WithItem(format, r, k + 1, b \o g[k], k), previous |-> k + 1]
      BY <3>1, <3>2, Zenon
    <3> QED BY <3>3
  <2>5. WithItem(format, r, k + 1, b \o g[k], k) = (b \o g[k]) \o << >> \o d \o w \o last(k + 1)
    BY <2>1 DEF WithItem, text, n
  <2>6. g[k + 1] = g[k] \o (d \o w)
    <3>1. g[k + 1] = g[(k + 1) - 1] \o items[k + 1]
      BY <1>7, <2>1, Zenon
    <3>2. items[k + 1] = Between(format, n, k + 1) \o w
      BY <1>4, <2>1, Zenon
    <3>3. Between(format, n, k + 1) = d
      BY <2>1 DEF Between, text
    <3> QED BY <2>1, <3>1, <3>2, <3>3
  <2> HIDE DEF d, w, b, last
  <2>7. (b \o g[k]) \o << >> \o d \o w = b \o (g[k] \o (d \o w))
    <3>1. b \in Text /\ g[k] \in Text /\ d \in Text /\ w \in Text
      BY <2>2
    <3>2. Regroups(b, g[k], d, w)
      BY <3>1, Regrouped
    <3> QED BY <3>2 DEF Regroups
  <2> QED BY <2>4, <2>5, <2>6, <2>7 DEF b
<1>10. Same(n)
  <2> DEFINE S == {k \in Nat : k \in 1..n => Same(k)}
  <2> HIDE DEF Same
  <2>1. 0 \in S
    OBVIOUS
  <2>2. ASSUME NEW k \in Nat, k \in S PROVE k + 1 \in S
    BY <1>1, <1>8, <1>9, <2>2
  <2> HIDE DEF S
  <2>3. Nat \subseteq S
    BY <2>1, <2>2, SetInduction
  <2> QED BY <1>1, <2>3 DEF S
<1> QED BY <1>5, <1>6, <1>7, <1>10

LEMMA StringIsText == ASSUME NEW c \in Concept, ~IsList(c) PROVE StringText(c) \in Text
<1>1. <<c.word, c.constraints>> \in Words \X Constraints
  BY DEF Concept, IsList
<1>2. \A x \in Words \X Constraints : Inflected[x] \in Text
  OBVIOUS
<1> QED BY <1>1, <1>2, Zenon DEF StringText

\* The value of an object, with the heap as a parameter.
ValueIn(H, a) == [H[a] EXCEPT !.items = [i \in DOMAIN @ |-> H[@[i]]]]

LEMMA Fields ==
  ASSUME NEW H, NEW a, H[a] \in Concept
  PROVE  LET v == ValueIn(H, a) IN
         /\ v = [word |-> H[a].word, items |-> [i \in DOMAIN H[a].items |-> H[H[a].items[i]]],
                 format |-> H[a].format, constraints |-> H[a].constraints]
         /\ v.word = H[a].word /\ v.format = H[a].format /\ v.constraints = H[a].constraints
         /\ v.items = [i \in DOMAIN H[a].items |-> H[H[a].items[i]]]
<1> DEFINE its == [i \in DOMAIN H[a].items |-> H[H[a].items[i]]]
<1>1. ValueIn(H, a) = [H[a] EXCEPT !.items = its]
  BY DEF ValueIn
<1> HIDE DEF its
<1>2. [H[a] EXCEPT !.items = its]
        = [word |-> H[a].word, items |-> its, format |-> H[a].format, constraints |-> H[a].constraints]
  BY DEF Concept
<1> QED BY <1>1, <1>2 DEF its

LEMMA TextsOfValue ==
  ASSUME Objects(heap), NEW a \in DOMAIN heap
  PROVE  TextsOf(Value(a)) \in Seq(Text)
<1>1. heap[a] \in Concept /\ heap[a].items \in Seq(DOMAIN heap)
  BY ItemsAreThere DEF Objects, ObjectIn
<1> DEFINE n == Len(heap[a].items)
<1>2. n \in Nat /\ DOMAIN heap[a].items = 1..n
  BY <1>1
<1>3. Value(a).items = [i \in 1..n |-> heap[heap[a].items[i]]]
  BY <1>1, <1>2, Fields DEF Value, ValueIn
<1>4. ASSUME NEW i \in 1..n PROVE StringText(Value(a).items[i]) \in Text
  <2>1. heap[a].items[i] \in DOMAIN heap /\ ~IsList(heap[heap[a].items[i]])
    BY <1>2 DEF Objects, ObjectIn
  <2> QED BY <1>3, <2>1, StringIsText DEF Objects, ObjectIn
<1>5. TextsOf(Value(a)) = [i \in 1..n |-> StringText(Value(a).items[i])]
  BY <1>3 DEF TextsOf
<1> HIDE DEF n
<1> QED BY <1>2, <1>4, <1>5

\* A list whose items all show something is shown as the comments of its
\* setters say (SemanticConceptList.hpp), whatever the separators and however
\* many the items.
THEOREM TextsAsDocumented == Spec => []ShownAsDocumented
<1>1. HeapInv => ShownAsDocumented
  <2> SUFFICES ASSUME HeapInv, NEW a \in DOMAIN heap, IsList(Value(a)), TextsOf(Value(a)) # << >>,
                      \A i \in DOMAIN TextsOf(Value(a)) : Shows(TextsOf(Value(a))[i])
               PROVE  Shown(Value(a)) = Documented(Value(a).format, TextsOf(Value(a)))
    BY Zenon DEF ShownAsDocumented
  <2>1. Objects(heap) /\ heap[a] \in Concept
    BY DEF HeapInv, Objects, ObjectIn
  <2>2. Value(a).format \in Format
    BY <2>1, Fields DEF Value, ValueIn, Concept
  <2>3. TextsOf(Value(a)) \in Seq(Text \cup {NoText})
    BY <2>1, TextsOfValue
  <2>4. Shown(Value(a)) = Joined(Value(a).format, TextsOf(Value(a)))
    BY Zenon DEF Shown, ListOf
  <2> QED BY <2>2, <2>3, <2>4, JoinedIsDocumented, Zenon
<1> QED BY <1>1, HeapInvHolds, PTL

-----------------------------------------------------------------------------
(* Concepts as values *)

HeldIn(H, O) == [h \in Handles |-> IF O[h] # NULL THEN ValueIn(H, O[h]) ELSE NoConcept]

LEMMA HeldAsValues == HeldValues = HeldIn(heap, object) /\ HeldValues' = HeldIn(heap', object')
BY DEF HeldValues, HeldIn, Value, ValueIn, Held

LEMMA SameText ==
  /\ \A format, r : AsValues!Joined(format, r) = Joined(format, r)
  /\ \A c : /\ AsValues!Shown(c) = Shown(c) /\ AsValues!IsList(c) = IsList(c)
            /\ \A f : AsValues!FeatureOf(c, f) = FeatureOf(c, f)
<1>1. ASSUME NEW f, NEW r PROVE AsValues!Joined(f, r) = Joined(f, r)
  BY Zenon DEF Joined, AsValues!Joined, Shows, AsValues!Shows, WithItem, AsValues!WithItem,
       WithAffixes, AsValues!WithAffixes, Delimiter, AsValues!Delimiter, IsPrefix, AsValues!IsPrefix,
       IsSuffix, AsValues!IsSuffix, Reverse, AsValues!Reverse
<1>2. ASSUME NEW c
      PROVE  /\ AsValues!Shown(c) = Shown(c) /\ AsValues!IsList(c) = IsList(c)
             /\ \A f : AsValues!FeatureOf(c, f) = FeatureOf(c, f)
  BY <1>1, Zenon DEF Shown, AsValues!Shown, IsList, AsValues!IsList, FeatureOf, AsValues!FeatureOf,
       ListOf, AsValues!ListOf, TextsOf, AsValues!TextsOf, FeaturesOf, AsValues!FeaturesOf,
       StringText, AsValues!StringText, StringFeature, AsValues!StringFeature
<1> QED BY <1>1, <1>2

\* W has the tree of a as the heap has it.
Agrees(W, a) == \A x \in ReachIn(heap, a) : W[x] = heap[x]

LEMMA ValueKept ==
  ASSUME NEW W, NEW a, Agrees(W, a)
  PROVE  ValueIn(W, a) = ValueIn(heap, a)
<1>1. W[a] = heap[a] /\ \A i \in DOMAIN heap[a].items : W[heap[a].items[i]] = heap[heap[a].items[i]]
  BY DEF Agrees, ReachIn, ItemsIn
<1> QED BY <1>1 DEF ValueIn

\* What is put on a concept in the heap is put on the value.
LEMMA ConstrainedValue ==
  ASSUME HeapInv, NEW o \in Owners, object[o] # NULL, NEW F, NEW v
  PROVE  LET W == Constrained(object[o], F, v) IN
         /\ ValueIn(W, object[o]) = AsValues!Set(ValueIn(heap, object[o]), F, v)
         /\ \A u \in UsedIn(object) \ {o} : Agrees(W, object[u])
<1> DEFINE a == object[o]
           W == Constrained(a, F, v)
           In(c) == [f \in Features |-> IF f \in F THEN v ELSE c[f]]
<1>1. /\ a \in DOMAIN heap /\ heap[a] \in Concept /\ o \in UsedIn(object)
      /\ Reach(a) = ReachIn(heap, a) /\ Objects(heap)
  BY Roots DEF Reach, Items, ReachIn, ItemsIn, HeapInv
<1>2. ASSUME NEW x \in ReachIn(heap, a)
      PROVE  /\ heap[x] \in Concept /\ W[x] = [heap[x] EXCEPT !.constraints = In(@)]
             /\ W[x] = [word |-> heap[x].word, items |-> heap[x].items, format |-> heap[x].format,
                        constraints |-> In(heap[x].constraints)]
  <2>1. x \in DOMAIN heap /\ x \in Reach(a)
    BY <1>1, ItemsAreThere DEF ReachIn
  <2>2. heap[x] \in Concept
    BY <1>1, <2>1 DEF Objects, ObjectIn
  <2>3. W[x] = [heap[x] EXCEPT !.constraints = In(@)]
    BY <2>1 DEF Constrained
  <2> HIDE DEF W, In
  <2> QED BY <2>2, <2>3 DEF Concept
<1>3. /\ a \in ReachIn(heap, a)
      /\ \A i \in DOMAIN heap[a].items : heap[a].items[i] \in ReachIn(heap, a)
  BY DEF ReachIn, ItemsIn
<1>4. ValueIn(W, a) = AsValues!Set(ValueIn(heap, a), F, v)
  <2> DEFINE its == [i \in DOMAIN heap[a].items |-> heap[heap[a].items[i]]]
             itsIn == [i \in DOMAIN its |-> [its[i] EXCEPT !.constraints = In(@)]]
             c == ValueIn(heap, a)
             d == AsValues!PutOn(c, F, v)
  <2>1. /\ c = [word |-> heap[a].word, items |-> its, format |-> heap[a].format,
                constraints |-> heap[a].constraints]
        /\ c.items = its /\ c.constraints = heap[a].constraints
    BY <1>1, Fields
  <2>2. AsValues!Set(c, F, v)
          = [word |-> heap[a].word, items |-> itsIn, format |-> heap[a].format,
             constraints |-> In(heap[a].constraints)]
    <3> HIDE DEF c, its
    <3>1. d = [c EXCEPT !.constraints = In(heap[a].constraints)]
      BY <2>1 DEF AsValues!PutOn
    <3>2. [i \in DOMAIN c.items |-> AsValues!PutOn(c.items[i], F, v)] = itsIn
      BY <2>1 DEF AsValues!PutOn
    <3>3. AsValues!Set(c, F, v) = [d EXCEPT !.items = itsIn]
      BY <3>2, Zenon DEF AsValues!Set
    <3> HIDE DEF d, itsIn, In
    <3>4. d = [word |-> heap[a].word, items |-> its, format |-> heap[a].format,
               constraints |-> In(heap[a].constraints)]
      BY <2>1, <3>1
    <3> QED BY <3>3, <3>4
  <2>3. [i \in DOMAIN W[a].items |-> W[W[a].items[i]]] = itsIn
    <3>1. W[a].items = heap[a].items
      BY <1>2, <1>3
    <3>2. \A i \in DOMAIN heap[a].items :
            W[heap[a].items[i]] = [heap[heap[a].items[i]] EXCEPT !.constraints = In(@)]
      BY <1>2, <1>3
    <3> HIDE DEF W, In
    <3> QED BY <3>1, <3>2
  <2>4. ValueIn(W, a) = [W[a] EXCEPT !.items = itsIn]
    <3> HIDE DEF W, itsIn
    <3> QED BY <2>3 DEF ValueIn
  <2>5. W[a] = [word |-> heap[a].word, items |-> heap[a].items, format |-> heap[a].format,
                constraints |-> In(heap[a].constraints)]
    BY <1>2, <1>3
  <2> HIDE DEF W, In, itsIn, its
  <2> QED BY <2>2, <2>4, <2>5
<1>5. ASSUME NEW u \in UsedIn(object) \ {o} PROVE Agrees(W, object[u])
  <2>1. ReachIn(heap, object[u]) \cap ReachIn(heap, a) = {} /\ object[u] \in DOMAIN heap
    BY <1>1 DEF HeapInv, Owned
  <2>2. \A x \in ReachIn(heap, object[u]) : x \in DOMAIN heap /\ x \notin Reach(a)
    BY <1>1, <2>1, ItemsAreThere DEF ReachIn
  <2> QED BY <2>2 DEF Agrees, Constrained
<1> QED BY <1>4, <1>5

LEMMA AddedValue ==
  ASSUME HeapInv, NEW from \in Seq(DOMAIN heap), NEW c \in Concept, NEW p, NEW W, Adds(W, p, c, from)
  PROVE  /\ ValueIn(W, p[0]) = [c EXCEPT !.items = [i \in 1..Len(from) |-> heap[from[i]]]]
         /\ \A u \in UsedIn(object) : Agrees(W, object[u])
<1> DEFINE n == Len(from)
           its == [i \in 1..n |-> p[i]]
<1>1. /\ W[p[0]] = [c EXCEPT !.items = its] /\ DOMAIN its = 1..n
      /\ \A i \in 1..n : W[its[i]] = heap[from[i]]
      /\ \A x \in DOMAIN heap : W[x] = heap[x]
  BY DEF Adds
<1> HIDE DEF its, n
<1>2. W[p[0]] = [word |-> c.word, items |-> its, format |-> c.format, constraints |-> c.constraints]
  BY <1>1 DEF Concept
<1>3. ValueIn(W, p[0]) = [W[p[0]] EXCEPT !.items = [i \in 1..n |-> heap[from[i]]]]
  <2>1. W[p[0]].items = its
    BY <1>2
  <2>2. [i \in DOMAIN W[p[0]].items |-> W[W[p[0]].items[i]]] = [i \in 1..n |-> heap[from[i]]]
    BY <1>1, <2>1
  <2> QED BY <2>2, Zenon DEF ValueIn
<1>4. ValueIn(W, p[0]) = [c EXCEPT !.items = [i \in 1..n |-> heap[from[i]]]]
  <2> DEFINE new == [i \in 1..n |-> heap[from[i]]]
  <2> HIDE DEF new
  <2>1. ValueIn(W, p[0]) = [W[p[0]] EXCEPT !.items = new]
    BY <1>3 DEF new
  <2>2. [W[p[0]] EXCEPT !.items = new] = [c EXCEPT !.items = new]
    BY <1>2 DEF Concept
  <2> QED BY <2>1, <2>2 DEF new
<1>5. ASSUME NEW u \in UsedIn(object) PROVE Agrees(W, object[u])
  <2>1. object[u] \in DOMAIN heap /\ Objects(heap)
    BY DEF HeapInv, Owned
  <2>2. ReachIn(heap, object[u]) \subseteq DOMAIN heap
    BY <2>1, ItemsAreThere DEF ReachIn
  <2> QED BY <1>1, <2>2 DEF Agrees
<1> QED BY <1>4, <1>5 DEF n

\* A clone has the value of a copy.
LEMMA ClonedValue ==
  ASSUME HeapInv, NEW o \in Owners, object[o] = NULL, NEW g \in Owners, object[g] # NULL,
         CloneTo(o, object[g])
  PROVE  /\ object'[o] # NULL /\ \A u \in Owners \ {o} : object'[u] = object[u]
         /\ ValueIn(heap', object'[o]) = AsValues!Copy(ValueIn(heap, object[g]))
         /\ \A u \in UsedIn(object) : Agrees(heap', object[u])
<1> DEFINE a == object[g]
           c == [heap[a] EXCEPT !.format.avoidAffixRedundancy = TRUE]
           from == heap[a].items
           its == [i \in DOMAIN from |-> heap[from[i]]]
           format == [heap[a].format EXCEPT !.avoidAffixRedundancy = TRUE]
<1>1. PICK p : /\ object' = [object EXCEPT ![o] = p[0]] /\ p[0] # NULL
               /\ Adds(heap', p, c, from)
  BY CloneAdds
<1>2. heap[a] \in Concept /\ from \in Seq(DOMAIN heap)
  BY Roots
<1>0. c = [heap[a] EXCEPT !.format = format]
  BY Zenon
<1>3. format \in Format /\ DOMAIN from = 1..Len(from)
  <2>1. heap[a].format \in Format
    BY <1>2 DEF Concept
  <2>2. format \in Format
    BY <2>1 DEF Format
  <2>3. DOMAIN from = 1..Len(from)
    BY <1>2
  <2> QED BY <2>2, <2>3
<1>4. /\ c = [word |-> heap[a].word, items |-> heap[a].items, format |-> format,
              constraints |-> heap[a].constraints]
      /\ c \in Concept
  <2> HIDE DEF c, format
  <2> QED BY <1>0, <1>2, <1>3 DEF Concept
<1>5. ValueIn(heap, a) = [word |-> heap[a].word, items |-> its, format |-> heap[a].format,
                          constraints |-> heap[a].constraints]
  BY <1>2, Fields
<1>6. object'[o] = p[0] /\ \A u \in Owners \ {o} : object'[u] = object[u]
  BY <1>1 DEF HeapInv, Owned
<1> HIDE DEF c, from, a
<1>7. /\ ValueIn(heap', p[0]) = [c EXCEPT !.items = [i \in 1..Len(from) |-> heap[from[i]]]]
      /\ \A u \in UsedIn(object) : Agrees(heap', object[u])
  BY <1>1, <1>2, <1>4, AddedValue
<1>8. [c EXCEPT !.items = [i \in 1..Len(from) |-> heap[from[i]]]] = [c EXCEPT !.items = its]
  BY <1>3
<1> HIDE DEF its, format
<1>9. [c EXCEPT !.items = its] = [word |-> heap[a].word, items |-> its, format |-> format,
                                  constraints |-> heap[a].constraints]
  BY <1>4
<1>10. AsValues!Copy(ValueIn(heap, a)) = [word |-> heap[a].word, items |-> its, format |-> format,
                                          constraints |-> heap[a].constraints]
  <2> DEFINE v == ValueIn(heap, a)
  <2>1. AsValues!Copy(v) = [v EXCEPT !.format = [v.format EXCEPT !.avoidAffixRedundancy = TRUE]]
    BY Zenon DEF AsValues!Copy
  <2> HIDE DEF v
  <2>2. v.format = heap[a].format
    BY <1>5 DEF v
  <2>3. AsValues!Copy(v) = [v EXCEPT !.format = format]
    BY <2>1, <2>2, Zenon DEF format
  <2> QED BY <1>5, <2>3 DEF v
<1> QED BY <1>1, <1>6, <1>7, <1>8, <1>9, <1>10 DEF a

LEMMA RemovedValue ==
  ASSUME HeapInv, NEW o \in UsedIn(object)
  PROVE  \A u \in UsedIn(object) \ {o} : Agrees(Without(object[o]), object[u])
<1>1. /\ Objects(heap) /\ Owned(heap, object) /\ Removes(Without(object[o]), object[o])
  BY WithoutRemoves DEF HeapInv, UsedIn
<1>2. \A u \in UsedIn(object) \ {o} : ReachIn(heap, object[u]) \subseteq DOMAIN Without(object[o])
  BY <1>1, Removal
<1> QED BY <1>1, <1>2 DEF Agrees, Removes

\* What a step does to the values is what it does to the concept of one handle.
LEMMA HeldChanges ==
  ASSUME HeapInv, NEW h \in Owners, \A u \in UsedIn(object) \ {h} : Agrees(heap', object[u]),
         \A u \in Owners \ {h} : object'[u] = object[u]
  PROVE  /\ h \in Handles => HeldValues' = [HeldValues EXCEPT ![h] =
                               IF object'[h] # NULL THEN ValueIn(heap', object'[h]) ELSE NoConcept]
         /\ h \notin Handles => HeldValues' = HeldValues
<1>1. ASSUME NEW g \in Handles, g # h PROVE HeldIn(heap', object')[g] = HeldIn(heap, object)[g]
  <2>1. object'[g] = object[g] /\ (object[g] # NULL => g \in UsedIn(object) \ {h})
    BY <1>1 DEF Owners, UsedIn
  <2>2. object[g] # NULL => ValueIn(heap', object[g]) = ValueIn(heap, object[g])
    BY <2>1, ValueKept
  <2> QED BY <2>1, <2>2 DEF HeldIn
<1>2. h \in Handles => HeldIn(heap', object')[h] =
        IF object'[h] # NULL THEN ValueIn(heap', object'[h]) ELSE NoConcept
  BY DEF HeldIn
<1>3. DOMAIN HeldIn(heap', object') = Handles /\ DOMAIN HeldIn(heap, object) = Handles
      /\ HeldIn(heap', object') = [g \in Handles |-> HeldIn(heap', object')[g]]
      /\ HeldIn(heap, object) = [g \in Handles |-> HeldIn(heap, object)[g]]
  BY DEF HeldIn
<1> DEFINE V == HeldIn(heap, object)
           Y == HeldIn(heap', object')
           c == IF object'[h] # NULL THEN ValueIn(heap', object'[h]) ELSE NoConcept
<1>4. h \in Handles => Y = [V EXCEPT ![h] = c]
  <2> HIDE DEF V, Y, c
  <2> SUFFICES ASSUME h \in Handles PROVE Y = [V EXCEPT ![h] = c]
    OBVIOUS
  <2>1. \A g \in Handles : Y[g] = [V EXCEPT ![h] = c][g]
    BY <1>1, <1>2, <1>3 DEF V, Y, c
  <2> QED BY <1>3, <2>1 DEF V, Y
<1>5. h \notin Handles => Y = V
  <2> SUFFICES ASSUME h \notin Handles PROVE Y = V
    OBVIOUS
  <2> HIDE DEF V, Y
  <2>1. \A g \in Handles : Y[g] = V[g]
    BY <1>1 DEF V, Y
  <2> QED BY <1>3, <2>1 DEF V, Y
<1> QED BY <1>4, <1>5, HeldAsValues

LEMMA HeldIsUsed ==
  ASSUME HeapInv, NEW h \in Handles
  PROVE  /\ AsValues!Held(h) <=> object[h] # NULL
         /\ object[h] # NULL => HeldValues[h] = ValueIn(heap, object[h])
<1>1. HeldValues[h] = IF object[h] # NULL THEN ValueIn(heap, object[h]) ELSE NoConcept
  BY HeldAsValues DEF HeldIn
<1>2. ASSUME object[h] # NULL PROVE ValueIn(heap, object[h]) # NoConcept
  <2>1. heap[object[h]] \in Concept
    BY <1>2, Roots DEF Owners
  <2>2. "word" \in DOMAIN ValueIn(heap, object[h])
    BY <2>1 DEF ValueIn, Concept
  <2>3. "word" \notin DOMAIN NoConcept
    BY DEF NoConcept
  <2> QED BY <2>2, <2>3
<1> QED BY <1>1, <1>2 DEF AsValues!Held, AsValues!Nothing, NoConcept

-----------------------------------------------------------------------------
(* Quantifying *)

\* While quantify runs, the concept has the value it was called with, and its
\* clone the value the concept will be asked for: first a copy, then one with
\* the count.  Where the concept itself is asked, the clone showed nothing or
\* none was made.
QuantInv ==
  call # NoCall =>
    LET c == ValueIn(heap, object[call.of]) IN
    /\ heap[object[call.of]].constraints["count"] = call.original
    /\ call.phase # "show" => TRUE \in Counting
    /\ call.phase = "put" => ValueIn(heap, object[Local]) = AsValues!Copy(c)
    /\ call.phase = "speak" => ValueIn(heap, object[Local]) = AsValues!ForCount(c, call.number)
    /\ call.phase = "show" => \/ FALSE \in Counting
                              \/ TRUE \in Counting /\ Shown(AsValues!ForCount(c, call.number)) = NoText

LEMMA CallKinds ==
  ASSUME HeapInv, call # NoCall
  PROVE  /\ call \in Calls /\ call.of \in Handles /\ call.of \in Owners /\ call.of # Local
         /\ object[call.of] # NULL /\ call.of \in UsedIn(object) /\ call.number \in DOMAIN Numbers
         /\ call.phase \in {"clone", "put", "speak", "show"}
         /\ call.phase \in {"put", "speak"} <=> object[Local] # NULL
BY DEF HeapInv, CallInv, Calls, Owners, UsedIn

LEMMA StepQuantInv == HeapInv /\ QuantInv /\ [Next]_vars => QuantInv'
<1> SUFFICES ASSUME HeapInv, QuantInv, [Next]_vars PROVE QuantInv'
  OBVIOUS
<1>0. NoCall \notin Calls /\ NoCall.phase = "idle" /\ Local \in Owners /\ Handles \subseteq Owners
  BY DEF Calls, NoCall, Owners
<1>1. ASSUME NEW h \in Handles, NEW n \in DOMAIN Numbers, NEW counts \in Counting,
             QuantifyStart(h, n, counts)
      PROVE  QuantInv'
  <2>1. /\ heap' = heap /\ object' = object
        /\ call' = [phase |-> IF counts THEN "clone" ELSE "show", of |-> h, number |-> n,
                    original |-> heap[object[h]].constraints["count"]]
    BY <1>1 DEF QuantifyStart
  <2>2. call'.of = h /\ call'.original = heap[object[h]].constraints["count"]
        /\ ((call'.phase = "clone" /\ counts = TRUE) \/ (call'.phase = "show" /\ counts = FALSE))
    <3> DEFINE phase == IF counts THEN "clone" ELSE "show"
    <3>1. counts = TRUE \/ counts = FALSE
      OBVIOUS
    <3>2. (phase = "clone" /\ counts = TRUE) \/ (phase = "show" /\ counts = FALSE)
      BY <3>1, Zenon
    <3>3. /\ call'.phase = phase /\ call'.of = h
          /\ call'.original = heap[object[h]].constraints["count"]
      <4> HIDE DEF phase
      <4> QED BY <2>1 DEF phase
    <3> QED BY <3>2, <3>3
  <2> QED BY <2>1, <2>2 DEF QuantInv
<1>2. CASE QuantifyClone
  <2>1. call # NoCall /\ call.phase = "clone" /\ CloneTo(Local, object[call.of]) /\ object[Local] = NULL
    BY <1>0, <1>2, CallKinds DEF QuantifyClone
  <2>2. /\ call'.phase = "put" /\ call'.of = call.of /\ call'.original = call.original
        /\ call'.number = call.number
    BY <1>2, <2>1, CallKinds DEF QuantifyClone, Calls
  <2>3. /\ object'[call.of] = object[call.of]
        /\ ValueIn(heap', object'[Local]) = AsValues!Copy(ValueIn(heap, object[call.of]))
        /\ Agrees(heap', object[call.of])
    BY <1>0, <2>1, CallKinds, ClonedValue
  <2>4. /\ ValueIn(heap', object[call.of]) = ValueIn(heap, object[call.of])
        /\ heap'[object[call.of]] = heap[object[call.of]]
    BY <2>3, ValueKept DEF Agrees, ReachIn
  <2> QED BY <2>1, <2>2, <2>3, <2>4 DEF QuantInv
<1>3. CASE QuantifyPut
  <2>1. call # NoCall /\ call.phase = "put" /\ object[Local] # NULL /\ object' = object
    BY <1>0, <1>3, CallKinds DEF QuantifyPut
  <2>2. /\ call'.phase = "speak" /\ call'.of = call.of /\ call'.original = call.original
        /\ call'.number = call.number
    BY <1>3, <2>1, CallKinds DEF QuantifyPut, Calls
  <2> DEFINE count == CountOf[call.number]
  <2>3. Agrees(heap', object[call.of])
        /\ ValueIn(heap', object[Local]) =
             IF count \in CountForms THEN AsValues!Set(ValueIn(heap, object[Local]), {"count"}, count)
                                     ELSE ValueIn(heap, object[Local])
    <3>1. CASE count \in CountForms
      <4>1. heap' = Constrained(object[Local], {"count"}, count)
        BY <1>3, <3>1 DEF QuantifyPut
      <4> QED BY <1>0, <2>1, <3>1, <4>1, CallKinds, ConstrainedValue
    <3>2. CASE count \notin CountForms
      BY <1>3, <3>2 DEF QuantifyPut, Agrees
    <3> QED BY <3>1, <3>2
  <2>4. /\ ValueIn(heap', object[call.of]) = ValueIn(heap, object[call.of])
        /\ heap'[object[call.of]] = heap[object[call.of]]
    BY <2>3, ValueKept DEF Agrees, ReachIn
  <2>5. ValueIn(heap', object[Local]) = AsValues!ForCount(ValueIn(heap, object[call.of]), call.number)
    BY <2>1, <2>3 DEF QuantInv, AsValues!ForCount
  <2> QED BY <2>1, <2>2, <2>4, <2>5 DEF QuantInv
<1>4. CASE QuantifySpeak \/ QuantifySpeakThrows
  <2>1. /\ call # NoCall /\ call.phase = "speak" /\ object[Local] # NULL
        /\ heap' = Without(object[Local]) /\ object' = [object EXCEPT ![Local] = NULL]
    BY <1>0, <1>4, CallKinds DEF QuantifySpeak, QuantifySpeakThrows
  <2>2. \/ call' = NoCall
        \/ call' = [call EXCEPT !.phase = "show"] /\ Shown(Value(object[Local])) = NoText
    BY <1>4 DEF QuantifySpeak, QuantifySpeakThrows, Returns
  <2>3. CASE call' = NoCall
    BY <2>3 DEF QuantInv
  <2>4. CASE call' # NoCall
    <3>1. /\ call'.phase = "show" /\ call'.of = call.of /\ call'.original = call.original
          /\ call'.number = call.number
      BY <2>1, <2>2, <2>4, CallKinds DEF Calls
    <3>2. object'[call.of] = object[call.of] /\ Agrees(heap', object[call.of])
      <4>1. Local \in UsedIn(object) /\ call.of \in UsedIn(object) \ {Local}
        BY <1>0, <2>1, CallKinds DEF UsedIn
      <4> QED BY <2>1, <4>1, RemovedValue
    <3>3. /\ ValueIn(heap', object[call.of]) = ValueIn(heap, object[call.of])
          /\ heap'[object[call.of]] = heap[object[call.of]]
      BY <3>2, ValueKept DEF Agrees, ReachIn
    <3>4. Shown(AsValues!ForCount(ValueIn(heap, object[call.of]), call.number)) = NoText
      BY <2>1, <2>2, <2>4 DEF QuantInv, Value, ValueIn
    <3> QED BY <2>1, <3>1, <3>2, <3>3, <3>4 DEF QuantInv
  <2> QED BY <2>3, <2>4
<1>5. CASE QuantifyShow
  BY <1>5 DEF QuantifyShow, Returns, QuantInv
<1>6. CASE UNCHANGED vars
  BY <1>6 DEF vars, QuantInv
<1>7. ASSUME call' = call, call = NoCall PROVE QuantInv'
  BY <1>7 DEF QuantInv
<1>8. ASSUME NEW h \in Handles,
             \/ Create(h) \/ CreateList(h) \/ PutConstraint(h) \/ ClearConstraint(h) \/ Reset(h)
             \/ SetSeparator(h) \/ SetAvoidItemAffixRedundancy(h) \/ (\E g \in Handles : Clone(h, g))
             \/ Delete(h) \/ ToSpeakableString(h) \/ GetFeatureValue(h)
      PROVE  QuantInv'
  BY <1>7, <1>8 DEF Create, CreateList, PutConstraint, ClearConstraint, Reset, SetSeparator,
     SetAvoidItemAffixRedundancy, Clone, Delete, ToSpeakableString, GetFeatureValue, Called
<1> QED BY <1>1, <1>2, <1>3, <1>4, <1>5, <1>6, <1>8 DEF Next

\* quantifyFormatted's assertion, with Validate::isTrue, never fails: the count
\* is put on the clone alone.
THEOREM AssertionHolds == Spec => []CountConstraintKept
<1>1. Init => QuantInv
  BY DEF Init, QuantInv
<1>2. QuantInv => CountConstraintKept
  BY DEF QuantInv, CountConstraintKept
<1> QED BY <1>1, <1>2, HeapInvHolds, StepQuantInv, PTL DEF Spec

-----------------------------------------------------------------------------
(* The refinement *)

\* A step that makes c the concept of one handle, and nothing else.
LEMMA BecomesIs ==
  ASSUME HeapInv, call = NoCall, UNCHANGED <<call, result>>, NEW h \in Handles, NEW c,
         HeldValues' = [HeldValues EXCEPT ![h] = c]
  PROVE  AsValues!Becomes(h, c) /\ HeldValues'[h] = c /\ Quantifying = AsValues!Nothing
<1>1. h \in DOMAIN HeldValues
  BY HeldAsValues DEF HeldIn
<1>2. Quantifying = AsValues!Nothing /\ UNCHANGED <<Quantifying, result>>
  BY DEF Quantifying, AsValues!Nothing, NoConcept
<1> QED BY <1>1, <1>2 DEF AsValues!Becomes

\* An operation that gives a handle the object p[0] with the value c.
Gives(h, c) == AsValues!Becomes(h, c) /\ HeldValues'[h] = c /\ ~AsValues!Held(h)

\* c with the concepts at `from' for its items.
Filled(c, from) == [c EXCEPT !.items = [i \in 1..Len(from) |-> heap[from[i]]]]

LEMMA GivesIs ==
  ASSUME HeapInv, Called, UNCHANGED <<call, result>>, NEW h \in Handles, object[h] = NULL, NEW c \in Concept,
         NEW from \in Seq(DOMAIN heap), NEW p \in NewAddresses(Len(from)), heap' = With(p, c, from),
         object' = [object EXCEPT ![h] = p[0]]
  PROVE  Gives(h, Filled(c, from))
<1> DEFINE v == Filled(c, from)
<1>0. h \in Owners
  BY DEF Owners
<1>1. Adds(heap', p, c, from)
  BY WithAdds
<1>2. ValueIn(heap', p[0]) = v /\ \A u \in UsedIn(object) : Agrees(heap', object[u])
  BY <1>1, AddedValue DEF Filled
<1> HIDE DEF v
<1>3. object'[h] = p[0] /\ p[0] # NULL /\ \A u \in Owners \ {h} : object'[u] = object[u]
  BY <1>0, <1>1 DEF HeapInv, Owned, Adds
<1>4. HeldValues' = [HeldValues EXCEPT ![h] = v]
  BY <1>0, <1>2, <1>3, HeldChanges
<1>5. call = NoCall
  BY DEF Called
<1>6. AsValues!Becomes(h, v) /\ HeldValues'[h] = v /\ ~AsValues!Held(h)
  BY <1>4, <1>5, BecomesIs, HeldIsUsed
<1> QED BY <1>6 DEF v, Gives

LEMMA CreateImplements ==
  ASSUME HeapInv, NEW h \in Handles, Create(h)
  PROVE  AsValues!Create(h)
<1>1. PICK w \in Words, p \in NewAddresses(0) :
        heap' = With(p, StringConcept(w), << >>) /\ object' = [object EXCEPT ![h] = p[0]]
  BY DEF Create
<1> DEFINE c == StringConcept(w)
           from == << >>
<1>2. /\ from \in Seq(DOMAIN heap) /\ Len(from) = 0 /\ p \in NewAddresses(Len(from))
      /\ c \in Concept
  BY StringIsConcept
<1>3. Filled(c, from) = c /\ c = AsValues!StringConcept(w)
  <2>1. [i \in 1..Len(from) |-> heap[from[i]]] = << >>
    BY <1>2
  <2>2. [c EXCEPT !.items = << >>] = c
    BY DEF StringConcept
  <2>3. c = AsValues!StringConcept(w)
    BY Zenon DEF StringConcept, AsValues!StringConcept, Plain, AsValues!Plain, Separators,
       AsValues!Separators, NoConstraints, AsValues!NoConstraints
  <2> QED BY <2>1, <2>2, <2>3 DEF Filled
<1>4. Called /\ UNCHANGED <<call, result>> /\ object[h] = NULL
  BY DEF Create, Held
<1>5. heap' = With(p, c, from)
  BY <1>1
<1> HIDE DEF c, from
<1>6. Gives(h, Filled(c, from))
  BY <1>1, <1>2, <1>4, <1>5, GivesIs
<1> QED BY <1>3, <1>6 DEF AsValues!Create, Gives

LEMMA CreateListImplements ==
  ASSUME HeapInv, NEW h \in Handles, CreateList(h)
  PROVE  AsValues!CreateList(h)
<1>0. PICK n \in 0..MaxItems :
        \E from \in Sources(n), size \in n..MaxItems, c \in Conjunctions, p \in NewAddresses(n) :
          heap' = With(p, ListConcept(c, size), from) /\ object' = [object EXCEPT ![h] = p[0]]
  BY DEF CreateList
<1>1. PICK from \in Sources(n), size \in n..MaxItems, j \in Conjunctions, p \in NewAddresses(n) :
        heap' = With(p, ListConcept(j, size), from) /\ object' = [object EXCEPT ![h] = p[0]]
  BY <1>0
<1> DEFINE c == ListConcept(j, size)
           its == [i \in 1..Len(from) |-> heap[from[i]]]
           Strings == {HeldValues[g] : g \in {g \in Handles : AsValues!Held(g) /\ ~AsValues!IsList(HeldValues[g])}}
<1>2. /\ from \in Seq(DOMAIN heap) /\ Len(from) = n /\ n \in Nat
      /\ \A i \in 1..Len(from) :
           ~IsList(heap[from[i]]) /\ \E g \in Handles : object[g] = from[i] /\ object[g] # NULL
  BY SourcesAreStrings
<1>3. c \in Concept
  BY ListIsConcept
<1>4. Called /\ UNCHANGED <<call, result>> /\ object[h] = NULL
  BY DEF CreateList, Held
<1>5. Gives(h, Filled(c, from))
  <2> HIDE DEF c
  <2>1. p \in NewAddresses(Len(from)) /\ heap' = With(p, c, from)
    BY <1>1, <1>2 DEF c
  <2> QED BY <1>1, <1>2, <1>3, <1>4, <2>1, GivesIs
<1>6. ASSUME NEW i \in 1..Len(from) PROVE heap[from[i]] \in Strings
  <2>1. PICK g \in Handles : object[g] = from[i] /\ object[g] # NULL
    BY <1>2
  <2>2. AsValues!Held(g) /\ HeldValues[g] = ValueIn(heap, from[i]) /\ ~IsList(heap[from[i]])
    BY <1>2, <2>1, HeldIsUsed
  <2>3. heap[from[i]] \in Concept /\ heap[from[i]].items = << >>
    BY <2>1, <2>2, Roots DEF Owners
  <2>4. ValueIn(heap, from[i]) = heap[from[i]]
    <3>1. [k \in DOMAIN heap[from[i]].items |-> heap[heap[from[i]].items[k]]] = << >>
      BY <2>3
    <3>2. ValueIn(heap, from[i]) = [heap[from[i]] EXCEPT !.items = << >>]
      BY <3>1, Zenon DEF ValueIn
    <3>3. [heap[from[i]] EXCEPT !.items = << >>] = heap[from[i]]
      BY <2>3 DEF Concept
    <3> QED BY <3>2, <3>3
  <2>5. ~AsValues!IsList(HeldValues[g])
    BY <2>2, <2>4, SameText
  <2>6. HeldValues[g] \in Strings
    BY <2>2, <2>5
  <2> QED BY <2>2, <2>4, <2>6
<1>7. Filled(c, from) \in [word : {NoWord}, items : Seq(Strings), format : AsValues!Format,
                           constraints : {AsValues!NoConstraints}]
  <2>1. its \in Seq(Strings)
    <3> HIDE DEF Strings
    <3> QED BY <1>2, <1>6
  <2>2. AsValues!Format = Format /\ AsValues!NoConstraints = NoConstraints
    BY DEF AsValues!Format, Format, AsValues!NoConstraints, NoConstraints, AsValues!Separators,
       Separators, AsValues!Text, Text
  <2>3. Filled(c, from) = [c EXCEPT !.items = its]
    BY Zenon DEF Filled
  <2>4. c.format \in Format /\ c = [word |-> NoWord, items |-> << >>, format |-> c.format, constraints |-> NoConstraints]
    BY <1>3 DEF ListConcept, Concept
  <2> HIDE DEF c, its, Strings
  <2> QED BY <2>1, <2>2, <2>3, <2>4
<1> HIDE DEF c
<1> QED BY <1>5, <1>7 DEF AsValues!CreateList, Gives

\* A constraint put on a concept, and on the items of a list.
LEMMA ConstrainIs ==
  ASSUME HeapInv, Called, UNCHANGED <<object, call, result>>, NEW h \in Handles, object[h] # NULL,
         NEW F, NEW v, heap' = Constrained(object[h], F, v)
  PROVE  AsValues!Becomes(h, AsValues!Set(HeldValues[h], F, v)) /\ AsValues!Held(h)
<1>1. h \in Owners /\ call = NoCall
  BY DEF Owners, Called
<1>2. /\ ValueIn(heap', object[h]) = AsValues!Set(ValueIn(heap, object[h]), F, v)
      /\ \A u \in UsedIn(object) \ {h} : Agrees(heap', object[u])
  BY <1>1, ConstrainedValue
<1>3. HeldValues' = [HeldValues EXCEPT ![h] = ValueIn(heap', object[h])]
  BY <1>1, <1>2, HeldChanges
<1>4. HeldValues[h] = ValueIn(heap, object[h]) /\ AsValues!Held(h)
  BY HeldIsUsed
<1> QED BY <1>1, <1>2, <1>3, <1>4, BecomesIs

LEMMA ConstrainImplements ==
  ASSUME HeapInv, NEW h \in Handles, PutConstraint(h) \/ ClearConstraint(h) \/ Reset(h)
  PROVE  AsValues!Constrain(h)
<1>1. Called /\ UNCHANGED <<object, call, result>> /\ object[h] # NULL
  BY DEF PutConstraint, ClearConstraint, Reset, Held
<1>2. CASE PutConstraint(h)
  <2>1. PICK f \in Features, v \in Values : heap' = Constrained(object[h], {f}, v)
    BY <1>2 DEF PutConstraint
  <2>2. v \in Values \cup {NoValue} /\ AsValues!Becomes(h, AsValues!Set(HeldValues[h], {f}, v)) /\ AsValues!Held(h)
    BY <1>1, <2>1, ConstrainIs
  <2> QED BY <2>2 DEF AsValues!Constrain
<1>3. CASE ClearConstraint(h)
  <2>1. PICK f \in Features : heap' = Constrained(object[h], {f}, NoValue)
    BY <1>3 DEF ClearConstraint
  <2>2. NoValue \in Values \cup {NoValue} /\ AsValues!Becomes(h, AsValues!Set(HeldValues[h], {f}, NoValue)) /\ AsValues!Held(h)
    BY <1>1, <2>1, ConstrainIs
  <2> QED BY <2>2 DEF AsValues!Constrain
<1>4. CASE Reset(h)
  <2>1. heap' = Constrained(object[h], Features, NoValue)
    BY <1>4 DEF Reset
  <2>2. AsValues!Becomes(h, AsValues!Set(HeldValues[h], Features, NoValue)) /\ AsValues!Held(h)
    BY <1>1, <2>1, ConstrainIs
  <2> QED BY <2>2 DEF AsValues!Constrain
<1> QED BY <1>2, <1>3, <1>4

\* The object at a with another format.
Formatted(a, format) == [heap EXCEPT ![a] = [heap[a] EXCEPT !.format = format]]

LEMMA FormatIs ==
  ASSUME HeapInv, Called, UNCHANGED <<object, call, result>>, NEW h \in Handles, object[h] # NULL,
         IsList(heap[object[h]]), NEW format \in Format, heap' = Formatted(object[h], format)
  PROVE  AsValues!SetFormat(h)
<1> DEFINE a == object[h]
           its == [i \in DOMAIN heap[a].items |-> heap[heap[a].items[i]]]
           v == [word |-> heap[a].word, items |-> its, format |-> format,
                 constraints |-> heap[a].constraints]
<1>1. h \in Owners /\ h \in UsedIn(object) /\ call = NoCall
  BY DEF Owners, Called, UsedIn
<1>2. a \in DOMAIN heap /\ heap[a] \in Concept /\ Objects(heap)
  BY <1>1, Roots DEF HeapInv
<1>3. /\ heap'[a] = [word |-> heap[a].word, items |-> heap[a].items, format |-> format,
                     constraints |-> heap[a].constraints]
      /\ \A x \in DOMAIN heap : x # a => heap'[x] = heap[x]
  BY <1>2 DEF Formatted, Concept
<1>4. ValueIn(heap', a) = v
  <2>1. \A i \in DOMAIN heap[a].items : heap'[heap[a].items[i]] = heap[heap[a].items[i]]
    <3>1. \A i \in DOMAIN heap[a].items : heap[a].items[i] \in DOMAIN heap /\ heap[a].items[i] # a
      BY <1>2, ItemsAreThere DEF Objects, ObjectIn, ItemsIn
    <3> QED BY <3>1, <1>3
  <2>2. heap'[a].items = heap[a].items
    BY <1>3
  <2>3. [i \in DOMAIN heap'[a].items |-> heap'[heap'[a].items[i]]] = its
    BY <2>1, <2>2
  <2>4. ValueIn(heap', a) = [heap'[a] EXCEPT !.items = its]
    BY <2>3, Zenon DEF ValueIn
  <2> HIDE DEF its, a
  <2> QED BY <2>4, <1>3
<1>5. ValueIn(heap, a) = [word |-> heap[a].word, items |-> its, format |-> heap[a].format,
                          constraints |-> heap[a].constraints]
  BY <1>2, Fields
<1>6. ASSUME NEW u \in UsedIn(object) \ {h} PROVE Agrees(heap', object[u])
  <2>1. \A x \in ReachIn(heap, object[u]) : x \in DOMAIN heap /\ x # a
    <3>1. a \in ReachIn(heap, object[h]) /\ object[u] \in DOMAIN heap
      BY DEF ReachIn, HeapInv, Owned
    <3>2. ReachIn(heap, object[u]) \cap ReachIn(heap, object[h]) = {}
      BY <1>1 DEF HeapInv, Owned
    <3> QED BY <3>1, <3>2, <1>2, ItemsAreThere DEF ReachIn
  <2> QED BY <1>3, <2>1 DEF Agrees
<1> HIDE DEF its
<1>7. HeldValues' = [HeldValues EXCEPT ![h] = v]
  BY <1>1, <1>4, <1>6, HeldChanges
<1>8. HeldValues[h] = ValueIn(heap, a) /\ AsValues!Held(h)
  BY HeldIsUsed
<1>9. AsValues!Becomes(h, v) /\ HeldValues'[h] = v
  <2> HIDE DEF v
  <2> QED BY <1>1, <1>7, BecomesIs
<1>10. v = [HeldValues[h] EXCEPT !.format = v.format]
  BY <1>5, <1>8
<1>11. v # AsValues!Nothing
  <2>1. "word" \in DOMAIN v
    OBVIOUS
  <2>2. "word" \notin DOMAIN AsValues!Nothing
    BY DEF AsValues!Nothing
  <2> QED BY <2>1, <2>2
<1>12. v.format \in AsValues!Format /\ AsValues!IsList(HeldValues[h])
  BY <1>5, <1>8 DEF AsValues!IsList, IsList, AsValues!Format, Format, AsValues!Separators,
     Separators, AsValues!Text, Text
<1> HIDE DEF v
<1> QED BY <1>8, <1>9, <1>10, <1>11, <1>12, Zenon DEF AsValues!SetFormat

LEMMA SetFormatImplements ==
  ASSUME HeapInv, NEW h \in Handles, SetSeparator(h) \/ SetAvoidItemAffixRedundancy(h)
  PROVE  AsValues!SetFormat(h)
<1> DEFINE a == object[h]
           format == heap[a].format
<1>1. Called /\ UNCHANGED <<object, call, result>> /\ a # NULL /\ IsList(heap[a])
  BY DEF SetSeparator, SetAvoidItemAffixRedundancy, Held
<1>2. heap[a] \in Concept
  BY <1>1, Roots DEF Owners
<1>0. format \in Format
  BY <1>2 DEF Concept
<1>3. CASE SetSeparator(h)
  <2>1. PICK s \in Settings : heap' = [heap EXCEPT ![object[h]].format.text[s[1]] = s[2]]
    BY <1>3 DEF SetSeparator
  <2> DEFINE text == [format.text EXCEPT ![s[1]] = s[2]]
             new == [format EXCEPT !.text = text]
  <2>2. s[1] \in Separators /\ s[2] \in Text
    OBVIOUS
  <2>3. new \in Format
    BY <1>0, <2>2 DEF Format
  <2>4. heap' = Formatted(a, new)
    BY <2>1, Zenon DEF Formatted
  <2> HIDE DEF new, format
  <2> QED BY <1>1, <2>3, <2>4, FormatIs
<1>4. CASE SetAvoidItemAffixRedundancy(h)
  <2>1. PICK b \in BOOLEAN : heap' = [heap EXCEPT ![object[h]].format.avoidAffixRedundancy = b]
    BY <1>4 DEF SetAvoidItemAffixRedundancy
  <2> DEFINE new == [format EXCEPT !.avoidAffixRedundancy = b]
  <2>2. new \in Format
    BY <1>0 DEF Format
  <2>3. heap' = Formatted(a, new)
    BY <2>1, Zenon DEF Formatted
  <2> HIDE DEF new, format
  <2> QED BY <1>1, <2>2, <2>3, FormatIs
<1> QED BY <1>3, <1>4

LEMMA CloneImplements ==
  ASSUME HeapInv, NEW h \in Handles, NEW g \in Handles, Clone(h, g)
  PROVE  AsValues!Clone(g)
<1>1. /\ Called /\ UNCHANGED <<call, result>> /\ object[h] # NULL /\ object[g] = NULL
      /\ CloneTo(g, object[h]) /\ h \in Owners /\ g \in Owners /\ call = NoCall
  BY DEF Clone, Held, Owners, Called
<1>2. /\ object'[g] # NULL /\ \A u \in Owners \ {g} : object'[u] = object[u]
      /\ ValueIn(heap', object'[g]) = AsValues!Copy(ValueIn(heap, object[h]))
      /\ \A u \in UsedIn(object) : Agrees(heap', object[u])
  BY <1>1, ClonedValue
<1>3. HeldValues' = [HeldValues EXCEPT ![g] = ValueIn(heap', object'[g])]
  BY <1>1, <1>2, HeldChanges
<1>4. HeldValues[h] = ValueIn(heap, object[h]) /\ AsValues!Held(h) /\ ~AsValues!Held(g)
  BY <1>1, HeldIsUsed
<1>5. AsValues!Becomes(g, AsValues!Copy(HeldValues[h]))
  BY <1>1, <1>2, <1>3, <1>4, BecomesIs
<1> QED BY <1>4, <1>5 DEF AsValues!Clone

LEMMA DeleteImplements ==
  ASSUME HeapInv, NEW h \in Handles, Delete(h)
  PROVE  AsValues!Delete(h)
<1>1. /\ Called /\ UNCHANGED <<call, result>> /\ call = NoCall /\ object[h] # NULL
      /\ heap' = Without(object[h]) /\ object' = [object EXCEPT ![h] = NULL]
      /\ h \in Owners /\ h \in UsedIn(object)
  BY DEF Delete, Held, Called, Owners, UsedIn
<1>2. \A u \in UsedIn(object) \ {h} : Agrees(heap', object[u])
  BY <1>1, RemovedValue
<1>3. object'[h] = NULL /\ \A u \in Owners \ {h} : object'[u] = object[u]
  BY <1>1 DEF HeapInv, Owned
<1>4. HeldValues' = [HeldValues EXCEPT ![h] = NoConcept]
  BY <1>1, <1>2, <1>3, HeldChanges
<1>5. AsValues!Becomes(h, NoConcept) /\ AsValues!Held(h)
  BY <1>1, <1>4, BecomesIs, HeldIsUsed
<1> QED BY <1>5 DEF AsValues!Delete, AsValues!Nothing, NoConcept

LEMMA ObserveImplements ==
  ASSUME HeapInv, NEW h \in Handles, ToSpeakableString(h) \/ GetFeatureValue(h)
  PROVE  AsValues!Observe(h)
<1>1. /\ call = NoCall /\ object[h] # NULL /\ heap' = heap /\ object' = object /\ call' = call
      /\ \/ result' = Shown(Value(object[h]))
         \/ \E f \in Features : result' = FeatureOf(Value(object[h]), f)
  BY DEF ToSpeakableString, GetFeatureValue, Called, Held
<1>2. HeldValues[h] = Value(object[h]) /\ AsValues!Held(h)
  BY <1>1, HeldIsUsed DEF Value, ValueIn
<1>3. HeldValues' = HeldValues /\ Quantifying' = Quantifying /\ Quantifying = AsValues!Nothing
  BY <1>1, HeldAsValues DEF Quantifying, AsValues!Nothing, NoConcept
<1>4. \/ result' = AsValues!Shown(HeldValues[h])
      \/ \E f \in Features : result' = AsValues!FeatureOf(HeldValues[h], f)
  BY <1>1, <1>2, SameText
<1> QED BY <1>2, <1>3, <1>4 DEF AsValues!Observe

\* Where nothing is seen of a step the values are what they were.
LEMMA Unseen ==
  ASSUME HeapInv, call # NoCall, call' # NoCall, call'.of = call.of, result' = result,
         \A u \in UsedIn(object) \ {Local} : Agrees(heap', object[u]),
         \A u \in Owners \ {Local} : object'[u] = object[u]
  PROVE  UNCHANGED AsValues!vars
<1>1. Local \in Owners /\ Local \notin Handles
  BY DEF Owners
<1>2. HeldValues' = HeldValues
  BY <1>1, HeldChanges
<1>3. Quantifying' = Quantifying
  BY DEF Quantifying
<1> QED BY <1>2, <1>3 DEF AsValues!vars

LEMMA QuantifyStartImplements ==
  ASSUME HeapInv, NEW h \in Handles, NEW n \in DOMAIN Numbers, NEW counts \in Counting,
         QuantifyStart(h, n, counts)
  PROVE  AsValues!QuantifyStart(h)
<1>1. /\ call = NoCall /\ object[h] # NULL /\ heap' = heap /\ object' = object /\ result' = result
      /\ call' = [phase |-> IF counts THEN "clone" ELSE "show", of |-> h, number |-> n,
                  original |-> heap[object[h]].constraints["count"]]
  BY DEF QuantifyStart, Called, Held
<1>2. call' # NoCall /\ call'.of = h
  <2>1. "of" \in DOMAIN call' /\ "of" \notin DOMAIN NoCall
    BY <1>1 DEF NoCall
  <2> QED BY <1>1, <2>1
<1>3. HeldValues' = HeldValues /\ AsValues!Held(h)
  BY <1>1, HeldAsValues, HeldIsUsed
<1>4. Quantifying = AsValues!Nothing /\ Quantifying' = h
  BY <1>1, <1>2 DEF Quantifying, AsValues!Nothing, NoConcept
<1> QED BY <1>1, <1>3, <1>4 DEF AsValues!QuantifyStart

\* What is quantified is shown with the form for its count, or as it is.
LEMMA EndImplements ==
  ASSUME HeapInv, QuantInv, call # NoCall, call' = NoCall, HeldValues' = HeldValues,
         \/ result' = Thrown
         \/ /\ call.phase = "speak" /\ Shown(Value(object[Local])) # NoText
            /\ Returns(Shown(Value(object[Local])))
         \/ call.phase = "show" /\ Returns(Shown(Value(object[call.of])))
  PROVE  AsValues!QuantifyEnd(call.of)
<1> DEFINE h == call.of
           n == call.number
           c == HeldValues[h]
<1>1. h \in Handles /\ n \in DOMAIN Numbers /\ object[h] # NULL
  BY CallKinds
<1>2. c = ValueIn(heap, object[h]) /\ c = Value(object[h])
  BY <1>1, HeldIsUsed DEF Value, ValueIn
<1>3. Quantifying = h /\ Quantifying' = AsValues!Nothing
  BY DEF Quantifying, AsValues!Nothing, NoConcept
<1>4. CountConstraintKept
  BY DEF QuantInv, CountConstraintKept
<1>5. \E counts \in Counting : result' \in {AsValues!Quantified(c, n, counts), Thrown}
  <2>1. CASE result' = Thrown
    <3>1. \E counts \in Counting : TRUE
      <4>1. call.phase # "show" => TRUE \in Counting
        BY DEF QuantInv
      <4>2. call.phase = "show" => TRUE \in Counting \/ FALSE \in Counting
        BY DEF QuantInv
      <4> QED BY <4>1, <4>2
    <3> QED BY <2>1, <3>1
  <2>2. CASE /\ call.phase = "speak" /\ Shown(Value(object[Local])) # NoText
             /\ Returns(Shown(Value(object[Local])))
    <3> DEFINE text == Shown(Value(object[Local]))
    <3>1. TRUE \in Counting /\ ValueIn(heap, object[Local]) = AsValues!ForCount(c, n)
      BY <1>2, <2>2 DEF QuantInv
    <3>2. text = AsValues!Shown(AsValues!ForCount(c, n))
      BY <3>1, SameText DEF Value, ValueIn
    <3>3. result' = Numbers[n] \o text
      BY <1>4, <2>2 DEF Returns
    <3> HIDE DEF text, c, n
    <3>4. AsValues!NounPhrase(c, n, TRUE) = text /\ text # NoText
      BY <2>2, <3>2 DEF AsValues!NounPhrase, text
    <3>5. AsValues!Quantified(c, n, TRUE) = Numbers[n] \o text
      BY <3>4 DEF AsValues!Quantified
    <3> QED BY <3>1, <3>3, <3>5
  <2>3. CASE call.phase = "show" /\ Returns(Shown(Value(object[call.of])))
    <3> DEFINE text == Shown(c)
    <3>1. text = AsValues!Shown(c) /\ Returns(text)
      BY <1>2, <2>3, SameText
    <3>2. result' = IF text # NoText THEN Numbers[n] \o text ELSE Thrown
      BY <1>4, <3>1 DEF Returns
    <3>3. PICK counts \in Counting : counts = FALSE \/ Shown(AsValues!ForCount(c, n)) = NoText
      BY <1>2, <2>3 DEF QuantInv
    <3>4. counts = FALSE \/ AsValues!Shown(AsValues!ForCount(c, n)) = NoText
      BY <3>3, SameText
    <3> HIDE DEF text, c, n
    <3>5. AsValues!NounPhrase(c, n, counts) = text
      BY <3>1, <3>4, Zenon DEF AsValues!NounPhrase
    <3>6. AsValues!Quantified(c, n, counts) = IF text # NoText THEN Numbers[n] \o text ELSE Thrown
      BY <3>5, Zenon DEF AsValues!Quantified
    <3> QED BY <3>2, <3>6
  <2> QED BY <2>1, <2>2, <2>3
<1> HIDE DEF n
<1> QED BY <1>1, <1>3, <1>5 DEF AsValues!QuantifyEnd, n

LEMMA QuantifyImplements ==
  ASSUME HeapInv, QuantInv,
         QuantifyClone \/ QuantifyPut \/ QuantifySpeak \/ QuantifySpeakThrows \/ QuantifyShow
  PROVE  (AsValues!QuantifyEnd(call.of) /\ call # NoCall) \/ UNCHANGED AsValues!vars
<1>0. NoCall.phase = "idle" /\ Local \in Owners /\ Local \notin Handles
  BY DEF NoCall, Owners
<1>1. call # NoCall
  BY <1>0 DEF QuantifyClone, QuantifyPut, QuantifySpeak, QuantifySpeakThrows, QuantifyShow
<1>2. ASSUME NEW phase, call' = [call EXCEPT !.phase = phase] PROVE call' # NoCall /\ call'.of = call.of
  <2>1. call \in Calls
    BY <1>1, CallKinds
  <2>2. call'.of = call.of /\ "of" \in DOMAIN call' /\ "of" \notin DOMAIN NoCall
    BY <1>2, <2>1 DEF Calls, NoCall
  <2> QED BY <2>2
<1>3. CASE QuantifyClone
  <2>1. /\ object[Local] = NULL /\ object[call.of] # NULL /\ CloneTo(Local, object[call.of])
        /\ call.of \in Owners
    BY <1>1, <1>3, CallKinds DEF QuantifyClone
  <2>2. /\ \A u \in Owners \ {Local} : object'[u] = object[u]
        /\ \A u \in UsedIn(object) : Agrees(heap', object[u])
    BY <1>0, <2>1, ClonedValue
  <2>3. result' = result /\ call' # NoCall /\ call'.of = call.of
    BY <1>2, <1>3 DEF QuantifyClone
  <2> QED BY <1>1, <2>2, <2>3, Unseen
<1>4. CASE QuantifyPut
  <2>1. object[Local] # NULL /\ object' = object
    BY <1>1, <1>4, CallKinds DEF QuantifyPut
  <2>2. \A u \in UsedIn(object) \ {Local} : Agrees(heap', object[u])
    <3>1. CASE heap' = Constrained(object[Local], {"count"}, CountOf[call.number])
      BY <1>0, <2>1, <3>1, ConstrainedValue
    <3>2. CASE heap' = heap
      BY <3>2 DEF Agrees
    <3> QED BY <1>4, <3>1, <3>2 DEF QuantifyPut
  <2>3. result' = result /\ call' # NoCall /\ call'.of = call.of
    BY <1>2, <1>4 DEF QuantifyPut
  <2> QED BY <1>1, <2>1, <2>2, <2>3, Unseen
<1>5. CASE QuantifySpeak \/ QuantifySpeakThrows
  <2>1. /\ call.phase = "speak" /\ object[Local] # NULL
        /\ heap' = Without(object[Local]) /\ object' = [object EXCEPT ![Local] = NULL]
    BY <1>1, <1>5, CallKinds DEF QuantifySpeak, QuantifySpeakThrows
  <2>2. \A u \in UsedIn(object) \ {Local} : Agrees(heap', object[u])
    BY <1>0, <2>1, RemovedValue DEF UsedIn
  <2>3. \A u \in Owners \ {Local} : object'[u] = object[u]
    BY <2>1 DEF HeapInv, Owned
  <2>4. HeldValues' = HeldValues
    BY <1>0, <2>2, <2>3, HeldChanges
  <2>5. CASE QuantifySpeak /\ Shown(Value(object[Local])) = NoText
    <3>1. call' # NoCall /\ call'.of = call.of /\ result' = result
      BY <1>2, <2>5 DEF QuantifySpeak
    <3> QED BY <1>1, <2>2, <2>3, <3>1, Unseen
  <2>6. CASE QuantifySpeak /\ Shown(Value(object[Local])) # NoText
    <3>1. Returns(Shown(Value(object[Local])))
      BY <2>6 DEF QuantifySpeak
    <3>2. call' = NoCall
      BY <3>1 DEF Returns
    <3> QED BY <1>1, <2>1, <2>4, <2>6, <3>1, <3>2, EndImplements
  <2>7. CASE QuantifySpeakThrows
    <3>1. call' = NoCall /\ result' = Thrown
      BY <2>7 DEF QuantifySpeakThrows
    <3> QED BY <1>1, <2>4, <3>1, EndImplements
  <2> QED BY <1>5, <2>5, <2>6, <2>7
<1>6. CASE QuantifyShow
  <2>1. heap' = heap /\ object' = object /\ call.phase = "show"
    BY <1>6 DEF QuantifyShow
  <2>2. HeldValues' = HeldValues
    BY <2>1, HeldAsValues
  <2>3. call' = NoCall /\ (Returns(Shown(Value(object[call.of]))) \/ result' = Thrown)
    BY <1>6 DEF QuantifyShow, Returns
  <2> QED BY <1>1, <2>1, <2>2, <2>3, EndImplements
<1> QED BY <1>3, <1>4, <1>5, <1>6

LEMMA StepImplements == HeapInv /\ QuantInv /\ [Next]_vars => [AsValues!Next]_AsValues!vars
<1> SUFFICES ASSUME HeapInv, QuantInv, Next PROVE [AsValues!Next]_AsValues!vars
  BY HeldAsValues DEF vars, AsValues!vars, Quantifying
<1> DEFINE A(h) == \/ AsValues!Create(h) \/ AsValues!CreateList(h) \/ AsValues!Constrain(h)
                   \/ AsValues!SetFormat(h) \/ AsValues!Clone(h) \/ AsValues!Delete(h)
                   \/ AsValues!Observe(h) \/ AsValues!QuantifyStart(h) \/ AsValues!QuantifyEnd(h)
<1>0. \A h \in Handles : A(h) => AsValues!Next
  BY DEF AsValues!Next
<1>1. ASSUME NEW h \in Handles,
             \/ Create(h) \/ CreateList(h)
             \/ PutConstraint(h) \/ ClearConstraint(h) \/ Reset(h)
             \/ SetSeparator(h) \/ SetAvoidItemAffixRedundancy(h)
             \/ Delete(h) \/ ToSpeakableString(h) \/ GetFeatureValue(h)
      PROVE  A(h)
  BY <1>1, CreateImplements, CreateListImplements, ConstrainImplements, SetFormatImplements,
     DeleteImplements, ObserveImplements
<1>2. ASSUME NEW h \in Handles, NEW g \in Handles, Clone(h, g) PROVE A(g)
  BY <1>2, CloneImplements
<1>3. ASSUME NEW h \in Handles, NEW n \in DOMAIN Numbers, NEW counts \in Counting,
             QuantifyStart(h, n, counts)
      PROVE  A(h)
  BY <1>3, QuantifyStartImplements
<1>4. ASSUME QuantifyClone \/ QuantifyPut \/ QuantifySpeak \/ QuantifySpeakThrows \/ QuantifyShow
      PROVE  UNCHANGED AsValues!vars \/ \E h \in Handles : A(h)
  BY <1>4, QuantifyImplements, CallKinds
<1> HIDE DEF A
<1> QED BY <1>0, <1>1, <1>2, <1>3, <1>4 DEF Next

\* The code keeps concepts as objects with pointers to each other, changes them
\* in place, and puts a count on a clone; a caller sees values, each of which is
\* changed by the calls on its own handle alone (Concepts).
THEOREM ConceptsAreValues == Spec => ImplementsConcepts
<1>1. Init => AsValues!Init
  <2> SUFFICES ASSUME Init PROVE AsValues!Init
    OBVIOUS
  <2>1. HeldValues = [h \in Handles |-> AsValues!Nothing]
    BY HeldAsValues DEF Init, HeldIn, Owners, AsValues!Nothing, NoConcept
  <2>2. Quantifying = AsValues!Nothing /\ result = NoText
    BY DEF Init, Quantifying, AsValues!Nothing, NoConcept
  <2> QED BY <2>1, <2>2 DEF AsValues!Init
<1>2. Init => QuantInv
  BY DEF Init, QuantInv
<1> QED BY <1>1, <1>2, HeapInvHolds, StepQuantInv, StepImplements, PTL DEF Spec, ImplementsConcepts, AsValues!Spec
=============================================================================
