---------------------------- MODULE ConceptHeap ----------------------------
(***************************************************************************)
(* Concepts as the code keeps them (src/src/inflection/dialog): objects on *)
(* the heap, a SemanticConceptList with pointers to clones of the concepts *)
(* it was created from, and CommonConceptFactoryImpl::quantify, which puts *)
(* the count on a clone of what it quantifies and deletes it again.        *)
(*                                                                         *)
(* A concept is used by one thread at a time (README.md: "mutable objects  *)
(* are not necessarily thread safe between threads").                      *)
(***************************************************************************)
EXTENDS ListText

CONSTANTS Handles, CountForms, Counting, Numbers, CountOf, Thrown,  \* see Concepts
          Addresses, NULL,
          Fresh(_, _),   \* what an allocator may return of free addresses
          Local,         \* the unique_ptr of quantifyType
          Conjunctions,  \* the separators of and- and or-lists of a language
          Settings,      \* <<separator, text>>: what a list is given
          MaxItems,      \* no list here is created from more concepts
          MaxCalls       \* no caller here makes more calls

Owners == Handles \cup {Local}

ASSUME HeapAssumption ==
  /\ Local \notin Handles /\ NULL \notin Addresses /\ NULL \notin Handles
  /\ Counting \subseteq BOOLEAN /\ CountForms \subseteq Values
  /\ CountOf \in [DOMAIN Numbers -> Tokens]
  /\ \A n \in DOMAIN Numbers : Numbers[n] \in Text
  /\ Conjunctions \subseteq [two : Text, first : Text, second : Text]
  /\ Settings \subseteq Separators \X Text
  /\ Thrown \notin Text \cup {NoText}
  /\ MaxItems \in Nat /\ MaxCalls \in Nat

VARIABLES heap,    \* the objects there are, by their addresses
          object,  \* which of them a handle, or quantifyType, has
          call,    \* quantify, if it is running
          result,  \* of the last call that has one
          calls

vars == <<heap, object, call, result, calls>>

Concept == [word : Words \cup {NoWord}, items : Seq(Addresses), format : Format,
            constraints : Constraints]
Calls == [phase : {"clone", "put", "speak", "show"}, of : Handles,
          number : DOMAIN Numbers, original : Values \cup {NoValue}]
NoCall == [phase |-> "idle"]

TypeOK ==
  /\ DOMAIN heap \subseteq Addresses
  /\ \A a \in DOMAIN heap : heap[a] \in Concept
  /\ object \in [Owners -> Addresses \cup {NULL}]
  /\ call \in Calls \cup {NoCall}
  /\ result \in Text \cup {NoText, Thrown}
  /\ calls \in 0..MaxCalls

Init ==
  /\ heap = << >> /\ object = [o \in Owners |-> NULL]
  /\ call = NoCall /\ result = NoText /\ calls = 0

Items(a) == {heap[a].items[i] : i \in DOMAIN heap[a].items}
Reach(a) == {a} \cup Items(a)
Held(h)  == object[h] # NULL

\* A call of the caller's, while none is running.
Called == call = NoCall /\ calls < MaxCalls /\ calls' = calls + 1

-----------------------------------------------------------------------------
Free == Addresses \ DOMAIN heap
\* The addresses a new object, p[0], and n new items of it get.
NewAddresses(n) ==
  {p \in Fresh(Free, n) : p \in [0..n -> Free] /\ \A i, j \in 0..n : p[i] = p[j] => i = j}

\* The heap with a new object c, whose items are copies of those at `from'.
With(p, c, from) ==
  [x \in DOMAIN heap \cup {p[i] : i \in 0..Len(from)} |->
     IF x \in DOMAIN heap THEN heap[x]
     ELSE IF x = p[0] THEN [c EXCEPT !.items = [i \in 1..Len(from) |-> p[i]]]
     ELSE heap[from[CHOOSE i \in 1..Len(from) : p[i] = x]]]

Create(h) ==
  /\ Called /\ ~Held(h)
  /\ \E w \in Words, p \in NewAddresses(0) :
       heap' = With(p, StringConcept(w), << >>) /\ object' = [object EXCEPT ![h] = p[0]]
  /\ UNCHANGED <<call, result>>

\* createAndList and createOrList of concepts of which `size' are counted.
Conjoined(c, size) ==
  [Plain EXCEPT !.text =
     IF size = 2 THEN [@ EXCEPT !["beforeLast"] = c.two]
     ELSE [@ EXCEPT !["itemDelimiter"] = c.first, !["beforeLast"] = c.second]]
ListConcept(c, size) ==
  [word |-> NoWord, items |-> << >>, format |-> Conjoined(c, size),
   constraints |-> NoConstraints]

\* The concepts a list can be created from.
Sources(n) == [1..n -> {a \in {object[g] : g \in Handles} : a # NULL /\ ~IsList(heap[a])}]

\* Mutant of CreateList: the list takes the concepts themselves.
CreateList_Adopts(h) ==
  /\ Called /\ ~Held(h)
  /\ \E n \in 0..MaxItems : \E from \in Sources(n), size \in n..MaxItems, c \in Conjunctions,
        p \in NewAddresses(0) :
       /\ heap' = [x \in DOMAIN heap \cup {p[0]} |->
                     IF x = p[0] THEN [ListConcept(c, size) EXCEPT !.items = from] ELSE heap[x]]
       /\ object' = [object EXCEPT ![h] = p[0]]
  /\ UNCHANGED <<call, result>>

\* A nullptr is not taken into the list, but one of the overloads counts it.
CreateList(h) ==
  /\ Called /\ ~Held(h)
  /\ \E n \in 0..MaxItems : \E from \in Sources(n), size \in n..MaxItems, c \in Conjunctions,
        p \in NewAddresses(n) :
       heap' = With(p, ListConcept(c, size), from) /\ object' = [object EXCEPT ![h] = p[0]]
  /\ UNCHANGED <<call, result>>

-----------------------------------------------------------------------------
\* The heap after a call that makes v the constraint of a concept for features
\* F.  A list hands it on to each of its items.
Constrained(a, F, v) ==
  [x \in DOMAIN heap |->
     IF x \in Reach(a)
     THEN [heap[x] EXCEPT !.constraints = [f \in Features |-> IF f \in F THEN v ELSE @[f]]]
     ELSE heap[x]]

PutConstraint(h) ==
  /\ Called /\ Held(h)
  /\ \E f \in Features, v \in Values : heap' = Constrained(object[h], {f}, v)
  /\ UNCHANGED <<object, call, result>>

ClearConstraint(h) ==
  /\ Called /\ Held(h)
  /\ \E f \in Features : heap' = Constrained(object[h], {f}, NoValue)
  /\ UNCHANGED <<object, call, result>>

\* Mutant of Reset: the list keeps its own.
Reset_ItemsOnly(h) ==
  /\ Called /\ Held(h)
  /\ heap' = [x \in DOMAIN heap |->
                IF x \in Items(object[h]) THEN [heap[x] EXCEPT !.constraints = NoConstraints]
                                          ELSE heap[x]]
  /\ UNCHANGED <<object, call, result>>

Reset(h) ==
  /\ Called /\ Held(h)
  /\ heap' = Constrained(object[h], Features, NoValue)
  /\ UNCHANGED <<object, call, result>>

SetSeparator(h) ==
  /\ Called /\ Held(h) /\ IsList(heap[object[h]])
  /\ \E s \in Settings : heap' = [heap EXCEPT ![object[h]].format.text[s[1]] = s[2]]
  /\ UNCHANGED <<object, call, result>>

SetAvoidItemAffixRedundancy(h) ==
  /\ Called /\ Held(h) /\ IsList(heap[object[h]])
  /\ \E b \in BOOLEAN : heap' = [heap EXCEPT ![object[h]].format.avoidAffixRedundancy = b]
  /\ UNCHANGED <<object, call, result>>

-----------------------------------------------------------------------------
\* The copy constructors: the items are cloned, avoidAffixRedundancy is not
\* copied (a string has TRUE there in any case).
CloneTo(o, a) ==
  \E p \in NewAddresses(Len(heap[a].items)) :
    /\ heap' = With(p, [heap[a] EXCEPT !.format.avoidAffixRedundancy = TRUE], heap[a].items)
    /\ object' = [object EXCEPT ![o] = p[0]]

Clone(h, g) ==
  /\ Called /\ Held(h) /\ ~Held(g)
  /\ CloneTo(g, object[h])
  /\ UNCHANGED <<call, result>>

\* delete: the destructor of a list deletes its items.
Without(a) == [x \in DOMAIN heap \ Reach(a) |-> heap[x]]

Delete(h) ==
  /\ Called /\ Held(h)
  /\ heap' = Without(object[h]) /\ object' = [object EXCEPT ![h] = NULL]
  /\ UNCHANGED <<call, result>>

-----------------------------------------------------------------------------
\* The value an object stands for: its items are what their addresses have.
Value(a) == [heap[a] EXCEPT !.items = [i \in DOMAIN @ |-> heap[@[i]]]]

ToSpeakableString(h) ==
  /\ Called /\ Held(h)
  /\ result' = Shown(Value(object[h]))
  /\ UNCHANGED <<heap, object, call>>

GetFeatureValue(h) ==
  /\ Called /\ Held(h)
  /\ \E f \in Features : result' = FeatureOf(Value(object[h]), f)
  /\ UNCHANGED <<heap, object, call>>

-----------------------------------------------------------------------------
QuantifyStart(h, n, counts) ==
  /\ Called /\ Held(h)
  /\ call' = [phase |-> IF counts THEN "clone" ELSE "show", of |-> h, number |-> n,
              original |-> heap[object[h]].constraints["count"]]
  /\ UNCHANGED <<heap, object, result>>

QuantifyClone ==
  /\ call.phase = "clone"
  /\ CloneTo(Local, object[call.of])
  /\ call' = [call EXCEPT !.phase = "put"]
  /\ UNCHANGED <<result, calls>>

\* Mutant of QuantifyPut: the count is put on the concept itself.
QuantifyPut_InPlace ==
  /\ call.phase = "put"
  /\ LET count == CountOf[call.number] IN
     heap' = IF count \in CountForms
             THEN Constrained(object[call.of], {"count"}, count) ELSE heap
  /\ call' = [call EXCEPT !.phase = "speak"]
  /\ UNCHANGED <<object, result, calls>>

\* A count the language has no form for is not put.
QuantifyPut ==
  /\ call.phase = "put"
  /\ LET count == CountOf[call.number] IN
     heap' = IF count \in CountForms
             THEN Constrained(object[Local], {"count"}, count) ELSE heap
  /\ call' = [call EXCEPT !.phase = "speak"]
  /\ UNCHANGED <<object, result, calls>>

\* quantifyFormatted asserts, with Validate::isTrue, that it has not changed
\* the count constraint of the concept.
CountConstraintKept ==
  call # NoCall => heap[object[call.of]].constraints["count"] = call.original

\* The end of it, with the assertion and with npc of the text.
Returns(text) ==
  /\ call' = NoCall
  /\ result' = IF CountConstraintKept /\ text # NoText THEN Numbers[call.number] \o text
                                                     ELSE Thrown

\* The clone is deleted at the end of its block, before the concept itself is
\* asked for what the clone did not have.
QuantifySpeak ==
  /\ call.phase = "speak"
  /\ LET text == Shown(Value(object[Local])) IN
     IF text = NoText THEN call' = [call EXCEPT !.phase = "show"] /\ UNCHANGED result
                      ELSE Returns(text)
  /\ heap' = Without(object[Local]) /\ object' = [object EXCEPT ![Local] = NULL]
  /\ UNCHANGED calls

\* The display function of a language throws.
QuantifySpeakThrows ==
  /\ call.phase = "speak"
  /\ call' = NoCall /\ result' = Thrown
  /\ heap' = Without(object[Local]) /\ object' = [object EXCEPT ![Local] = NULL]
  /\ UNCHANGED calls

QuantifyShow ==
  /\ call.phase = "show"
  /\ \/ Returns(Shown(Value(object[call.of])))
     \/ call' = NoCall /\ result' = Thrown
  /\ UNCHANGED <<heap, object, calls>>

Next ==
  \/ \E h \in Handles :
       \/ Create(h) \/ CreateList(h)
       \/ PutConstraint(h) \/ ClearConstraint(h) \/ Reset(h)
       \/ SetSeparator(h) \/ SetAvoidItemAffixRedundancy(h)
       \/ \E g \in Handles : Clone(h, g)
       \/ Delete(h) \/ ToSpeakableString(h) \/ GetFeatureValue(h)
       \/ \E n \in DOMAIN Numbers, counts \in Counting : QuantifyStart(h, n, counts)
  \/ QuantifyClone \/ QuantifyPut \/ QuantifySpeak \/ QuantifySpeakThrows \/ QuantifyShow

Spec == Init /\ [][Next]_vars

-----------------------------------------------------------------------------
Used == {o \in Owners : object[o] # NULL}

\* Every object belongs to one owner, or to one list of one owner's, and no
\* pointer dangles; quantifyType has none when no call is running.  So nothing
\* is leaked, nothing deleted twice, and no change made through one handle is
\* seen through another.
OwnedOnce ==
  /\ \A o \in Used : Reach(object[o]) \subseteq DOMAIN heap
  /\ \A a \in DOMAIN heap : \E o \in Used : a \in Reach(object[o])
  /\ \A o, p \in Used : o # p => Reach(object[o]) \cap Reach(object[p]) = {}
  /\ \A a \in DOMAIN heap :
       /\ a \notin Items(a)
       /\ \A i, j \in DOMAIN heap[a].items : heap[a].items[i] = heap[a].items[j] => i = j
  /\ call.phase \in {"put", "speak"} <=> Local \in Used

\* A constraint of a list is a constraint of each of its items: what the list
\* says of itself (getConstraint) is what its items are shown by.
ConstraintsReachItems ==
  \A a \in DOMAIN heap : \A b \in Items(a), f \in Features :
    heap[a].constraints[f] # NoValue => heap[b].constraints[f] = heap[a].constraints[f]

\* A list whose items all show something is shown as the comments of its
\* setters say (SemanticConceptList.hpp).
ShownAsDocumented ==
  \A a \in DOMAIN heap :
    LET c == Value(a)
        r == TextsOf(c)
    IN  (IsList(c) /\ r # << >> /\ \A i \in DOMAIN r : Shows(r[i]))
          => Shown(c) = Documented(c.format, r)

\* The concept each handle stands for, and the one that is being quantified.
NoConcept == [concept |-> FALSE]
HeldValues == [h \in Handles |-> IF Held(h) THEN Value(object[h]) ELSE NoConcept]
Quantifying == IF call = NoCall THEN NoConcept ELSE call.of

\* Concepts are values, whatever is done on the heap.
AsValues == INSTANCE Concepts WITH
  value <- HeldValues, quantifying <- Quantifying, result <- result
ImplementsConcepts == AsValues!Spec

\* "Return a clone of this object" (SemanticFeatureConceptBase.hpp): a clone
\* shows what the concept it is cloned from shows.
CloneShowsTheSame ==
  [][\A h, g \in Handles : Clone(h, g) => Shown(Value(object[g]))' = Shown(Value(object[h]))]_vars
=============================================================================
