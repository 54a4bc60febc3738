-------------------------- MODULE DictionaryProofs --------------------------
(***************************************************************************)
(* Theorems about dictionaries: how they are found and loaded, how words   *)
(* are inflected by them, and how their files are packed and read.         *)
(*                                                                         *)
(* The cache is only written by the holder of the mutex, whose locals say  *)
(* what it found: LoadInv ties the file of a load to the path its language *)
(* had when the load began, and a path once set never changes.             *)
(*                                                                         *)
(* A word is inflected by loops over its patterns, its readings and their  *)
(* inflections; each is a recursive function here, unfolded by a lemma and *)
(* then known by what it returns.  What is said of words holds of every    *)
(* dictionary that is one (LexiconOver).                                   *)
(*                                                                         *)
(* A bit of an array has one place among all bits of its words, so that    *)
(* what two values wrote is told apart by arithmetic.                      *)
(***************************************************************************)
EXTENDS DictionaryCache, Inflection, FiniteSetTheorems, SequenceTheorems, WellFoundedInduction, TLAPS

\* A locale has a key, whether the deny list knows it or not.
LEMMA KeyType == ASSUME NEW l \in Locales PROVE Key(l) \in Keys
<1>1. CASE \E i \in DOMAIN Walk[l] : FirstDenied(l, i)
  BY <1>1, RegistrationAssumption DEF Key, FirstDenied
<1>2. CASE ~\E i \in DOMAIN Walk[l] : FirstDenied(l, i)
  BY <1>2, RegistrationAssumption DEF Key
<1> QED BY <1>1, <1>2

\* The root of a locale is a registered path or the default.
LEMMA RootType ==
  ASSUME RegistrationTypeOK, NEW l \in Locales PROVE RootFor(l) \in Roots
BY KeyType DEF RegistrationTypeOK, RootFor, DataPath, Roots

\* An offer that is made keeps the map typed, the accepted offers in force and
\* the paths that were set.
LEMMA RegisterProps ==
  ASSUME RegistrationTypeOK, AcceptedInForce, NEW o \in Offers,
         Register(o) \/ RegisterThrows(o)
  PROVE  /\ RegistrationTypeOK' /\ AcceptedInForce'
         /\ \A k \in Keys : paths[k] # Unset => paths'[k] = paths[k]
<1>1. Key(o.locale) \in Keys /\ Normal[o.path] \in Paths
  BY KeyType, RegistrationAssumption DEF Paths
<1>2. \A q \in Offers : Key(q.locale) \in Keys /\ Normal[q.path] # Unset
  BY KeyType, RegistrationAssumption
<1> QED BY <1>1, <1>2 DEF RegistrationTypeOK, AcceptedInForce, Register,
             RegisterThrows, DataPath, registrationVars

-----------------------------------------------------------------------------
\* The holder of the mutex is the one thread that loads.
MutexInv ==
  \A t \in Threads : pc[t] \in {"locate", "fallback", "open"} <=> mutex = t

\* The path that was known when the load of t began, and the file there.
Known(t) == known[Language[locale[t]]]
KnownFile(t) == [root |-> Known(t), language |-> Language[locale[t]]]

\* A load keeps to the path its language had at the start, and to a file of
\* another path only if there is none there.
LoadInv ==
  \A t \in Threads :
    /\ pc[t] # "idle" => locale[t] \in Asked
    /\ mutex = t => cache[Language[locale[t]]] = NoDictionary
    /\ (mutex = t /\ Known(t) # Unset) => Known(t) = DataPath(Generic[locale[t]])
    /\ (pc[t] = "fallback" /\ Known(t) # EmptyPath) => KnownFile(t) \notin DOMAIN Files
    /\ pc[t] = "open" => file[t] \in FileNames
    /\ (pc[t] = "open" /\ Known(t) # EmptyPath /\ KnownFile(t) \in DOMAIN Files)
          => file[t] = KnownFile(t)

\* What a load located or cached is below a root that is still registered.
Rooted(f) ==
  \/ f.root = DefaultRoot
  \/ f.root # EmptyPath /\ \E k \in Keys : paths[k] = f.root

RootInv == \A t \in Threads : pc[t] = "open" => Rooted(file[t])

\* A caller is given what is cached for its language.
ServedInv ==
  \A t \in Threads : pc[t] = "served" =>
    /\ result[t] = cache[Language[locale[t]]]
    /\ result[t] # NoDictionary

IInv == /\ TypeOK /\ MutexInv /\ LoadInv /\ RootInv /\ ServedInv
        /\ AcceptedInForce /\ EarlyRegistrationUsed /\ RootRegistered

LEMMA InitIInv == Init => IInv
BY RegistrationAssumption, DictionaryAssumption
   DEF Init, RegistrationInit, IInv, TypeOK, RegistrationTypeOK, MutexInv,
       LoadInv, RootInv, ServedInv, AcceptedInForce, EarlyRegistrationUsed,
       RootRegistered

\* A registration leaves what is being loaded and what is cached alone.
LEMMA RegistrationIInv ==
  ASSUME IInv, NEW o \in Offers, Register(o) \/ RegisterThrows(o),
         UNCHANGED loadVars
  PROVE  IInv'
<1>1. /\ RegistrationTypeOK' /\ AcceptedInForce'
      /\ \A k \in Keys : paths[k] # Unset => paths'[k] = paths[k]
  BY RegisterProps DEF IInv, TypeOK
<1>2. TypeOK' /\ MutexInv' /\ ServedInv' /\ EarlyRegistrationUsed'
  BY <1>1 DEF IInv, TypeOK, MutexInv, ServedInv, EarlyRegistrationUsed, loadVars
<1>3. LoadInv'
  <2>1. \A t \in Threads : (mutex = t /\ Known(t) # Unset)
           => Known(t) = DataPath(Generic[locale[t]])'
    BY <1>1, KeyType, DictionaryAssumption
       DEF IInv, LoadInv, MutexInv, TypeOK, DataPath, loadVars
  <2> QED BY <2>1 DEF IInv, LoadInv, Known, KnownFile, loadVars
<1>4. Unset \notin Roots
  BY DictionaryAssumption
<1>5. RootInv' /\ RootRegistered'
  BY <1>1, <1>4, DictionaryAssumption
     DEF IInv, RootInv, Rooted, RootRegistered, LoadInv, TypeOK, FileNames,
         Dictionaries, loadVars
<1> QED BY <1>1, <1>2, <1>3, <1>5 DEF IInv

\* Publishing keeps the invariant, if what is published is empty or the file
\* the load located.
LEMMA PublishIInv ==
  ASSUME IInv, NEW t \in Threads, pc[t] = "open",
         NEW d \in {Empty, file[t]}, Publish(t, d)
  PROVE  IInv'
<1> USE RegistrationAssumption, DictionaryAssumption DEF IInv
<1>1. /\ Language[locale[t]] \in Languages /\ mutex = t
      /\ cache[Language[locale[t]]] = NoDictionary
      /\ d \in Dictionaries /\ d # NoDictionary
  BY DEF TypeOK, MutexInv, LoadInv, Languages, Dictionaries
<1>2. TypeOK'
  BY <1>1 DEF Publish, Goto, TypeOK, RegistrationTypeOK, registrationVars
<1>3. MutexInv'
  BY <1>1 DEF Publish, Goto, TypeOK, MutexInv
<1>4. LoadInv'
  BY <1>1, <1>3 DEF Publish, Goto, TypeOK, MutexInv, LoadInv, Known, KnownFile,
         DataPath, registrationVars
<1>5. ServedInv'
  BY <1>1 DEF Publish, Goto, TypeOK, LoadInv, ServedInv
<1>6. RootInv' /\ AcceptedInForce'
  BY <1>1 DEF Publish, Goto, TypeOK, RootInv, Rooted, AcceptedInForce, DataPath,
         registrationVars
<1>7. RootRegistered'
  BY <1>1 DEF Publish, TypeOK, RootInv, Rooted, RootRegistered, registrationVars
<1>8. EarlyRegistrationUsed'
  BY <1>1 DEF Publish, TypeOK, LoadInv, Known, KnownFile, EarlyRegistrationUsed
<1> QED BY <1>2, <1>3, <1>4, <1>5, <1>6, <1>7, <1>8

\* A step of a loading thread, one action at a time.
LEMMA StepIInv ==
  ASSUME IInv, NEW t \in Threads, Step(t) PROVE IInv'
<1> USE RegistrationAssumption, DictionaryAssumption DEF IInv
<1>0. RegistrationTypeOK /\ Unset \notin Roots
  BY DEF TypeOK
<1>1. ASSUME Find(t) PROVE IInv'
  <2>1. Generic[locale[t]] \in Locales /\ Key(Generic[locale[t]]) \in Keys
    BY <1>1, KeyType DEF Find, LoadInv
  <2> DEFINE g == Language[locale[t]]
  <2>a. /\ g \in Languages /\ mutex = Free /\ pc[t] = "find"
        /\ DataPath(Generic[locale[t]]) \in Paths \cup {Unset}
    BY <1>0, <1>1, <2>1
       DEF Find, LoadInv, Languages, DataPath, RegistrationTypeOK
  <2>c. UNCHANGED <<registrationVars, cache, locale, file>>
    BY <1>1 DEF Find
  <2>d. ASSUME cache[g] # NoDictionary
        PROVE  TypeOK' /\ MutexInv' /\ ServedInv' /\ LoadInv'
    <3>1. /\ pc' = [pc EXCEPT ![t] = "served"] /\ UNCHANGED <<mutex, known>>
          /\ result' = [result EXCEPT ![t] = cache[g]]
      BY <1>1, <2>d DEF Find, Goto
    <3> QED
      BY <2>a, <2>c, <2>d, <3>1
         DEF TypeOK, RegistrationTypeOK, MutexInv, ServedInv, LoadInv, Known,
             KnownFile, DataPath, registrationVars
  <2>e. ASSUME cache[g] = NoDictionary
        PROVE  TypeOK' /\ MutexInv' /\ ServedInv' /\ LoadInv'
    <3> DEFINE path == DataPath(Generic[locale[t]])
    <3>1. /\ mutex' = t /\ pc' = [pc EXCEPT ![t] = "locate"]
          /\ known' = [known EXCEPT ![g] = path] /\ UNCHANGED result
      BY <1>1, <2>e DEF Find, Goto
    <3>2. TypeOK'
      BY <2>a, <2>c, <3>1 DEF TypeOK, RegistrationTypeOK, registrationVars
    <3>3. MutexInv' /\ ServedInv'
      BY <2>a, <2>c, <3>1 DEF TypeOK, MutexInv, ServedInv
    <3>4. \A u \in Threads : u # t => pc'[u] \notin {"locate", "fallback", "open"} /\ mutex' # u
      BY <2>a, <3>1 DEF TypeOK, MutexInv
    <3>5. DataPath(Generic[locale[t]])' = path /\ Known(t)' = path
      BY <2>a, <2>c, <3>1 DEF TypeOK, Known, DataPath, registrationVars
    <3>6. LoadInv'
      BY <2>a, <2>c, <2>e, <3>1, <3>4, <3>5
         DEF TypeOK, LoadInv, MutexInv, registrationVars
    <3> QED BY <3>2, <3>3, <3>6
  <2>2. TypeOK' /\ MutexInv' /\ ServedInv' /\ LoadInv'
    BY <2>d, <2>e
  <2>4. RootInv' /\ AcceptedInForce' /\ RootRegistered'
    BY <1>1 DEF Find, Goto, TypeOK, RootInv, Rooted, AcceptedInForce, DataPath,
           RootRegistered, registrationVars
  <2>5. EarlyRegistrationUsed'
    BY <1>1 DEF Find, TypeOK, EarlyRegistrationUsed
  <2> QED BY <2>2, <2>4, <2>5
<1>2. ASSUME Locate(t) PROVE IInv'
  <2> DEFINE l == locale[t]
             own == ResourcePath(Generic[l])
  <2>1. l \in Asked /\ Generic[l] \in Locales /\ Language[Generic[l]] = Language[l]
    BY <1>2 DEF Locate, LoadInv
  <2>2. own \in FileNames
    BY <1>0, <2>1, RootType DEF ResourcePath, FileNames
  <2>3. Rooted(own)
    BY <2>1, KeyType DEF ResourcePath, RootFor, Rooted, DataPath
  <2>4. (Known(t) \notin {Unset, EmptyPath}) => own = KnownFile(t)
    BY <1>2, <2>1 DEF Locate, LoadInv, MutexInv, ResourcePath, RootFor, KnownFile
  <2>5. Known(t) = Unset => KnownFile(t) \notin DOMAIN Files
    BY <1>0 DEF KnownFile, FileNames
  <2>6. TypeOK' /\ MutexInv'
    BY <1>2, <2>2
       DEF Locate, Goto, TypeOK, RegistrationTypeOK, MutexInv, registrationVars
  <2>7. LoadInv'
    BY <1>2, <2>1, <2>2, <2>4, <2>5
       DEF Locate, Goto, TypeOK, MutexInv, LoadInv, Known, KnownFile, DataPath,
           registrationVars
  <2>8. RootInv' /\ ServedInv'
    BY <1>2, <2>3
       DEF Locate, Goto, TypeOK, RootInv, Rooted, ServedInv, registrationVars
  <2>9. AcceptedInForce' /\ EarlyRegistrationUsed' /\ RootRegistered'
    BY <1>2 DEF Locate, AcceptedInForce, DataPath, EarlyRegistrationUsed,
           RootRegistered, registrationVars
  <2> QED BY <2>6, <2>7, <2>8, <2>9
<1>3. ASSUME LocateFallback(t) PROVE IInv'
  <2> DEFINE other == ResourcePath(FallbackOf[locale[t]])
  <2>1. FallbackOf[locale[t]] \in Locales
    BY <1>3 DEF LocateFallback, LoadInv
  <2>2. other \in FileNames
    BY <1>0, <2>1, RootType DEF ResourcePath, FileNames
  <2>3. Rooted(other)
    BY <2>1, KeyType DEF ResourcePath, RootFor, Rooted, DataPath
  <2> QED
    BY <1>3, <2>1, <2>2, <2>3
       DEF LocateFallback, Goto, TypeOK, RegistrationTypeOK, MutexInv, LoadInv,
           Known, KnownFile, RootInv, Rooted, ServedInv, AcceptedInForce,
           DataPath, EarlyRegistrationUsed, RootRegistered, registrationVars
<1>4. ASSUME Open(t) PROVE IInv'
  BY <1>4, PublishIInv DEF Open, RootInv, LoadInv, Dictionaries
<1>5. ASSUME OpenEmpty(t) PROVE IInv'
  BY <1>5, PublishIInv DEF OpenEmpty, Dictionaries
<1>6. ASSUME OpenThrows(t) PROVE IInv'
  BY <1>6
     DEF OpenThrows, Goto, TypeOK, RegistrationTypeOK, MutexInv, LoadInv, Known,
         KnownFile, RootInv, Rooted, ServedInv, AcceptedInForce, DataPath,
         EarlyRegistrationUsed, RootRegistered, registrationVars
<1> QED BY <1>1, <1>2, <1>3, <1>4, <1>5, <1>6 DEF Step

\* Asking and returning only change the caller's own locals.
LEMMA CallIInv ==
  ASSUME IInv, NEW t \in Threads, Return(t) \/ \E l \in Asked : Ask(t, l)
  PROVE  IInv'
<1> USE DEF IInv
<1>0. Free \notin Threads
  BY DictionaryAssumption
<1>1. ASSUME Return(t) PROVE IInv'
  <2>1. TypeOK' /\ MutexInv' /\ LoadInv'
    BY <1>0, <1>1 DEF Return, Goto, registrationVars, TypeOK, RegistrationTypeOK,
           MutexInv, LoadInv, Known, KnownFile, DataPath
  <2>2. ServedInv' /\ RootInv' /\ AcceptedInForce'
    BY <1>0, <1>1 DEF Return, Goto, registrationVars, TypeOK, ServedInv, RootInv,
           Rooted, AcceptedInForce, DataPath
  <2>3. EarlyRegistrationUsed' /\ RootRegistered'
    BY <1>0, <1>1 DEF Return, registrationVars, EarlyRegistrationUsed, RootRegistered
  <2> QED BY <2>1, <2>2, <2>3
<1>2. ASSUME NEW l \in Asked, Ask(t, l) PROVE IInv'
  <2>1. TypeOK' /\ MutexInv' /\ LoadInv'
    <3>1. TypeOK' /\ MutexInv'
      BY <1>0, <1>2 DEF Ask, Goto, registrationVars, TypeOK, RegistrationTypeOK, MutexInv
    <3>2. /\ mutex # t /\ locale'[t] = l /\ pc'[t] = "find"
          /\ \A u \in Threads : u # t => locale'[u] = locale[u] /\ pc'[u] = pc[u]
          /\ UNCHANGED <<paths, cache, mutex, file, known>>
      BY <1>0, <1>2 DEF Ask, Goto, registrationVars, TypeOK, MutexInv
    <3>3. LoadInv'
      BY <3>2 DEF LoadInv, Known, KnownFile, DataPath
    <3> QED BY <3>1, <3>3
  <2>2. ServedInv' /\ RootInv' /\ AcceptedInForce'
    BY <1>0, <1>2 DEF Ask, Goto, registrationVars, TypeOK, ServedInv, RootInv,
           Rooted, AcceptedInForce, DataPath
  <2>3. EarlyRegistrationUsed' /\ RootRegistered'
    BY <1>0, <1>2 DEF Ask, registrationVars, EarlyRegistrationUsed, RootRegistered
  <2> QED BY <2>1, <2>2, <2>3
<1> QED BY <1>1, <1>2

LEMMA StutterIInv == IInv /\ UNCHANGED vars => IInv'
BY DEF IInv, vars, loadVars, registrationVars, TypeOK, RegistrationTypeOK,
       MutexInv, LoadInv, Known, KnownFile, RootInv, Rooted, ServedInv,
       AcceptedInForce, DataPath, EarlyRegistrationUsed, RootRegistered

LEMMA NextIInv == IInv /\ [Next]_vars => IInv'
BY RegistrationIInv, StepIInv, CallIInv, StutterIInv DEF Next

LEMMA SpecIInv == Spec => []IInv
BY InitIInv, NextIInv, PTL DEF Spec

-----------------------------------------------------------------------------
\* The two maps and every call's locals are typed, for any set of locales,
\* keys, offers and files.
THEOREM TypeCorrect == Spec => []TypeOK
BY SpecIInv, PTL DEF IInv

\* A registration that returned normally is in force from then on.
THEOREM AcceptedStaysInForce == Spec => []AcceptedInForce
BY SpecIInv, PTL DEF IInv

\* A path registered before a load is the one that load uses, whatever comes
\* between its steps.
THEOREM EarlyRegistration == Spec => []EarlyRegistrationUsed
BY SpecIInv, PTL DEF IInv

\* A dictionary is never loaded from below a path that was refused.
THEOREM LoadedFromRegistered == Spec => []RootRegistered
BY SpecIInv, PTL DEF IInv

\* Accepted registrations stay in force and decide every later load; refused
\* ones decide none.
THEOREM Registrations == Spec => []RegistrationsRespected
<1>1. IInv => RegistrationsRespected
  BY DEF IInv, RegistrationsRespected
<1> QED
  BY <1>1, SpecIInv, PTL

\* No step changes a path that is set, a refused registration no more than
\* any other.
THEOREM PathsAreFinal == Spec => PathNeverChanges
<1>1. IInv /\ [Next]_vars
        => [\A k \in Keys : paths[k] # Unset => paths'[k] = paths[k]]_registrationVars
  <2> SUFFICES ASSUME IInv, [Next]_vars, ~UNCHANGED registrationVars
               PROVE  \A k \in Keys : paths[k] # Unset => paths'[k] = paths[k]
    OBVIOUS
  <2>1. PICK o \in Offers : Register(o) \/ RegisterThrows(o)
    BY DEF Next, Step, Find, Locate, LocateFallback, Open, OpenEmpty, OpenThrows,
           Publish, Return, Ask, vars, registrationVars
  <2> QED BY <2>1, RegisterProps DEF IInv, TypeOK
<1> QED BY <1>1, SpecIInv, PTL DEF Spec, PathNeverChanges

-----------------------------------------------------------------------------

\* Under the refinement mapping every step is one of ServiceCache or none.
LEMMA StepImplements == IInv /\ [Next]_vars => [Abstract!Next]_(Abstract!vars)
<1> SUFFICES ASSUME IInv, [Next]_vars PROVE [Abstract!Next]_(Abstract!vars)
  OBVIOUS
<1> USE DictionaryAssumption DEF IInv, Abstract!vars, registrationVars
<1>1. ASSUME NEW t \in Threads, NEW l \in Asked, Ask(t, l)
      PROVE  UNCHANGED Abstract!vars
  BY <1>1 DEF Ask, Goto, TypeOK
<1>2. ASSUME UNCHANGED loadVars PROVE UNCHANGED Abstract!vars
  BY <1>2 DEF loadVars
<1>3. ASSUME NEW t \in Threads, Locate(t) \/ LocateFallback(t) \/ OpenThrows(t)
      PROVE  UNCHANGED Abstract!vars
  BY <1>3 DEF Locate, LocateFallback, OpenThrows, Goto, TypeOK
<1>4. ASSUME NEW t \in Threads, NEW g \in Languages,
             Language[locale[t]] = g, cache[g] # NoDictionary,
             UNCHANGED <<cache, locale>>, pc[t] = "find",
             pc' = [pc EXCEPT ![t] = "served"], result' = [result EXCEPT ![t] = cache[g]]
      PROVE  Abstract!Next
  <2>1. g \in Keys
    BY RegistrationAssumption DEF Languages
  <2>2. Abstract!HandOut(t, g)
    BY <1>4, <2>1 DEF TypeOK, Object, Abstract!HandOut, Abstract!Nothing
  <2> QED BY <2>2 DEF Abstract!Next
<1>5. ASSUME NEW t \in Threads, NEW g \in Languages, NEW d \in Dictionaries,
             Language[locale[t]] = g, cache[g] = NoDictionary, pc[t] = "open",
             UNCHANGED locale, pc' = [pc EXCEPT ![t] = "served"],
             cache' = [cache EXCEPT ![g] = d], result' = [result EXCEPT ![t] = d]
      PROVE  Abstract!Next
  <2>1. g \in Keys /\ d # NoDictionary /\ Object(g, d) \in Objects
    BY RegistrationAssumption DEF Languages, Object, Objects
  <2>2. Abstract!Make(t, g, Object(g, d))
    <3>1. \A k \in Languages : cache[k] # NoDictionary /\ Object(k, cache[k]) = Object(g, d)
             => FALSE
      BY <1>5 DEF Object
    <3>2. \A u \in Threads : pc'[u] = "served" /\ u # t => result'[u] = result[u]
      BY <1>5 DEF TypeOK
    <3>3. Object(g, d) # NoDictionary
      BY <2>1 DEF Object
    <3> QED
      BY <1>5, <2>1, <3>1, <3>2, <3>3
         DEF TypeOK, Abstract!Make, Abstract!Nothing
  <2> QED BY <2>1, <2>2 DEF Abstract!Next
<1>6. ASSUME NEW t \in Threads, Return(t)
      PROVE  [Abstract!Next]_(Abstract!vars)
  <2>1. CASE pc[t] = "served"
    <3>1. Language[locale[t]] \in Keys
      BY <2>1, RegistrationAssumption DEF LoadInv
    <3>2. Abstract!Drop(t)
      BY <1>6, <2>1, <3>1
         DEF Return, Goto, TypeOK, Abstract!Drop, Abstract!Nothing
    <3> QED BY <3>2 DEF Abstract!Next
  <2>2. CASE pc[t] = "thrown"
    BY <1>6, <2>2 DEF Return, Goto, TypeOK
  <2> QED BY <1>6, <2>1, <2>2 DEF Return
<1>7. CASE UNCHANGED vars
  BY <1>2, <1>7 DEF vars
<1>8. ASSUME NEW t \in Threads, Find(t) PROVE [Abstract!Next]_(Abstract!vars)
  <2>1. Language[locale[t]] \in Languages
    BY <1>8 DEF Find, LoadInv, Languages
  <2>2. CASE cache[Language[locale[t]]] # NoDictionary
    BY <1>4, <1>8, <2>1, <2>2 DEF Find, Goto
  <2>3. CASE cache[Language[locale[t]]] = NoDictionary
    <3>1. pc[t] = "find" /\ pc' = [pc EXCEPT ![t] = "locate"]
          /\ UNCHANGED <<cache, locale, result>>
      BY <1>8, <2>3 DEF Find, Goto
    <3> QED BY <3>1 DEF TypeOK
  <2> QED BY <2>2, <2>3
<1>9. ASSUME NEW t \in Threads, Open(t) \/ OpenEmpty(t) PROVE Abstract!Next
  <2>1. PICK d \in {Empty, file[t]} : Publish(t, d)
    BY <1>9 DEF Open, OpenEmpty
  <2>2. /\ Language[locale[t]] \in Languages /\ d \in Dictionaries /\ pc[t] = "open"
        /\ cache[Language[locale[t]]] = NoDictionary
    BY <1>9 DEF Open, OpenEmpty, LoadInv, MutexInv, Languages, Dictionaries
  <2> QED BY <1>5, <2>1, <2>2 DEF Publish, Goto
<1> QED
  BY <1>1, <1>2, <1>3, <1>6, <1>7, <1>8, <1>9 DEF Next, Step

\* createDictionary implements the cache of final services: one dictionary per
\* language, for every caller and for good.
THEOREM Implements == Spec => ImplementsServiceCache
<1>1. Init => Abstract!Init
  BY DEF Init, Abstract!Init, Abstract!Nothing
<1> QED
  BY <1>1, SpecIInv, StepImplements, PTL
     DEF Spec, ImplementsServiceCache, Abstract!Spec

-----------------------------------------------------------------------------
(* Inflection: loops *)

\* Induction over a set: the prover has none over predicates.
LEMMA SetInduction ==
  ASSUME NEW S, 0 \in S, \A n \in Nat : n \in S => n + 1 \in S
  PROVE  Nat \subseteq S
<1> DEFINE T == {n \in Nat : n \notin S}
           R == {ss \in Nat \X Nat : ss[1] < ss[2]}
<1>1. SUFFICES ASSUME T # {} PROVE FALSE
  OBVIOUS
<1>2. IsWellFoundedOn(R, Nat)
  BY NatLessThanWellFounded DEF OpToRel
<1>3. PICK x \in T : \A y \in T : <<y, x>> \notin R
  <2>1. T \subseteq Nat
    OBVIOUS
  <2> HIDE DEF T, R
  <2> QED BY <1>1, <1>2, <2>1, WFMin
<1>4. x \in Nat /\ x \notin S /\ x # 0
  OBVIOUS
<1>5. x - 1 \in Nat /\ x - 1 < x /\ (x - 1) + 1 = x
  BY <1>4
<1>6. x - 1 \in S
  <2> SUFFICES ASSUME x - 1 \notin S PROVE FALSE
    OBVIOUS
  <2>1. x - 1 \in T /\ <<x - 1, x>> \in R
    BY <1>4, <1>5
  <2> HIDE DEF R, T
  <2> QED BY <1>3, <2>1
<1> QED BY <1>4, <1>5, <1>6

\* A function that is defined by recursion exists, whatever its step does.
Recursion(f, n, a, step) == f = [i \in 0..n |-> IF i = 0 THEN a ELSE step[i][f[i - 1]]]

LEMMA RecursionExists ==
  ASSUME NEW n \in Nat, NEW A, NEW a \in A, NEW step \in [1..n -> [A -> A]]
  PROVE  \E f \in [0..n -> A] : Recursion(f, n, a, step)
<1> DEFINE Upto(k, f) == f \in [0..n -> A] /\ f[0] = a /\ \A i \in 1..n : i <= k => f[i] = step[i][f[i - 1]]
           S == {k \in Nat : k <= n => \E f : Upto(k, f)}
<1>1. 0 \in S
  <2>1. [i \in 0..n |-> a] \in [0..n -> A]
    OBVIOUS
  <2>2. Upto(0, [i \in 0..n |-> a])
    BY <2>1
  <2> QED BY <2>2
<1>2. ASSUME NEW k \in Nat, k \in S PROVE k + 1 \in S
  <2>1. SUFFICES ASSUME k + 1 <= n PROVE \E f : Upto(k + 1, f)
    OBVIOUS
  <2>2. PICK f : Upto(k, f)
    BY <1>2, <2>1
  <2> DEFINE g == [f EXCEPT ![k + 1] = step[k + 1][f[k]]]
  <2>3. f[k] \in A /\ k + 1 \in 1..n /\ step[k + 1][f[k]] \in A
    BY <2>1, <2>2
  <2>4. g \in [0..n -> A] /\ g[k + 1] = step[k + 1][f[k]] /\ \A i \in 0..n : i # k + 1 => g[i] = f[i]
    BY <2>2, <2>3
  <2>5. Upto(k + 1, g)
    <3> HIDE DEF g
    <3>1. g[0] = a
      BY <2>2, <2>4
    <3>2. ASSUME NEW i \in 1..n, i <= k + 1 PROVE g[i] = step[i][g[i - 1]]
      <4>1. CASE i = k + 1
        BY <2>4, <4>1
      <4>2. CASE i <= k
        <5>1. i - 1 \in 0..n /\ i - 1 # k + 1 /\ i # k + 1
          BY <4>2
        <5> QED BY <2>2, <2>4, <4>2, <5>1
      <4> QED BY <3>2, <4>1, <4>2
    <3> QED BY <2>4, <3>1, <3>2
  <2> QED BY <2>5
<1> HIDE DEF S
<1>3. n \in S
  BY <1>1, <1>2, SetInduction
<1>4. PICK f : Upto(n, f)
  BY <1>3 DEF S
<1>5. f = [i \in 0..n |-> IF i = 0 THEN a ELSE step[i][f[i - 1]]]
  BY <1>4
<1> QED BY <1>4, <1>5 DEF Recursion

\* What every step of a recursive function keeps holds of all of it.
LEMMA Stays ==
  ASSUME NEW n \in Nat, NEW A, NEW f, f[0] \in A, \A i \in 1..n : f[i - 1] \in A => f[i] \in A
  PROVE  \A i \in 0..n : f[i] \in A
<1> DEFINE S == {k \in Nat : k <= n => f[k] \in A}
<1>1. 0 \in S
  OBVIOUS
<1>2. ASSUME NEW k \in Nat, k \in S PROVE k + 1 \in S
  <2>1. SUFFICES ASSUME k + 1 <= n PROVE f[k + 1] \in A
    OBVIOUS
  <2>2. k + 1 \in 1..n /\ (k + 1) - 1 = k /\ f[k] \in A
    BY <1>2, <2>1
  <2> QED BY <2>2
<1> HIDE DEF S
<1>3. Nat \subseteq S
  BY <1>1, <1>2, SetInduction
<1> QED BY <1>3 DEF S

-----------------------------------------------------------------------------
(* One pattern *)

InflectionsOver(letters) == [suffix : Seq(letters), grammemes : SUBSET Range(Grammemes)]

LEMMA LexiconFacts ==
  ASSUME NEW letters, LexiconOver(letters), NEW p \in DOMAIN Patterns
  PROVE  /\ InflectionsOf(p) \in Seq(InflectionsOver(letters))
         /\ Patterns[p].partsOfSpeech \subseteq Range(Grammemes)
         /\ IsFiniteSet(Range(Grammemes))
BY DEF LexiconOver, InflectionsOf, InflectionsOver

\* A text that ends with a suffix is something and the suffix.
LEMMA SuffixEnds ==
  ASSUME NEW S, NEW s \in Seq(S), NEW t \in Seq(S), IsSuffix(s, t)
  PROVE  /\ Len(s) \in 0..Len(t)
         /\ SubSeq(t, 1, Len(t) - Len(s)) \in Seq(S)
         /\ SubSeq(t, 1, Len(t) - Len(s)) \o s = t
<1> DEFINE m == Len(s)
           n == Len(t)
           r == Reverse(s)
           q == Reverse(t)
<1>1. m \in Nat /\ n \in Nat
  BY LenProperties
<1>2. /\ r = [i \in 1..m |-> s[(m - i) + 1]]
      /\ q = [i \in 1..n |-> t[(n - i) + 1]]
  BY DEF Reverse
<1>3. r \in Seq(S) /\ q \in Seq(S) /\ Len(r) = m /\ Len(q) = n
  <2>1. \A i \in 1..m : s[(m - i) + 1] \in S
    BY <1>1, ElementOfSeq
  <2>2. \A i \in 1..n : t[(n - i) + 1] \in S
    BY <1>1, ElementOfSeq
  <2> HIDE DEF m, n, r, q
  <2> QED BY <1>1, <1>2, <2>1, <2>2
<1>4. m <= n /\ SubSeq(r, 1, m) = SubSeq(q, 1, m)
  BY <1>3, Zenon DEF IsSuffix, IsPrefix
<1> HIDE DEF m, n, r, q
<1>5. ASSUME NEW i \in 1..m PROVE r[i] = q[i]
  <2>1. SubSeq(r, 1, m)[i] = r[1 + i - 1] /\ SubSeq(q, 1, m)[i] = q[1 + i - 1]
    <3>1. (\A j \in 1..m : r[j] \in S) /\ (\A j \in 1..m : q[j] \in S)
      BY <1>1, <1>3, <1>4, ElementOfSeq
    <3>2. i \in 1..(m - 1 + 1)
      BY <1>1
    <3> QED BY <1>1, <3>1, <3>2, SubSeqProperties
  <2>2. 1 + i - 1 = i
    BY <1>1
  <2> QED BY <1>4, <2>1, <2>2
<1>6. ASSUME NEW i \in 1..m PROVE s[i] = t[(n - m) + i]
  <2>1. (m - i) + 1 \in 1..m /\ (m - i) + 1 \in 1..n
    BY <1>1, <1>4
  <2>2. r[(m - i) + 1] = s[(m - ((m - i) + 1)) + 1] /\ q[(m - i) + 1] = t[(n - ((m - i) + 1)) + 1]
    BY <1>2, <2>1
  <2>3. (m - ((m - i) + 1)) + 1 = i /\ (n - ((m - i) + 1)) + 1 = (n - m) + i
    BY <1>1
  <2> QED BY <1>5, <2>1, <2>2, <2>3
<1> DEFINE u == SubSeq(t, 1, n - m)
<1>7. /\ u \in Seq(S) /\ Len(u) = n - m
      /\ \A i \in 1..(n - m) : u[i] = t[i]
  <2>1. n - m \in Int /\ n - m >= 0 /\ \A i \in 1..(n - m) : t[i] \in S
    BY <1>1, <1>4, ElementOfSeq DEF n
  <2>2. /\ u \in Seq(S) /\ Len(u) = (IF 1 <= n - m THEN (n - m) - 1 + 1 ELSE 0)
        /\ \A i \in 1..((n - m) - 1 + 1) : u[i] = t[1 + i - 1]
    BY <2>1, SubSeqProperties
  <2> HIDE DEF u
  <2>3. (n - m) - 1 + 1 = n - m /\ \A i \in 1..(n - m) : 1 + i - 1 = i
    BY <2>1
  <2> QED BY <2>1, <2>2, <2>3
<1> HIDE DEF u
<1>8. /\ u \o s \in Seq(S) /\ Len(u \o s) = n
      /\ \A i \in 1..n : (u \o s)[i] = IF i <= n - m THEN u[i] ELSE s[i - (n - m)]
  <2>1. Len(u) + Len(s) = n
    BY <1>1, <1>7 DEF m
  <2>2. /\ u \o s \in Seq(S) /\ Len(u \o s) = Len(u) + Len(s)
        /\ \A i \in 1..(Len(u) + Len(s)) : (u \o s)[i] = IF i <= Len(u) THEN u[i] ELSE s[i - Len(u)]
    BY <1>7, ConcatProperties
  <2>3. \A i \in 1..n : (u \o s)[i] = IF i <= Len(u) THEN u[i] ELSE s[i - Len(u)]
    BY <2>1, <2>2, Zenon
  <2> QED BY <1>7, <2>1, <2>2, <2>3, Zenon
<1>9. \A i \in 1..n : (u \o s)[i] = t[i]
  <2> SUFFICES ASSUME NEW i \in 1..n PROVE (u \o s)[i] = t[i]
    OBVIOUS
  <2>1. CASE i <= n - m
    BY <1>1, <1>7, <1>8, <2>1
  <2>2. CASE i > n - m
    <3>1. i - (n - m) \in 1..m /\ (n - m) + (i - (n - m)) = i /\ ~(i <= n - m)
      BY <1>1, <1>4, <2>2
    <3>2. s[i - (n - m)] = t[(n - m) + (i - (n - m))]
      BY <1>6, <3>1
    <3> QED BY <1>8, <3>1, <3>2
  <2>3. i <= n - m \/ i > n - m
    BY <1>1
  <2> QED BY <2>1, <2>2, <2>3
<1>10. u \o s = t
  BY <1>8, <1>9, SeqEqual DEF n
<1> QED BY <1>1, <1>4, <1>7, <1>10 DEF m, n, u

\* Inflections whose suffix a surface form ends with, with no grammemes but its.
Fitting(S, surface, from) ==
  {r \in S : r.grammemes \subseteq from /\ IsSuffix(r.suffix, surface)}

LongestOf(S) == {r \in S : \A q \in S : Len(q.suffix) <= Len(r.suffix)}

Looked(inflections, n) == {inflections[k] : k \in 1..n}

FoundLongest(found, S) ==
  /\ Range(found.results) = LongestOf(S)
  /\ \A r \in S : Len(r.suffix) <= found.longest
  /\ IF S = {} THEN found.longest = -1 ELSE \E r \in S : Len(r.suffix) = found.longest

Founds(letters) == [longest : Int, results : Seq(InflectionsOver(letters))]

LEMMA LookedNext ==
  ASSUME NEW inflections, NEW i \in Nat \ {0}
  PROVE  Looked(inflections, i) = Looked(inflections, i - 1) \cup {inflections[i]}
<1>1. 1..i = 1..(i - 1) \cup {i}
  OBVIOUS
<1> QED BY <1>1 DEF Looked

LEMMA SuffixLength ==
  ASSUME NEW letters, NEW r \in InflectionsOver(letters)
  PROVE  Len(r.suffix) \in Nat
<1>1. r.suffix \in Seq(letters)
  BY DEF InflectionsOver
<1> QED BY <1>1, LenProperties

LEMMA AppendRange ==
  ASSUME NEW S, NEW s \in Seq(S), NEW e \in S
  PROVE  Append(s, e) \in Seq(S) /\ Range(Append(s, e)) = Range(s) \cup {e}
<1>1. /\ Append(s, e) \in Seq(S) /\ Len(Append(s, e)) = Len(s) + 1 /\ Append(s, e)[Len(s) + 1] = e
      /\ \A i \in 1..Len(s) : Append(s, e)[i] = s[i]
  BY AppendProperties
<1>2. Len(s) \in Nat
  BY LenProperties
<1>3. Range(s) = {s[i] : i \in 1..Len(s)} /\ Range(Append(s, e)) = {Append(s, e)[i] : i \in 1..Len(Append(s, e))}
  BY <1>1, RangeEquality
<1> DEFINE t == Append(s, e)
           n == Len(s)
<1> HIDE DEF t
<1>4. 1..(n + 1) = 1..n \cup {n + 1}
  BY <1>2
<1>5. Range(t) = {t[i] : i \in 1..n} \cup {t[n + 1]}
  BY <1>1, <1>3, <1>4 DEF t
<1> QED BY <1>1, <1>3, <1>5 DEF t

LEMMA NarrowedType ==
  ASSUME NEW letters, NEW found \in Founds(letters), NEW x \in InflectionsOver(letters), NEW surface, NEW from
  PROVE  Narrowed(found, x, surface, from) \in Founds(letters)
<1> DEFINE I == InflectionsOver(letters)
<1>1. Len(x.suffix) \in Int
  BY SuffixLength
<1>2. found.longest \in Int /\ found.results \in Seq(I)
  BY DEF Founds
<1>3. <<x>> \in Seq(I)
  OBVIOUS
<1>4. Append(found.results, x) \in Seq(I)
  BY <1>2, AppendProperties
<1> HIDE DEF I
<1>5. /\ [longest |-> Len(x.suffix), results |-> <<x>>] \in Founds(letters)
      /\ [found EXCEPT !.results = Append(@, x)] \in Founds(letters)
  BY <1>1, <1>2, <1>3, <1>4 DEF Founds, I
<1> QED BY <1>5 DEF Narrowed

\* The loop keeps the longest of those that fit.
LEMMA NarrowedFinds ==
  ASSUME NEW letters, NEW found \in Founds(letters), NEW S, S \subseteq InflectionsOver(letters),
         FoundLongest(found, S), NEW x \in InflectionsOver(letters), NEW surface, NEW from
  PROVE  /\ Narrowed(found, x, surface, from) \in Founds(letters)
         /\ FoundLongest(Narrowed(found, x, surface, from), S \cup Fitting({x}, surface, from))
<1> DEFINE I == InflectionsOver(letters)
           fits == x.grammemes \subseteq from /\ IsSuffix(x.suffix, surface)
           next == Narrowed(found, x, surface, from)
<1>1. \A r \in I : Len(r.suffix) \in Nat
  BY SuffixLength, Zenon
<1>2. found.longest \in Int /\ found.results \in Seq(I) /\ found = [longest |-> found.longest, results |-> found.results]
  BY DEF Founds
<1>3. CASE ~fits
  <2>1. next = found /\ Fitting({x}, surface, from) = {}
    BY <1>3 DEF Narrowed, Fitting
  <2>2. S \cup {} = S
    OBVIOUS
  <2> QED BY <2>1, <2>2, Zenon
<1>4. CASE fits
  <2> HIDE DEF fits
  <2>1. S \cup Fitting({x}, surface, from) = S \cup {x}
    BY <1>4 DEF Fitting, fits
  <2> DEFINE l == found.longest
             k == Len(x.suffix)
             T == S \cup {x}
  <2>2. l \in Int /\ k \in Nat /\ x \in I
    BY <1>1, <1>2
  <2>3. (\A r \in S : Len(r.suffix) \in Nat /\ Len(r.suffix) <= l) /\ Range(found.results) = LongestOf(S)
    BY <1>1 DEF FoundLongest
  <2>4. IF S = {} THEN l = -1 ELSE \E r \in S : Len(r.suffix) = l
    BY DEF FoundLongest
  <2> HIDE DEF l
  <2>5. CASE k < l
    <3>1. next = found
      BY <1>4, <2>5 DEF Narrowed, fits, k, l
    <3>2. S # {} /\ \E r \in S : Len(r.suffix) = l
      BY <2>2, <2>4, <2>5
    <3>3. LongestOf(T) = LongestOf(S)
      BY <2>2, <2>3, <2>5, <3>2 DEF LongestOf
    <3>4. \A r \in T : Len(r.suffix) <= l
      BY <2>2, <2>3, <2>5
    <3> QED BY <2>1, <2>3, <3>1, <3>2, <3>3, <3>4 DEF FoundLongest, l
  <2>6. CASE k > l
    <3>1. next = [longest |-> k, results |-> <<x>>]
      <4>1. ~(k < l)
        BY <2>2, <2>6
      <4> QED BY <1>4, <2>6, <4>1 DEF Narrowed, fits, k, l
    <3>2. LongestOf(T) = {x} /\ \A r \in T : Len(r.suffix) <= k
      BY <2>2, <2>3, <2>6 DEF LongestOf
    <3>3. <<x>> \in Seq(I) /\ Range(<<x>>) = {x}
      BY <2>2 DEF Range
    <3>4. next \in Founds(letters)
      BY <2>2, <3>1, <3>3 DEF Founds
    <3>5. next.longest = k /\ Range(next.results) = LongestOf(T)
      <4> HIDE DEF next, T, k
      <4>1. next.longest = k /\ next.results = <<x>>
        BY <3>1
      <4> QED BY <3>2, <3>3, <4>1, Zenon
    <3>6. T # {} /\ \E r \in T : Len(r.suffix) = k
      OBVIOUS
    <3> HIDE DEF next, T, k
    <3>7. FoundLongest(next, T)
      BY <3>2, <3>5, <3>6 DEF FoundLongest
    <3> QED BY <2>1, <3>4, <3>7, Zenon DEF next, T
  <2>7. CASE k = l
    <3>1. next = [longest |-> l, results |-> Append(found.results, x)]
      <4>1. ~(k < l) /\ ~(k > l)
        BY <2>2, <2>7
      <4>2. next = [found EXCEPT !.results = Append(@, x)]
        BY <1>4, <4>1 DEF Narrowed, fits, k, l
      <4> QED BY <1>2, <4>2 DEF l
    <3>2. S # {} /\ \E r \in S : Len(r.suffix) = l
      BY <2>2, <2>4, <2>7
    <3>3. LongestOf(T) = LongestOf(S) \cup {x} /\ \A r \in T : Len(r.suffix) <= l
      BY <2>2, <2>3, <2>7, <3>2 DEF LongestOf
    <3>4. Append(found.results, x) \in Seq(I) /\ Range(Append(found.results, x)) = Range(found.results) \cup {x}
      BY <1>2, <2>2, AppendRange
    <3>5. next \in Founds(letters)
      BY <2>2, <3>1, <3>4 DEF Founds
    <3>6. next.longest = l /\ Range(next.results) = LongestOf(T)
      <4> HIDE DEF next, T, k
      <4>1. next.longest = l /\ next.results = Append(found.results, x)
        BY <3>1
      <4> QED BY <2>3, <3>3, <3>4, <4>1, Zenon
    <3>7. T # {} /\ \E r \in T : Len(r.suffix) = l
      BY <3>2
    <3> HIDE DEF next, T, k
    <3>8. FoundLongest(next, T)
      BY <3>3, <3>6, <3>7 DEF FoundLongest
    <3> QED BY <2>1, <3>5, <3>8, Zenon DEF next, T
  <2>8. k < l \/ k > l \/ k = l
    BY <2>2
  <2> QED BY <2>5, <2>6, <2>7, <2>8
<1> QED BY <1>3, <1>4

\* What a surface form may be are the inflections with the longest suffix of
\* those that fit.
LEMMA SurfaceForms ==
  ASSUME NEW letters, LexiconOver(letters), NEW p \in DOMAIN Patterns, NEW surface, NEW from
  PROVE  /\ InflectionsForSurfaceForm(p, surface, from) \in Seq(InflectionsOver(letters))
         /\ Range(InflectionsForSurfaceForm(p, surface, from))
              = LongestOf(Fitting(Range(InflectionsOf(p)), surface, from))
<1> DEFINE s == InflectionsOf(p)
           n == Len(s)
           A == Founds(letters)
           none == [longest |-> -1, results |-> <<>>]
           step == [i \in 1..n |-> [a \in A |-> Narrowed(a, s[i], surface, from)]]
           found[i \in 0..Len(InflectionsOf(p))] ==
              IF i = 0 THEN [longest |-> -1, results |-> <<>>]
              ELSE Narrowed(found[i - 1], InflectionsOf(p)[i], surface, from)
           U(g) == [i \in 0..n |-> IF i = 0 THEN none ELSE Narrowed(g[i - 1], s[i], surface, from)]
           F(i) == Fitting(Looked(s, i), surface, from)
<1>1. /\ n \in Nat /\ s \in Seq(InflectionsOver(letters))
      /\ \A i \in 1..n : s[i] \in InflectionsOver(letters)
  BY LexiconFacts, LenProperties, ElementOfSeq
<1>2. none \in A
  BY DEF Founds
<1>3. step \in [1..n -> [A -> A]]
  <2> SUFFICES ASSUME NEW i \in 1..n, NEW a \in A PROVE Narrowed(a, s[i], surface, from) \in A
    OBVIOUS
  <2> QED BY <1>1, NarrowedType, Zenon
<1>4. PICK f \in [0..n -> A] : Recursion(f, n, none, step)
  <2> HIDE DEF step, A, n, none
  <2> QED BY <1>1, <1>2, <1>3, RecursionExists, Zenon
<1>5. f = U(f)
  <2>1. \A i \in 0..n : i # 0 => i \in 1..n /\ i - 1 \in 0..n
    BY <1>1
  <2> HIDE DEF A, n, none, s
  <2>2. \A i \in 0..n : i # 0 => step[i][f[i - 1]] = Narrowed(f[i - 1], s[i], surface, from)
    BY <1>4, <2>1
  <2> QED BY <1>4, <2>2 DEF Recursion
<1>6. found = U(found)
  <2>1. found = CHOOSE g : g = U(g)
    BY Zenon
  <2> HIDE DEF found, U
  <2> QED BY <1>5, <2>1, Zenon
<1>7. InflectionsForSurfaceForm(p, surface, from) = found[n].results
  BY Zenon DEF InflectionsForSurfaceForm
<1> HIDE DEF found, none, n, A, s
<1>8. found[0] = none /\ \A i \in 1..n : found[i] = Narrowed(found[i - 1], s[i], surface, from)
  <2>1. \A i \in 0..n : found[i] = IF i = 0 THEN none ELSE Narrowed(found[i - 1], s[i], surface, from)
    BY <1>6, Zenon
  <2>2. 0 \in 0..n /\ \A i \in 1..n : i \in 0..n /\ i # 0
    BY <1>1
  <2> QED BY <2>1, <2>2, Zenon
<1> DEFINE T == {i \in Nat : i <= n => found[i] \in A /\ FoundLongest(found[i], F(i))}
<1>9. 0 \in T
  <2>1. F(0) = {}
    BY DEF Looked, Fitting
  <2>2. FoundLongest(none, {})
    BY DEF FoundLongest, none, LongestOf, Range
  <2> QED BY <1>2, <1>8, <2>1, <2>2
<1>10. ASSUME NEW i \in Nat, i \in T PROVE i + 1 \in T
  <2> SUFFICES ASSUME i + 1 <= n PROVE found[i + 1] \in A /\ FoundLongest(found[i + 1], F(i + 1))
    OBVIOUS
  <2>1. i <= n /\ i + 1 \in 1..n /\ (i + 1) - 1 = i /\ i + 1 \in Nat \ {0}
    BY <1>1
  <2>2. found[i] \in Founds(letters) /\ FoundLongest(found[i], F(i)) /\ s[i + 1] \in InflectionsOver(letters)
    BY <1>1, <1>10, <2>1 DEF A
  <2>3. F(i) \subseteq InflectionsOver(letters)
    BY <1>1, <2>1 DEF Fitting, Looked
  <2>4. F(i + 1) = F(i) \cup Fitting({s[i + 1]}, surface, from)
    <3>1. Looked(s, i + 1) = Looked(s, i) \cup {s[i + 1]}
      BY <2>1, LookedNext
    <3> QED BY <3>1 DEF Fitting
  <2>5. found[i + 1] = Narrowed(found[i], s[i + 1], surface, from)
    BY <1>8, <2>1
  <2> HIDE DEF F
  <2>6. /\ Narrowed(found[i], s[i + 1], surface, from) \in Founds(letters)
        /\ FoundLongest(Narrowed(found[i], s[i + 1], surface, from), F(i) \cup Fitting({s[i + 1]}, surface, from))
    BY <2>2, <2>3, NarrowedFinds, Zenon
  <2> QED BY <2>4, <2>5, <2>6, Zenon DEF A
<1> HIDE DEF T
<1>11. n \in T
  BY <1>1, <1>9, <1>10, SetInduction
<1>12. found[n] \in A /\ FoundLongest(found[n], F(n))
  <2>1. n <= n
    BY <1>1
  <2> QED BY <1>11, <2>1, Zenon DEF T
<1>13. Looked(s, n) = Range(s)
  BY <1>1, RangeEquality DEF Looked, n
<1> QED BY <1>7, <1>12, <1>13 DEF A, Founds, FoundLongest, s

-----------------------------------------------------------------------------
(* Scores *)

ScoreUpTo(score, grammemes, optional) ==
  /\ score \in [0..Len(optional) -> Nat]
  /\ score[0] = 0
  /\ \A i \in 1..Len(optional) :
        score[i] = 2 * score[i - 1] + (IF optional[i] \in grammemes THEN 1 ELSE 0)

\* The score of grammemes is made up of that of more and more constraints.
LEMMA OptionalScoreIs ==
  ASSUME NEW S, NEW optional \in Seq(S), NEW grammemes
  PROVE  \E score : ScoreUpTo(score, grammemes, optional)
                    /\ OptionalScore(grammemes, optional) = score[Len(optional)]
<1> DEFINE n == Len(optional)
           bit(i) == IF optional[i] \in grammemes THEN 1 ELSE 0
           step == [i \in 1..n |-> [a \in Nat |-> 2 * a + bit(i)]]
           score[i \in 0..Len(optional)] ==
              IF i = 0 THEN 0 ELSE 2 * score[i - 1] + (IF optional[i] \in grammemes THEN 1 ELSE 0)
           U(g) == [i \in 0..n |-> IF i = 0 THEN 0 ELSE 2 * g[i - 1] + bit(i)]
<1>1. n \in Nat
  BY LenProperties
<1>2. step \in [1..n -> [Nat -> Nat]]
  OBVIOUS
<1>3. PICK f \in [0..n -> Nat] : Recursion(f, n, 0, step)
  <2>1. 0 \in Nat
    OBVIOUS
  <2> HIDE DEF step, n
  <2> QED BY <1>1, <1>2, <2>1, RecursionExists, Zenon
<1>4. f = U(f)
  <2>1. \A i \in 0..n : i # 0 => i \in 1..n /\ i - 1 \in 0..n
    BY <1>1
  <2> HIDE DEF n, bit
  <2>2. \A i \in 0..n : i # 0 => step[i][f[i - 1]] = 2 * f[i - 1] + bit(i)
    BY <1>3, <2>1
  <2> QED BY <1>3, <2>2 DEF Recursion
<1>5. score = U(score)
  <2>1. score = CHOOSE g : g = U(g)
    BY Zenon
  <2> HIDE DEF score, U
  <2> QED BY <1>4, <2>1, Zenon
<1>6. OptionalScore(grammemes, optional) = score[n]
  BY Zenon DEF OptionalScore
<1> HIDE DEF score, n
<1>7. score[0] = 0 /\ \A i \in 1..n : score[i] = 2 * score[i - 1] + bit(i)
  <2> HIDE DEF bit
  <2>1. \A i \in 0..n : score[i] = IF i = 0 THEN 0 ELSE 2 * score[i - 1] + bit(i)
    BY <1>5, Zenon
  <2>2. 0 \in 0..n /\ \A i \in 1..n : i \in 0..n /\ i # 0
    BY <1>1
  <2> QED BY <2>1, <2>2, Zenon
<1>8. \A i \in 0..n : score[i] \in Nat
  <2>1. \A i \in 1..n : score[i - 1] \in Nat => score[i] \in Nat
    <3>1. \A i \in 1..n : bit(i) \in Nat
      OBVIOUS
    <3> HIDE DEF bit
    <3> QED BY <1>7, <3>1
  <2>2. score[0] \in Nat
    BY <1>7
  <2> QED BY <1>1, <2>1, <2>2, Stays, Zenon
<1>9. score \in [0..n -> Nat]
  <2> HIDE DEF bit
  <2>1. score = [i \in 0..n |-> score[i]]
    BY <1>5
  <2> QED BY <1>8, <2>1
<1> QED BY <1>6, <1>7, <1>9 DEF ScoreUpTo, n

LEMMA OptionalScoreType ==
  ASSUME NEW S, NEW optional \in Seq(S), NEW grammemes
  PROVE  OptionalScore(grammemes, optional) \in Nat
<1>1. PICK score : /\ ScoreUpTo(score, grammemes, optional)
                   /\ OptionalScore(grammemes, optional) = score[Len(optional)]
  BY OptionalScoreIs, Zenon
<1>2. Len(optional) \in 0..Len(optional)
  BY LenProperties
<1> QED BY <1>1, <1>2 DEF ScoreUpTo

\* The first constraint that one meets and the other does not decides which
\* score is the higher.
LEMMA FirstOptionDecides ==
  ASSUME NEW S, NEW optional \in Seq(S), NEW g, NEW h, NEW k \in 1..Len(optional),
         optional[k] \in g, optional[k] \notin h,
         \A j \in 1..(k - 1) : optional[j] \in g <=> optional[j] \in h
  PROVE  OptionalScore(g, optional) > OptionalScore(h, optional)
<1> DEFINE n == Len(optional)
<1>1. PICK s : ScoreUpTo(s, g, optional) /\ OptionalScore(g, optional) = s[n]
  BY OptionalScoreIs, Zenon
<1>2. PICK t : ScoreUpTo(t, h, optional) /\ OptionalScore(h, optional) = t[n]
  BY OptionalScoreIs, Zenon
<1>3. n \in Nat /\ k \in 1..n
  BY LenProperties
<1> HIDE DEF n
<1>4. /\ \A i \in 0..n : s[i] \in Nat /\ t[i] \in Nat
      /\ s[0] = 0 /\ t[0] = 0
  BY <1>1, <1>2 DEF ScoreUpTo, n
<1>5. /\ \A i \in 1..n : s[i] = 2 * s[i - 1] + (IF optional[i] \in g THEN 1 ELSE 0)
      /\ \A i \in 1..n : t[i] = 2 * t[i - 1] + (IF optional[i] \in h THEN 1 ELSE 0)
  BY <1>1, <1>2 DEF ScoreUpTo, n
<1> DEFINE Q == {i \in Nat : i <= n => IF i < k THEN s[i] = t[i] ELSE s[i] > t[i]}
<1>6. 0 \in Q
  BY <1>3, <1>4
<1>7. ASSUME NEW i \in Nat, i \in Q PROVE i + 1 \in Q
  <2> SUFFICES ASSUME i + 1 <= n
               PROVE  IF i + 1 < k THEN s[i + 1] = t[i + 1] ELSE s[i + 1] > t[i + 1]
    OBVIOUS
  <2>1. i <= n /\ i \in 0..n /\ i + 1 \in 1..n /\ (i + 1) - 1 = i
    BY <1>3
  <2>2. /\ s[i + 1] = 2 * s[i] + (IF optional[i + 1] \in g THEN 1 ELSE 0)
        /\ t[i + 1] = 2 * t[i] + (IF optional[i + 1] \in h THEN 1 ELSE 0)
    BY <1>5, <2>1
  <2>3. s[i] \in Nat /\ t[i] \in Nat /\ IF i < k THEN s[i] = t[i] ELSE s[i] > t[i]
    BY <1>4, <1>7, <2>1
  <2>4. CASE i + 1 < k
    <3>1. i + 1 \in 1..(k - 1) /\ i < k
      BY <1>3, <2>4
    <3> QED BY <2>2, <2>3, <2>4, <3>1
  <2>5. CASE i + 1 = k
    <3>1. i < k /\ ~(i + 1 < k)
      BY <1>3, <2>5
    <3> QED BY <2>2, <2>3, <2>5, <3>1
  <2>6. CASE i + 1 > k
    <3>1. ~(i < k) /\ ~(i + 1 < k)
      BY <1>3, <2>6
    <3> QED BY <2>2, <2>3, <3>1
  <2> QED BY <1>3, <2>4, <2>5, <2>6
<1> HIDE DEF Q
<1>8. n \in Q
  BY <1>3, <1>6, <1>7, SetInduction
<1>9. s[n] > t[n]
  BY <1>3, <1>8 DEF Q
<1> QED BY <1>1, <1>2, <1>9

\* Those that meet the same constraints score the same.
LEMMA SameOptionsSameScore ==
  ASSUME NEW S, NEW optional \in Seq(S), NEW g, NEW h,
         \A j \in 1..Len(optional) : optional[j] \in g <=> optional[j] \in h
  PROVE  OptionalScore(g, optional) = OptionalScore(h, optional)
<1> DEFINE n == Len(optional)
<1>1. PICK s : ScoreUpTo(s, g, optional) /\ OptionalScore(g, optional) = s[n]
  BY OptionalScoreIs, Zenon
<1>2. PICK t : ScoreUpTo(t, h, optional) /\ OptionalScore(h, optional) = t[n]
  BY OptionalScoreIs, Zenon
<1>3. n \in Nat
  BY LenProperties
<1> HIDE DEF n
<1>4. /\ s[0] = t[0]
      /\ \A i \in 1..n : s[i] = 2 * s[i - 1] + (IF optional[i] \in g THEN 1 ELSE 0)
      /\ \A i \in 1..n : t[i] = 2 * t[i - 1] + (IF optional[i] \in h THEN 1 ELSE 0)
  BY <1>1, <1>2 DEF ScoreUpTo, n
<1> DEFINE Q == {i \in Nat : i <= n => s[i] = t[i]}
<1>5. 0 \in Q
  BY <1>4
<1>6. ASSUME NEW i \in Nat, i \in Q PROVE i + 1 \in Q
  <2> SUFFICES ASSUME i + 1 <= n PROVE s[i + 1] = t[i + 1]
    OBVIOUS
  <2>1. i <= n /\ i + 1 \in 1..n /\ (i + 1) - 1 = i
    BY <1>3
  <2>2. /\ s[i + 1] = 2 * s[i] + (IF optional[i + 1] \in g THEN 1 ELSE 0)
        /\ t[i + 1] = 2 * t[i] + (IF optional[i + 1] \in h THEN 1 ELSE 0)
    BY <1>4, <2>1
  <2>3. s[i] = t[i] /\ (optional[i + 1] \in g <=> optional[i + 1] \in h)
    BY <1>6, <2>1 DEF n
  <2> QED BY <2>2, <2>3, Zenon
<1> HIDE DEF Q
<1>7. n \in Q
  BY <1>3, <1>5, <1>6, SetInduction
<1> QED BY <1>1, <1>2, <1>3, <1>7 DEF Q

Scores == Nat \X Nat \X Int

LEMMA ScoreType ==
  ASSUME NEW letters, NEW x \in InflectionsOver(letters), IsFiniteSet(Range(Grammemes)),
         NEW from, NEW to, IsFiniteSet(to), NEW S, NEW optional \in Seq(S)
  PROVE  Score(x, from, to, optional) \in Scores
<1>1. OptionalScore(x.grammemes, optional) \in Nat
  BY OptionalScoreType
<1>2. IsFiniteSet(x.grammemes) /\ IsFiniteSet(x.grammemes \cap from)
  BY FS_Subset DEF InflectionsOver
<1>3. Cardinality(x.grammemes) \in Nat /\ Cardinality(x.grammemes \cap from) \in Nat /\ Cardinality(to) \in Nat
  BY <1>2, FS_CardinalityType
<1>4. Cardinality(to) - Cardinality(x.grammemes) \in Int
  BY <1>3
<1> QED BY <1>1, <1>3, <1>4 DEF Score, Scores

LEMMA HigherIs ==
  ASSUME NEW s \in Scores, NEW t \in Scores
  PROVE  Higher(s, t) <=> \/ s[1] > t[1]
                          \/ s[1] = t[1] /\ s[2] > t[2]
                          \/ s[1] = t[1] /\ s[2] = t[2] /\ s[3] > t[3]
<1> DEFINE H(k) == s[k] > t[k] /\ \A j \in 1..(k - 1) : s[j] = t[j]
<1>1. Higher(s, t) <=> H(1) \/ H(2) \/ H(3)
  <2>1. \A k : k \in 1..3 <=> (k = 1 \/ k = 2 \/ k = 3)
    OBVIOUS
  <2> QED BY <2>1, Zenon DEF Higher
<1>2. H(1) <=> s[1] > t[1]
  OBVIOUS
<1>3. H(2) <=> s[2] > t[2] /\ s[1] = t[1]
  <2>1. \A j : j \in 1..(2 - 1) <=> j = 1
    OBVIOUS
  <2> QED BY <2>1, Zenon
<1>4. H(3) <=> s[3] > t[3] /\ s[1] = t[1] /\ s[2] = t[2]
  <2>1. \A j : j \in 1..(3 - 1) <=> (j = 1 \/ j = 2)
    OBVIOUS
  <2> QED BY <2>1, Zenon
<1> HIDE DEF H
<1> QED BY <1>1, <1>2, <1>3, <1>4, Zenon

LEMMA HigherOrder ==
  ASSUME NEW s \in Scores, NEW t \in Scores, NEW u \in Scores
  PROVE  /\ ~Higher(s, s)
         /\ Higher(s, t) /\ Higher(t, u) => Higher(s, u)
<1>1. /\ s[1] \in Int /\ t[1] \in Int /\ u[1] \in Int
      /\ s[2] \in Int /\ t[2] \in Int /\ u[2] \in Int
      /\ s[3] \in Int /\ t[3] \in Int /\ u[3] \in Int
  BY DEF Scores
<1>2. /\ Higher(s, s) <=> \/ s[1] > s[1]
                          \/ s[1] = s[1] /\ s[2] > s[2]
                          \/ s[1] = s[1] /\ s[2] = s[2] /\ s[3] > s[3]
      /\ Higher(s, t) <=> \/ s[1] > t[1]
                          \/ s[1] = t[1] /\ s[2] > t[2]
                          \/ s[1] = t[1] /\ s[2] = t[2] /\ s[3] > t[3]
      /\ Higher(t, u) <=> \/ t[1] > u[1]
                          \/ t[1] = u[1] /\ t[2] > u[2]
                          \/ t[1] = u[1] /\ t[2] = u[2] /\ t[3] > u[3]
      /\ Higher(s, u) <=> \/ s[1] > u[1]
                          \/ s[1] = u[1] /\ s[2] > u[2]
                          \/ s[1] = u[1] /\ s[2] = u[2] /\ s[3] > u[3]
  BY HigherIs, Zenon
<1> QED BY <1>1, <1>2

-----------------------------------------------------------------------------
(* The walk over the inflections of a pattern *)

Considereds(letters) == [stripped : Nat, suffix : Seq(letters), score : Scores \cup {<< >>}]

Strippable(S, from, surface) ==
  {r \in S : (from = {} \/ r.grammemes \subseteq from) /\ IsSuffix(r.suffix, surface)}

\* Inflections with all grammemes asked for.
AsAsked(S, to) == {r \in S : to \subseteq r.grammemes}

\* A length that is that of the longest suffix among inflections.
IsLongestIn(length, S) ==
  /\ \A r \in S : Len(r.suffix) <= length
  /\ length = 0 \/ \E r \in S : Len(r.suffix) = length

\* An inflection as asked that none outdoes.
IsBestIn(r, S, from, to, optional) ==
  /\ r \in AsAsked(S, to)
  /\ \A q \in AsAsked(S, to) : ~Higher(Score(q, from, to, optional), Score(r, from, to, optional))

FoundBest(found, S, from, to, optional) ==
  IF AsAsked(S, to) = {} THEN found.score = << >>
  ELSE \E r \in S : /\ IsBestIn(r, S, from, to, optional)
                    /\ found.score = Score(r, from, to, optional) /\ found.suffix = r.suffix

\* What the walk needs to know of what it is asked.
LEMMA ScoresAre ==
  ASSUME NEW letters, LexiconOver(letters), NEW from, NEW to, IsFiniteSet(to),
         NEW G, NEW optional \in Seq(G)
  PROVE  /\ \A r \in InflectionsOver(letters) : Score(r, from, to, optional) \in Scores
         /\ << >> \notin Scores
<1>1. IsFiniteSet(Range(Grammemes))
  BY DEF LexiconOver
<1>2. \A r \in InflectionsOver(letters) : Score(r, from, to, optional) \in Scores
  BY <1>1, ScoreType, Zenon
<1>3. << >> \notin Scores
  BY DEF Scores
<1> QED BY <1>2, <1>3

LEMMA ConsideredIs ==
  ASSUME NEW letters, LexiconOver(letters), NEW found \in Considereds(letters),
         NEW x \in InflectionsOver(letters), NEW surface, NEW from, NEW to, IsFiniteSet(to),
         NEW G, NEW optional \in Seq(G)
  PROVE  LET next == Considered(found, x, from, to, optional, surface)
             better == to \subseteq x.grammemes
                         /\ (found.score = << >> \/ Higher(Score(x, from, to, optional), found.score))
             strips == /\ (from = {} \/ x.grammemes \subseteq from) /\ found.stripped < Len(x.suffix)
                       /\ IsSuffix(x.suffix, surface)
         IN  /\ next \in Considereds(letters)
             /\ next.stripped = IF strips THEN Len(x.suffix) ELSE found.stripped
             /\ next.suffix = IF better THEN x.suffix ELSE found.suffix
             /\ next.score = IF better THEN Score(x, from, to, optional) ELSE found.score
<1> DEFINE next == Considered(found, x, from, to, optional, surface)
           score == Score(x, from, to, optional)
           better == to \subseteq x.grammemes /\ (found.score = << >> \/ Higher(score, found.score))
           strips == /\ (from = {} \/ x.grammemes \subseteq from) /\ found.stripped < Len(x.suffix)
                     /\ IsSuffix(x.suffix, surface)
           stripped == IF strips THEN Len(x.suffix) ELSE found.stripped
<1>1. next = IF better THEN [stripped |-> stripped, suffix |-> x.suffix, score |-> score]
             ELSE [found EXCEPT !.stripped = stripped]
  BY Zenon DEF Considered
<1>2. score \in Scores
  BY ScoresAre, Zenon
<1>3. stripped \in Nat
  BY SuffixLength DEF Considereds
<1>4. x.suffix \in Seq(letters)
  BY DEF InflectionsOver
<1> SUFFICES /\ next \in Considereds(letters)
             /\ next.stripped = stripped
             /\ next.suffix = IF better THEN x.suffix ELSE found.suffix
             /\ next.score = IF better THEN score ELSE found.score
  OBVIOUS
<1> HIDE DEF next, score, better, strips, stripped
<1>5. CASE better
  <2>1. next = [stripped |-> stripped, suffix |-> x.suffix, score |-> score]
    BY <1>1, <1>5, Zenon
  <2> QED BY <1>2, <1>3, <1>4, <1>5, <2>1 DEF Considereds
<1>6. CASE ~better
  <2>1. next = [found EXCEPT !.stripped = stripped]
    BY <1>1, <1>6, Zenon
  <2> QED BY <1>3, <1>6, <2>1 DEF Considereds
<1> QED BY <1>5, <1>6

\* One more inflection is taken into account.
LEMMA ConsideredFinds ==
  ASSUME NEW letters, LexiconOver(letters), NEW found \in Considereds(letters),
         NEW x \in InflectionsOver(letters), NEW surface, NEW from, NEW to, IsFiniteSet(to),
         NEW G, NEW optional \in Seq(G), NEW S, S \subseteq InflectionsOver(letters),
         IsLongestIn(found.stripped, Strippable(S, from, surface)),
         FoundBest(found, S, from, to, optional)
  PROVE  LET next == Considered(found, x, from, to, optional, surface)
         IN  /\ IsLongestIn(next.stripped, Strippable(S \cup {x}, from, surface))
             /\ FoundBest(next, S \cup {x}, from, to, optional)
<1> DEFINE next == Considered(found, x, from, to, optional, surface)
           T == S \cup {x}
           I == InflectionsOver(letters)
           V(r) == Score(r, from, to, optional)
           able == to \subseteq x.grammemes
           better == able /\ (found.score = << >> \/ Higher(V(x), found.score))
           mayStrip == (from = {} \/ x.grammemes \subseteq from) /\ IsSuffix(x.suffix, surface)
<1>1. /\ next.stripped = IF mayStrip /\ found.stripped < Len(x.suffix) THEN Len(x.suffix) ELSE found.stripped
      /\ next.suffix = IF better THEN x.suffix ELSE found.suffix
      /\ next.score = IF better THEN V(x) ELSE found.score
  BY ConsideredIs
<1>2. /\ \A r \in I : V(r) \in Scores
      /\ << >> \notin Scores
  BY ScoresAre, Zenon
<1>3. /\ \A r \in I : Len(r.suffix) \in Nat
      /\ found.stripped \in Nat /\ x \in I
  BY SuffixLength DEF Considereds
<1>4. Strippable(T, from, surface) = Strippable(S, from, surface) \cup (IF mayStrip THEN {x} ELSE {})
  BY DEF Strippable
<1>5. AsAsked(T, to) = AsAsked(S, to) \cup (IF able THEN {x} ELSE {})
  BY DEF AsAsked
<1> SUFFICES /\ IsLongestIn(next.stripped, Strippable(T, from, surface))
             /\ FoundBest(next, T, from, to, optional)
  OBVIOUS
<1> HIDE DEF next, mayStrip, able
<1>6. IsLongestIn(next.stripped, Strippable(T, from, surface))
  <2> DEFINE Z == Strippable(S, from, surface)
  <2>1. Z \subseteq I /\ (\A r \in Z : Len(r.suffix) <= found.stripped)
        /\ (found.stripped = 0 \/ \E r \in Z : Len(r.suffix) = found.stripped)
    BY DEF Strippable, IsLongestIn
  <2> HIDE DEF Z, I, T
  <2>2. CASE ~mayStrip
    <3>1. Strippable(T, from, surface) = Z /\ next.stripped = found.stripped
      BY <1>1, <1>4, <2>2 DEF Z
    <3> QED BY <3>1 DEF Z
  <2>3. CASE mayStrip
    <3>1. Strippable(T, from, surface) = Z \cup {x}
      BY <1>4, <2>3 DEF Z
    <3>2. next.stripped = IF found.stripped < Len(x.suffix) THEN Len(x.suffix) ELSE found.stripped
      BY <1>1, <2>3
    <3>3. \A r \in Z \cup {x} : Len(r.suffix) <= next.stripped
      BY <1>3, <2>1, <3>2
    <3>4. next.stripped = 0 \/ \E r \in Z \cup {x} : Len(r.suffix) = next.stripped
      BY <1>3, <2>1, <3>2
    <3> QED BY <3>1, <3>3, <3>4, Zenon DEF IsLongestIn
  <2> QED BY <2>2, <2>3
<1>7. FoundBest(next, T, from, to, optional)
  <2> DEFINE Y == AsAsked(S, to)
  <2>1. Y \subseteq I /\ Y \subseteq S
    BY DEF AsAsked
  <2>2. IF Y = {} THEN found.score = << >>
        ELSE \E r \in Y : /\ \A q \in Y : ~Higher(V(q), V(r))
                          /\ found.score = V(r) /\ found.suffix = r.suffix
    BY Zenon DEF FoundBest, IsBestIn
  <2> SUFFICES IF AsAsked(T, to) = {} THEN next.score = << >>
               ELSE \E r \in AsAsked(T, to) :
                       /\ \A q \in AsAsked(T, to) : ~Higher(V(q), V(r))
                       /\ next.score = V(r) /\ next.suffix = r.suffix
    <3>1. AsAsked(T, to) \subseteq T
      BY DEF AsAsked
    <3> HIDE DEF T
    <3> QED BY <3>1, Zenon DEF FoundBest, IsBestIn
  <2> HIDE DEF Y, T, I, V
  <2>3. CASE ~able
    <3>1. AsAsked(T, to) = Y /\ next.score = found.score /\ next.suffix = found.suffix
      BY <1>1, <1>5, <2>3 DEF Y
    <3> QED BY <2>2, <3>1, Zenon
  <2>4. CASE better
    <3>1. AsAsked(T, to) = Y \cup {x} /\ next.score = V(x) /\ next.suffix = x.suffix
      BY <1>1, <1>5, <2>4 DEF Y
    <3>2. ASSUME NEW q \in Y \cup {x} PROVE ~Higher(V(q), V(x))
      <4>1. V(q) \in Scores /\ V(x) \in Scores
        BY <1>2, <1>3, <2>1
      <4>2. CASE q = x
        BY <4>1, <4>2, HigherOrder
      <4>3. CASE q \in Y
        <5>1. Y # {}
          BY <4>3
        <5>2. PICK r \in Y : (\A z \in Y : ~Higher(V(z), V(r))) /\ found.score = V(r)
          BY <2>2, <5>1, Zenon
        <5>3. V(r) \in Scores /\ found.score # << >>
          BY <1>2, <2>1, <5>2
        <5>4. Higher(V(x), V(r)) /\ ~Higher(V(q), V(r))
          BY <2>4, <4>3, <5>2, <5>3
        <5> QED BY <4>1, <5>3, <5>4, HigherOrder, Zenon
      <4> QED BY <4>2, <4>3
    <3> QED BY <3>1, <3>2, Zenon
  <2>5. CASE able /\ ~better
    <3>1. AsAsked(T, to) = Y \cup {x} /\ next.score = found.score /\ next.suffix = found.suffix
      BY <1>1, <1>5, <2>5 DEF Y
    <3>2. found.score # << >> /\ ~Higher(V(x), found.score)
      BY <2>5, Zenon
    <3>3. Y # {}
      BY <2>2, <3>2, Zenon
    <3>4. PICK r \in Y : (\A z \in Y : ~Higher(V(z), V(r))) /\ found.score = V(r) /\ found.suffix = r.suffix
      BY <2>2, <3>3, Zenon
    <3>5. r \in Y \cup {x} /\ \A q \in Y \cup {x} : ~Higher(V(q), V(r))
      BY <3>2, <3>4
    <3> QED BY <3>1, <3>4, <3>5, Zenon
  <2> QED BY <2>3, <2>4, <2>5, Zenon DEF better
<1> QED BY <1>6, <1>7, Zenon

LEMMA ReinflectedFinds ==
  ASSUME NEW letters, LexiconOver(letters), NEW p \in DOMAIN Patterns, NEW surface, NEW from,
         NEW to, IsFiniteSet(to), NEW G, NEW optional \in Seq(G)
  PROVE  LET found == Reinflected(p, from, to, optional, surface)
             S == Range(InflectionsOf(p))
         IN  /\ found \in Considereds(letters)
             /\ IsLongestIn(found.stripped, Strippable(S, from, surface))
             /\ FoundBest(found, S, from, to, optional)
<1> DEFINE s == InflectionsOf(p)
           n == Len(s)
           A == Considereds(letters)
           none == [stripped |-> 0, suffix |-> <<>>, score |-> <<>>]
           C(a, i) == Considered(a, s[i], from, to, optional, surface)
           step == [i \in 1..n |-> [a \in A |-> C(a, i)]]
           found[i \in 0..Len(InflectionsOf(p))] ==
              IF i = 0 THEN [stripped |-> 0, suffix |-> <<>>, score |-> <<>>]
              ELSE Considered(found[i - 1], InflectionsOf(p)[i], from, to, optional, surface)
           U(g) == [i \in 0..n |-> IF i = 0 THEN none ELSE C(g[i - 1], i)]
           L(i) == Looked(s, i)
           Right(a, S) == /\ IsLongestIn(a.stripped, Strippable(S, from, surface))
                          /\ FoundBest(a, S, from, to, optional)
<1>1. /\ n \in Nat /\ s \in Seq(InflectionsOver(letters))
      /\ \A i \in 1..n : s[i] \in InflectionsOver(letters)
  BY LexiconFacts, LenProperties, ElementOfSeq
<1>2. none \in A
  <2>1. << >> \in Seq(letters) /\ 0 \in Nat
    OBVIOUS
  <2> QED BY <2>1 DEF Considereds
<1>3. step \in [1..n -> [A -> A]]
  <2> SUFFICES ASSUME NEW i \in 1..n, NEW a \in A PROVE C(a, i) \in A
    OBVIOUS
  <2> QED BY <1>1, ConsideredIs, Zenon
<1>4. PICK f \in [0..n -> A] : Recursion(f, n, none, step)
  <2> HIDE DEF step, A, n, none
  <2> QED BY <1>1, <1>2, <1>3, RecursionExists, Zenon
<1>5. f = U(f)
  <2>1. \A i \in 0..n : i # 0 => i \in 1..n /\ i - 1 \in 0..n
    BY <1>1
  <2> HIDE DEF A, n, none, s, C
  <2>2. \A i \in 0..n : i # 0 => step[i][f[i - 1]] = C(f[i - 1], i)
    BY <1>4, <2>1
  <2> QED BY <1>4, <2>2 DEF Recursion
<1>6. found = U(found)
  <2>1. found = CHOOSE g : g = U(g)
    BY Zenon
  <2> HIDE DEF found, U
  <2> QED BY <1>5, <2>1, Zenon
<1>7. Reinflected(p, from, to, optional, surface) = found[n]
  BY Zenon DEF Reinflected
<1> HIDE DEF found, none, n, A, s
<1>8. found[0] = none /\ \A i \in 1..n : found[i] = C(found[i - 1], i)
  <2> HIDE DEF C
  <2>1. \A i \in 0..n : found[i] = IF i = 0 THEN none ELSE C(found[i - 1], i)
    BY <1>6, Zenon
  <2>2. 0 \in 0..n /\ \A i \in 1..n : i \in 0..n /\ i # 0
    BY <1>1
  <2> QED BY <2>1, <2>2, Zenon
<1> DEFINE T == {i \in Nat : i <= n => found[i] \in A /\ Right(found[i], L(i))}
<1>9. 0 \in T
  <2>1. L(0) = {}
    BY DEF Looked
  <2>2. Right(none, {})
    BY DEF IsLongestIn, Strippable, FoundBest, AsAsked, none
  <2> HIDE DEF L, Right
  <2> QED BY <1>2, <1>8, <2>1, <2>2
<1>10. ASSUME NEW i \in Nat, i \in T PROVE i + 1 \in T
  <2> SUFFICES ASSUME i + 1 <= n PROVE found[i + 1] \in A /\ Right(found[i + 1], L(i + 1))
    OBVIOUS
  <2>1. i <= n /\ i + 1 \in 1..n /\ (i + 1) - 1 = i /\ i + 1 \in Nat \ {0}
    BY <1>1
  <2> HIDE DEF L, Right
  <2>2. found[i] \in A /\ Right(found[i], L(i)) /\ s[i + 1] \in InflectionsOver(letters)
    BY <1>1, <1>10, <2>1
  <2>3. L(i) \subseteq InflectionsOver(letters)
    BY <1>1, <2>1 DEF Looked, L
  <2>4. L(i + 1) = L(i) \cup {s[i + 1]}
    BY <2>1, LookedNext DEF L
  <2>5. found[i + 1] = Considered(found[i], s[i + 1], from, to, optional, surface)
    BY <1>8, <2>1
  <2> DEFINE next == Considered(found[i], s[i + 1], from, to, optional, surface)
  <2>6. next \in Considereds(letters)
    BY <2>2, ConsideredIs, Zenon DEF A
  <2>7. /\ IsLongestIn(next.stripped, Strippable(L(i) \cup {s[i + 1]}, from, surface))
        /\ FoundBest(next, L(i) \cup {s[i + 1]}, from, to, optional)
    BY <2>2, <2>3, ConsideredFinds, Zenon DEF A, Right
  <2> QED BY <2>4, <2>5, <2>6, <2>7, Zenon DEF A, Right
<1> HIDE DEF T
<1>11. n \in T
  BY <1>1, <1>9, <1>10, SetInduction
<1>12. found[n] \in A /\ Right(found[n], L(n))
  <2>1. n <= n
    BY <1>1
  <2> QED BY <1>11, <2>1, Zenon DEF T
<1>13. L(n) = Range(s)
  BY <1>1, RangeEquality DEF Looked, n
<1> HIDE DEF L
<1> QED BY <1>7, <1>12, <1>13, Zenon DEF A, s

\* What becomes of a word that is put into another form: nothing, if no
\* inflection of the pattern has all that is asked, else its stem with the
\* ending of the best of them.
PutInto(form, p, surface, from, to, optional, letters) ==
  IF AsAsked(Range(InflectionsOf(p)), to) = {} THEN form = << >>
  ELSE \E r \in Range(InflectionsOf(p)), stem \in Seq(letters), ending \in Seq(letters) :
          /\ IsBestIn(r, Range(InflectionsOf(p)), from, to, optional)
          /\ IsLongestIn(Len(ending), Strippable(Range(InflectionsOf(p)), from, surface))
          /\ surface = stem \o ending
          /\ form = stem \o r.suffix

\* A word that is not yet what it is asked to be gets the ending of an
\* inflection of its pattern that is all that was asked and that none outdoes
\* (more of the optional constraints in their order, then more of what the
\* word was, then less besides), in the place of the longest ending that one
\* with the grammemes of the word has in common with it; what is in front of
\* it stays.  It gets none only if no inflection of the pattern is what was
\* asked (Inflector_InflectionPattern::reinflectImplementation).
THEOREM Reinflects ==
  ASSUME NEW letters, LexiconOver(letters), NEW p \in DOMAIN Patterns, NEW surface \in Seq(letters),
         NEW from, NEW to, IsFiniteSet(to), NEW G, NEW optional \in Seq(G),
         to # {}, ~to \subseteq from
  PROVE  PutInto(Reinflect(p, from, to, optional, surface), p, surface, from, to, optional, letters)
<1> DEFINE S == Range(InflectionsOf(p))
           found == Reinflected(p, from, to, optional, surface)
           k == found.stripped
           stem == SubSeq(surface, 1, Len(surface) - k)
           form == Reinflect(p, from, to, optional, surface)
<1>1. /\ found \in Considereds(letters)
      /\ IsLongestIn(k, Strippable(S, from, surface))
      /\ FoundBest(found, S, from, to, optional)
  BY ReinflectedFinds, Zenon
<1>2. form = IF found.score = << >> THEN << >> ELSE stem \o found.suffix
  BY Zenon DEF Reinflect
<1> HIDE DEF form, found
<1>3. CASE AsAsked(S, to) = {}
  <2>1. form = << >>
    BY <1>1, <1>2, <1>3, Zenon DEF FoundBest
  <2> QED BY <1>3, <2>1, Zenon DEF S, form, PutInto
<1>4. CASE AsAsked(S, to) # {}
  <2>1. PICK r \in S : /\ IsBestIn(r, S, from, to, optional)
                       /\ found.score = Score(r, from, to, optional) /\ found.suffix = r.suffix
    BY <1>1, <1>4, Zenon DEF FoundBest
  <2>2. S \subseteq InflectionsOver(letters)
    BY LexiconFacts, RangeOfSeq
  <2>3. Score(r, from, to, optional) # << >>
    BY <2>1, <2>2, ScoresAre
  <2>4. form = stem \o r.suffix
    BY <1>2, <2>1, <2>3, Zenon
  <2>5. \E ending \in Seq(letters) : /\ stem \in Seq(letters) /\ surface = stem \o ending
                                     /\ Len(ending) = k
    <3>1. CASE k = 0
      <4>1. stem = surface
        <5>1. Len(surface) - k = Len(surface)
          BY <3>1, LenProperties
        <5> QED BY <5>1, SubSeqFull
      <4>2. surface \o << >> = surface /\ << >> \in Seq(letters) /\ Len(<< >>) = 0
        BY ConcatEmptySeq, EmptySeq
      <4> HIDE DEF stem, k
      <4> QED BY <3>1, <4>1, <4>2
    <3>2. CASE k # 0
      <4>1. PICK q \in Strippable(S, from, surface) : Len(q.suffix) = k
        BY <1>1, <3>2, Zenon DEF IsLongestIn
      <4>2. q.suffix \in Seq(letters) /\ IsSuffix(q.suffix, surface)
        BY <2>2, <4>1 DEF Strippable, InflectionsOver
      <4>3. /\ SubSeq(surface, 1, Len(surface) - Len(q.suffix)) \in Seq(letters)
            /\ SubSeq(surface, 1, Len(surface) - Len(q.suffix)) \o q.suffix = surface
        BY <4>2, SuffixEnds, Zenon
      <4> HIDE DEF k
      <4> QED BY <4>1, <4>2, <4>3, Zenon
    <3> QED BY <3>1, <3>2
  <2> HIDE DEF S, stem, k
  <2>6. PICK ending \in Seq(letters) : stem \in Seq(letters) /\ surface = stem \o ending /\ Len(ending) = k
    BY <2>5, Zenon
  <2>7. \E x \in S, u \in Seq(letters), e \in Seq(letters) :
           /\ IsBestIn(x, S, from, to, optional)
           /\ IsLongestIn(Len(e), Strippable(S, from, surface))
           /\ surface = u \o e
           /\ form = u \o x.suffix
    BY <1>1, <2>1, <2>4, <2>6, Zenon
  <2> QED BY <1>4, <2>7, Zenon DEF S, form, PutInto
<1> QED BY <1>3, <1>4

-----------------------------------------------------------------------------
(* The order of the candidates *)

LEMMA Least ==
  ASSUME NEW S, S \subseteq Nat, S # {}
  PROVE  \E m \in S : \A k \in S : m <= k
<1> DEFINE R == {ss \in Nat \X Nat : ss[1] < ss[2]}
<1>1. IsWellFoundedOn(R, Nat)
  BY NatLessThanWellFounded DEF OpToRel
<1>2. PICK m \in S : \A k \in S : <<k, m>> \notin R
  <2> HIDE DEF R
  <2> QED BY <1>1, WFMin
<1>3. ASSUME NEW k \in S PROVE m <= k
  <2>1. k \in Nat /\ m \in Nat
    OBVIOUS
  <2>2. ~(k < m)
    BY <1>2, <2>1
  <2> QED BY <2>1, <2>2
<1> QED BY <1>3

\* A lexicographer with tables of grammemes.
Lexicographer(who) == who.priorities \in Seq(Seq(Range(Grammemes)))

LEMMA RankType ==
  ASSUME NEW G, NEW table \in Seq(G), NEW grammemes
  PROVE  Rank(table, grammemes) \in Nat
<1> DEFINE at == {i \in DOMAIN table : table[i] \in grammemes}
<1>1. Len(table) \in Nat /\ DOMAIN table = 1..Len(table)
  BY LenProperties
<1>2. CASE at = {}
  <2>1. Rank(table, grammemes) = Len(table) + 1
    BY <1>2 DEF Rank
  <2> QED BY <1>1, <2>1
<1>3. CASE at # {}
  <2>1. at \subseteq Nat
    BY <1>1
  <2>2. Rank(table, grammemes) = CHOOSE i \in at : \A j \in at : i <= j
    BY <1>3, Zenon DEF Rank
  <2> HIDE DEF at
  <2>3. \E i \in at : \A j \in at : i <= j
    BY <1>3, <2>1, Least
  <2>4. Rank(table, grammemes) \in at
    BY <2>2, <2>3, Zenon
  <2> QED BY <2>1, <2>4
<1> QED BY <1>2, <1>3

RankIn(who, k, grammemes) == Rank(who.priorities[k], grammemes)

\* The first table that tells sets of grammemes apart decides.
LEMMA CompareIs ==
  ASSUME NEW who, Lexicographer(who), NEW S, NEW T
  PROVE  /\ CompareGrammemes(who, S, T) \in Int
         /\ CompareGrammemes(who, S, T) = 0
              <=> \A k \in 1..Len(who.priorities) : RankIn(who, k, S) = RankIn(who, k, T)
         /\ CompareGrammemes(who, S, T) < 0
              <=> \E k \in 1..Len(who.priorities) :
                     /\ RankIn(who, k, S) < RankIn(who, k, T)
                     /\ \A j \in 1..(k - 1) : RankIn(who, j, S) = RankIn(who, j, T)
<1> DEFINE n == Len(who.priorities)
           a(k) == RankIn(who, k, S)
           b(k) == RankIn(who, k, T)
           differ == {k \in DOMAIN who.priorities : a(k) # b(k)}
           first == CHOOSE k \in differ : \A j \in differ : k <= j
           compared == CompareGrammemes(who, S, T)
<1>1. n \in Nat /\ DOMAIN who.priorities = 1..n
  BY LenProperties DEF Lexicographer
<1>2. ASSUME NEW k \in 1..n PROVE a(k) \in Nat /\ b(k) \in Nat
  <2>1. who.priorities[k] \in Seq(Range(Grammemes))
    BY <1>1, ElementOfSeq DEF Lexicographer
  <2> QED BY <2>1, RankType DEF RankIn
<1>3. compared = IF differ = {} THEN 0 ELSE a(first) - b(first)
  BY Zenon DEF CompareGrammemes, RankIn
<1> SUFFICES /\ compared \in Int
             /\ compared = 0 <=> \A k \in 1..n : a(k) = b(k)
             /\ compared < 0 <=> \E k \in 1..n : a(k) < b(k) /\ \A j \in 1..(k - 1) : a(j) = b(j)
  OBVIOUS
<1> HIDE DEF n, compared, a, b
<1>4. CASE differ = {}
  <2>1. \A k \in 1..n : a(k) = b(k)
    BY <1>1, <1>4
  <2>2. compared = 0
    BY <1>3, <1>4
  <2>3. \A k \in 1..n : ~(a(k) < b(k))
    BY <1>2, <2>1
  <2> QED BY <2>1, <2>2, <2>3
<1>5. CASE differ # {}
  <2>1. differ \subseteq Nat /\ differ \subseteq 1..n
    BY <1>1
  <2> HIDE DEF differ
  <2>2. \E k \in differ : \A j \in differ : k <= j
    BY <1>5, <2>1, Least
  <2>3. first \in differ /\ \A j \in differ : first <= j
    BY <2>2, Zenon
  <2> HIDE DEF first
  <2>4. first \in 1..n /\ a(first) # b(first) /\ a(first) \in Nat /\ b(first) \in Nat
    BY <1>2, <2>1, <2>3 DEF differ
  <2>5. \A j \in 1..(first - 1) : a(j) = b(j)
    BY <1>1, <2>3, <2>4 DEF differ
  <2>6. compared = a(first) - b(first)
    BY <1>3, <1>5
  <2>7. compared < 0 => \E k \in 1..n : a(k) < b(k) /\ \A j \in 1..(k - 1) : a(j) = b(j)
    BY <2>4, <2>5, <2>6
  <2>8. ASSUME NEW k \in 1..n, a(k) < b(k), \A j \in 1..(k - 1) : a(j) = b(j)
        PROVE  compared < 0
    <3>1. a(k) \in Nat /\ b(k) \in Nat
      BY <1>2
    <3>2. ~(first < k)
      BY <1>1, <2>4, <2>8
    <3>3. ~(k < first)
      BY <1>1, <2>4, <2>5, <2>8, <3>1
    <3>4. k = first
      BY <1>1, <2>4, <3>2, <3>3
    <3> QED BY <2>4, <2>6, <2>8, <3>4
  <2>9. compared \in Int /\ compared # 0 /\ ~\A k \in 1..n : a(k) = b(k)
    BY <2>4, <2>6
  <2> QED BY <2>7, <2>8, <2>9
<1> QED BY <1>4, <1>5

\* Comparing is a total order of the ranks.
PriorityOrder(who, S, T, V) ==
  LET c(X, Y) == CompareGrammemes(who, X, Y)
  IN  /\ c(S, T) \in Int
      /\ c(S, S) = 0
      /\ c(S, T) = 0 => c(T, S) = 0
      /\ c(S, T) < 0 => ~(c(T, S) < 0) /\ c(T, S) # 0
      /\ c(S, T) = 0 \/ c(S, T) < 0 \/ c(T, S) < 0
      /\ c(S, T) < 0 /\ c(T, V) < 0 => c(S, V) < 0
      /\ c(S, T) < 0 /\ c(T, V) = 0 => c(S, V) < 0
      /\ c(S, T) = 0 /\ c(T, V) < 0 => c(S, V) < 0
      /\ c(S, T) = 0 /\ c(T, V) = 0 => c(S, V) = 0

LEMMA CompareOrder ==
  ASSUME NEW who, Lexicographer(who), NEW S, NEW T, NEW V
  PROVE  PriorityOrder(who, S, T, V)
<1> DEFINE n == Len(who.priorities)
           r(k, X) == RankIn(who, k, X)
           c(X, Y) == CompareGrammemes(who, X, Y)
           Less(X, Y) == \E k \in 1..n : r(k, X) < r(k, Y) /\ \A j \in 1..(k - 1) : r(j, X) = r(j, Y)
           Same(X, Y) == \A k \in 1..n : r(k, X) = r(k, Y)
<1>1. n \in Nat /\ DOMAIN who.priorities = 1..n
  BY LenProperties DEF Lexicographer
<1>2. ASSUME NEW k \in 1..n, NEW X PROVE r(k, X) \in Nat
  <2>1. who.priorities[k] \in Seq(Range(Grammemes))
    BY <1>1, ElementOfSeq DEF Lexicographer
  <2> QED BY <2>1, RankType DEF RankIn
<1>3. ASSUME NEW X, NEW Y
      PROVE  /\ c(X, Y) \in Int
             /\ c(X, Y) = 0 <=> Same(X, Y)
             /\ c(X, Y) < 0 <=> Less(X, Y)
  BY CompareIs
<1> SUFFICES /\ c(S, T) \in Int
             /\ c(S, S) = 0
             /\ c(S, T) = 0 => c(T, S) = 0
             /\ c(S, T) < 0 => ~(c(T, S) < 0) /\ c(T, S) # 0
             /\ c(S, T) = 0 \/ c(S, T) < 0 \/ c(T, S) < 0
             /\ c(S, T) < 0 /\ c(T, V) < 0 => c(S, V) < 0
             /\ c(S, T) < 0 /\ c(T, V) = 0 => c(S, V) < 0
             /\ c(S, T) = 0 /\ c(T, V) < 0 => c(S, V) < 0
             /\ c(S, T) = 0 /\ c(T, V) = 0 => c(S, V) = 0
  BY DEF PriorityOrder
<1> HIDE DEF n, r, c
<1>4. Same(S, S)
  OBVIOUS
<1>5. Same(S, T) => Same(T, S)
  OBVIOUS
<1>6. Less(S, T) => ~Less(T, S) /\ ~Same(T, S)
  <2> SUFFICES ASSUME NEW k \in 1..n, r(k, S) < r(k, T), \A j \in 1..(k - 1) : r(j, S) = r(j, T)
               PROVE  ~Less(T, S) /\ ~Same(T, S)
    OBVIOUS
  <2>1. ~Same(T, S)
    BY <1>2
  <2>2. SUFFICES ASSUME NEW l \in 1..n, r(l, T) < r(l, S), \A j \in 1..(l - 1) : r(j, T) = r(j, S)
                 PROVE  FALSE
    BY <2>1
  <2>3. /\ r(k, S) \in Nat /\ r(k, T) \in Nat /\ r(l, S) \in Nat /\ r(l, T) \in Nat
        /\ k \in Int /\ l \in Int
    BY <1>1, <1>2
  <2>4. CASE k < l
    <3>1. k \in 1..(l - 1)
      BY <1>1, <2>4
    <3> QED BY <2>2, <2>3, <3>1
  <2>5. CASE l < k
    <3>1. l \in 1..(k - 1)
      BY <1>1, <2>5
    <3> QED BY <2>2, <2>3, <3>1
  <2>6. CASE l = k
    BY <2>2, <2>3, <2>6
  <2> QED BY <2>3, <2>4, <2>5, <2>6
<1>7. Same(S, T) \/ Less(S, T) \/ Less(T, S)
  <2> DEFINE D == {k \in 1..n : r(k, S) # r(k, T)}
  <2>1. CASE D = {}
    BY <2>1
  <2>2. CASE D # {}
    <3>1. D \subseteq Nat
      BY <1>1
    <3> HIDE DEF D
    <3>2. PICK k \in D : \A j \in D : k <= j
      BY <2>2, <3>1, Least
    <3>3. k \in 1..n /\ r(k, S) # r(k, T) /\ r(k, S) \in Nat /\ r(k, T) \in Nat
      BY <1>2, <3>2 DEF D
    <3>4. \A j \in 1..(k - 1) : r(j, S) = r(j, T)
      BY <1>1, <3>2, <3>3 DEF D
    <3>5. \A j \in 1..(k - 1) : r(j, T) = r(j, S)
      BY <3>4, Zenon
    <3>6. r(k, S) < r(k, T) \/ r(k, T) < r(k, S)
      BY <3>3
    <3> QED BY <3>3, <3>4, <3>5, <3>6, Zenon
  <2> QED BY <2>1, <2>2
<1>8. Less(S, T) /\ Less(T, V) => Less(S, V)
  <2> SUFFICES ASSUME NEW k \in 1..n, r(k, S) < r(k, T), \A j \in 1..(k - 1) : r(j, S) = r(j, T),
                      NEW l \in 1..n, r(l, T) < r(l, V), \A j \in 1..(l - 1) : r(j, T) = r(j, V)
               PROVE  Less(S, V)
    BY Zenon
  <2> DEFINE m == IF k <= l THEN k ELSE l
  <2>1. m \in 1..n /\ (m = k \/ m = l) /\ m <= k /\ m <= l /\ k \in Int /\ l \in Int
    BY <1>1
  <2>2. r(m, S) \in Nat /\ r(m, T) \in Nat /\ r(m, V) \in Nat
    BY <1>2, <2>1
  <2> HIDE DEF m
  <2>3. \A j \in 1..(m - 1) : j \in 1..(k - 1) /\ j \in 1..(l - 1)
    BY <2>1
  <2>4. \A j \in 1..(m - 1) : r(j, S) = r(j, V)
    BY <2>3, Zenon
  <2>5. r(m, S) < r(m, T) \/ r(m, S) = r(m, T)
    <3>1. m < k => m \in 1..(k - 1)
      BY <2>1
    <3> QED BY <2>1, <3>1
  <2>6. r(m, T) < r(m, V) \/ r(m, T) = r(m, V)
    <3>1. m < l => m \in 1..(l - 1)
      BY <2>1
    <3> QED BY <2>1, <3>1
  <2>7. r(m, S) < r(m, V)
    <3>1. r(m, S) < r(m, T) \/ r(m, T) < r(m, V)
      BY <2>1
    <3> QED BY <2>2, <2>5, <2>6, <3>1
  <2> QED BY <2>1, <2>4, <2>7, Zenon
<1>9. Less(S, T) /\ Same(T, V) => Less(S, V)
  <2> SUFFICES ASSUME NEW k \in 1..n, r(k, S) < r(k, T), \A j \in 1..(k - 1) : r(j, S) = r(j, T),
                      Same(T, V)
               PROVE  Less(S, V)
    BY Zenon
  <2>1. \A j \in 1..(k - 1) : j \in 1..n
    BY <1>1
  <2>2. r(k, T) = r(k, V) /\ \A j \in 1..(k - 1) : r(j, S) = r(j, V)
    BY <2>1, Zenon
  <2>3. r(k, S) < r(k, V)
    BY <2>2
  <2> QED BY <2>2, <2>3, Zenon
<1>10. Same(S, T) /\ Less(T, V) => Less(S, V)
  <2> SUFFICES ASSUME NEW k \in 1..n, r(k, T) < r(k, V), \A j \in 1..(k - 1) : r(j, T) = r(j, V),
                      Same(S, T)
               PROVE  Less(S, V)
    BY Zenon
  <2>1. \A j \in 1..(k - 1) : j \in 1..n
    BY <1>1
  <2>2. r(k, S) = r(k, T) /\ \A j \in 1..(k - 1) : r(j, S) = r(j, V)
    BY <2>1, Zenon
  <2>3. r(k, S) < r(k, V)
    BY <2>2
  <2> QED BY <2>2, <2>3, Zenon
<1>11. Same(S, T) /\ Same(T, V) => Same(S, V)
  BY Zenon
<1> HIDE DEF Less, Same
<1> QED BY <1>3, <1>4, <1>5, <1>6, <1>7, <1>8, <1>9, <1>10, <1>11

Candidates ==
  [pattern : DOMAIN Patterns, inflects : BOOLEAN, own : SUBSET Range(Grammemes),
   grammemes : SUBSET Range(Grammemes)]

\* The comparison as conditions on what it looks at.
LEMMA ComesBeforeIs ==
  ASSUME NEW letters, LexiconOver(letters), NEW who, Lexicographer(who),
         NEW G, NEW disambiguation \in Seq(G), NEW c \in Candidates, NEW d \in Candidates
  PROVE  LET score(x) == OptionalScore(x.grammemes, disambiguation)
             priority == CompareGrammemes(who, c.grammemes, d.grammemes)
             bits(x) == Cardinality(x.grammemes)
             size(x) == Len(InflectionsOf(x.pattern))
         IN  /\ score(c) \in Nat /\ score(d) \in Nat /\ priority \in Int
             /\ bits(c) \in Nat /\ bits(d) \in Nat /\ size(c) \in Nat /\ size(d) \in Nat
             /\ ComesBefore(who, disambiguation, c, d)
                  <=> \/ score(c) > score(d)
                      \/ score(c) = score(d) /\ priority < 0
                      \/ /\ score(c) = score(d) /\ priority = 0 /\ c.inflects
                         /\ \/ ~d.inflects
                            \/ bits(c) < bits(d)
                            \/ bits(c) = bits(d) /\ size(c) > size(d)
<1> DEFINE score(x) == OptionalScore(x.grammemes, disambiguation)
           priority == CompareGrammemes(who, c.grammemes, d.grammemes)
           bits(x) == Cardinality(x.grammemes)
           size(x) == Len(InflectionsOf(x.pattern))
           before == ComesBefore(who, disambiguation, c, d)
<1>1. score(c) \in Nat /\ score(d) \in Nat
  BY OptionalScoreType
<1>2. priority \in Int
  BY CompareIs, Zenon
<1>3. ASSUME NEW x \in Candidates PROVE bits(x) \in Nat /\ size(x) \in Nat
  <2>1. x.grammemes \subseteq Range(Grammemes) /\ x.pattern \in DOMAIN Patterns
    BY DEF Candidates
  <2>2. IsFiniteSet(Range(Grammemes)) /\ InflectionsOf(x.pattern) \in Seq(InflectionsOver(letters))
    BY <2>1, LexiconFacts DEF LexiconOver
  <2>3. IsFiniteSet(x.grammemes)
    BY <2>1, <2>2, FS_Subset
  <2>4. bits(x) \in Nat
    BY <2>3, FS_CardinalityType
  <2>5. size(x) \in Nat
    BY <2>2, LenProperties
  <2> QED BY <2>4, <2>5
<1>4. before <=> IF score(c) # score(d) THEN score(c) > score(d)
                 ELSE IF priority # 0 THEN priority < 0
                 ELSE c.inflects /\ (\/ ~d.inflects
                                     \/ bits(c) < bits(d)
                                     \/ bits(c) = bits(d) /\ size(c) > size(d))
  BY Zenon DEF ComesBefore
<1>5. /\ score(c) \in Nat /\ score(d) \in Nat /\ priority \in Int
      /\ bits(c) \in Nat /\ bits(d) \in Nat /\ size(c) \in Nat /\ size(d) \in Nat
      /\ c.inflects \in BOOLEAN /\ d.inflects \in BOOLEAN
  BY <1>1, <1>2, <1>3 DEF Candidates
<1> SUFFICES before <=> \/ score(c) > score(d)
                        \/ score(c) = score(d) /\ priority < 0
                        \/ /\ score(c) = score(d) /\ priority = 0 /\ c.inflects
                           /\ \/ ~d.inflects
                              \/ bits(c) < bits(d)
                              \/ bits(c) = bits(d) /\ size(c) > size(d)
  BY <1>5, Zenon
<1> HIDE DEF before, score, priority, bits, size
<1> QED BY <1>4, <1>5

\* What std::stable_sort asks of a comparison holds of this one, whatever the
\* tables of the language and the grammemes to disambiguate by: no candidate
\* comes before itself, what comes before one that comes before a third comes
\* before the third, and candidates none of which comes before the other are
\* alike to every third (DictionaryLookupInflector::compareInflectionGrammemes).
THEOREM CandidatesAreOrdered ==
  ASSUME NEW letters, LexiconOver(letters), NEW who, Lexicographer(who),
         NEW G, NEW disambiguation \in Seq(G),
         NEW c \in Candidates, NEW d \in Candidates, NEW e \in Candidates
  PROVE  LET before(x, y) == ComesBefore(who, disambiguation, x, y)
             alike(x, y) == ~before(x, y) /\ ~before(y, x)
         IN  /\ ~before(c, c)
             /\ before(c, d) /\ before(d, e) => before(c, e)
             /\ alike(c, d) /\ alike(d, e) => alike(c, e)
<1> DEFINE score(x) == OptionalScore(x.grammemes, disambiguation)
           priority(x, y) == CompareGrammemes(who, x.grammemes, y.grammemes)
           bits(x) == Cardinality(x.grammemes)
           size(x) == Len(InflectionsOf(x.pattern))
           before(x, y) == ComesBefore(who, disambiguation, x, y)
           lower(x, y) == \/ ~y.inflects
                          \/ bits(x) < bits(y)
                          \/ bits(x) = bits(y) /\ size(x) > size(y)
<1>1. ASSUME NEW x \in Candidates, NEW y \in Candidates
      PROVE  /\ score(x) \in Nat /\ score(y) \in Nat /\ priority(x, y) \in Int
             /\ bits(x) \in Nat /\ bits(y) \in Nat /\ size(x) \in Nat /\ size(y) \in Nat
             /\ before(x, y) <=> \/ score(x) > score(y)
                                 \/ score(x) = score(y) /\ priority(x, y) < 0
                                 \/ /\ score(x) = score(y) /\ priority(x, y) = 0 /\ x.inflects
                                    /\ lower(x, y)
  BY ComesBeforeIs, Zenon
<1>2. ASSUME NEW x, NEW y, NEW z
      PROVE  /\ priority(x, y) \in Int
             /\ priority(x, x) = 0
             /\ priority(x, y) = 0 => priority(y, x) = 0
             /\ priority(x, y) < 0 => ~(priority(y, x) < 0) /\ priority(y, x) # 0
             /\ priority(x, y) = 0 \/ priority(x, y) < 0 \/ priority(y, x) < 0
             /\ priority(x, y) < 0 /\ priority(y, z) < 0 => priority(x, z) < 0
             /\ priority(x, y) < 0 /\ priority(y, z) = 0 => priority(x, z) < 0
             /\ priority(x, y) = 0 /\ priority(y, z) < 0 => priority(x, z) < 0
             /\ priority(x, y) = 0 /\ priority(y, z) = 0 => priority(x, z) = 0
  <2>1. PriorityOrder(who, x.grammemes, y.grammemes, z.grammemes)
    BY CompareOrder, Zenon
  <2> QED BY <2>1 DEF PriorityOrder
<1>3. /\ score(c) \in Nat /\ score(d) \in Nat /\ score(e) \in Nat
      /\ bits(c) \in Nat /\ bits(d) \in Nat /\ bits(e) \in Nat
      /\ size(c) \in Nat /\ size(d) \in Nat /\ size(e) \in Nat
  BY <1>1, Zenon
<1>4. /\ c.inflects \in BOOLEAN /\ d.inflects \in BOOLEAN /\ e.inflects \in BOOLEAN
  BY DEF Candidates
<1> DEFINE alike(x, y) == ~before(x, y) /\ ~before(y, x)
           even(x, y) == \/ ~x.inflects /\ ~y.inflects
                         \/ x.inflects /\ y.inflects /\ bits(x) = bits(y) /\ size(x) = size(y)
<1> SUFFICES /\ ~before(c, c)
             /\ before(c, d) /\ before(d, e) => before(c, e)
             /\ alike(c, d) /\ alike(d, e) => alike(c, e)
  OBVIOUS
<1> HIDE DEF score, priority, bits, size, before
<1>5. ~before(c, c)
  <2>1. before(c, c) <=> \/ score(c) > score(c)
                         \/ score(c) = score(c) /\ priority(c, c) < 0
                         \/ score(c) = score(c) /\ priority(c, c) = 0 /\ c.inflects /\ lower(c, c)
    BY <1>1, Zenon
  <2>2. priority(c, c) = 0
    BY <1>2, Zenon
  <2> QED BY <1>3, <2>1, <2>2
<1>6. before(c, d) /\ before(d, e) => before(c, e)
  <2> SUFFICES ASSUME before(c, d), before(d, e) PROVE before(c, e)
    OBVIOUS
  <2>1. score(c) >= score(d) /\ score(d) >= score(e)
    <3>1. /\ score(c) > score(d) \/ score(c) = score(d)
          /\ score(d) > score(e) \/ score(d) = score(e)
      BY <1>1, Zenon
    <3> QED BY <1>3, <3>1
  <2>2. CASE score(c) > score(e)
    BY <1>1, <2>2
  <2>3. CASE score(c) = score(d) /\ score(d) = score(e)
    <3>1. /\ priority(c, d) < 0 \/ (priority(c, d) = 0 /\ c.inflects /\ lower(c, d))
          /\ priority(d, e) < 0 \/ (priority(d, e) = 0 /\ d.inflects /\ lower(d, e))
      <4>1. /\ \/ score(c) > score(d)
               \/ priority(c, d) < 0
               \/ priority(c, d) = 0 /\ c.inflects /\ lower(c, d)
            /\ \/ score(d) > score(e)
               \/ priority(d, e) < 0
               \/ priority(d, e) = 0 /\ d.inflects /\ lower(d, e)
        BY <1>1, Zenon
      <4>2. ~(score(c) > score(d)) /\ ~(score(d) > score(e))
        BY <1>3, <2>3
      <4> QED BY <4>1, <4>2, Zenon
    <3>2. CASE priority(c, d) < 0 \/ priority(d, e) < 0
      <4>1. priority(c, e) < 0
        BY <1>2, <3>1, <3>2, Zenon
      <4> QED BY <1>1, <2>3, <4>1
    <3>3. CASE priority(c, d) = 0 /\ priority(d, e) = 0 /\ ~(priority(c, d) < 0) /\ ~(priority(d, e) < 0)
      <4>1. priority(c, e) = 0
        BY <1>2, <3>3, Zenon
      <4>2. c.inflects /\ lower(c, d) /\ d.inflects /\ lower(d, e)
        BY <3>1, <3>3, Zenon
      <4>3. lower(c, e)
        BY <1>3, <4>2
      <4> QED BY <1>1, <2>3, <4>1, <4>2, <4>3
    <3> QED BY <3>1, <3>2, <3>3, Zenon
  <2> QED BY <1>3, <2>1, <2>2, <2>3
<1>7. ASSUME NEW x \in Candidates, NEW y \in Candidates
      PROVE  alike(x, y) <=> score(x) = score(y) /\ priority(x, y) = 0 /\ even(x, y)
  <2>1. /\ score(x) \in Nat /\ score(y) \in Nat /\ bits(x) \in Nat /\ bits(y) \in Nat
        /\ size(x) \in Nat /\ size(y) \in Nat /\ x.inflects \in BOOLEAN /\ y.inflects \in BOOLEAN
    BY <1>1 DEF Candidates
  <2>2. /\ before(x, y) <=> \/ score(x) > score(y)
                            \/ score(x) = score(y) /\ priority(x, y) < 0
                            \/ score(x) = score(y) /\ priority(x, y) = 0 /\ x.inflects /\ lower(x, y)
        /\ before(y, x) <=> \/ score(y) > score(x)
                            \/ score(y) = score(x) /\ priority(y, x) < 0
                            \/ score(y) = score(x) /\ priority(y, x) = 0 /\ y.inflects /\ lower(y, x)
    BY <1>1, Zenon
  <2>3. /\ priority(x, y) \in Int /\ priority(y, x) \in Int
        /\ priority(x, y) = 0 => priority(y, x) = 0
        /\ priority(x, y) = 0 \/ priority(x, y) < 0 \/ priority(y, x) < 0
    BY <1>2, Zenon
  <2>4. ~(priority(x, y) = 0 /\ priority(x, y) < 0) /\ ~(priority(y, x) = 0 /\ priority(y, x) < 0)
    BY <2>3
  <2>5. CASE score(x) = score(y) /\ priority(x, y) = 0
    <3>1. alike(x, y) <=> ~(x.inflects /\ lower(x, y)) /\ ~(y.inflects /\ lower(y, x))
      BY <2>1, <2>2, <2>3, <2>5
    <3>2. ~(x.inflects /\ lower(x, y)) /\ ~(y.inflects /\ lower(y, x)) <=> even(x, y)
      BY <2>1
    <3> QED BY <2>5, <3>1, <3>2
  <2>6. CASE score(x) # score(y) \/ priority(x, y) # 0
    <3>1. before(x, y) \/ before(y, x)
      BY <2>1, <2>2, <2>3, <2>6
    <3> QED BY <2>6, <3>1
  <2> QED BY <2>5, <2>6
<1>8. alike(c, d) /\ alike(d, e) => alike(c, e)
  <2> SUFFICES ASSUME alike(c, d), alike(d, e) PROVE alike(c, e)
    OBVIOUS
  <2>1. /\ score(c) = score(d) /\ priority(c, d) = 0 /\ even(c, d)
        /\ score(d) = score(e) /\ priority(d, e) = 0 /\ even(d, e)
    BY <1>7, Zenon
  <2>2. priority(c, e) = 0
    BY <1>2, <2>1, Zenon
  <2>3. score(c) = score(e) /\ even(c, e)
    BY <2>1
  <2> HIDE DEF alike, even
  <2> QED BY <1>7, <2>2, <2>3, Zenon
<1> QED BY <1>5, <1>6, <1>8

-----------------------------------------------------------------------------
(* The candidates of a word *)

\* What a word may be by a pattern.
ReadingsBy(p, word, types) ==
  IF InflectionsOf(p) = << >>
  THEN {[pattern |-> p, inflects |-> FALSE, own |-> {}, grammemes |-> Patterns[p].partsOfSpeech]}
  ELSE {[pattern |-> p, inflects |-> TRUE, own |-> r.grammemes,
         grammemes |-> r.grammemes \cup Patterns[p].partsOfSpeech] :
          r \in LongestOf(Fitting(Range(InflectionsOf(p)), word, types))}

AllReadings(word, types) ==
  UNION {ReadingsBy(p, word, types) : p \in Range(GetInflectionPatternsForWord(word))}

\* What a word may be, but for what the language leaves out.
Readings(who, word, types) ==
  {c \in AllReadings(word, types) : ~\E S \in who.ignored : S \subseteq c.grammemes}

LEMMA CandidatesAre ==
  ASSUME NEW letters, LexiconOver(letters), NEW p \in DOMAIN Patterns, NEW word, NEW types
  PROVE  /\ CandidatesOf(p, word, types) \in Seq(Candidates)
         /\ Range(CandidatesOf(p, word, types)) = ReadingsBy(p, word, types)
<1> DEFINE pos == Patterns[p].partsOfSpeech
           found == InflectionsForSurfaceForm(p, word, types)
           none == [pattern |-> p, inflects |-> FALSE, own |-> {}, grammemes |-> pos]
           Of(r) == [pattern |-> p, inflects |-> TRUE, own |-> r.grammemes, grammemes |-> r.grammemes \cup pos]
<1>1. pos \subseteq Range(Grammemes)
  BY LexiconFacts
<1>2. CASE InflectionsOf(p) = << >>
  <2>1. CandidatesOf(p, word, types) = <<none>> /\ ReadingsBy(p, word, types) = {none}
    BY <1>2 DEF CandidatesOf, ReadingsBy
  <2>2. none \in Candidates
    BY <1>1 DEF Candidates
  <2> HIDE DEF none
  <2>3. <<none>> \in Seq(Candidates) /\ Range(<<none>>) = {none}
    BY <2>2 DEF Range
  <2> QED BY <2>1, <2>3, Zenon
<1>3. CASE InflectionsOf(p) # << >>
  <2>1. /\ found \in Seq(InflectionsOver(letters))
        /\ Range(found) = LongestOf(Fitting(Range(InflectionsOf(p)), word, types))
    BY SurfaceForms, Zenon
  <2> HIDE DEF found
  <2> DEFINE s == [i \in DOMAIN found |-> Of(found[i])]
  <2>2. CandidatesOf(p, word, types) = s
    BY <1>3, Zenon DEF CandidatesOf, found
  <2>3. ReadingsBy(p, word, types) = {Of(r) : r \in Range(found)}
    BY <1>3, <2>1 DEF ReadingsBy
  <2>4. Len(found) \in Nat /\ DOMAIN found = 1..Len(found) /\ \A i \in 1..Len(found) : found[i] \in InflectionsOver(letters)
    BY <2>1, LenProperties, ElementOfSeq
  <2>5. \A r \in InflectionsOver(letters) : Of(r) \in Candidates
    BY <1>1 DEF Candidates, InflectionsOver
  <2> HIDE DEF Of
  <2>6. s \in Seq(Candidates)
    BY <2>4, <2>5
  <2>7. Range(s) = {Of(r) : r \in Range(found)}
    BY DEF Range
  <2> QED BY <2>2, <2>3, <2>6, <2>7, Zenon
<1> QED BY <1>2, <1>3

\* The elements of sequences in turn are the elements of any of them.
LEMMA Flattened ==
  ASSUME NEW S, NEW seqs \in Seq(Seq(S))
  PROVE  /\ FlattenSeq(seqs) \in Seq(S)
         /\ Range(FlattenSeq(seqs)) = UNION {Range(seqs[i]) : i \in 1..Len(seqs)}
<1> DEFINE n == Len(seqs)
           A == Seq(S)
           empty == << >>
           step == [i \in 1..n |-> [a \in A |-> a \o seqs[i]]]
           flatten[i \in 1..Len(seqs)] == IF i = 1 THEN seqs[i] ELSE flatten[i - 1] \o seqs[i]
           U(g) == [i \in 1..n |-> IF i = 1 THEN seqs[i] ELSE g[i - 1] \o seqs[i]]
<1>1. n \in Nat /\ \A i \in 1..n : seqs[i] \in A
  BY LenProperties, ElementOfSeq
<1>2. CASE n = 0
  <2>1. FlattenSeq(seqs) = seqs
    BY <1>2 DEF FlattenSeq
  <2>2. seqs = << >>
    BY <1>2, EmptySeq
  <2>3. {Range(seqs[i]) : i \in 1..n} = {} /\ Range(<< >>) = {} /\ << >> \in Seq(S)
    BY <1>2 DEF Range
  <2> QED BY <2>1, <2>2, <2>3
<1>3. CASE n # 0
  <2>1. empty \in A /\ step \in [1..n -> [A -> A]]
    BY <1>1, ConcatProperties
  <2>2. PICK f \in [0..n -> A] : Recursion(f, n, empty, step)
    <3> HIDE DEF step, A, n, empty
    <3> QED BY <1>1, <2>1, RecursionExists, Zenon
  <2> DEFINE g == [i \in 1..n |-> f[i]]
  <2>3. f[0] = empty /\ \A i \in 1..n : f[i] = f[i - 1] \o seqs[i] /\ f[i - 1] \in A /\ i - 1 \in 0..n
    <3>1. \A i \in 0..n : i # 0 => i \in 1..n /\ i - 1 \in 0..n
      BY <1>1
    <3> HIDE DEF A, n
    <3>2. \A i \in 0..n : i # 0 => step[i][f[i - 1]] = f[i - 1] \o seqs[i]
      BY <2>2, <3>1
    <3>3. 0 \in 0..n /\ \A i \in 1..n : i \in 0..n /\ i # 0
      BY <1>1
    <3> QED BY <2>2, <3>1, <3>2, <3>3 DEF Recursion
  <2>4. g = U(g)
    <3>1. ASSUME NEW i \in 1..n PROVE g[i] = IF i = 1 THEN seqs[i] ELSE g[i - 1] \o seqs[i]
      <4>1. CASE i = 1
        <5>1. f[i] = empty \o seqs[i] /\ seqs[i] \in Seq(S)
          <6> HIDE DEF empty, n
          <6>1. i - 1 = 0
            BY <4>1
          <6>2. f[i] = f[i - 1] \o seqs[i] /\ f[0] = empty /\ seqs[i] \in Seq(S)
            BY <1>1, <2>3
          <6> QED BY <6>1, <6>2
        <5>2. f[i] = seqs[i]
          BY <5>1, ConcatEmptySeq, Zenon
        <5> QED BY <4>1, <5>2
      <4>2. CASE i # 1
        <5>1. i - 1 \in 1..n
          BY <1>1, <4>2
        <5> QED BY <2>3, <4>2, <5>1
      <4> QED BY <4>1, <4>2
    <3> HIDE DEF n
    <3>2. g = [i \in 1..n |-> g[i]]
      OBVIOUS
    <3> HIDE DEF g
    <3> QED BY <3>1, <3>2, Zenon
  <2>5. flatten = U(flatten)
    <3>1. flatten = CHOOSE h : h = U(h)
      BY Zenon
    <3> HIDE DEF flatten, U
    <3> QED BY <2>4, <3>1, Zenon
  <2>6. FlattenSeq(seqs) = flatten[n]
    BY <1>3, Zenon DEF FlattenSeq
  <2> HIDE DEF flatten, n, A, empty
  <2>7. \A i \in 1..n : flatten[i] = IF i = 1 THEN seqs[i] ELSE flatten[i - 1] \o seqs[i]
    BY <2>5, Zenon
  <2> DEFINE R(k) == UNION {Range(seqs[i]) : i \in 1..k}
             Q == {k \in Nat : (1 <= k /\ k <= n) => flatten[k] \in Seq(S) /\ Range(flatten[k]) = R(k)}
  <2>8. 0 \in Q
    OBVIOUS
  <2>9. ASSUME NEW k \in Nat, k \in Q PROVE k + 1 \in Q
    <3> SUFFICES ASSUME k + 1 <= n
                 PROVE  flatten[k + 1] \in Seq(S) /\ Range(flatten[k + 1]) = R(k + 1)
      OBVIOUS
    <3>1. k + 1 \in 1..n /\ seqs[k + 1] \in Seq(S)
      BY <1>1 DEF A
    <3>2. CASE k = 0
      <4>1. flatten[k + 1] = seqs[k + 1]
        BY <2>7, <3>1, <3>2
      <4>2. R(k + 1) = Range(seqs[k + 1])
        BY <3>2, 1..1 = {1}
      <4> QED BY <3>1, <4>1, <4>2
    <3>3. CASE k # 0
      <4>1. 1 <= k /\ k <= n /\ k + 1 # 1 /\ (k + 1) - 1 = k
        BY <1>1, <3>1, <3>3
      <4>2. flatten[k + 1] = flatten[k] \o seqs[k + 1]
        BY <2>7, <3>1, <4>1
      <4>3. flatten[k] \in Seq(S) /\ Range(flatten[k]) = R(k)
        BY <2>9, <4>1
      <4>4. /\ flatten[k] \o seqs[k + 1] \in Seq(S)
            /\ Range(flatten[k] \o seqs[k + 1]) = Range(flatten[k]) \cup Range(seqs[k + 1])
        <5> DEFINE u == flatten[k]
                   v == seqs[k + 1]
        <5>1. u \in Seq(S) /\ v \in Seq(S)
          BY <3>1, <4>3
        <5> HIDE DEF u, v
        <5>2. u \o v \in Seq(S)
          BY <5>1, ConcatProperties
        <5>3. Range(u \o v) = Range(u) \cup Range(v)
          BY <5>1, RangeConcatenation
        <5> QED BY <5>2, <5>3 DEF u, v
      <4>5. 1..(k + 1) = 1..k \cup {k + 1}
        OBVIOUS
      <4>6. R(k + 1) = R(k) \cup Range(seqs[k + 1])
        BY <4>5
      <4> HIDE DEF R
      <4> QED BY <4>2, <4>3, <4>4, <4>6
    <3> QED BY <3>2, <3>3
  <2> HIDE DEF Q
  <2>10. n \in Q
    BY <1>1, <2>8, <2>9, SetInduction
  <2>11. 1 <= n /\ n <= n
    BY <1>1, <1>3
  <2> QED BY <2>6, <2>10, <2>11, Zenon DEF Q, n
<1> QED BY <1>2, <1>3

LEMMA PatternsOfWord ==
  ASSUME NEW letters, LexiconOver(letters), NEW word
  PROVE  GetInflectionPatternsForWord(word) \in Seq(DOMAIN Patterns)
<1>1. << >> \in Seq(DOMAIN Patterns)
  OBVIOUS
<1> QED BY <1>1 DEF GetInflectionPatternsForWord, LexiconOver

LEMMA AllCandidatesAre ==
  ASSUME NEW letters, LexiconOver(letters), NEW word, NEW types
  PROVE  /\ AllCandidates(word, types) \in Seq(Candidates)
         /\ Range(AllCandidates(word, types)) = AllReadings(word, types)
<1> DEFINE ps == GetInflectionPatternsForWord(word)
           n == Len(ps)
           seqs == [i \in DOMAIN ps |-> CandidatesOf(ps[i], word, types)]
<1>1. ps \in Seq(DOMAIN Patterns)
  BY PatternsOfWord
<1>2. n \in Nat /\ DOMAIN ps = 1..n /\ \A i \in 1..n : ps[i] \in DOMAIN Patterns
  BY <1>1, LenProperties, ElementOfSeq
<1>3. AllCandidates(word, types) = FlattenSeq(seqs)
  BY Zenon DEF AllCandidates
<1>4. ASSUME NEW i \in 1..n
      PROVE  /\ CandidatesOf(ps[i], word, types) \in Seq(Candidates)
             /\ Range(CandidatesOf(ps[i], word, types)) = ReadingsBy(ps[i], word, types)
  BY <1>2, CandidatesAre, Zenon
<1> HIDE DEF n, ps
<1>5. seqs \in Seq(Seq(Candidates)) /\ Len(seqs) = n
  BY <1>2, <1>4
<1>6. /\ FlattenSeq(seqs) \in Seq(Candidates)
      /\ Range(FlattenSeq(seqs)) = UNION {Range(seqs[i]) : i \in 1..n}
  <2> HIDE DEF seqs
  <2>1. Len(seqs) = n /\ seqs \in Seq(Seq(Candidates))
    BY <1>5
  <2> QED BY <2>1, Flattened, Zenon
<1>7. \A i \in 1..n : Range(seqs[i]) = ReadingsBy(ps[i], word, types)
  BY <1>2, <1>4
<1>8. Range(ps) = {ps[i] : i \in 1..n}
  BY <1>1, RangeEquality DEF n, ps
<1> HIDE DEF seqs
<1>9. UNION {Range(seqs[i]) : i \in 1..n} = UNION {ReadingsBy(q, word, types) : q \in Range(ps)}
  BY <1>7, <1>8
<1> QED BY <1>3, <1>6, <1>9, Zenon DEF AllReadings, ps

LEMMA FilteredAre ==
  ASSUME NEW letters, LexiconOver(letters), NEW who, NEW word, NEW types
  PROVE  /\ FilterInflectionGrammemes(who, word, types) \in Seq(Candidates)
         /\ Range(FilterInflectionGrammemes(who, word, types)) = Readings(who, word, types)
<1> DEFINE all == AllCandidates(word, types)
           n == Len(all)
           A == Seq(Candidates)
           empty == << >>
           out(c) == \E S \in who.ignored : S \subseteq c.grammemes
           K(a, i) == IF out(all[i]) THEN a ELSE Append(a, all[i])
           step == [i \in 1..n |-> [a \in A |-> K(a, i)]]
           kept[i \in 0..Len(AllCandidates(word, types))] ==
              IF i = 0 THEN <<>>
              ELSE IF \E S \in who.ignored : S \subseteq AllCandidates(word, types)[i].grammemes THEN kept[i - 1]
              ELSE Append(kept[i - 1], AllCandidates(word, types)[i])
           U(g) == [i \in 0..n |-> IF i = 0 THEN empty ELSE K(g[i - 1], i)]
<1>1. /\ n \in Nat /\ all \in Seq(Candidates) /\ Range(all) = AllReadings(word, types)
      /\ \A i \in 1..n : all[i] \in Candidates
  BY AllCandidatesAre, LenProperties, ElementOfSeq
<1>2. empty \in A /\ step \in [1..n -> [A -> A]]
  <2>1. \A i \in 1..n, a \in A : K(a, i) \in A
    BY <1>1, AppendProperties
  <2> HIDE DEF K, A, n, empty
  <2>2. empty \in A
    BY DEF empty, A
  <2> QED BY <2>1, <2>2
<1>3. PICK f \in [0..n -> A] : Recursion(f, n, empty, step)
  <2> HIDE DEF step, A, n, empty
  <2> QED BY <1>1, <1>2, RecursionExists, Zenon
<1>4. f = U(f)
  <2>1. \A i \in 0..n : i # 0 => i \in 1..n /\ i - 1 \in 0..n
    BY <1>1
  <2> HIDE DEF A, n, empty, all, K
  <2>2. \A i \in 0..n : i # 0 => step[i][f[i - 1]] = K(f[i - 1], i)
    BY <1>3, <2>1
  <2> QED BY <1>3, <2>2 DEF Recursion
<1>5. kept = U(kept)
  <2>1. kept = CHOOSE g : g = U(g)
    BY Zenon
  <2> HIDE DEF kept, U
  <2> QED BY <1>4, <2>1, Zenon
<1>6. FilterInflectionGrammemes(who, word, types) = kept[n]
  BY Zenon DEF FilterInflectionGrammemes
<1> HIDE DEF kept, empty, n, A, all, out
<1>7. kept[0] = empty /\ \A i \in 1..n : kept[i] = K(kept[i - 1], i)
  <2> HIDE DEF K
  <2>1. \A i \in 0..n : kept[i] = IF i = 0 THEN empty ELSE K(kept[i - 1], i)
    BY <1>5, Zenon
  <2>2. 0 \in 0..n /\ \A i \in 1..n : i \in 0..n /\ i # 0
    BY <1>1
  <2> QED BY <2>1, <2>2, Zenon
<1> DEFINE R(i) == {c \in Looked(all, i) : ~out(c)}
           T == {i \in Nat : i <= n => kept[i] \in Seq(Candidates) /\ Range(kept[i]) = R(i)}
<1>8. 0 \in T
  <2>1. R(0) = {} /\ Range(empty) = {} /\ empty \in Seq(Candidates)
    BY DEF Looked, Range, empty
  <2> QED BY <1>7, <2>1
<1>9. ASSUME NEW i \in Nat, i \in T PROVE i + 1 \in T
  <2> SUFFICES ASSUME i + 1 <= n
               PROVE  kept[i + 1] \in Seq(Candidates) /\ Range(kept[i + 1]) = R(i + 1)
    OBVIOUS
  <2>1. i <= n /\ i + 1 \in 1..n /\ (i + 1) - 1 = i /\ i + 1 \in Nat \ {0}
    BY <1>1
  <2>2. kept[i + 1] = K(kept[i], i + 1)
    BY <1>7, <2>1, Zenon
  <2>3. kept[i] \in Seq(Candidates) /\ Range(kept[i]) = R(i) /\ all[i + 1] \in Candidates
    BY <1>1, <1>9, <2>1
  <2>4. Looked(all, i + 1) = Looked(all, i) \cup {all[i + 1]}
    BY <2>1, LookedNext
  <2>5. CASE out(all[i + 1])
    <3>1. kept[i + 1] = kept[i]
      BY <2>2, <2>5
    <3>2. R(i + 1) = R(i)
      BY <2>4, <2>5
    <3> QED BY <2>3, <3>1, <3>2
  <2>6. CASE ~out(all[i + 1])
    <3>1. kept[i + 1] = Append(kept[i], all[i + 1])
      BY <2>2, <2>6
    <3>2. R(i + 1) = R(i) \cup {all[i + 1]}
      BY <2>4, <2>6
    <3> HIDE DEF R
    <3>3. /\ Append(kept[i], all[i + 1]) \in Seq(Candidates)
          /\ Range(Append(kept[i], all[i + 1])) = Range(kept[i]) \cup {all[i + 1]}
      BY <2>3, AppendRange
    <3> QED BY <2>3, <3>1, <3>2, <3>3, Zenon
  <2> QED BY <2>5, <2>6
<1> HIDE DEF T
<1>10. n \in T
  BY <1>1, <1>8, <1>9, SetInduction
<1>11. kept[n] \in Seq(Candidates) /\ Range(kept[n]) = R(n)
  <2>1. n <= n
    BY <1>1
  <2> QED BY <1>10, <2>1, Zenon DEF T
<1>12. Looked(all, n) = AllReadings(word, types)
  <2>1. Range(all) = {all[i] : i \in 1..n}
    BY <1>1, RangeEquality DEF n
  <2> QED BY <1>1, <2>1 DEF Looked
<1>13. R(n) = Readings(who, word, types)
  BY <1>12 DEF Readings, out
<1> HIDE DEF R
<1> QED BY <1>6, <1>11, <1>13, Zenon

\* No candidate stands behind one that it comes before.
InOrder(who, disambiguation, s) ==
  \A i, j \in 1..Len(s) : i < j => ~ComesBefore(who, disambiguation, s[j], s[i])

IsInserted(t, s, i, c) ==
  /\ Len(t) = Len(s) + 1
  /\ \A j \in 1..(Len(s) + 1) : t[j] = IF j < i THEN s[j] ELSE IF j = i THEN c ELSE s[j - 1]

\* Where a candidate is put among others.
LEMMA InsertedAt ==
  ASSUME NEW S, NEW s \in Seq(S), NEW c \in S, NEW i \in 1..Len(s)
  PROVE  InsertAt(s, i, c) \in Seq(S) /\ IsInserted(InsertAt(s, i, c), s, i, c)
<1> DEFINE n == Len(s)
           p == SubSeq(s, 1, i - 1)
           q == <<c>>
           r == SubSeq(s, i, n)
<1>1. n \in Nat /\ \A j \in 1..n : s[j] \in S
  BY LenProperties, ElementOfSeq
<1>2. /\ p \in Seq(S) /\ Len(p) = i - 1
      /\ \A j \in 1..(i - 1) : p[j] = s[j]
  <2>1. i - 1 \in Int /\ \A j \in 1..(i - 1) : s[j] \in S
    BY <1>1 DEF n
  <2>2. /\ p \in Seq(S) /\ Len(p) = (IF 1 <= i - 1 THEN (i - 1) - 1 + 1 ELSE 0)
        /\ \A j \in 1..((i - 1) - 1 + 1) : p[j] = s[1 + j - 1]
    BY <2>1, SubSeqProperties
  <2> HIDE DEF p
  <2>3. (i - 1) - 1 + 1 = i - 1 /\ \A j \in 1..(i - 1) : 1 + j - 1 = j
    BY <2>1
  <2>4. i >= 1
    OBVIOUS
  <2> QED BY <2>1, <2>2, <2>3, <2>4
<1>3. /\ r \in Seq(S) /\ Len(r) = n - i + 1
      /\ \A j \in 1..(n - i + 1) : r[j] = s[i + j - 1]
  <2>1. i \in Int /\ n \in Int /\ \A j \in i..n : s[j] \in S
    BY <1>1
  <2>2. /\ r \in Seq(S) /\ Len(r) = (IF i <= n THEN n - i + 1 ELSE 0)
        /\ \A j \in 1..(n - i + 1) : r[j] = s[i + j - 1]
    BY <2>1, SubSeqProperties
  <2> HIDE DEF r
  <2>3. i <= n
    BY <1>1 DEF n
  <2> QED BY <2>2, <2>3
<1>4. q \in Seq(S) /\ Len(q) = 1 /\ q[1] = c
  OBVIOUS
<1> HIDE DEF p, q, r
<1>5. /\ p \o q \in Seq(S) /\ Len(p \o q) = Len(p) + Len(q)
      /\ \A j \in 1..(Len(p) + Len(q)) : (p \o q)[j] = IF j <= Len(p) THEN p[j] ELSE q[j - Len(p)]
  BY <1>2, <1>4, ConcatProperties
<1> DEFINE t == p \o q
<1>6. /\ t \in Seq(S) /\ Len(t) = i
      /\ \A j \in 1..i : t[j] = IF j < i THEN s[j] ELSE c
  <2>1. i \in Int /\ (i - 1) + 1 = i
    BY <1>1
  <2>2. Len(p) + Len(q) = i
    BY <1>2, <1>4, <2>1
  <2>3. ASSUME NEW j \in 1..i PROVE t[j] = IF j < i THEN s[j] ELSE c
    <3>1. t[j] = IF j <= i - 1 THEN p[j] ELSE q[j - (i - 1)]
      BY <1>2, <1>5, <2>2
    <3>2. CASE j < i
      <4>1. j \in 1..(i - 1) /\ j <= i - 1
        BY <2>1, <3>2
      <4> QED BY <1>2, <3>1, <3>2, <4>1
    <3>3. CASE j = i
      <4>1. ~(j <= i - 1) /\ j - (i - 1) = 1 /\ ~(j < i)
        BY <2>1, <3>3
      <4> QED BY <1>4, <3>1, <4>1
    <3>4. j < i \/ j = i
      BY <2>1
    <3> QED BY <3>2, <3>3, <3>4
  <2> QED BY <1>5, <2>2, <2>3
<1>7. InsertAt(s, i, c) = t \o r
  BY Zenon DEF InsertAt, p, q, r, n
<1> HIDE DEF t
<1>8. /\ t \o r \in Seq(S) /\ Len(t \o r) = Len(t) + Len(r)
      /\ \A j \in 1..(Len(t) + Len(r)) : (t \o r)[j] = IF j <= Len(t) THEN t[j] ELSE r[j - Len(t)]
  BY <1>3, <1>6, ConcatProperties
<1>9. Len(t) + Len(r) = n + 1
  BY <1>1, <1>3, <1>6
<1>10. ASSUME NEW j \in 1..(n + 1)
       PROVE  (t \o r)[j] = IF j < i THEN s[j] ELSE IF j = i THEN c ELSE s[j - 1]
  <2>1. (t \o r)[j] = IF j <= i THEN t[j] ELSE r[j - i]
    BY <1>6, <1>8, <1>9
  <2>2. CASE j <= i
    <3>1. j \in 1..i /\ (j < i \/ j = i)
      BY <1>1, <2>2
    <3> QED BY <1>6, <2>1, <2>2, <3>1
  <2>3. CASE j > i
    <3>1. j - i \in 1..(n - i + 1) /\ i + (j - i) - 1 = j - 1 /\ ~(j <= i) /\ ~(j < i) /\ j # i
      BY <1>1, <2>3
    <3>2. r[j - i] = s[j - 1]
      BY <1>3, <3>1
    <3> QED BY <2>1, <3>1, <3>2
  <2>4. j <= i \/ j > i
    BY <1>1
  <2> QED BY <2>2, <2>3, <2>4
<1> QED BY <1>7, <1>8, <1>9, <1>10 DEF n, IsInserted

\* One more candidate is put where the order asks for it.
LEMMA InsertedInOrder ==
  ASSUME NEW letters, LexiconOver(letters), NEW who, Lexicographer(who),
         NEW G, NEW disambiguation \in Seq(G), NEW s \in Seq(Candidates), NEW c \in Candidates,
         InOrder(who, disambiguation, s)
  PROVE  /\ Inserted(who, disambiguation, s, c) \in Seq(Candidates)
         /\ Range(Inserted(who, disambiguation, s, c)) = Range(s) \cup {c}
         /\ InOrder(who, disambiguation, Inserted(who, disambiguation, s, c))
<1> DEFINE n == Len(s)
           before(x, y) == ComesBefore(who, disambiguation, x, y)
           later == {k \in DOMAIN s : before(c, s[k])}
           t == Inserted(who, disambiguation, s, c)
<1>1. n \in Nat /\ DOMAIN s = 1..n /\ \A i \in 1..n : s[i] \in Candidates
  BY LenProperties, ElementOfSeq
<1>2. ASSUME NEW x \in Candidates, NEW y \in Candidates, NEW z \in Candidates
      PROVE  ~before(x, x) /\ (before(x, y) /\ before(y, z) => before(x, z))
  BY CandidatesAreOrdered, Zenon
<1>3. \A i, j \in 1..n : i < j => ~before(s[j], s[i])
  BY DEF InOrder
<1> HIDE DEF before
<1>4. CASE later = {}
  <2>1. t = Append(s, c)
    BY <1>4, Zenon DEF Inserted, before
  <2>2. /\ Append(s, c) \in Seq(Candidates) /\ Len(Append(s, c)) = n + 1
        /\ (\A i \in 1..n : Append(s, c)[i] = s[i]) /\ Append(s, c)[n + 1] = c
        /\ Range(Append(s, c)) = Range(s) \cup {c}
    BY AppendProperties, AppendRange
  <2>3. \A i \in 1..n : ~before(c, s[i])
    BY <1>1, <1>4
  <2> HIDE DEF t, n
  <2>4. ASSUME NEW i \in 1..(n + 1), NEW j \in 1..(n + 1), i < j PROVE ~before(t[j], t[i])
    <3>1. i \in 1..n /\ (j \in 1..n \/ j = n + 1)
      BY <1>1, <2>4
    <3> QED BY <1>3, <2>1, <2>2, <2>3, <2>4, <3>1
  <2>5. Len(t) = n + 1 /\ t \in Seq(Candidates) /\ Range(t) = Range(s) \cup {c}
    BY <2>1, <2>2
  <2>6. InOrder(who, disambiguation, t)
    BY <2>4, <2>5 DEF InOrder, before
  <2> QED BY <2>5, <2>6 DEF t
<1>5. CASE later # {}
  <2>1. later \subseteq Nat
    BY <1>1
  <2> DEFINE place == CHOOSE k \in later : \A j \in later : k <= j
  <2>2. t = InsertAt(s, place, c)
    BY <1>5, Zenon DEF Inserted, before
  <2>3. \E k \in later : \A j \in later : k <= j
    BY <1>5, <2>1, Least
  <2> HIDE DEF later
  <2>4. place \in later /\ \A j \in later : place <= j
    BY <2>3, Zenon
  <2> HIDE DEF place, t
  <2>5. place \in 1..n /\ before(c, s[place]) /\ \A j \in 1..(place - 1) : ~before(c, s[j])
    BY <1>1, <2>4 DEF later
  <2>6. /\ t \in Seq(Candidates) /\ Len(t) = n + 1
        /\ \A j \in 1..(n + 1) : t[j] = IF j < place THEN s[j] ELSE IF j = place THEN c ELSE s[j - 1]
    <3>1. place \in 1..Len(s)
      BY <2>5 DEF n
    <3>2. InsertAt(s, place, c) \in Seq(Candidates) /\ IsInserted(InsertAt(s, place, c), s, place, c)
      BY <3>1, InsertedAt, Zenon
    <3> QED BY <2>2, <3>2, Zenon DEF n, IsInserted
  <2> HIDE DEF n
  <2>7. ASSUME NEW i \in 1..(n + 1), NEW j \in 1..(n + 1), i < j PROVE ~before(t[j], t[i])
    <3>1. CASE j < place
      <4>1. i < place /\ i \in 1..n /\ j \in 1..n
        BY <1>1, <2>5, <2>7, <3>1
      <4> QED BY <1>3, <2>6, <2>7, <3>1, <4>1
    <3>2. CASE j = place
      <4>1. i < place /\ i \in 1..(place - 1)
        BY <1>1, <2>5, <2>7, <3>2
      <4>2. t[j] = c /\ t[i] = s[i]
        BY <2>6, <3>2, <4>1
      <4> QED BY <2>5, <4>1, <4>2
    <3>3. CASE j > place
      <4>1. j - 1 \in 1..n /\ ~(j < place) /\ j # place /\ j - 1 >= place
        BY <1>1, <2>5, <3>3
      <4>2. t[j] = s[j - 1] /\ s[j - 1] \in Candidates /\ s[place] \in Candidates
        BY <1>1, <2>5, <2>6, <4>1
      <4>3. CASE i < place
        <5>1. t[i] = s[i] /\ i < j - 1 /\ i \in 1..n
          BY <1>1, <2>5, <2>6, <4>1, <4>3
        <5> QED BY <1>3, <4>1, <4>2, <5>1
      <4>4. CASE i = place
        <5>1. t[i] = c
          BY <2>6, <4>4
        <5>2. ~before(s[j - 1], s[place])
          <6>1. CASE j - 1 = place
            BY <1>2, <4>2, <6>1
          <6>2. CASE j - 1 > place
            BY <1>3, <2>5, <4>1, <6>2
          <6>3. j - 1 = place \/ j - 1 > place
            BY <2>5, <4>1
          <6> QED BY <6>1, <6>2, <6>3
        <5>3. before(s[j - 1], c) => before(s[j - 1], s[place])
          BY <1>2, <2>5, <4>2, Zenon
        <5> QED BY <4>2, <5>1, <5>2, <5>3
      <4>5. CASE i > place
        <5>1. i - 1 \in 1..n /\ ~(i < place) /\ i # place /\ i - 1 < j - 1
          BY <1>1, <2>5, <2>7, <4>5
        <5>2. t[i] = s[i - 1]
          BY <2>6, <5>1
        <5> QED BY <1>3, <4>1, <4>2, <5>1, <5>2
      <4>6. i < place \/ i = place \/ i > place
        BY <2>5
      <4> QED BY <4>3, <4>4, <4>5, <4>6
    <3>4. j < place \/ j = place \/ j > place
      BY <2>5
    <3> QED BY <3>1, <3>2, <3>3, <3>4
  <2>8. InOrder(who, disambiguation, t)
    BY <2>6, <2>7 DEF InOrder, before
  <2>9. Range(t) = Range(s) \cup {c}
    <3>1. Range(t) = {t[j] : j \in 1..(n + 1)} /\ Range(s) = {s[j] : j \in 1..n}
      BY <2>6, RangeEquality DEF n
    <3>2. ASSUME NEW j \in 1..(n + 1) PROVE t[j] \in {s[k] : k \in 1..n} \cup {c}
      <4>1. j < place => j \in 1..n
        BY <1>1, <2>5
      <4>2. ~(j < place) /\ j # place => j - 1 \in 1..n
        BY <1>1, <2>5
      <4> QED BY <2>6, <4>1, <4>2
    <3>3. ASSUME NEW k \in 1..n PROVE s[k] \in {t[j] : j \in 1..(n + 1)}
      <4>1. CASE k < place
        <5>1. k \in 1..(n + 1) /\ t[k] = s[k]
          BY <1>1, <2>6, <4>1
        <5> QED BY <5>1
      <4>2. CASE ~(k < place)
        <5>1. k + 1 \in 1..(n + 1) /\ (k + 1) - 1 = k /\ ~(k + 1 < place) /\ k + 1 # place
          BY <1>1, <2>5, <4>2
        <5>2. t[k + 1] = s[k]
          BY <2>6, <5>1
        <5> QED BY <5>1, <5>2
      <4> QED BY <4>1, <4>2
    <3>4. c \in {t[j] : j \in 1..(n + 1)}
      <4>1. place \in 1..(n + 1) /\ t[place] = c
        BY <1>1, <2>5, <2>6
      <4> QED BY <4>1
    <3> QED BY <3>1, <3>2, <3>3, <3>4
  <2> QED BY <2>6, <2>8, <2>9 DEF t
<1> QED BY <1>4, <1>5

\* The candidates of a word are what it may be by its patterns, no one behind
\* one that it comes before, however they are found and sorted
\* (MorphologicalAnalyzer::filterInflectionGrammemes and the sort in
\* DictionaryLookupInflector::inflectWordImplementation).
THEOREM ReadingsAreSorted ==
  ASSUME NEW letters, LexiconOver(letters), NEW who, Lexicographer(who),
         NEW G, NEW disambiguation \in Seq(G), NEW word, NEW types
  PROVE  /\ SortedCandidates(who, word, types, disambiguation) \in Seq(Candidates)
         /\ Range(SortedCandidates(who, word, types, disambiguation)) = Readings(who, word, types)
         /\ InOrder(who, disambiguation, SortedCandidates(who, word, types, disambiguation))
<1> DEFINE all == FilterInflectionGrammemes(who, word, types)
           n == Len(all)
           A == {s \in Seq(Candidates) : InOrder(who, disambiguation, s)}
           empty == << >>
           K(a, i) == Inserted(who, disambiguation, a, all[i])
           step == [i \in 1..n |-> [a \in A |-> K(a, i)]]
           sorted[i \in 0..Len(FilterInflectionGrammemes(who, word, types))] ==
              IF i = 0 THEN <<>>
              ELSE Inserted(who, disambiguation, sorted[i - 1], FilterInflectionGrammemes(who, word, types)[i])
           U(g) == [i \in 0..n |-> IF i = 0 THEN empty ELSE K(g[i - 1], i)]
<1>1. /\ n \in Nat /\ all \in Seq(Candidates) /\ Range(all) = Readings(who, word, types)
      /\ \A i \in 1..n : all[i] \in Candidates
  BY FilteredAre, LenProperties, ElementOfSeq
<1>2. ASSUME NEW i \in 1..n, NEW a \in A
      PROVE  K(a, i) \in A /\ Range(K(a, i)) = Range(a) \cup {all[i]}
  <2>1. a \in Seq(Candidates) /\ InOrder(who, disambiguation, a) /\ all[i] \in Candidates
    BY <1>1
  <2> HIDE DEF all
  <2> QED BY <2>1, InsertedInOrder
<1>3. empty \in A
  BY DEF InOrder
<1> HIDE DEF K, A, empty
<1>4. step \in [1..n -> [A -> A]]
  BY <1>2
<1>5. PICK f \in [0..n -> A] : Recursion(f, n, empty, step)
  <2> HIDE DEF step, n
  <2> QED BY <1>1, <1>3, <1>4, RecursionExists, Zenon
<1>6. f = U(f)
  <2>1. \A i \in 0..n : i # 0 => i \in 1..n /\ i - 1 \in 0..n
    BY <1>1
  <2> HIDE DEF n, all
  <2>2. \A i \in 0..n : i # 0 => step[i][f[i - 1]] = K(f[i - 1], i)
    BY <1>5, <2>1
  <2> QED BY <1>5, <2>2 DEF Recursion
<1>7. sorted = U(sorted)
  <2>1. sorted = CHOOSE g : g = U(g)
    BY Zenon DEF K, empty
  <2> HIDE DEF sorted, U
  <2> QED BY <1>6, <2>1, Zenon
<1>8. SortedCandidates(who, word, types, disambiguation) = sorted[n]
  BY Zenon DEF SortedCandidates
<1> HIDE DEF sorted, n, all
<1>9. sorted[0] = empty /\ \A i \in 1..n : sorted[i] = K(sorted[i - 1], i)
  <2>1. \A i \in 0..n : sorted[i] = IF i = 0 THEN empty ELSE K(sorted[i - 1], i)
    BY <1>7, Zenon
  <2>2. 0 \in 0..n /\ \A i \in 1..n : i \in 0..n /\ i # 0
    BY <1>1
  <2> QED BY <2>1, <2>2, Zenon
<1> DEFINE T == {i \in Nat : i <= n => sorted[i] \in A /\ Range(sorted[i]) = Looked(all, i)}
<1>10. 0 \in T
  <2>1. Range(empty) = {} /\ Looked(all, 0) = {}
    BY DEF Range, empty, Looked
  <2> QED BY <1>3, <1>9, <2>1
<1>11. ASSUME NEW i \in Nat, i \in T PROVE i + 1 \in T
  <2> SUFFICES ASSUME i + 1 <= n
               PROVE  sorted[i + 1] \in A /\ Range(sorted[i + 1]) = Looked(all, i + 1)
    OBVIOUS
  <2>1. i <= n /\ i + 1 \in 1..n /\ (i + 1) - 1 = i /\ i + 1 \in Nat \ {0}
    BY <1>1
  <2>2. sorted[i + 1] = K(sorted[i], i + 1)
    BY <1>9, <2>1, Zenon
  <2>3. sorted[i] \in A /\ Range(sorted[i]) = Looked(all, i)
    BY <1>11, <2>1
  <2>4. Looked(all, i + 1) = Looked(all, i) \cup {all[i + 1]}
    BY <2>1, LookedNext
  <2>5. K(sorted[i], i + 1) \in A /\ Range(K(sorted[i], i + 1)) = Range(sorted[i]) \cup {all[i + 1]}
    BY <1>2, <2>1, <2>3, Zenon
  <2> QED BY <2>2, <2>3, <2>4, <2>5, Zenon
<1> HIDE DEF T
<1>12. n \in T
  BY <1>1, <1>10, <1>11, SetInduction
<1>13. sorted[n] \in A /\ Range(sorted[n]) = Looked(all, n)
  <2>1. n <= n
    BY <1>1
  <2> QED BY <1>12, <2>1, Zenon DEF T
<1>14. Looked(all, n) = Range(all)
  BY <1>1, RangeEquality DEF Looked, n
<1> QED BY <1>1, <1>8, <1>13, <1>14, Zenon DEF A

-----------------------------------------------------------------------------
(* A word *)

\* What becomes of a word that is read as a candidate; the empty text is no form.
FormAs(c, word, constraints, optional) ==
  IF ~c.inflects THEN word
  ELSE Reinflect(c.pattern, c.own, GetValuesOfTypes(constraints), optional, word)

Usable(c, word, constraints, optional) ==
  ~c.inflects \/ FormAs(c, word, constraints, optional) # << >>

\* A reading of the word that no other comes before, or, if the language goes
\* on to the next one, no other that can be inflected as asked.
IsChosen(c, who, word, types, constraints, optional, disambiguation) ==
  /\ c \in Readings(who, word, types) /\ Usable(c, word, constraints, optional)
  /\ \A d \in Readings(who, word, types) :
        (who.fallback => Usable(d, word, constraints, optional))
           => ~ComesBefore(who, disambiguation, d, c)

\* What the reading c has of the grammemes to disambiguate by: each one that
\* another reading has that agrees about those named before it.
Disambiguates(c, who, word, types, constraints, optional, disambiguation) ==
  \A d \in Readings(who, word, types), k \in 1..Len(disambiguation) :
     /\ who.fallback => Usable(d, word, constraints, optional)
     /\ \A j \in 1..(k - 1) : disambiguation[j] \in d.grammemes <=> disambiguation[j] \in c.grammemes
     /\ disambiguation[k] \in d.grammemes
     => disambiguation[k] \in c.grammemes

\* What the first candidate that can be inflected is inflected to.
FirstForm(who, word, types, constraints, optional, disambiguation) ==
  LET s == SortedCandidates(who, word, types, disambiguation)
      tried == IF who.fallback THEN DOMAIN s ELSE DOMAIN s \cap {1}
      usable == {i \in tried : Usable(s[i], word, constraints, optional)}
      first == CHOOSE i \in usable : \A j \in usable : i <= j
  IN  IF types = {} \/ s = << >> \/ usable = {} THEN NoText
      ELSE FormAs(s[first], word, constraints, optional)

LEMMA InflectWordIs ==
  ASSUME NEW who, NEW word, NEW types, NEW constraints, NEW optional, NEW disambiguation,
         InflectWordImplementation(who, word, types, constraints, optional, disambiguation) # Thrown
  PROVE  InflectWordImplementation(who, word, types, constraints, optional, disambiguation)
           = FirstForm(who, word, types, constraints, optional, disambiguation)
<1> DEFINE s == SortedCandidates(who, word, types, disambiguation)
           tried == IF who.fallback THEN DOMAIN s ELSE DOMAIN s \cap {1}
           form(i) == IF ~s[i].inflects THEN word
                      ELSE Reinflect(s[i].pattern, s[i].own, GetValuesOfTypes(constraints), optional, word)
           usable == {i \in tried : ~s[i].inflects \/ form(i) # << >>}
           unknown == \/ \E g \in Range(disambiguation) : ~Recognized(<<g>>)
                      \/ /\ s[1].inflects
                         /\ \/ ~Recognized(constraints)
                            \/ \E g \in Range(optional) : ~Recognized(<<g>>)
           first == CHOOSE i \in usable : \A j \in usable : i <= j
           answer == InflectWordImplementation(who, word, types, constraints, optional, disambiguation)
<1>1. answer = IF types = {} \/ s = << >> THEN NoText
               ELSE IF unknown THEN Thrown
               ELSE IF usable = {} THEN NoText
               ELSE form(first)
  BY Zenon DEF InflectWordImplementation
<1>2. \A i : form(i) = FormAs(s[i], word, constraints, optional)
  BY DEF FormAs
<1>3. usable = {i \in tried : Usable(s[i], word, constraints, optional)}
  BY <1>2 DEF Usable
<1>4. answer # Thrown
  OBVIOUS
<1>6. FirstForm(who, word, types, constraints, optional, disambiguation)
        = IF types = {} \/ s = << >> \/ usable = {} THEN NoText
          ELSE FormAs(s[first], word, constraints, optional)
  <2> DEFINE able == {i \in tried : Usable(s[i], word, constraints, optional)}
  <2>1. FirstForm(who, word, types, constraints, optional, disambiguation)
          = IF types = {} \/ s = << >> \/ able = {} THEN NoText
            ELSE FormAs(s[CHOOSE i \in able : \A j \in able : i <= j], word, constraints, optional)
    BY Zenon DEF FirstForm
  <2>2. able = usable
    BY <1>3
  <2> HIDE DEF able, usable, tried, s
  <2> QED BY <2>1, <2>2, Zenon
<1> HIDE DEF answer, form, unknown, first, usable, tried, s
<1>5. answer = IF types = {} \/ s = << >> \/ usable = {} THEN NoText
               ELSE FormAs(s[first], word, constraints, optional)
  BY <1>1, <1>2, <1>4, Zenon
<1> QED BY <1>5, <1>6, Zenon DEF answer

\* A word is inflected as the reading of it that comes first, or the first
\* that has the form asked for: the answer is that of a reading that no other
\* one of the word comes before.  A grammeme to disambiguate by is had by it
\* whenever another reading has it that agrees about those named before
\* (DictionaryLookupInflector::inflectWordImplementation).
THEOREM FirstReadingInflects ==
  ASSUME NEW letters, LexiconOver(letters), NEW who, Lexicographer(who),
         NEW word, NEW types, NEW constraints, NEW optional, NEW G, NEW disambiguation \in Seq(G),
         InflectWordImplementation(who, word, types, constraints, optional, disambiguation)
            \notin {NoText, Thrown}
  PROVE  \E c \in Readings(who, word, types) :
            /\ IsChosen(c, who, word, types, constraints, optional, disambiguation)
            /\ InflectWordImplementation(who, word, types, constraints, optional, disambiguation)
                 = FormAs(c, word, constraints, optional)
            /\ Disambiguates(c, who, word, types, constraints, optional, disambiguation)
<1> DEFINE s == SortedCandidates(who, word, types, disambiguation)
           n == Len(s)
           tried == IF who.fallback THEN DOMAIN s ELSE DOMAIN s \cap {1}
           Can(x) == Usable(x, word, constraints, optional)
           usable == {i \in tried : Can(s[i])}
           first == CHOOSE i \in usable : \A j \in usable : i <= j
           answer == InflectWordImplementation(who, word, types, constraints, optional, disambiguation)
           R == Readings(who, word, types)
           before(x, y) == ComesBefore(who, disambiguation, x, y)
<1>1. answer = IF types = {} \/ s = << >> \/ usable = {} THEN NoText
               ELSE FormAs(s[first], word, constraints, optional)
  <2>1. answer = FirstForm(who, word, types, constraints, optional, disambiguation)
    BY InflectWordIs, Zenon
  <2> HIDE DEF answer
  <2> QED BY <2>1, Zenon DEF FirstForm
<1>2. answer # NoText
  OBVIOUS
<1>3. s \in Seq(Candidates) /\ Range(s) = R /\ InOrder(who, disambiguation, s)
  BY ReadingsAreSorted, Zenon
<1> HIDE DEF s, answer, Can, R
<1>4. n \in Nat /\ DOMAIN s = 1..n /\ (\A i \in 1..n : s[i] \in Candidates) /\ R = {s[i] : i \in 1..n}
  BY <1>3, LenProperties, ElementOfSeq, RangeEquality
<1>5. usable # {} /\ answer = FormAs(s[first], word, constraints, optional)
  BY <1>1, <1>2, Zenon
<1>6. usable \subseteq 1..n /\ usable \subseteq Nat
  BY <1>4
<1>7. first \in usable /\ \A j \in usable : first <= j
  <2> HIDE DEF usable
  <2>1. \E i \in usable : \A j \in usable : i <= j
    BY <1>5, <1>6, Least
  <2> QED BY <2>1, Zenon
<1> HIDE DEF first, n
<1> DEFINE c == s[first]
<1>8. first \in 1..n /\ c \in R /\ Can(c) /\ c \in Candidates
  BY <1>4, <1>6, <1>7
<1>9. \A i, j \in 1..n : i < j => ~before(s[j], s[i])
  BY <1>3 DEF InOrder, n
<1>10. ~before(c, c)
  BY <1>8, CandidatesAreOrdered, Zenon
<1> HIDE DEF before
<1>11. ASSUME NEW d \in R, who.fallback => Can(d) PROVE ~before(d, c)
  <2>1. PICK j \in 1..n : d = s[j]
    BY <1>4
  <2>2. CASE j = first
    BY <1>10, <2>1, <2>2
  <2>3. CASE first < j
    BY <1>8, <1>9, <2>1, <2>3
  <2>4. CASE j < first
    <3>1. j \notin usable
      BY <1>4, <1>6, <1>7, <1>8, <2>4
    <3>2. first # 1 /\ first \in tried
      BY <1>4, <1>7, <1>8, <2>4
    <3>3. who.fallback
      BY <3>2
    <3> QED BY <1>4, <1>11, <2>1, <3>1, <3>3
  <2>5. j = first \/ first < j \/ j < first
    BY <1>4, <1>8
  <2> QED BY <2>2, <2>3, <2>4, <2>5
<1>12. ASSUME NEW d \in R, NEW k \in 1..Len(disambiguation), who.fallback => Can(d),
              \A j \in 1..(k - 1) : disambiguation[j] \in d.grammemes <=> disambiguation[j] \in c.grammemes,
              disambiguation[k] \in d.grammemes
       PROVE  disambiguation[k] \in c.grammemes
  <2> SUFFICES ASSUME disambiguation[k] \notin c.grammemes PROVE FALSE
    OBVIOUS
  <2>1. OptionalScore(d.grammemes, disambiguation) > OptionalScore(c.grammemes, disambiguation)
    <3> HIDE DEF c
    <3> QED BY <1>12, FirstOptionDecides
  <2>2. d \in Candidates
    BY <1>4
  <2>3. before(d, c)
    <3> HIDE DEF c
    <3> QED BY <1>8, <2>1, <2>2, ComesBeforeIs DEF before
  <2> QED BY <1>11, <1>12, <2>3
<1> HIDE DEF c
<1>13. IsChosen(c, who, word, types, constraints, optional, disambiguation)
  BY <1>8, <1>11 DEF IsChosen, R, Can, before
<1>14. Disambiguates(c, who, word, types, constraints, optional, disambiguation)
  BY <1>12 DEF Disambiguates, R, Can
<1>15. c \in R /\ answer = FormAs(c, word, constraints, optional)
  BY <1>5, <1>8 DEF c
<1> QED BY <1>13, <1>14, <1>15, Zenon DEF R, answer

LEMMA SameEnding ==
  ASSUME NEW S, NEW u \in Seq(S), NEW v \in Seq(S), NEW e \in Seq(S), NEW f \in Seq(S),
         u \o e = v \o f, Len(e) = Len(f)
  PROVE  e = f
<1> DEFINE t == u \o e
<1>1. /\ Len(u) \in Nat /\ Len(v) \in Nat /\ Len(e) \in Nat /\ Len(f) \in Nat
  BY LenProperties
<1>2. /\ Len(t) = Len(u) + Len(e)
      /\ \A i \in 1..(Len(u) + Len(e)) : t[i] = IF i <= Len(u) THEN u[i] ELSE e[i - Len(u)]
  BY ConcatProperties
<1>3. /\ Len(v \o f) = Len(v) + Len(f)
      /\ \A i \in 1..(Len(v) + Len(f)) : (v \o f)[i] = IF i <= Len(v) THEN v[i] ELSE f[i - Len(v)]
  BY ConcatProperties
<1>4. t = v \o f
  OBVIOUS
<1> HIDE DEF t
<1>5. Len(u) = Len(v)
  BY <1>1, <1>2, <1>3, <1>4
<1>6. ASSUME NEW i \in 1..Len(e) PROVE e[i] = f[i]
  <2> DEFINE k == Len(u) + i
  <2>1. k \in 1..(Len(u) + Len(e)) /\ ~(k <= Len(u)) /\ k - Len(u) = i
    BY <1>1
  <2>2. t[k] = e[i]
    BY <1>2, <2>1
  <2>3. k \in 1..(Len(v) + Len(f)) /\ ~(k <= Len(v)) /\ k - Len(v) = i
    BY <1>5, <2>1
  <2>4. (v \o f)[k] = f[i]
    BY <1>3, <2>3
  <2> QED BY <1>4, <2>2, <2>4
<1> QED BY <1>6, SeqEqual

\* The ending of a reading that is replaced is its own: no longer one fits,
\* for what is of its grammemes is of those of the word.
LEMMA OwnEnding ==
  ASSUME NEW letters, LexiconOver(letters), NEW p \in DOMAIN Patterns, NEW word \in Seq(letters),
         NEW types, NEW r \in LongestOf(Fitting(Range(InflectionsOf(p)), word, types)),
         r.grammemes # {}, NEW stem \in Seq(letters), NEW ending \in Seq(letters), word = stem \o ending,
         IsLongestIn(Len(ending), Strippable(Range(InflectionsOf(p)), r.grammemes, word))
  PROVE  ending = r.suffix
<1> DEFINE S == Range(InflectionsOf(p))
           Z == Strippable(S, r.grammemes, word)
<1>1. S \subseteq InflectionsOver(letters)
  BY LexiconFacts, RangeOfSeq
<1>2. /\ r \in S /\ r.grammemes \subseteq types /\ IsSuffix(r.suffix, word)
      /\ \A q \in Fitting(S, word, types) : Len(q.suffix) <= Len(r.suffix)
  BY DEF LongestOf, Fitting
<1>3. r \in Z
  BY <1>2 DEF Strippable
<1>4. \A q \in Z : Len(q.suffix) <= Len(r.suffix)
  <2>1. \A q \in Z : q \in Fitting(S, word, types)
    BY <1>2 DEF Strippable, Fitting
  <2> HIDE DEF Z, S
  <2> QED BY <1>2, <2>1
<1>5. Len(r.suffix) \in Nat /\ Len(ending) \in Nat /\ r.suffix \in Seq(letters)
  <2>1. r \in InflectionsOver(letters)
    BY <1>1, <1>2
  <2>2. r.suffix \in Seq(letters)
    BY <2>1 DEF InflectionsOver
  <2> QED BY <2>1, <2>2, SuffixLength, LenProperties
<1>6. Len(ending) = Len(r.suffix)
  <2>1. /\ \A q \in Z : Len(q.suffix) <= Len(ending)
        /\ Len(ending) = 0 \/ \E q \in Z : Len(q.suffix) = Len(ending)
    BY DEF IsLongestIn
  <2> HIDE DEF Z, S
  <2>2. Len(r.suffix) <= Len(ending)
    BY <1>3, <2>1
  <2>3. Len(ending) = 0 \/ Len(ending) <= Len(r.suffix)
    BY <1>4, <2>1
  <2> QED BY <1>5, <2>2, <2>3
<1>7. /\ SubSeq(word, 1, Len(word) - Len(r.suffix)) \in Seq(letters)
      /\ SubSeq(word, 1, Len(word) - Len(r.suffix)) \o r.suffix = word
  <2>1. r.suffix \in Seq(letters) /\ IsSuffix(r.suffix, word)
    BY <1>2, <1>5, Zenon
  <2>2. word \in Seq(letters)
    OBVIOUS
  <2> DEFINE Ends(e, w) == /\ SubSeq(w, 1, Len(w) - Len(e)) \in Seq(letters)
                           /\ SubSeq(w, 1, Len(w) - Len(e)) \o e = w
  <2>3. \A e, w \in Seq(letters) : IsSuffix(e, w) => Ends(e, w)
    BY SuffixEnds, Zenon
  <2> HIDE DEF Ends
  <2>4. Ends(r.suffix, word)
    BY <2>1, <2>2, <2>3
  <2> QED BY <2>4 DEF Ends
<1> DEFINE v == SubSeq(word, 1, Len(word) - Len(r.suffix))
<1>8. v \in Seq(letters) /\ stem \o ending = v \o r.suffix
  BY <1>7
<1> HIDE DEF v
<1> QED BY <1>5, <1>6, <1>8, SameEnding

\* A reading of a word, put into the form asked for: a reading that has no
\* inflections, or is what was asked, stays as it is; of any other the ending
\* is replaced, that of an inflection that the word seems to be, by that of an
\* inflection of the same pattern that has all that was asked.
InflectedAs(c, word, types, wanted, answer, letters) ==
  \/ ~c.inflects /\ answer = word
  \/ c.inflects /\ (wanted = {} \/ wanted \subseteq c.own) /\ answer = word
  \/ /\ c.inflects
     /\ \E q \in Range(InflectionsOf(c.pattern)), stem \in Seq(letters), ending \in Seq(letters) :
           /\ wanted \subseteq q.grammemes
           /\ word = stem \o ending /\ answer = stem \o q.suffix
           /\ c.own # {} => \E r \in LongestOf(Fitting(Range(InflectionsOf(c.pattern)), word, types)) :
                               r.grammemes = c.own /\ ending = r.suffix

LEMMA ReadingInflects ==
  ASSUME NEW letters, LexiconOver(letters), NEW who, NEW word \in Seq(letters), NEW types,
         NEW constraints, NEW G, NEW optional \in Seq(G), NEW c \in Readings(who, word, types),
         Usable(c, word, constraints, optional)
  PROVE  InflectedAs(c, word, types, GetValuesOfTypes(constraints), FormAs(c, word, constraints, optional), letters)
<1> DEFINE wanted == GetValuesOfTypes(constraints)
           form == FormAs(c, word, constraints, optional)
<1>1. PICK p \in DOMAIN Patterns : c \in ReadingsBy(p, word, types)
  <2>1. PICK p \in Range(GetInflectionPatternsForWord(word)) : c \in ReadingsBy(p, word, types)
    BY DEF Readings, AllReadings
  <2>2. Range(GetInflectionPatternsForWord(word)) \subseteq DOMAIN Patterns
    BY PatternsOfWord, RangeOfSeq
  <2> QED BY <2>1, <2>2
<1>2. CASE ~c.inflects
  <2>1. form = word
    BY <1>2 DEF FormAs
  <2> HIDE DEF form, wanted
  <2> QED BY <1>2, <2>1, Zenon DEF InflectedAs, form, wanted
<1>3. CASE c.inflects
  <2> DEFINE S == Range(InflectionsOf(p))
  <2>1. PICK r \in LongestOf(Fitting(S, word, types)) :
           c = [pattern |-> p, inflects |-> TRUE, own |-> r.grammemes,
                grammemes |-> r.grammemes \cup Patterns[p].partsOfSpeech]
    BY <1>1, <1>3 DEF ReadingsBy
  <2>2. c.pattern = p /\ c.own = r.grammemes
    BY <2>1
  <2>3. form = Reinflect(p, r.grammemes, wanted, optional, word)
    BY <1>3, <2>2 DEF FormAs
  <2>4. form # << >>
    BY <1>3 DEF Usable
  <2>5. IsFiniteSet(wanted)
    <3>1. wanted \subseteq Range(Grammemes) /\ IsFiniteSet(Range(Grammemes))
      BY DEF GetValuesOfTypes, LexiconOver
    <3> QED BY <3>1, FS_Subset
  <2> HIDE DEF form, wanted, S
  <2>6. CASE wanted = {} \/ wanted \subseteq r.grammemes
    <3>1. form = word
      BY <2>3, <2>6 DEF Reinflect
    <3> QED BY <1>3, <2>2, <2>6, <3>1, Zenon DEF InflectedAs, form, wanted
  <2>7. CASE wanted # {} /\ ~(wanted \subseteq r.grammemes)
    <3>1. PutInto(form, p, word, r.grammemes, wanted, optional, letters)
      BY <2>3, <2>5, <2>7, Reinflects, Zenon
    <3>2. PICK q \in S, stem \in Seq(letters), ending \in Seq(letters) :
             /\ IsBestIn(q, S, r.grammemes, wanted, optional)
             /\ IsLongestIn(Len(ending), Strippable(S, r.grammemes, word))
             /\ word = stem \o ending
             /\ form = stem \o q.suffix
      BY <2>4, <3>1, Zenon DEF PutInto, S
    <3>3. wanted \subseteq q.grammemes
      BY <3>2 DEF IsBestIn, AsAsked
    <3> DEFINE Seems == LongestOf(Fitting(S, word, types))
    <3>4. r \in Seems
      BY DEF Seems
    <3> HIDE DEF Seems
    <3>41. r.grammemes # {} => ending = r.suffix
      BY <3>2, OwnEnding DEF S
    <3>5. c.own # {} => \E o \in Seems : o.grammemes = c.own /\ ending = o.suffix
      BY <2>2, <3>4, <3>41
    <3>6. \E x \in S, u \in Seq(letters), e \in Seq(letters) :
             /\ wanted \subseteq x.grammemes
             /\ word = u \o e /\ form = u \o x.suffix
             /\ c.own # {} => \E o \in Seems : o.grammemes = c.own /\ e = o.suffix
      BY <3>2, <3>3, <3>5, Zenon
    <3> QED BY <1>3, <2>2, <3>6, ZenonT(40) DEF InflectedAs, form, wanted, S, Seems
  <2> QED BY <2>6, <2>7
<1> QED BY <1>2, <1>3

\* Inflecting a word gives what was asked of one of its readings: the answer is
\* that reading put into the form asked for, and the ending that is replaced is
\* the longest of an inflection that the word seems to be, which is its own or
\* is misread (DictionaryLookupInflector::inflectWordImplementation and
\* Inflector_InflectionPattern::reinflect).
THEOREM InflectsItsLexeme ==
  ASSUME NEW letters, LexiconOver(letters), NEW who, Lexicographer(who),
         NEW word \in Seq(letters), NEW types, NEW constraints,
         NEW G, NEW optional \in Seq(G), NEW disambiguation \in Seq(G),
         InflectWordImplementation(who, word, types, constraints, optional, disambiguation)
            \notin {NoText, Thrown}
  PROVE  \E c \in Readings(who, word, types) :
            /\ IsChosen(c, who, word, types, constraints, optional, disambiguation)
            /\ InflectedAs(c, word, types, GetValuesOfTypes(constraints),
                 InflectWordImplementation(who, word, types, constraints, optional, disambiguation), letters)
<1> DEFINE answer == InflectWordImplementation(who, word, types, constraints, optional, disambiguation)
<1>1. PICK c \in Readings(who, word, types) :
         /\ IsChosen(c, who, word, types, constraints, optional, disambiguation)
         /\ answer = FormAs(c, word, constraints, optional)
         /\ Disambiguates(c, who, word, types, constraints, optional, disambiguation)
  BY FirstReadingInflects, Zenon
<1>2. Usable(c, word, constraints, optional)
  BY <1>1 DEF IsChosen
<1>3. InflectedAs(c, word, types, GetValuesOfTypes(constraints), FormAs(c, word, constraints, optional), letters)
  BY <1>2, ReadingInflects, Zenon
<1> HIDE DEF answer
<1> QED BY <1>1, <1>3, Zenon DEF answer

LEMMA SameStem ==
  ASSUME NEW S, NEW u \in Seq(S), NEW v \in Seq(S), NEW e \in Seq(S), u \o e = v \o e
  PROVE  u = v
<1> DEFINE t == u \o e
<1>1. /\ Len(u) \in Nat /\ Len(v) \in Nat /\ Len(e) \in Nat
  BY LenProperties
<1>2. /\ Len(t) = Len(u) + Len(e)
      /\ \A i \in 1..(Len(u) + Len(e)) : t[i] = IF i <= Len(u) THEN u[i] ELSE e[i - Len(u)]
  BY ConcatProperties
<1>3. /\ Len(v \o e) = Len(v) + Len(e)
      /\ \A i \in 1..(Len(v) + Len(e)) : (v \o e)[i] = IF i <= Len(v) THEN v[i] ELSE e[i - Len(v)]
  BY ConcatProperties
<1>4. t = v \o e
  OBVIOUS
<1> HIDE DEF t
<1>5. Len(u) = Len(v)
  BY <1>1, <1>2, <1>3, <1>4
<1>6. ASSUME NEW i \in 1..Len(u) PROVE u[i] = v[i]
  BY <1>1, <1>2, <1>3, <1>4, <1>5
<1> QED BY <1>5, <1>6, SeqEqual

\* The stem is kept in whatever form a word is inflected to, if no inflection
\* that the word seems to be has a longer ending than its own: no accident of
\* how the stem ends takes letters of it (Inflector_InflectionPattern.cpp:96-111,
\* 158).
THEOREM StemIsKept ==
  ASSUME NEW letters, LexiconOver(letters), NEW who, Lexicographer(who),
         NEW word \in Seq(letters), NEW types, NEW constraints,
         NEW G, NEW optional \in Seq(G), NEW disambiguation \in Seq(G),
         InflectWordImplementation(who, word, types, constraints, optional, disambiguation)
            \notin {NoText, Thrown},
         NEW stem \in Seq(letters),
         \A p \in Range(GetInflectionPatternsForWord(word)) :
            \A r \in LongestOf(Fitting(Range(InflectionsOf(p)), word, types)) :
               r.grammemes # {} /\ word = stem \o r.suffix
  PROVE  \/ InflectWordImplementation(who, word, types, constraints, optional, disambiguation) = word
         \/ \E p \in Range(GetInflectionPatternsForWord(word)) : \E q \in Range(InflectionsOf(p)) :
               /\ GetValuesOfTypes(constraints) \subseteq q.grammemes
               /\ InflectWordImplementation(who, word, types, constraints, optional, disambiguation)
                    = stem \o q.suffix
<1> DEFINE answer == InflectWordImplementation(who, word, types, constraints, optional, disambiguation)
           wanted == GetValuesOfTypes(constraints)
           Seems(p) == LongestOf(Fitting(Range(InflectionsOf(p)), word, types))
<1>1. PICK c \in Readings(who, word, types) : InflectedAs(c, word, types, wanted, answer, letters)
  BY InflectsItsLexeme, Zenon
<1> HIDE DEF answer, wanted
<1>2. CASE answer = word
  BY <1>2 DEF answer
<1>3. CASE answer # word
  <2>1. /\ c.inflects
        /\ \E q \in Range(InflectionsOf(c.pattern)), u \in Seq(letters), e \in Seq(letters) :
              /\ wanted \subseteq q.grammemes
              /\ word = u \o e /\ answer = u \o q.suffix
              /\ c.own # {} => \E r \in Seems(c.pattern) : r.grammemes = c.own /\ e = r.suffix
    BY <1>1, <1>3, Zenon DEF InflectedAs
  <2>2. PICK p \in Range(GetInflectionPatternsForWord(word)) : c \in ReadingsBy(p, word, types)
    BY DEF Readings, AllReadings
  <2>3. PICK o \in Seems(p) : c.pattern = p /\ c.own = o.grammemes
    BY <2>1, <2>2 DEF ReadingsBy
  <2> HIDE DEF Seems
  <2>4. \A r \in Seems(p) : r.grammemes # {} /\ word = stem \o r.suffix
    BY DEF Seems
  <2>5. PICK q \in Range(InflectionsOf(p)), u \in Seq(letters), e \in Seq(letters) :
              /\ wanted \subseteq q.grammemes
              /\ word = u \o e /\ answer = u \o q.suffix
              /\ c.own # {} => \E r \in Seems(p) : r.grammemes = c.own /\ e = r.suffix
    BY <2>1, <2>3
  <2>6. word = stem \o e
    <3>1. c.own # {}
      BY <2>3, <2>4
    <3>2. PICK r \in Seems(p) : e = r.suffix
      BY <2>5, <3>1
    <3>3. word = stem \o r.suffix
      BY <2>4
    <3> QED BY <3>2, <3>3
  <2>7. u \o e = stem \o e
    BY <2>5, <2>6
  <2>8. u = stem
    BY <2>7, SameStem
  <2>9. wanted \subseteq q.grammemes /\ answer = stem \o q.suffix
    BY <2>5, <2>8
  <2> QED BY <2>9 DEF answer, wanted
<1> QED BY <1>2, <1>3

\* There is no answer only for a word that has no reading, or if the reading
\* that no other one comes before has none: where the language goes on to the
\* next, if none of them has (DictionaryLookupInflector::inflectWordImplementation).
THEOREM NoFormLeft ==
  ASSUME NEW letters, LexiconOver(letters), NEW who, Lexicographer(who),
         NEW word, NEW types, NEW constraints, NEW optional, NEW G, NEW disambiguation \in Seq(G),
         NoText # Thrown, types # {}, Readings(who, word, types) # {},
         \A c \in Readings(who, word, types) : FormAs(c, word, constraints, optional) # NoText,
         InflectWordImplementation(who, word, types, constraints, optional, disambiguation) = NoText
  PROVE  IF who.fallback
         THEN \A c \in Readings(who, word, types) : ~Usable(c, word, constraints, optional)
         ELSE \E c \in Readings(who, word, types) :
                 /\ ~Usable(c, word, constraints, optional)
                 /\ \A d \in Readings(who, word, types) : ~ComesBefore(who, disambiguation, d, c)
<1> DEFINE s == SortedCandidates(who, word, types, disambiguation)
           n == Len(s)
           tried == IF who.fallback THEN DOMAIN s ELSE DOMAIN s \cap {1}
           Can(x) == Usable(x, word, constraints, optional)
           usable == {i \in tried : Can(s[i])}
           first == CHOOSE i \in usable : \A j \in usable : i <= j
           answer == InflectWordImplementation(who, word, types, constraints, optional, disambiguation)
           R == Readings(who, word, types)
           before(x, y) == ComesBefore(who, disambiguation, x, y)
<1>1. answer = IF types = {} \/ s = << >> \/ usable = {} THEN NoText
               ELSE FormAs(s[first], word, constraints, optional)
  <2>1. answer # Thrown
    OBVIOUS
  <2>2. answer = FirstForm(who, word, types, constraints, optional, disambiguation)
    BY <2>1, InflectWordIs, Zenon
  <2> HIDE DEF answer
  <2> QED BY <2>2, Zenon DEF FirstForm
<1>2. answer = NoText /\ types # {} /\ R # {} /\ \A c \in R : FormAs(c, word, constraints, optional) # NoText
  OBVIOUS
<1>3. s \in Seq(Candidates) /\ Range(s) = R /\ InOrder(who, disambiguation, s)
  BY ReadingsAreSorted, Zenon
<1> HIDE DEF s, answer, Can, R
<1>4. n \in Nat /\ DOMAIN s = 1..n /\ (\A i \in 1..n : s[i] \in Candidates) /\ R = {s[i] : i \in 1..n}
  BY <1>3, LenProperties, ElementOfSeq, RangeEquality
<1>5. n # 0
  BY <1>2, <1>4
<1>6. s # << >>
  <2>1. s = << >> => n = 0
    BY EmptySeq
  <2> QED BY <1>5, <2>1
<1>7. usable = {}
  <2> SUFFICES ASSUME usable # {} PROVE FALSE
    OBVIOUS
  <2>1. usable \subseteq Nat /\ usable \subseteq 1..n
    BY <1>4
  <2> HIDE DEF usable
  <2>2. \E i \in usable : \A j \in usable : i <= j
    BY <2>1, Least
  <2>3. first \in usable
    BY <2>2, Zenon
  <2> HIDE DEF first
  <2>4. s[first] \in R
    BY <1>4, <2>1, <2>3
  <2>5. answer = FormAs(s[first], word, constraints, optional)
    BY <1>1, <1>2, <1>6
  <2> QED BY <1>2, <2>4, <2>5
<1>8. CASE who.fallback
  <2>1. \A i \in 1..n : ~Can(s[i])
    BY <1>4, <1>7, <1>8
  <2> QED BY <1>4, <1>8, <2>1 DEF R, Can
<1>9. CASE ~who.fallback
  <2>1. 1 \in 1..n
    BY <1>4, <1>5
  <2>2. ~Can(s[1]) /\ s[1] \in R /\ s[1] \in Candidates
    BY <1>4, <1>7, <1>9, <2>1
  <2>3. ASSUME NEW d \in R PROVE ~before(d, s[1])
    <3>1. PICK j \in 1..n : d = s[j]
      BY <1>4
    <3>2. CASE j = 1
      BY <2>2, <3>1, <3>2, CandidatesAreOrdered
    <3>3. CASE j # 1
      <4>1. 1 < j
        BY <1>4, <3>3
      <4> QED BY <1>3, <2>1, <3>1, <4>1 DEF InOrder, n
    <3> QED BY <3>2, <3>3
  <2> QED BY <1>9, <2>2, <2>3 DEF R, Can, before
<1> QED BY <1>8, <1>9

-----------------------------------------------------------------------------
(* The containers of the file of a dictionary *)

CONSTANTS Order, LowerCase, InflectionKey, WordBits, IntBits, MaxBits, MaxValues, MaxSingletons, GrammarTypes, WideMask

\* What the file is made of, whatever the tool has read of its source.
F == INSTANCE DictionaryFile WITH source <- <<>>, table <- NoText, dictionary <- NoText, file <- NoText

LEMMA Divided ==
  ASSUME NEW x \in Nat, NEW W \in Nat \ {0}
  PROVE  /\ x \div W \in Nat /\ (x % W) \in 0..(W - 1)
         /\ x = (x \div W) * W + (x % W)
OBVIOUS

LEMMA Multiples ==
  ASSUME NEW W \in Nat, NEW m \in Int, NEW n \in Int, m < n
  PROVE  m * W + W <= n * W
<1>1. PICK d \in Nat : n = m + 1 + d
  <2>1. n - m - 1 \in Nat /\ n = m + 1 + (n - m - 1)
    OBVIOUS
  <2> QED BY <2>1
<1>2. n * W = m * W + W + d * W
  BY <1>1
<1>3. d * W >= 0 /\ d * W \in Int /\ m * W \in Int /\ n * W \in Int
  OBVIOUS
<1> QED BY <1>2, <1>3

LEMMA Quotient ==
  ASSUME NEW W \in Nat \ {0}, NEW q \in Int, NEW r \in 0..(W - 1), NEW x \in Nat, x = q * W + r
  PROVE  x \div W = q
<1> DEFINE p == x \div W
           s == x % W
<1>1. p \in Nat /\ s \in 0..(W - 1) /\ x = p * W + s
  BY Divided
<1> HIDE DEF p, s
<1>2. p * W \in Int /\ q * W \in Int
  BY <1>1
<1>3. CASE p < q
  <2>1. p * W + W <= q * W
    BY <1>1, <1>3, Multiples
  <2> QED BY <1>1, <1>2, <2>1
<1>4. CASE q < p
  <2>1. q * W + W <= p * W
    BY <1>1, <1>4, Multiples
  <2> QED BY <1>1, <1>2, <2>1
<1> QED BY <1>1, <1>3, <1>4 DEF p

\* Where a value begins, and which word it ends in: the same one if it fits.
IsPlace(place, w, a) ==
  /\ place.first \in Nat /\ place.shift \in 0..(WordBits - 1)
  /\ a * w = place.first * WordBits + place.shift
  /\ place.last = IF place.shift + w <= WordBits THEN place.first ELSE place.first + 1

LEMMA PlaceIs ==
  ASSUME WordBits \in Nat \ {0}, NEW w \in 1..WordBits, NEW a \in Nat
  PROVE  IsPlace(F!Place(w, a), w, a)
<1> DEFINE x == a * w
           f == x \div WordBits
           s == x % WordBits
<1>1. x \in Nat
  OBVIOUS
<1> HIDE DEF x
<1>2. f \in Nat /\ s \in 0..(WordBits - 1) /\ x = f * WordBits + s
  BY <1>1, Divided
<1>3. f * WordBits \in Int /\ (f + 1) * WordBits = f * WordBits + WordBits
  BY <1>2
<1> HIDE DEF f, s
<1>4. x + w - 1 \in Nat
  BY <1>1
<1>5. (x + w - 1) \div WordBits = IF s + w <= WordBits THEN f ELSE f + 1
  <2>1. CASE s + w <= WordBits
    <3>1. x + w - 1 = f * WordBits + (s + w - 1) /\ s + w - 1 \in 0..(WordBits - 1)
      BY <1>2, <1>3, <2>1
    <3> QED BY <1>2, <1>4, <2>1, <3>1, Quotient
  <2>2. CASE ~(s + w <= WordBits)
    <3>1. x + w - 1 = (f + 1) * WordBits + (s + w - 1 - WordBits) /\ s + w - 1 - WordBits \in 0..(WordBits - 1)
      BY <1>2, <1>3, <2>2
    <3>2. f + 1 \in Int
      BY <1>2
    <3> DEFINE y == x + w - 1
               q == f + 1
               r == s + w - 1 - WordBits
    <3>3. y \in Nat /\ q \in Int /\ r \in 0..(WordBits - 1) /\ y = q * WordBits + r
      BY <1>4, <3>1, <3>2
    <3> HIDE DEF y, q, r
    <3>4. y \div WordBits = q
      BY <3>3, Quotient, Zenon
    <3> QED BY <2>2, <3>4 DEF y, q
  <2> QED BY <2>1, <2>2
<1>6. F!Place(w, a) = [first |-> f, last |-> (x + w - 1) \div WordBits, shift |-> s]
  BY DEF F!Place, x, f, s
<1> QED BY <1>2, <1>5, <1>6 DEF IsPlace, x

\* In the words taken together, the bits of a value follow its place.
LEMMA PartIs ==
  ASSUME WordBits \in Nat \ {0}, NEW w \in 1..WordBits, NEW a \in Nat,
         NEW value, value \subseteq 0..(w - 1), NEW k \in Nat, NEW b \in 0..(WordBits - 1)
  PROVE  b \in F!PartIn(w, a, value, k) <=> k * WordBits + b - a * w \in value
<1> DEFINE place == F!Place(w, a)
           f == place.first
           l == place.last
           s == place.shift
<1>1. /\ f \in Nat /\ s \in 0..(WordBits - 1) /\ a * w = f * WordBits + s
      /\ l = IF s + w <= WordBits THEN f ELSE f + 1
  BY PlaceIs, Zenon DEF IsPlace
<1> HIDE DEF place
<1>2. F!PartIn(w, a, value, k) =
        IF k = f THEN F!Shifted(value, s) ELSE IF k = l THEN F!Shifted(value, s - WordBits) ELSE {}
  <2>1. CASE k = f
    BY <2>1 DEF F!PartIn, place
  <2>2. CASE k # f /\ k = l
    BY <2>2 DEF F!PartIn, place
  <2>3. CASE k # f /\ k # l
    BY <2>3 DEF F!PartIn, place
  <2> QED BY <2>1, <2>2, <2>3
<1> HIDE DEF f, l, s
<1> DEFINE at == k * WordBits + b - a * w
<1>3. CASE k = f
  <2>1. at = b - s
    <3>1. k * WordBits = f * WordBits /\ f * WordBits \in Int
      BY <1>1, <1>3
    <3> QED BY <1>1, <3>1
  <2>2. b \in F!Shifted(value, s) <=> b - s \in value
    BY <1>1 DEF F!Shifted
  <2> QED BY <1>2, <1>3, <2>1, <2>2
<1>4. CASE k # f /\ k = l
  <2>1. at = b + WordBits - s
    <3>1. k = f + 1
      BY <1>1, <1>4
    <3>2. k * WordBits = f * WordBits + WordBits /\ f * WordBits \in Int
      BY <1>1, <3>1
    <3> QED BY <1>1, <3>2
  <2>2. b \in F!Shifted(value, s - WordBits) <=> b + WordBits - s \in value
    BY <1>1 DEF F!Shifted
  <2> QED BY <1>2, <1>4, <2>1, <2>2
<1>5. CASE k # f /\ k # l
  <2>1. ~(at \in value)
    <3> SUFFICES ASSUME at \in 0..(w - 1) PROVE FALSE
      OBVIOUS
    <3> DEFINE kW == k * WordBits
               fW == f * WordBits
    <3>1. kW \in Int /\ fW \in Int /\ at = kW + b - (fW + s)
      BY <1>1
    <3>2. kW + b >= fW + s /\ kW + b < fW + s + w
      <4> HIDE DEF kW, fW
      <4> QED BY <1>1, <3>1
    <3>3. CASE k < f
      <4>1. kW + WordBits <= fW
        BY <1>1, <3>3, Multiples
      <4> HIDE DEF kW, fW
      <4> QED BY <1>1, <3>1, <3>2, <4>1
    <3>4. CASE f < k /\ s + w <= WordBits
      <4>1. fW + WordBits <= kW
        BY <1>1, <3>4, Multiples
      <4> HIDE DEF kW, fW
      <4> QED BY <1>1, <3>1, <3>2, <3>4, <4>1
    <3>5. CASE f < k /\ ~(s + w <= WordBits)
      <4>1. f + 1 < k /\ f + 1 \in Int
        BY <1>1, <1>5, <3>5
      <4>2. (f + 1) * WordBits + WordBits <= kW
        BY <4>1, Multiples
      <4>3. (f + 1) * WordBits = fW + WordBits
        BY <1>1
      <4> HIDE DEF kW, fW
      <4> QED BY <1>1, <3>1, <3>2, <3>5, <4>2, <4>3
    <3> QED BY <1>1, <1>5, <3>3, <3>4, <3>5
  <2> QED BY <1>2, <1>5, <2>1
<1> QED BY <1>3, <1>4, <1>5

LEMMA Greatest ==
  ASSUME NEW n \in Nat, NEW S, S \subseteq 0..n, S # {}
  PROVE  F!Max(S) \in S /\ \A x \in S : x <= F!Max(S)
<1> DEFINE R == {n - x : x \in S}
<1>1. R \subseteq Nat /\ R # {}
  <2>1. \A x \in S : n - x \in Nat
    OBVIOUS
  <2> QED BY <2>1
<1>2. PICK m \in R : \A k \in R : m <= k
  <2> HIDE DEF R
  <2> QED BY <1>1, Least
<1>3. PICK g \in S : m = n - g
  OBVIOUS
<1>4. \A y \in S : g >= y
  <2> SUFFICES ASSUME NEW y \in S PROVE g >= y
    OBVIOUS
  <2>1. n - y \in R
    OBVIOUS
  <2>2. m <= n - y
    BY <1>2, <2>1
  <2> QED BY <1>3, <2>2
<1>5. F!Max(S) \in S /\ \A y \in S : F!Max(S) >= y
  BY <1>4, Zenon DEF F!Max
<1> QED BY <1>5

\* The values of an array fit its width, which a word of memory has room for.
LEMMA WidthIs ==
  ASSUME WordBits \in Nat, WordBits >= 2, NEW S, S \subseteq 0..(WordBits - 2)
  PROVE  /\ F!CalculateBitWidth(S) \in 1..(WordBits - 1)
         /\ S \subseteq 0..(F!CalculateBitWidth(S) - 1)
<1>1. CASE S = {}
  BY <1>1 DEF F!CalculateBitWidth
<1>2. CASE S # {}
  <2>1. F!Max(S) \in S /\ \A x \in S : x <= F!Max(S)
    <3>1. WordBits - 2 \in Nat
      OBVIOUS
    <3> QED BY <1>2, <3>1, Greatest
  <2>2. F!CalculateBitWidth(S) = F!Max(S) + 1
    BY <1>2, Zenon DEF F!CalculateBitWidth
  <2> DEFINE g == F!Max(S)
  <2>3. g \in 0..(WordBits - 2) /\ \A x \in S : x \in Nat /\ x <= g
    <3>1. g \in S /\ \A x \in S : x <= g
      BY <2>1
    <3>2. \A x \in S : x \in 0..(WordBits - 2) /\ x \in Nat
      OBVIOUS
    <3> HIDE DEF g
    <3> QED BY <3>1, <3>2
  <2> HIDE DEF g
  <2>4. g + 1 \in 1..(WordBits - 1) /\ (g + 1) - 1 = g /\ S \subseteq 0..g
    BY <2>3
  <2> QED BY <2>2, <2>4 DEF g
<1> QED BY <1>1, <1>2

\* A value is found at its place, and no other value's bits are there.
LEMMA OwnPlace ==
  ASSUME NEW w \in Nat \ {0}, NEW a \in Int, NEW j \in Int, NEW x \in 0..(w - 1),
         a * w + x - j * w \in 0..(w - 1)
  PROVE  a = j
<1> DEFINE aw == a * w
           jw == j * w
<1>1. aw \in Int /\ jw \in Int /\ aw + x - jw \in 0..(w - 1)
  OBVIOUS
<1>2. a < j => aw + w <= jw
  BY Multiples
<1>3. j < a => jw + w <= aw
  BY Multiples
<1> HIDE DEF aw, jw
<1>4. ~(a < j) /\ ~(j < a)
  BY <1>1, <1>2, <1>3
<1> QED BY <1>4

\* The array of a sequence of values has a width each value fits, and in its
\* words, one behind the other, each value has its place.
IsPacked(array, values) ==
  /\ array.width \in 1..(WordBits - 1)
  /\ \A i \in 1..Len(values) : values[i] \subseteq 0..(array.width - 1)
  /\ array.length \in Nat /\ array.length * WordBits >= Len(values) * array.width
  /\ \A k \in 0..(array.length - 1) :
        /\ array.words[k] \subseteq 0..(WordBits - 1)
        /\ \A b \in 0..(WordBits - 1) :
              b \in array.words[k] <=>
                \E i \in 1..Len(values) : k * WordBits + b - (i - 1) * array.width \in values[i]

LEMMA PackedIs ==
  ASSUME WordBits \in Nat, WordBits >= 2, NEW values \in Seq(SUBSET (0..(WordBits - 2)))
  PROVE  IsPacked(F!CompressedArray(values), values)
<1> DEFINE n == Len(values)
           w == F!CalculateBitWidth(UNION F!Range(values))
           length == (n * w + WordBits - 1) \div WordBits
           words == [k \in 0..(length - 1) |-> UNION {F!PartIn(w, i - 1, values[i], k) : i \in DOMAIN values}]
           array == F!CompressedArray(values)
<1>1. array = [width |-> w, length |-> length, words |-> words]
  BY Zenon DEF F!CompressedArray
<1>2. n \in Nat /\ DOMAIN values = 1..n /\ \A i \in 1..n : values[i] \subseteq 0..(WordBits - 2)
  BY LenProperties, ElementOfSeq
<1>3. w \in 1..(WordBits - 1) /\ \A i \in 1..n : values[i] \subseteq 0..(w - 1)
  <2> DEFINE S == UNION F!Range(values)
  <2>1. \A i \in 1..n : values[i] \subseteq S
    BY <1>2 DEF F!Range
  <2>2. S \subseteq 0..(WordBits - 2)
    BY <1>2 DEF F!Range
  <2> HIDE DEF S
  <2>3. F!CalculateBitWidth(S) \in 1..(WordBits - 1) /\ S \subseteq 0..(F!CalculateBitWidth(S) - 1)
    BY <2>2, WidthIs
  <2> QED BY <2>1, <2>3 DEF S
<1> HIDE DEF w, array, words
<1>4. n * w \in Nat /\ n * w + WordBits - 1 \in Nat
  BY <1>2, <1>3
<1>5. length \in Nat /\ length * WordBits >= n * w
  <2> DEFINE x == n * w + WordBits - 1
             r == x % WordBits
             lw == length * WordBits
  <2>1. length \in Nat /\ r \in 0..(WordBits - 1) /\ x = lw + r
    <3>1. WordBits \in Nat \ {0}
      OBVIOUS
    <3> QED BY <1>4, <3>1, Divided, Zenon
  <2>2. lw \in Int
    BY <2>1
  <2> DEFINE nw == n * w
  <2>3. nw \in Nat /\ x = nw + WordBits - 1
    BY <1>4
  <2>4. lw >= nw
    <3> HIDE DEF lw, nw, x, r
    <3> QED BY <2>1, <2>2, <2>3
  <2> QED BY <2>1, <2>4
<1> HIDE DEF length
<1>6. ASSUME NEW k \in 0..(length - 1)
      PROVE  words[k] = UNION {F!PartIn(w, i - 1, values[i], k) : i \in 1..n}
  BY <1>2 DEF words
<1>7. ASSUME NEW k \in 0..(length - 1), NEW b \in words[k] PROVE b \in 0..(WordBits - 1)
  <2>1. PICK i \in 1..n : b \in F!PartIn(w, i - 1, values[i], k)
    BY <1>6, <1>7
  <2> QED BY <2>1 DEF F!PartIn, F!Shifted
<1>8. ASSUME NEW k \in 0..(length - 1), NEW b \in 0..(WordBits - 1)
      PROVE  b \in words[k] <=> \E i \in 1..n : k * WordBits + b - (i - 1) * w \in values[i]
  <2>1. b \in words[k] <=> \E i \in 1..n : b \in F!PartIn(w, i - 1, values[i], k)
    BY <1>6
  <2>2. ASSUME NEW i \in 1..n
        PROVE  b \in F!PartIn(w, i - 1, values[i], k) <=> k * WordBits + b - (i - 1) * w \in values[i]
    <3>1. /\ WordBits \in Nat \ {0} /\ w \in 1..WordBits /\ i - 1 \in Nat /\ k \in Nat
          /\ values[i] \subseteq 0..(w - 1)
      BY <1>2, <1>3, <1>5
    <3> QED BY <3>1, PartIs, Zenon
  <2> QED BY <2>1, <2>2, Zenon
<1>9. array.width = w /\ array.length = length /\ array.words = words
  BY <1>1
<1>10. \A k \in 0..(length - 1) : words[k] \subseteq 0..(WordBits - 1)
  BY <1>7
<1> HIDE DEF n
<1>11. IsPacked(array, values)
  BY <1>3, <1>5, <1>8, <1>9, <1>10, Zenon DEF IsPacked, n
<1> QED BY <1>11 DEF array

\* What was written to an array is read from it, whatever the width of its
\* values and wherever they lie: also one that begins in one word of memory
\* and ends in the next, among neighbours that share both
\* (CompressedArray::write and CompressedArray::read).
THEOREM WhatIsWrittenIsRead ==
  ASSUME WordBits \in Nat, WordBits >= 2, NEW values \in Seq(SUBSET (0..(WordBits - 2))),
         NEW i \in 1..Len(values)
  PROVE  F!ReadArray(F!CompressedArray(values), i - 1) = values[i]
<1> DEFINE array == F!CompressedArray(values)
           n == Len(values)
           w == array.width
           place == F!Place(w, i - 1)
           f == place.first
           l == place.last
           s == place.shift
           from == F!Shifted(array.words[f], -s)
           rest == F!Shifted(array.words[l], WordBits - s)
<1>1. /\ n \in Nat /\ i - 1 \in Nat /\ i \in 1..n /\ WordBits \in Nat \ {0}
  BY LenProperties
<1>2. IsPacked(array, values)
  BY PackedIs
<1> HIDE DEF array
<1>3. /\ w \in 1..(WordBits - 1) /\ w \in 1..WordBits /\ w \in Nat \ {0}
      /\ \A j \in 1..n : values[j] \subseteq 0..(w - 1)
      /\ array.length \in Nat /\ array.length * WordBits >= n * w
  <2>1. /\ w \in 1..(WordBits - 1)
        /\ \A j \in 1..n : values[j] \subseteq 0..(w - 1)
        /\ array.length \in Nat /\ array.length * WordBits >= n * w
    BY <1>2 DEF IsPacked
  <2> QED BY <2>1
<1> HIDE DEF w
<1>4. /\ f \in Nat /\ s \in 0..(WordBits - 1) /\ (i - 1) * w = f * WordBits + s
      /\ l = IF s + w <= WordBits THEN f ELSE f + 1
  BY <1>1, <1>3, PlaceIs, Zenon DEF IsPlace
<1> HIDE DEF f, l, s
<1>5. f \in 0..(array.length - 1) /\ l \in 0..(array.length - 1)
  <2> DEFINE fW == f * WordBits
             lW == l * WordBits
             aw == (i - 1) * w
             nw == n * w
             end == array.length * WordBits
  <2>1. fW \in Int /\ lW \in Int /\ aw \in Int /\ nw \in Int /\ end \in Int /\ aw = fW + s /\ end >= nw
    BY <1>1, <1>3, <1>4
  <2>2. aw + w <= nw
    <3>1. i - 1 < n /\ i - 1 \in Int /\ n \in Int /\ w \in Nat
      BY <1>1, <1>3
    <3> QED BY <3>1, Multiples
  <2>3. lW = IF s + w <= WordBits THEN fW ELSE fW + WordBits
    <3>1. (f + 1) * WordBits = f * WordBits + WordBits
      BY <1>1, <1>4
    <3> QED BY <1>4, <3>1
  <2>4. lW < end
    <3> HIDE DEF fW, lW, aw, nw, end
    <3> QED BY <1>3, <1>4, <2>1, <2>2, <2>3
  <2>5. l < array.length
    <3>1. l \in Int
      BY <1>4
    <3>2. array.length = l => lW = end
      OBVIOUS
    <3>3. array.length < l => end + WordBits <= lW
      <4> SUFFICES ASSUME array.length < l PROVE end + WordBits <= lW
        OBVIOUS
      <4>1. array.length \in Int /\ WordBits \in Nat
        BY <1>3
      <4> QED BY <3>1, <4>1, Multiples, Zenon
    <3> HIDE DEF lW, end
    <3> QED BY <1>1, <1>3, <2>1, <2>4, <3>1, <3>2, <3>3
  <2> QED BY <1>3, <1>4, <2>5
<1>6. ASSUME NEW k \in 0..(array.length - 1), NEW x \in 0..(w - 1), NEW b \in 0..(WordBits - 1),
             k * WordBits + b = f * WordBits + s + x
      PROVE  b \in array.words[k] <=> x \in values[i]
  <2> DEFINE aw == (i - 1) * w
             p == k * WordBits + b
  <2>1. b \in array.words[k] <=> \E j \in 1..n : p - (j - 1) * w \in values[j]
    <3>1. \A c \in 0..(WordBits - 1) :
             c \in array.words[k] <=> \E j \in 1..n : k * WordBits + c - (j - 1) * w \in values[j]
      BY <1>2 DEF IsPacked, w
    <3>2. b \in array.words[k] <=> \E j \in 1..n : k * WordBits + b - (j - 1) * w \in values[j]
      BY <3>1, Zenon
    <3>3. ASSUME NEW j \in 1..n PROVE k * WordBits + b - (j - 1) * w = p - (j - 1) * w
      <4>1. (j - 1) * w \in Int /\ k * WordBits \in Int /\ b \in Int
        BY <1>1, <1>3
      <4> QED BY <4>1
    <3> HIDE DEF p
    <3> QED BY <3>2, <3>3, Zenon
  <2>2. p = aw + x /\ aw \in Int /\ x \in Int /\ aw + x - aw = x
    BY <1>1, <1>3, <1>4, <1>6
  <2> HIDE DEF p
  <2>3. ASSUME NEW j \in 1..n, p - (j - 1) * w \in values[j] PROVE j = i
    <3>1. aw + x - (j - 1) * w \in 0..(w - 1)
      BY <1>3, <2>2, <2>3
    <3>2. i - 1 \in Int /\ j - 1 \in Int
      BY <1>1
    <3>3. i - 1 = j - 1
      BY <1>3, <3>1, <3>2, OwnPlace, Zenon
    <3> QED BY <1>1, <3>3
  <2>4. p - (i - 1) * w = x
    BY <2>2
  <2> QED BY <1>1, <2>1, <2>3, <2>4
<1>7. array.words[f] \subseteq 0..(WordBits - 1) /\ array.words[l] \subseteq 0..(WordBits - 1)
  BY <1>2, <1>5 DEF IsPacked
<1>8. ASSUME NEW x \in 0..(w - 1)
      PROVE  x \in from <=> x + s < WordBits /\ x \in values[i]
  <2>1. x \in from <=> x + s \in array.words[f]
    <3>1. \A b \in array.words[f] : b + (-s) = x <=> b = x + s
      <4>1. x \in Int /\ s \in Int
        BY <1>3, <1>4
      <4>2. \A b \in Int : b + (-s) = x <=> b = x + s
        <5> HIDE DEF s
        <5> QED BY <4>1
      <4>3. \A b \in array.words[f] : b \in Int
        BY <1>7
      <4> QED BY <4>2, <4>3, Zenon
    <3>2. x \in 0..(WordBits - 1)
      BY <1>3
    <3> HIDE DEF s
    <3> QED BY <3>1, <3>2 DEF F!Shifted
  <2>2. CASE x + s < WordBits
    <3>1. x + s \in 0..(WordBits - 1) /\ f * WordBits + (x + s) = f * WordBits + s + x
      BY <1>1, <1>3, <1>4, <2>2
    <3> QED BY <1>5, <1>6, <2>1, <2>2, <3>1
  <2>3. CASE ~(x + s < WordBits)
    <3>1. x + s \notin 0..(WordBits - 1)
      BY <1>3, <1>4, <2>3
    <3> QED BY <1>7, <2>1, <2>3, <3>1
  <2> QED BY <2>2, <2>3
<1>9. ASSUME NEW x \in 0..(w - 1), l # f
      PROVE  x \in rest <=> ~(x + s < WordBits) /\ x \in values[i]
  <2> DEFINE b == x + s - WordBits
  <2>1. x \in rest <=> b \in array.words[l]
    <3>1. \A c \in array.words[l] : c + (WordBits - s) = x <=> c = b
      BY <1>3, <1>4, <1>7
    <3>2. x \in 0..(WordBits - 1)
      BY <1>3
    <3> HIDE DEF s, b
    <3> QED BY <3>1, <3>2 DEF F!Shifted
  <2>2. CASE ~(x + s < WordBits)
    <3>1. b \in 0..(WordBits - 1)
      BY <1>3, <1>4, <2>2
    <3>2. l * WordBits + b = f * WordBits + s + x
      <4>1. l = f + 1
        BY <1>4, <1>9
      <4>2. l * WordBits = f * WordBits + WordBits /\ f * WordBits \in Int
        BY <1>1, <1>4, <4>1
      <4> QED BY <1>3, <1>4, <4>2
    <3> HIDE DEF b
    <3> QED BY <1>5, <1>6, <2>1, <2>2, <3>1, <3>2
  <2>3. CASE x + s < WordBits
    <3>1. b \notin 0..(WordBits - 1)
      BY <1>3, <1>4, <2>3
    <3> QED BY <1>7, <2>1, <2>3, <3>1
  <2> QED BY <2>2, <2>3
<1>10. F!ReadArray(array, i - 1) = ((0..(w - 1)) \cap from) \cup (IF l = f THEN {} ELSE (0..(w - 1)) \cap rest)
  <2>1. F!Mask(w) = 0..(w - 1)
    BY <1>3 DEF F!Mask
  <2>2. ~(i - 1 < 0) /\ ~(l > array.length)
    BY <1>1, <1>3, <1>5
  <2> HIDE DEF from, rest
  <2>3. F!ReadArray(array, i - 1) =
          IF i - 1 < 0 \/ l > array.length THEN Thrown
          ELSE (F!Mask(w) \cap from) \cup (IF l = f THEN {} ELSE F!Mask(w) \cap rest)
    BY Zenon DEF F!ReadArray, from, rest, l, f, s, w
  <2> QED BY <2>1, <2>2, <2>3
<1> HIDE DEF from, rest
<1>11. l = f => \A x \in 0..(w - 1) : x + s < WordBits
  BY <1>1, <1>3, <1>4
<1>12. values[i] \subseteq 0..(w - 1)
  BY <1>1, <1>3
<1>13. ASSUME NEW x PROVE x \in F!ReadArray(array, i - 1) <=> x \in values[i]
  BY <1>8, <1>9, <1>10, <1>11, <1>12
<1>14. F!ReadArray(array, i - 1) = values[i]
  BY <1>13
<1> QED BY <1>14 DEF array

\* A word of memory of which the first a bits are those of x, the next b of y.
HasFields(word, a, b, x, y) ==
  /\ word \subseteq 0..(a + b - 1)
  /\ F!ExtractValue(word, 0, a) = F!BitsOf(x)
  /\ F!ExtractValue(word, a, b) = F!BitsOf(y)

\* Two fields of a word of memory do not mix: each is read as it was written,
\* if both were wide enough (LexicalDictionaryBuilder::writeBits and
\* CompressedArray::extractValue).
THEOREM FieldsAreRead ==
  ASSUME WordBits \in Nat, NEW a \in Nat, NEW b \in Nat, a + b < WordBits,
         NEW x, F!BitsOf(x) \subseteq 0..(a - 1), NEW y, F!BitsOf(y) \subseteq 0..(b - 1)
  PROVE  HasFields(F!WriteBits(0, a, x) \cup F!WriteBits(a, b, y), a, b, x, y)
<1> DEFINE first == F!BitsOf(x)
           second == F!BitsOf(y)
           word == F!WriteBits(0, a, x) \cup F!WriteBits(a, b, y)
<1>1. F!Mask(a) = 0..(a - 1) /\ F!Mask(b) = 0..(b - 1)
  BY DEF F!Mask
<1>2. F!WriteBits(0, a, x) = F!Shifted(first \cap F!Mask(a), 0) /\ F!WriteBits(a, b, y) = F!Shifted(second \cap F!Mask(b), a)
  BY DEF F!WriteBits
<1>3. first \subseteq 0..(a - 1) /\ second \subseteq 0..(b - 1)
  OBVIOUS
<1> HIDE DEF first, second
<1>4. ASSUME NEW k PROVE k \in word <=> k \in first \/ \E d \in second : k = d + a
  <2>1. k \in F!Shifted(first \cap F!Mask(a), 0) <=> k \in first
    <3>1. \A d \in first : d \in 0..(WordBits - 1) /\ d + 0 = d
      BY <1>3
    <3>2. first \cap F!Mask(a) = first
      BY <1>1, <1>3
    <3> QED BY <3>1, <3>2 DEF F!Shifted
  <2>2. k \in F!Shifted(second \cap F!Mask(b), a) <=> \E d \in second : k = d + a
    BY <1>1, <1>3 DEF F!Shifted
  <2> QED BY <1>2, <2>1, <2>2
<1> HIDE DEF word
<1>5. word \subseteq 0..(a + b - 1)
  <2>1. \A k \in first : k \in 0..(a + b - 1)
    BY <1>3
  <2>2. \A d \in second : d + a \in 0..(a + b - 1)
    BY <1>3
  <2> QED BY <1>4, <2>1, <2>2
<1>6. F!ExtractValue(word, 0, a) = first
  <2>1. F!ExtractValue(word, 0, a) = F!Shifted(word, 0) \cap (0..(a - 1))
    BY <1>1 DEF F!ExtractValue
  <2>2. ASSUME NEW k \in 0..(a - 1) PROVE k \in F!Shifted(word, 0) <=> k \in word
    BY <1>5 DEF F!Shifted
  <2>3. ASSUME NEW k \in 0..(a - 1) PROVE k \in word <=> k \in first
    BY <1>3, <1>4
  <2>4. ASSUME NEW k PROVE k \in F!ExtractValue(word, 0, a) <=> k \in first
    BY <1>3, <2>1, <2>2, <2>3
  <2> QED BY <2>4
<1>7. F!ExtractValue(word, a, b) = second
  <2>1. F!ExtractValue(word, a, b) = F!Shifted(word, -a) \cap (0..(b - 1))
    BY <1>1 DEF F!ExtractValue
  <2>2. ASSUME NEW k \in 0..(b - 1) PROVE k \in F!Shifted(word, -a) <=> k + a \in word
    <3>1. \A d \in word : d \in Int /\ (d + (-a) = k <=> d = k + a)
      BY <1>5
    <3>2. k \in 0..(WordBits - 1)
      OBVIOUS
    <3> QED BY <3>1, <3>2 DEF F!Shifted
  <2>3. ASSUME NEW k \in 0..(b - 1) PROVE k + a \in word <=> k \in second
    <3>1. k + a \notin first
      BY <1>3
    <3>2. \A d \in second : k + a = d + a <=> k = d
      BY <1>3
    <3> QED BY <1>4, <3>1, <3>2
  <2>4. ASSUME NEW k PROVE k \in F!ExtractValue(word, a, b) <=> k \in second
    BY <1>3, <2>1, <2>2, <2>3
  <2> QED BY <2>4
<1> QED BY <1>5, <1>6, <1>7 DEF HasFields, word, first, second

\* A trie gives for a key what the map has for it, and nothing for any other
\* (MarisaTrie::MarisaTrie and MarisaTrie::find).
THEOREM TrieFinds ==
  ASSUME WordBits \in Nat, WordBits >= 2, NEW map, \A k \in DOMAIN map : map[k] \subseteq 0..(WordBits - 2),
         NEW ascending, F!NumbersKeys(F!TrieKeys(DOMAIN map, ascending), DOMAIN map), NEW key
  PROVE  F!Find(F!MarisaTrie(map, ascending), key) = IF key \in DOMAIN map THEN map[key] ELSE NoText
<1> DEFINE keys == F!TrieKeys(DOMAIN map, ascending)
           values == [i \in DOMAIN keys |-> map[keys[i]]]
           n == Len(keys)
           array == F!CompressedArray(values)
           trie == F!MarisaTrie(map, ascending)
           i == CHOOSE j \in DOMAIN keys : keys[j] = key
           id == F!IndexIn(keys, key)
<1>1. trie.keys = keys /\ trie.data = array
  BY DEF F!MarisaTrie
<1>2. keys \in Seq(DOMAIN map) /\ Range(keys) = DOMAIN map
  BY DEF F!NumbersKeys, F!Range, Range
<1> HIDE DEF keys, trie, array
<1>3. n \in Nat /\ DOMAIN keys = 1..n /\ \A j \in 1..n : keys[j] \in DOMAIN map
  BY <1>2, LenProperties, ElementOfSeq
<1>4. values \in Seq(SUBSET (0..(WordBits - 2))) /\ Len(values) = n
  <2>1. values \in [1..n -> SUBSET (0..(WordBits - 2))]
    BY <1>3
  <2> HIDE DEF values
  <2>2. values \in Seq(SUBSET (0..(WordBits - 2)))
    BY <1>3, <2>1, IsASeq
  <2>3. Len(values) \in Nat /\ 1..Len(values) = 1..n
    BY <2>1, <2>2, LenProperties
  <2>4. Len(values) = n
    <3>1. Len(values) # 0 => Len(values) \in 1..n
      BY <2>3
    <3>2. n # 0 => n \in 1..Len(values)
      BY <1>3, <2>3
    <3> QED BY <1>3, <2>3, <3>1, <3>2
  <2> QED BY <2>2, <2>4
<1>5. F!Range(keys) = DOMAIN map
  BY <1>2 DEF F!Range, Range
<1>6. F!Find(trie, key) = IF id < 0 THEN NoText ELSE F!ReadArray(array, id)
  BY <1>1 DEF F!Find
<1>7. CASE key \in DOMAIN map
  <2>1. id = i - 1
    BY <1>5, <1>7 DEF F!IndexIn
  <2>2. i \in 1..n /\ keys[i] = key
    <3>1. \E j \in DOMAIN keys : keys[j] = key
      BY <1>2, <1>7 DEF Range
    <3>2. i \in DOMAIN keys /\ keys[i] = key
      BY <3>1, Zenon
    <3> QED BY <1>3, <3>2
  <2> HIDE DEF i, id
  <2>3. ~(id < 0)
    BY <1>3, <2>1, <2>2
  <2>4. F!ReadArray(array, id) = values[i]
    <3>1. F!ReadArray(F!CompressedArray(values), i - 1) = values[i]
      <4>1. i \in 1..Len(values)
        BY <1>4, <2>2
      <4> HIDE DEF values
      <4> QED BY <1>4, <4>1, WhatIsWrittenIsRead, Zenon
    <3> QED BY <2>1, <3>1 DEF array
  <2>5. values[i] = map[key]
    BY <1>3, <2>2
  <2> HIDE DEF values
  <2> QED BY <1>6, <1>7, <2>3, <2>4, <2>5 DEF trie
<1>8. CASE key \notin DOMAIN map
  <2>1. id = -1
    BY <1>5, <1>8 DEF F!IndexIn
  <2> HIDE DEF id
  <2> QED BY <1>6, <1>8, <2>1 DEF trie
<1> QED BY <1>7, <1>8

\* What the tool packs of a word, the ids of its types and of its properties,
\* is what the library reads for it, from the trie and from the fields, and it
\* reads nothing for a word that was not packed
\* (LexicalDictionaryBuilder::writeDictionary and
\* DictionaryMetaData_MMappedDictionary).
THEOREM DataOfWordIsRead ==
  ASSUME WordBits \in Nat, WordBits >= 2, NEW words, NEW types, NEW properties,
         NEW a \in Nat, NEW b \in Nat, a + b < WordBits,
         \A w \in words : /\ F!BitsOf(types[w]) \subseteq 0..(a - 1)
                          /\ F!BitsOf(properties[w]) \subseteq 0..(b - 1),
         NEW ascending, F!NumbersKeys(F!TrieKeys(words, ascending), words), NEW word
  PROVE  LET data == [w \in words |-> F!WriteBits(0, a, types[w]) \cup F!WriteBits(a, b, properties[w])]
             found == F!Find(F!MarisaTrie(data, ascending), word)
         IN  IF word \in words
             THEN /\ F!ExtractValue(found, 0, a) = F!BitsOf(types[word])
                  /\ F!ExtractValue(found, a, b) = F!BitsOf(properties[word])
             ELSE found = NoText
<1> DEFINE data == [w \in words |-> F!WriteBits(0, a, types[w]) \cup F!WriteBits(a, b, properties[w])]
           found == F!Find(F!MarisaTrie(data, ascending), word)
<1>1. ASSUME NEW w \in words PROVE HasFields(data[w], a, b, types[w], properties[w])
  BY FieldsAreRead
<1>2. DOMAIN data = words
  OBVIOUS
<1> HIDE DEF data
<1>3. \A k \in DOMAIN data : data[k] \subseteq 0..(WordBits - 2)
  <2>1. 0..(a + b - 1) \subseteq 0..(WordBits - 2)
    OBVIOUS
  <2> QED BY <1>1, <1>2, <2>1 DEF HasFields
<1>4. found = IF word \in DOMAIN data THEN data[word] ELSE NoText
  BY <1>2, <1>3, TrieFinds, Zenon
<1> HIDE DEF found
<1>5. IF word \in words
      THEN /\ F!ExtractValue(found, 0, a) = F!BitsOf(types[word])
           /\ F!ExtractValue(found, a, b) = F!BitsOf(properties[word])
      ELSE found = NoText
  BY <1>1, <1>2, <1>4 DEF HasFields
<1> QED BY <1>5 DEF found, data

LEMMA Ranks ==
  ASSUME NEW T, Order \in Seq(T), NEW s \in Range(Order), NEW t \in Range(Order)
  PROVE  /\ F!Rank(s) \in Nat
         /\ F!Rank(s) = F!Rank(t) => s = t
<1>1. DOMAIN Order \subseteq Nat
  BY LenProperties
<1>2. ASSUME NEW x \in Range(Order) PROVE F!Rank(x) \in DOMAIN Order /\ Order[F!Rank(x)] = x
  <2>1. \E i \in DOMAIN Order : Order[i] = x
    BY DEF Range
  <2> QED BY <2>1, Zenon DEF F!Rank
<1>3. F!Rank(s) \in DOMAIN Order /\ Order[F!Rank(s)] = s
  BY <1>2
<1>4. F!Rank(t) \in DOMAIN Order /\ Order[F!Rank(t)] = t
  BY <1>2
<1> QED BY <1>1, <1>3, <1>4, Zenon

\* A step of the search, with g for the steps after it.
SearchStep(g, strings, s, start, limit) ==
  LET mid == (start + limit) \div 2
  IN  IF start > limit THEN -1
      ELSE IF F!Rank(s) < F!Rank(strings[mid + 1]) THEN g[<<start, mid - 1>>]
      ELSE IF F!Rank(s) > F!Rank(strings[mid + 1]) THEN g[<<mid + 1, limit>>]
      ELSE mid

\* A string that is in the array is found, at its index, and no other string
\* is (StringArrayContainer::getIdentifierIfAvailable).
THEOREM SearchFinds ==
  ASSUME NEW T, Order \in Seq(T), NEW strings \in Seq(Range(Order)), F!InRankOrder(strings), NEW s \in Range(Order)
  PROVE  LET id == F!GetIdentifierIfAvailable(strings, s)
         IN  IF s \in Range(strings) THEN id \in 0..(Len(strings) - 1) /\ strings[id + 1] = s ELSE id = -1
<1> DEFINE n == Len(strings)
           last == Len(strings) - 1
           starts == 0..(last + 1)
           limits == -1..last
           ranges == (0..(last + 1)) \X (-1..last)
           search[bounds \in (0..(last + 1)) \X (-1..last)] ==
              LET start == bounds[1]
                  limit == bounds[2]
                  mid == (start + limit) \div 2
              IN  IF start > limit THEN -1
                  ELSE IF F!Rank(s) < F!Rank(strings[mid + 1]) THEN search[<<start, mid - 1>>]
                  ELSE IF F!Rank(s) > F!Rank(strings[mid + 1]) THEN search[<<mid + 1, limit>>]
                  ELSE mid
           Stepped(g, start, limit) == SearchStep(g, strings, s, start, limit)
           U(g) == [b \in ranges |-> Stepped(g, b[1], b[2])]
           Hits(start, limit) == {k \in start..limit : strings[k + 1] = s}
           Found(start, limit) == IF Hits(start, limit) = {} THEN -1 ELSE CHOOSE k \in Hits(start, limit) : TRUE
           f == [b \in ranges |-> Found(b[1], b[2])]
<1>1. n \in Nat /\ \A i \in 1..n : strings[i] \in Range(Order)
  BY LenProperties, ElementOfSeq
<1>2. F!GetIdentifierIfAvailable(strings, s) = search[<<0, last>>]
  BY Zenon DEF F!GetIdentifierIfAvailable
<1>3. search = CHOOSE g : g = U(g)
  BY Zenon DEF SearchStep
<1> HIDE DEF search
<1>4. ASSUME NEW i \in 1..n, NEW j \in 1..n, i < j PROVE F!Rank(strings[i]) < F!Rank(strings[j])
  BY <1>4 DEF F!InRankOrder
<1>5. /\ F!Rank(s) \in Nat
      /\ \A i \in 1..n : F!Rank(strings[i]) \in Nat /\ (F!Rank(strings[i]) = F!Rank(s) <=> strings[i] = s)
  BY <1>1, Ranks
<1>6. ASSUME NEW start \in starts, NEW limit \in limits, start <= limit
      PROVE  LET mid == (start + limit) \div 2
             IN  mid \in start..limit /\ mid + 1 \in 1..n /\ mid - 1 \in limits /\ mid + 1 \in starts
  <2> DEFINE mid == (start + limit) \div 2
  <2>1. start \in Nat /\ limit \in Nat /\ limit < n
    BY <1>1, <1>6
  <2>2. start <= mid /\ mid <= limit /\ mid \in Int
    BY <1>6, <2>1
  <2> HIDE DEF mid
  <2>3. mid \in start..limit /\ mid + 1 \in 1..n /\ mid - 1 \in limits /\ mid + 1 \in starts
    BY <1>1, <2>1, <2>2
  <2> QED BY <2>3 DEF mid
<1>7. ASSUME NEW start \in starts, NEW limit \in limits PROVE Found(start, limit) = Stepped(f, start, limit)
  <2> DEFINE mid == (start + limit) \div 2
             here == strings[mid + 1]
  <2>1. CASE start > limit
    <3>1. Hits(start, limit) = {}
      BY <1>1, <2>1
    <3> QED BY <2>1, <3>1 DEF SearchStep
  <2>2. CASE start <= limit
    <3>1. mid \in start..limit /\ mid + 1 \in 1..n /\ mid - 1 \in limits /\ mid + 1 \in starts
      BY <1>6, <2>2
    <3>2. f[<<start, mid - 1>>] = Found(start, mid - 1) /\ f[<<mid + 1, limit>>] = Found(mid + 1, limit)
      <4> HIDE DEF mid, Found
      <4> QED BY <3>1
    <3>3. ~(start > limit) /\ start \in Int /\ limit \in Int /\ mid \in Int
      BY <1>1, <2>2, <3>1
    <3>4. ASSUME NEW k \in start..limit PROVE k + 1 \in 1..n /\ k \in Int
      BY <1>1
    <3>5. CASE F!Rank(s) < F!Rank(here)
      <4>1. Hits(start, limit) = Hits(start, mid - 1)
        <5>1. ASSUME NEW k \in start..limit, strings[k + 1] = s PROVE k <= mid - 1
          <6>1. k # mid
            BY <1>5, <3>1, <3>5, <5>1
          <6>2. ~(mid < k)
            <7> SUFFICES ASSUME mid < k PROVE FALSE
              OBVIOUS
            <7>1. F!Rank(here) < F!Rank(strings[k + 1])
              <8>1. mid + 1 < k + 1 /\ k + 1 \in 1..n
                BY <3>3, <3>4
              <8> HIDE DEF mid
              <8> QED BY <1>4, <3>1, <8>1
            <7> HIDE DEF here
            <7> QED BY <1>5, <3>1, <3>4, <3>5, <5>1, <7>1 DEF here
          <6> QED BY <3>3, <3>4, <6>1, <6>2
        <5>2. start..(mid - 1) \subseteq start..limit
          BY <3>1, <3>3
        <5>3. \A k \in start..limit : k <= mid - 1 => k \in start..(mid - 1)
          <6> HIDE DEF mid
          <6> QED BY <3>3
        <5> HIDE DEF mid
        <5> QED BY <5>1, <5>2, <5>3
      <4>2. Found(start, limit) = Found(start, mid - 1)
        <5> HIDE DEF Hits, mid
        <5> QED BY <4>1
      <4> HIDE DEF f, Found, mid
      <4> QED BY <3>2, <3>3, <3>5, <4>2 DEF here, mid, SearchStep
    <3>6. CASE F!Rank(s) > F!Rank(here)
      <4>1. Hits(start, limit) = Hits(mid + 1, limit)
        <5>1. ASSUME NEW k \in start..limit, strings[k + 1] = s PROVE mid + 1 <= k
          <6>1. k # mid
            BY <1>5, <3>1, <3>6, <5>1
          <6>2. ~(k < mid)
            <7> SUFFICES ASSUME k < mid PROVE FALSE
              OBVIOUS
            <7>1. F!Rank(strings[k + 1]) < F!Rank(here)
              <8>1. k + 1 < mid + 1 /\ k + 1 \in 1..n
                BY <3>3, <3>4
              <8> HIDE DEF mid
              <8> QED BY <1>4, <3>1, <8>1
            <7> HIDE DEF here
            <7> QED BY <1>5, <3>1, <3>4, <3>6, <5>1, <7>1 DEF here
          <6> QED BY <3>3, <3>4, <6>1, <6>2
        <5>2. (mid + 1)..limit \subseteq start..limit
          BY <3>1, <3>3
        <5>3. \A k \in start..limit : mid + 1 <= k => k \in (mid + 1)..limit
          <6> HIDE DEF mid
          <6> QED BY <3>3
        <5> HIDE DEF mid
        <5> QED BY <5>1, <5>2, <5>3
      <4>2. Found(start, limit) = Found(mid + 1, limit)
        <5> HIDE DEF Hits, mid
        <5> QED BY <4>1
      <4>3. ~(F!Rank(s) < F!Rank(here))
        <5> HIDE DEF mid
        <5> QED BY <1>5, <3>1, <3>6
      <4> HIDE DEF f, Found, mid
      <4> QED BY <3>2, <3>3, <3>6, <4>2, <4>3 DEF here, mid, SearchStep
    <3>7. CASE ~(F!Rank(s) < F!Rank(here)) /\ ~(F!Rank(s) > F!Rank(here))
      <4>1. here = s
        <5> HIDE DEF mid
        <5> QED BY <1>5, <3>1, <3>7
      <4>2. Hits(start, limit) = {mid}
        <5>1. ASSUME NEW k \in start..limit, strings[k + 1] = s PROVE k = mid
          <6>1. ~(k < mid)
            <7> SUFFICES ASSUME k < mid PROVE FALSE
              OBVIOUS
            <7>1. k + 1 < mid + 1 /\ k + 1 \in 1..n
              BY <3>3, <3>4
            <7>2. F!Rank(s) < F!Rank(s)
              <8> HIDE DEF mid
              <8> QED BY <1>4, <3>1, <4>1, <5>1, <7>1
            <7> QED BY <1>5, <7>2
          <6>2. ~(mid < k)
            <7> SUFFICES ASSUME mid < k PROVE FALSE
              OBVIOUS
            <7>1. mid + 1 < k + 1 /\ k + 1 \in 1..n
              BY <3>3, <3>4
            <7>2. F!Rank(s) < F!Rank(s)
              <8> HIDE DEF mid
              <8> QED BY <1>4, <3>1, <4>1, <5>1, <7>1
            <7> QED BY <1>5, <7>2
          <6> QED BY <3>3, <3>4, <6>1, <6>2
        <5> HIDE DEF mid
        <5> QED BY <3>1, <4>1, <5>1 DEF here
      <4>3. Found(start, limit) = mid
        <5> HIDE DEF Hits, mid
        <5>1. (CHOOSE k \in Hits(start, limit) : TRUE) = mid
          BY <4>2
        <5> QED BY <4>2, <5>1
      <4> HIDE DEF f, Found, mid
      <4> QED BY <3>3, <3>7, <4>3 DEF here, mid, SearchStep
    <3> QED BY <3>5, <3>6, <3>7
  <2>3. start > limit \/ start <= limit
    BY <1>1
  <2> QED BY <2>1, <2>2, <2>3
<1>8. f = U(f)
  <2> HIDE DEF Found
  <2>1. \A start \in starts, limit \in limits : Found(start, limit) = Stepped(f, start, limit)
    BY <1>7
  <2> HIDE DEF Stepped
  <2> QED BY <2>1
<1>9. search = U(search)
  <2> HIDE DEF f, U
  <2> QED BY <1>3, <1>8
<1> HIDE DEF Found, Hits
<1> DEFINE M == {m \in Nat : \A start \in starts, limit \in limits :
                               limit - start < m => search[<<start, limit>>] = f[<<start, limit>>]}
<1>10. ASSUME NEW start \in starts, NEW limit \in limits
       PROVE  search[<<start, limit>>] = Stepped(search, start, limit) /\ f[<<start, limit>>] = Stepped(f, start, limit)
  <2> HIDE DEF Stepped, f
  <2> QED BY <1>8, <1>9
<1>11. 0 \in M
  <2> SUFFICES ASSUME NEW start \in starts, NEW limit \in limits, limit - start < 0
               PROVE  search[<<start, limit>>] = f[<<start, limit>>]
    OBVIOUS
  <2>1. start > limit
    BY <1>1
  <2> HIDE DEF f
  <2> QED BY <1>10, <2>1 DEF SearchStep
<1>12. ASSUME NEW m \in Nat, m \in M PROVE m + 1 \in M
  <2> SUFFICES ASSUME NEW start \in starts, NEW limit \in limits, limit - start < m + 1
               PROVE  search[<<start, limit>>] = f[<<start, limit>>]
    <3> HIDE DEF f, starts, limits
    <3> QED OBVIOUS
  <2> DEFINE mid == (start + limit) \div 2
  <2>1. CASE start > limit
    <3> HIDE DEF f
    <3> QED BY <1>10, <2>1 DEF SearchStep
  <2>2. CASE ~(start > limit)
    <3>0. start <= limit /\ start \in Int /\ limit \in Int
      BY <1>1, <2>2
    <3>1. mid \in start..limit /\ mid - 1 \in limits /\ mid + 1 \in starts
      BY <1>6, <3>0
    <3> HIDE DEF mid
    <3>2. (mid - 1) - start < m /\ limit - (mid + 1) < m
      BY <3>0, <3>1
    <3> HIDE DEF f
    <3>3. search[<<start, mid - 1>>] = f[<<start, mid - 1>>] /\ search[<<mid + 1, limit>>] = f[<<mid + 1, limit>>]
      BY <1>12, <3>1, <3>2
    <3>4. Stepped(search, start, limit) = Stepped(f, start, limit)
      BY <3>3 DEF mid, SearchStep
    <3> HIDE DEF Stepped
    <3> QED BY <1>10, <3>4
  <2> QED BY <2>1, <2>2
<1>13. n \in M
  <2> HIDE DEF M
  <2> QED BY <1>1, <1>11, <1>12, SetInduction
<1>14. search[<<0, last>>] = Found(0, last)
  <2>1. 0 \in starts /\ last \in limits /\ last - 0 < n
    BY <1>1
  <2>2. search[<<0, last>>] = f[<<0, last>>]
    <3> HIDE DEF f
    <3> QED BY <1>13, <2>1
  <2> QED BY <2>1, <2>2
<1> DEFINE id == F!GetIdentifierIfAvailable(strings, s)
<1>15. id = Found(0, last)
  BY <1>2, <1>14
<1> HIDE DEF id
<1>16. CASE s \in Range(strings)
  <2>1. PICK i \in 1..n : strings[i] = s
    BY <1>16, RangeEquality
  <2>2. i - 1 \in 0..last /\ (i - 1) + 1 = i
    BY <1>1
  <2>3. i - 1 \in Hits(0, last)
    BY <2>1, <2>2 DEF Hits
  <2>4. id \in Hits(0, last)
    BY <1>15, <2>3 DEF Found
  <2> QED BY <1>16, <2>4 DEF Hits, id
<1>17. CASE s \notin Range(strings)
  <2>1. ASSUME NEW k \in 0..last PROVE strings[k + 1] # s
    <3>1. k + 1 \in 1..n
      BY <1>1
    <3> QED BY <1>17, <3>1, RangeEquality
  <2>2. Hits(0, last) = {}
    BY <2>1 DEF Hits
  <2>3. id = -1
    BY <1>15, <2>2 DEF Found
  <2> QED BY <1>17, <2>3 DEF id
<1> QED BY <1>16, <1>17
=============================================================================
