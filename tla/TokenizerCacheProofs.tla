------------------------ MODULE TokenizerCacheProofs ------------------------
(***************************************************************************)
(* Proofs about TokenizerCache, for any set of locales, threads and        *)
(* addresses.  The invariants of TokenizerCache are not inductive: that    *)
(* the last branch is impossible depends on what every earlier call        *)
(* published and on where its walk ended.  IInv adds those facts.          *)
(***************************************************************************)
EXTENDS TokenizerCache, TLAPS

\* The holder of the mutex is the one thread in the second critical section.
MutexInv ==
  \A t \in Threads : pc[t] \in {"decide", "construct"} <=> mutex = t

\* A walk stays in the family of the locale it started from, and past the
\* walk the fallback is where it ended and the configuration is its own.
WalkInv ==
  \A t \in Threads :
    /\ pc[t] # "idle" => locale[t] \in Locales
    /\ pc[t] \in {"walk", "relock", "decide", "construct"}
         => /\ fallback[t] \in Locales
            /\ Fallback[fallback[t]] = Fallback[locale[t]]
    /\ pc[t] \in {"relock", "decide", "construct"}
         => /\ WalkEnds(fallback[t])
            /\ config[t] = ConfigOf(fallback[t])

\* What is cached for a locale was constructed for its family.
CachedInv ==
  \A l \in Locales : cache[l] # NoTokenizer =>
    /\ WalkEnds(Fallback[l])
    /\ built[cache[l]] # NotBuilt
    /\ Fallback[built[cache[l]].locale] = Fallback[l]
    /\ built[cache[l]].config = ConfigOf(Fallback[l])

\* Every tokenizer constructed is the one cached for its family.
BuiltInv ==
  \A a \in Tokenizers :
    built[a] # NotBuilt => cache[Fallback[built[a].locale]] = a

\* While a thread constructs, nothing appears under its two names.
ConstructInv ==
  \A t \in Threads : pc[t] = "construct" =>
    cache[fallback[t]] = NoTokenizer /\ cache[locale[t]] = NoTokenizer

IInv == /\ TypeOK /\ MutexInv /\ WalkInv /\ CachedInv /\ BuiltInv
        /\ ConstructInv /\ SharesFallback /\ ServedFromCache

-----------------------------------------------------------------------------
\* A locale where the walk ends is its own fallback.
LEMMA FallbackOfEnd ==
  ASSUME NEW l \in Locales, WalkEnds(l)
  PROVE  Fallback[l] = l
BY FallbackAssumption

\* emplace keeps what is there, and otherwise sets this one key.
LEMMA EmplaceProps ==
  ASSUME NEW m \in [Locales -> Tokenizers \cup {NoTokenizer}],
         NEW k \in Locales, NEW tok \in Tokenizers
  PROVE  /\ Emplace(m, k, tok) \in [Locales -> Tokenizers \cup {NoTokenizer}]
         /\ \A l \in Locales : Emplace(m, k, tok)[l] =
               IF l = k /\ m[k] = NoTokenizer THEN tok ELSE m[l]
BY DEF Emplace

\* The configuration a walk ends with is a configured locale or none.
LEMMA ConfigOfType ==
  ASSUME NEW l \in Locales
  PROVE  ConfigOf(l) \in Configured \cup {NoConfig}
BY DEF ConfigOf, ReadConfig

LEMMA InitIInv == Init => IInv
BY LocaleAssumption
   DEF Init, IInv, TypeOK, Sites, MutexInv, WalkInv, CachedInv, BuiltInv,
       ConstructInv, SharesFallback, ServedFromCache

\* The inductive step, one action at a time.
LEMMA StepIInv == IInv /\ [Next]_vars => IInv'
<1> SUFFICES ASSUME IInv, [Next]_vars PROVE IInv'
  OBVIOUS
<1> USE LocaleAssumption DEF IInv
<1>1. ASSUME NEW t \in Threads, NEW l \in Locales, Request(t, l) PROVE IInv'
  BY <1>1 DEF Request, Goto, TypeOK, Sites, MutexInv, WalkInv, CachedInv,
       BuiltInv, ConstructInv, SharesFallback, ServedFromCache
<1>2. ASSUME NEW t \in Threads, Lookup(t) PROVE IInv'
  BY <1>2 DEF Lookup, Goto, TypeOK, Sites, MutexInv, WalkInv, CachedInv,
       BuiltInv, ConstructInv, SharesFallback, ServedFromCache
<1>3. ASSUME NEW t \in Threads, WalkUp(t) PROVE IInv'
  <2>1. Fallback[Parent[fallback[t]]] = Fallback[fallback[t]]
    BY <1>3, FallbackAssumption DEF WalkUp, WalkInv
  <2> QED
    BY <1>3, <2>1 DEF WalkUp, TypeOK, Sites, MutexInv, WalkInv, CachedInv,
       BuiltInv, ConstructInv, SharesFallback, ServedFromCache
<1>4. ASSUME NEW t \in Threads, WalkEnd(t) PROVE IInv'
  <2>1. ConfigOf(fallback[t]) \in Configured \cup {NoConfig}
    BY <1>4, ConfigOfType DEF WalkEnd, WalkInv
  <2> QED
    BY <1>4, <2>1 DEF WalkEnd, Goto, TypeOK, Sites, MutexInv, WalkInv,
       CachedInv, BuiltInv, ConstructInv, SharesFallback, ServedFromCache
<1>5. ASSUME NEW t \in Threads, Relock(t) PROVE IInv'
  BY <1>5 DEF Relock, Goto, TypeOK, Sites, MutexInv, WalkInv, CachedInv,
       BuiltInv, ConstructInv, SharesFallback, ServedFromCache
<1>6. ASSUME NEW t \in Threads, ReuseFallback(t) PROVE IInv'
  <2> DEFINE l == locale[t]  f == fallback[t]  tok == cache[f]
  <2>1. /\ l \in Locales /\ f \in Locales /\ tok \in Tokenizers
        /\ pc[t] = "decide" /\ Fallback[l] = f /\ Fallback[f] = f
    BY <1>6, FallbackOfEnd DEF ReuseFallback, WalkInv, TypeOK
  <2>2. /\ cache' \in [Locales -> Tokenizers \cup {NoTokenizer}]
        /\ \A k \in Locales :
             cache'[k] = IF k = l /\ cache[l] = NoTokenizer THEN tok ELSE cache[k]
    BY <1>6, <2>1, EmplaceProps DEF ReuseFallback, TypeOK
  <2>3. cache'[l] = tok
    BY <2>1, <2>2 DEF SharesFallback
  <2> HIDE DEF l, f, tok
  <2>4. TypeOK' /\ MutexInv' /\ WalkInv'
    BY <1>6, <2>1, <2>2 DEF ReuseFallback, Goto, TypeOK, Sites, MutexInv, WalkInv,
       tok, f
  <2>5. CachedInv' /\ SharesFallback'
    BY <1>6, <2>1, <2>2, FallbackAssumption
       DEF ReuseFallback, CachedInv, SharesFallback, TypeOK, tok
  <2>6. BuiltInv'
    BY <1>6, <2>1, <2>2, FallbackAssumption
       DEF ReuseFallback, BuiltInv, TypeOK
  <2>7. ConstructInv'
    BY <1>6, <2>1 DEF ReuseFallback, Goto, ConstructInv, MutexInv, TypeOK
  <2>8. ServedFromCache'
    BY <1>6, <2>1, <2>2, <2>3
       DEF ReuseFallback, Goto, ServedFromCache, WalkInv, TypeOK, Sites, l, f, tok
  <2> QED
    BY <2>4, <2>5, <2>6, <2>7, <2>8
<1>7. ASSUME NEW t \in Threads, ReuseNone(t) PROVE IInv'
  <2>1. cache[locale[t]] = NoTokenizer
    BY <1>7, FallbackOfEnd DEF ReuseNone, WalkInv, SharesFallback
  <2> QED
    BY <1>7, <2>1 DEF ReuseNone, Goto, TypeOK, Sites, MutexInv, WalkInv,
       CachedInv, BuiltInv, ConstructInv, SharesFallback, ServedFromCache
<1>8. ASSUME NEW t \in Threads, Construct(t) PROVE IInv'
  <2> DEFINE l == locale[t]  f == fallback[t]
  <2>1. /\ l \in Locales /\ f \in Locales
        /\ pc[t] = "construct" /\ Fallback[l] = f /\ Fallback[f] = f
        /\ WalkEnds(f) /\ config[t] = ConfigOf(f)
        /\ cache[l] = NoTokenizer /\ cache[f] = NoTokenizer
    BY <1>8, FallbackOfEnd DEF Construct, WalkInv, ConstructInv, TypeOK
  <2>2. PICK tok \in Tokenizers :
          /\ built[tok] = NotBuilt
          /\ built' = [built EXCEPT ![tok] = [locale |-> l, config |-> config[t]]]
          /\ cache' = Emplace(Emplace(cache, f, tok), l, tok)
          /\ result' = [result EXCEPT ![t] = tok]
    BY <1>8 DEF Construct
  <2>3. /\ cache' \in [Locales -> Tokenizers \cup {NoTokenizer}]
        /\ \A k \in Locales :
             cache'[k] = IF k = l \/ k = f THEN tok ELSE cache[k]
    <3>1. Emplace(cache, f, tok) \in [Locales -> Tokenizers \cup {NoTokenizer}]
      BY <2>1, EmplaceProps DEF TypeOK
    <3>2. \A k \in Locales :
            Emplace(cache, f, tok)[k] = IF k = f THEN tok ELSE cache[k]
      BY <2>1, EmplaceProps DEF TypeOK
    <3> HIDE DEF l, f
    <3> QED BY <2>1, <2>2, <3>1, <3>2, EmplaceProps
  <2>4. \A a \in Tokenizers : built[a] # NotBuilt => a # tok /\ built'[a] = built[a]
    BY <2>2 DEF TypeOK
  <2>5. /\ built'[tok] = [locale |-> l, config |-> ConfigOf(f)]
        /\ built'[tok] # NotBuilt
        /\ built' \in [Tokenizers -> [locale : Locales, config : Configured]
                                       \cup {NotBuilt}]
    BY <1>8, <2>1, <2>2 DEF Construct, TypeOK
  <2>6. \A k \in Locales : cache[k] # NoTokenizer =>
          cache[k] \in Tokenizers /\ cache[k] # tok /\ k # l /\ k # f /\ Fallback[k] # f
    BY <2>1, <2>2 DEF CachedInv, SharesFallback, TypeOK
  <2> HIDE DEF l, f
  <2>7. TypeOK' /\ MutexInv' /\ WalkInv'
    BY <1>8, <2>1, <2>2, <2>3, <2>5
       DEF Construct, Goto, TypeOK, Sites, MutexInv, WalkInv
  <2>8. CachedInv'
    BY <2>1, <2>3, <2>4, <2>5, <2>6, FallbackAssumption DEF CachedInv
  <2>9. SharesFallback'
    BY <2>1, <2>3, <2>6, FallbackAssumption DEF SharesFallback
  <2>10. BuiltInv'
    <3> SUFFICES ASSUME NEW a \in Tokenizers, built'[a] # NotBuilt
                 PROVE  cache'[Fallback[built'[a].locale]] = a
      BY DEF BuiltInv
    <3>1. CASE a = tok
      BY <3>1, <2>1, <2>3, <2>5
    <3>2. CASE a # tok
      <4>1. built[a] # NotBuilt /\ built'[a] = built[a]
        BY <3>2, <2>2 DEF TypeOK
      <4>2. built[a].locale \in Locales /\ cache[Fallback[built[a].locale]] = a
        BY <4>1 DEF BuiltInv, TypeOK
      <4> QED BY <4>1, <4>2, <2>3, <2>6, FallbackAssumption
    <3> QED BY <3>1, <3>2
  <2>11. ConstructInv'
    BY <1>8, <2>1 DEF Construct, Goto, ConstructInv, MutexInv, TypeOK
  <2>12. ServedFromCache'
    BY <1>8, <2>1, <2>2, <2>3, <2>6
       DEF Construct, Goto, ServedFromCache, WalkInv, TypeOK, Sites, l
  <2> QED
    BY <2>7, <2>8, <2>9, <2>10, <2>11, <2>12
<1>9. ASSUME NEW t \in Threads, ConstructThrows(t) PROVE IInv'
  BY <1>9 DEF ConstructThrows, Goto, TypeOK, Sites, MutexInv, WalkInv,
       CachedInv, BuiltInv, ConstructInv, SharesFallback, ServedFromCache
<1>10. ASSUME NEW t \in Threads, Return(t) PROVE IInv'
  BY <1>10 DEF Return, Goto, TypeOK, Sites, MutexInv, WalkInv,
       CachedInv, BuiltInv, ConstructInv, SharesFallback, ServedFromCache
<1>11. CASE UNCHANGED vars
  BY <1>11 DEF vars, TypeOK, Sites, MutexInv, WalkInv,
       CachedInv, BuiltInv, ConstructInv, SharesFallback, ServedFromCache
<1> QED
  BY <1>1, <1>2, <1>3, <1>4, <1>5, <1>6, <1>7, <1>8, <1>9, <1>10, <1>11
     DEF Next, Step

\* The strengthened invariant holds in every reachable state.
THEOREM Invariance == Spec => []IInv
<1>1. Init => IInv
  BY InitIInv
<1>2. IInv /\ [Next]_vars => IInv'
  BY StepIInv
<1> QED
  BY <1>1, <1>2, PTL DEF Spec

-----------------------------------------------------------------------------
\* Type correctness of the cache and of every call's locals.
THEOREM TypeCorrect == Spec => []TypeOK
<1>1. IInv => TypeOK
  BY DEF IInv
<1> QED
  BY <1>1, Invariance, PTL

\* The branch that the comment at line 103 calls impossible is: no interleaving
\* of calls, whichever of them throw, finds a locale without its fallback.
THEOREM LastBranchNeverTaken == Spec => []LastBranchImpossible
<1>1. IInv => LastBranchImpossible
  <2> SUFFICES ASSUME IInv, NEW t \in Threads, pc[t] = "decide",
                      cache[fallback[t]] = NoTokenizer
               PROVE  cache[locale[t]] = NoTokenizer
    BY DEF LastBranchImpossible
  <2>1. fallback[t] \in Locales /\ locale[t] \in Locales /\ WalkEnds(fallback[t])
        /\ Fallback[fallback[t]] = Fallback[locale[t]]
    BY DEF IInv, WalkInv
  <2>2. Fallback[locale[t]] = fallback[t]
    BY <2>1, FallbackOfEnd
  <2> QED
    BY <2>1, <2>2 DEF IInv, SharesFallback
<1> QED
  BY <1>1, Invariance, PTL

\* A cached locale shares the tokenizer of its fallback.
THEOREM FallbackShared == Spec => []SharesFallback
<1>1. IInv => SharesFallback
  BY DEF IInv
<1> QED
  BY <1>1, Invariance, PTL

\* At most one tokenizer is ever constructed for a family of locales that did
\* not throw, although the decision to construct is taken after an unlocked
\* walk.
THEOREM BuiltOncePerFamily == Spec => []OnePerFamily
<1>1. IInv => OnePerFamily
  BY DEF IInv, BuiltInv, OnePerFamily
<1> QED
  BY <1>1, Invariance, PTL

\* Under every interleaving of createTokenizer a family has one tokenizer,
\* shared by all its locales, and the branch called impossible is.
THEOREM OneForTheFamily == Spec => []OneTokenizerPerFamily
<1>1. SharesFallback /\ OnePerFamily /\ LastBranchImpossible => OneTokenizerPerFamily
  BY DEF OneTokenizerPerFamily
<1> QED
  BY <1>1, FallbackShared, BuiltOncePerFamily, LastBranchNeverTaken, PTL

\* The tokenizer of a locale has the configuration of the locale's own walk.
THEOREM ConfigurationOfFamily == Spec => []ConfiguredForFamily
<1>1. IInv => ConfiguredForFamily
  BY DEF IInv, CachedInv, ConfiguredForFamily
<1> QED
  BY <1>1, Invariance, PTL

\* A call that returns, returns the cached tokenizer of its locale.
THEOREM ServedIsCached == Spec => []ServedFromCache
<1>1. IInv => ServedFromCache
  BY DEF IInv
<1> QED
  BY <1>1, Invariance, PTL

-----------------------------------------------------------------------------
\* What was cached for a locale stays: emplace never overwrites.
LEMMA StepGrows ==
  IInv /\ [Next]_vars
    => [\A l \in Locales : cache[l] # NoTokenizer => cache'[l] = cache[l]]_vars
<1> SUFFICES ASSUME IInv, Next, NEW l \in Locales, cache[l] # NoTokenizer
             PROVE  cache'[l] = cache[l]
  BY DEF vars
<1>1. ASSUME NEW t \in Threads, ReuseFallback(t) PROVE cache'[l] = cache[l]
  BY <1>1 DEF ReuseFallback, Emplace, IInv, TypeOK
<1>2. ASSUME NEW t \in Threads, Construct(t) PROVE cache'[l] = cache[l]
  <2>1. PICK tok \in Tokenizers :
          cache' = Emplace(Emplace(cache, fallback[t], tok), locale[t], tok)
    BY <1>2 DEF Construct
  <2>2. cache[fallback[t]] = NoTokenizer /\ cache[locale[t]] = NoTokenizer
    BY <1>2 DEF IInv, ConstructInv, Construct
  <2> QED
    BY <2>1, <2>2 DEF Emplace, IInv, TypeOK
<1> QED
  BY <1>1, <1>2 DEF Next, Step, Request, Lookup, WalkUp, WalkEnd, Relock,
     ReuseNone, ConstructThrows, Return

\* The cache is a one-way street (README.md:60).
THEOREM CacheIsOneWay == Spec => CacheOnlyGrows
<1>1. IInv /\ [Next]_vars
        => [\A l \in Locales : cache[l] # NoTokenizer => cache'[l] = cache[l]]_vars
  BY StepGrows
<1> QED
  BY <1>1, Invariance, PTL DEF Spec, CacheOnlyGrows

-----------------------------------------------------------------------------
\* Only a thread that is handed a tokenizer changes what the abstract cache
\* sees of it, and the families see no change unless one is constructed.
LEMMA StepRefines == IInv /\ [Next]_vars => [Abstract!Next]_Abstract!vars
<1> SUFFICES ASSUME IInv, [Next]_vars PROVE [Abstract!Next]_Abstract!vars
  OBVIOUS
<1> USE DEF IInv
<1> DEFINE Same == UNCHANGED Abstract!vars
<1>1. ASSUME NEW t \in Threads, UNCHANGED cache,
             pc[t] # "served", pc'[t] # "served",
             \A s \in Threads : s # t =>
               pc'[s] = pc[s] /\ locale'[s] = locale[s] /\ result'[s] = result[s]
      PROVE  Same
  BY <1>1 DEF Abstract!vars
<1>2. ASSUME NEW t \in Threads, NEW f \in Families,
             pc[t] # "served", pc' = [pc EXCEPT ![t] = "served"],
             UNCHANGED locale, Fallback[locale[t]] = f,
             cache[f] # NoTokenizer, result' = [result EXCEPT ![t] = cache[f]],
             \A g \in Families : cache'[g] = cache[g]
      PROVE  Abstract!Next
  <2>1. Abstract!HandOut(t, f)
    BY <1>2 DEF Abstract!HandOut, Abstract!Nothing, TypeOK
  <2> QED
    BY <2>1 DEF Abstract!Next
<1>3. ASSUME NEW t \in Threads, NEW l \in Locales, Request(t, l) PROVE Same
  BY <1>3, <1>1 DEF Request, Goto, TypeOK
<1>4. ASSUME NEW t \in Threads, Lookup(t) PROVE Same \/ Abstract!Next
  <2>1. CASE cache[locale[t]] = NoTokenizer
    BY <1>4, <2>1, <1>1 DEF Lookup, Goto, TypeOK
  <2>2. CASE cache[locale[t]] # NoTokenizer
    <3>1. /\ Fallback[locale[t]] \in Families
          /\ cache[Fallback[locale[t]]] = cache[locale[t]]
      BY <1>4, <2>2, FallbackAssumption
         DEF Lookup, WalkInv, CachedInv, SharesFallback, Families
    <3> QED
      BY <1>4, <2>2, <3>1, <1>2 DEF Lookup, Goto
  <2> QED BY <2>1, <2>2
<1>5. ASSUME NEW t \in Threads, WalkUp(t) \/ WalkEnd(t) \/ Relock(t) PROVE Same
  BY <1>5, <1>1 DEF WalkUp, WalkEnd, Relock, Goto, TypeOK
<1>6. ASSUME NEW t \in Threads, ReuseFallback(t) PROVE Abstract!Next
  <2>1. /\ fallback[t] \in Families /\ Fallback[locale[t]] = fallback[t]
        /\ locale[t] \in Locales
    BY <1>6, FallbackOfEnd DEF ReuseFallback, WalkInv, Families
  <2>2. \A g \in Families : cache'[g] = cache[g]
    <3>1. ASSUME NEW g \in Families, g = locale[t] PROVE g = fallback[t]
      BY <2>1, <3>1, FallbackOfEnd DEF Families
    <3> QED
      BY <1>6, <2>1, <3>1 DEF ReuseFallback, Emplace, Families, TypeOK
  <2> QED
    BY <1>6, <2>1, <2>2, <1>2 DEF ReuseFallback, Goto
<1>7. ASSUME NEW t \in Threads, ReuseNone(t) PROVE Same
  <2>1. cache[locale[t]] = NoTokenizer
    BY <1>7, FallbackOfEnd DEF ReuseNone, WalkInv, SharesFallback
  <2> QED
    BY <1>7, <2>1, <1>1 DEF ReuseNone, Goto, TypeOK
<1>8. ASSUME NEW t \in Threads, Construct(t) PROVE Abstract!Next
  <2> DEFINE l == locale[t]  f == fallback[t]
  <2>1. /\ f \in Families /\ l \in Locales /\ Fallback[l] = f
        /\ cache[l] = NoTokenizer /\ cache[f] = NoTokenizer
        /\ pc[t] = "construct" /\ \A g \in Families : g = l => g = f
    BY <1>8, FallbackOfEnd DEF Construct, WalkInv, ConstructInv, Families
  <2>2. PICK tok \in Tokenizers :
          /\ built[tok] = NotBuilt
          /\ cache' = Emplace(Emplace(cache, f, tok), l, tok)
          /\ result' = [result EXCEPT ![t] = tok]
    BY <1>8 DEF Construct
  <2>3. \A g \in Families : cache[g] # tok
    BY <2>2, LocaleAssumption DEF CachedInv, Families
  <2>4. \A g \in Families : cache'[g] = IF g = f THEN tok ELSE cache[g]
    BY <2>1, <2>2, LocaleAssumption DEF Emplace, Families, TypeOK
  <2>5. pc' = [pc EXCEPT ![t] = "served"] /\ UNCHANGED locale
    BY <1>8 DEF Construct, Goto
  <2> HIDE DEF l, f
  <2>6. Abstract!Make(t, f, tok)
    BY <2>1, <2>2, <2>3, <2>4, <2>5
       DEF Abstract!Make, Abstract!Nothing, TypeOK, l
  <2> QED
    BY <2>1, <2>6 DEF Abstract!Next
<1>9. ASSUME NEW t \in Threads, ConstructThrows(t) PROVE Same
  BY <1>9, <1>1 DEF ConstructThrows, Goto, TypeOK
<1>10. ASSUME NEW t \in Threads, Return(t) PROVE Same \/ Abstract!Next
  <2>1. CASE pc[t] = "thrown"
    BY <1>10, <2>1, <1>1 DEF Return, Goto, TypeOK
  <2>2. CASE pc[t] = "served"
    <3>1. Abstract!Drop(t)
      BY <1>10, <2>2
         DEF Abstract!Drop, Abstract!Nothing, Return, Goto, TypeOK, ServedFromCache
    <3> QED
      BY <3>1 DEF Abstract!Next
  <2> QED BY <1>10, <2>1, <2>2 DEF Return
<1>11. CASE UNCHANGED vars
  BY <1>11 DEF vars, Abstract!vars
<1> QED
  BY <1>3, <1>4, <1>5, <1>6, <1>7, <1>8, <1>9, <1>10, <1>11 DEF Next, Step

\* createTokenizer, with its unlocked window and its exceptions, implements
\* the abstract cache: initial states map to initial states, and every step
\* to an abstract step or none.
THEOREM Implements == Spec => ImplementsServiceCache
<1>1. Init => Abstract!Init
  BY LocaleAssumption DEF Init, Abstract!Init, Abstract!Nothing, Families
<1>2. IInv /\ [Next]_vars => [Abstract!Next]_Abstract!vars
  BY StepRefines
<1> QED
  BY <1>1, <1>2, Invariance, PTL DEF Spec, ImplementsServiceCache, Abstract!Spec
=============================================================================
