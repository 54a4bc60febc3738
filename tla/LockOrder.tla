----------------------------- MODULE LockOrder -----------------------------
(***************************************************************************)
(* The mutexes of the library and the calls made while they are held.      *)
(*                                                                         *)
(* Each mutex is a std::mutex held by a lock_guard for the rest of a block,*)
(* so a thread's locks form a stack, and an exception unwinds it.  Which   *)
(* mutexes a thread may ask for depends on the innermost one it holds.     *)
(* The callback of a registered logger runs while the logger's mutex is    *)
(* held; what it may call is the application's choice, CallbackTakes.      *)
(***************************************************************************)
EXTENDS Sequences, Naturals

CONSTANTS Threads,
          CallbackTakes,    \* the mutexes a logger's callback may ask for
          Nobody            \* no owner, and nothing waited for

Mutexes == {"provider", "tokenizers", "pronouns", "dictionaries", "exemplars",
            "pool", "registration", "logger"}

ASSUME LockAssumption ==
  \* What a callback may do: nothing that logs, or may have something log.
  /\ CallbackTakes \subseteq {"exemplars", "pool", "registration"}
  /\ Nobody \notin Threads /\ Nobody \notin Mutexes

VARIABLES held,       \* held[t]: the mutexes t holds, the innermost last
          wants,      \* the mutex t is about to lock, or Nobody
          owner,      \* the thread that holds a mutex, or Nobody
          unwinding   \* the threads an exception is leaving

vars == <<held, wants, owner, unwinding>>

\* getCommonConceptFactory constructs a factory with its synthesizer, its
\* tokenizer and its dictionary.
UnderProvider == {"tokenizers", "dictionaries", "exemplars", "registration", "logger"}

\* createTokenizerObject locates the token dictionary, tokenizes once, and logs.
UnderTokenizers == {"registration", "pool", "logger"}

\* getPronounTable makes locales, which log when they are not valid.
UnderPronouns == {"logger"}

\* Mutant of UnderDictionaries: a load asks for the grammar of its locale.
UnderDictionaries_Grammar == {"registration", "logger", "provider"}

\* createDictionaryForLocale looks up roots and logs that a file is missing.
UnderDictionaries == {"registration", "logger"}

\* logToTopOfStackLogger calls the application.
UnderLogger == CallbackTakes

\* The other critical sections call nothing that locks.
Under(m) ==
  CASE m = "provider" -> UnderProvider
    [] m = "tokenizers" -> UnderTokenizers
    [] m = "pronouns" -> UnderPronouns
    [] m = "dictionaries" -> UnderDictionaries
    [] m = "logger" -> UnderLogger
    [] OTHER -> {}

Innermost(t) == held[t][Len(held[t])]

\* What each thread holds is what each mutex is owned by: a lock lasts exactly
\* as long as its guard, whichever way the block is left.
TypeOK ==
  /\ held \in [Threads -> Seq(Mutexes)]
  /\ wants \in [Threads -> Mutexes \cup {Nobody}]
  /\ owner \in [Mutexes -> Threads \cup {Nobody}]
  /\ unwinding \subseteq Threads
  /\ \A t \in Threads, m \in Mutexes :
       owner[m] = t <=> \E i \in DOMAIN held[t] : held[t][i] = m

Init ==
  /\ held = [t \in Threads |-> << >>]
  /\ wants = [t \in Threads |-> Nobody]
  /\ owner = [m \in Mutexes |-> Nobody]
  /\ unwinding = {}

\* A function that locks m is called, from outside the library or from the
\* critical section that t is in.
Call(t, m) ==
  /\ wants[t] = Nobody /\ t \notin unwinding
  /\ m \in IF held[t] = << >> THEN Mutexes ELSE Under(Innermost(t))
  /\ wants' = [wants EXCEPT ![t] = m]
  /\ UNCHANGED <<held, owner, unwinding>>

\* lock_guard's constructor: lock() returns.
Lock(t) ==
  /\ wants[t] # Nobody
  /\ owner[wants[t]] = Nobody
  /\ owner' = [owner EXCEPT ![wants[t]] = t]
  /\ held' = [held EXCEPT ![t] = Append(held[t], wants[t])]
  /\ wants' = [wants EXCEPT ![t] = Nobody]
  /\ UNCHANGED unwinding

\* The innermost block is left and its guard unlocks; an exception goes on to
\* the next block, and leaves the library with the outermost.
Unlock(t) ==
  /\ held[t] # << >> /\ wants[t] = Nobody
  /\ owner' = [owner EXCEPT ![Innermost(t)] = Nobody]
  /\ held' = [held EXCEPT ![t] = SubSeq(held[t], 1, Len(held[t]) - 1)]
  /\ unwinding' = IF Len(held[t]) = 1 THEN unwinding \ {t} ELSE unwinding
  /\ UNCHANGED wants

\* An exception is thrown in a critical section.
Throw(t) ==
  /\ held[t] # << >> /\ wants[t] = Nobody
  /\ unwinding' = unwinding \cup {t}
  /\ UNCHANGED <<held, wants, owner>>

\* An exception is caught in the critical section it has reached:
\* createDictionaryForLocale goes on with an empty dictionary.
Catch(t) ==
  /\ t \in unwinding /\ Innermost(t) = "dictionaries"
  /\ unwinding' = unwinding \ {t}
  /\ UNCHANGED <<held, wants, owner>>

Next ==
  \E t \in Threads :
    \/ \E m \in Mutexes : Call(t, m)
    \/ Lock(t) \/ Unlock(t) \/ Throw(t) \/ Catch(t)

Spec == Init /\ [][Next]_vars

-----------------------------------------------------------------------------
\* t waits for a mutex that u holds; for t = u it waits for itself.
WaitsFor(t, u) == wants[t] # Nobody /\ owner[wants[t]] = u

\* "It has std::mutex in places where deadlocks could occur" (README.md:72): no
\* set of threads has all its members wait for each other.
NoCircularWait ==
  \A S \in (SUBSET Threads) \ {{}} : \E t \in S : \A u \in S : ~WaitsFor(t, u)
=============================================================================
