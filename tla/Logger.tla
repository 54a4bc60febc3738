------------------------------- MODULE Logger -------------------------------
(***************************************************************************)
(* The loggers an application registers, and the delivery of messages to   *)
(* them (src/src/inflection/util/Logger.cpp and LoggerConfig.cpp).         *)
(*                                                                         *)
(* The level is read without a lock before a message is delivered.  The    *)
(* callback of the logger registered last runs while the mutex is held, so *)
(* that an application may free a logger's context once unregistering it   *)
(* has returned.  A callback does not call back into the library here:     *)
(* LockOrder has what it may lock.                                         *)
(***************************************************************************)
EXTENDS Integers, SequencesExt, SequenceTheorems, TLAPS

CONSTANTS Threads,
          Contexts,     \* the contexts of the loggers, which identify them
          DefaultLogger,\* the platform's own, or NoContext
          Disabled,     \* ILOG_DISABLED: the levels are 0..Disabled
          Info,         \* ILOG_INFO, the level at the start
          NoContext, Free

ASSUME LoggerAssumption ==
  /\ DefaultLogger \in Contexts \cup {NoContext}
  /\ Disabled \in Nat \ {0} /\ Info \in 0..(Disabled - 1)
  /\ NoContext \notin Contexts /\ Free \notin Threads

Levels == 0..Disabled
Messages == 0..(Disabled - 1)

VARIABLES loggers,    \* LOGGER_CACHE, the last registered last
          gLogLevel,
          mutex,      \* CLASS_MUTEX
          pc,
          called      \* the context each thread's callback runs with

vars == <<loggers, gLogLevel, mutex, pc, called>>

Registered == ToSet(loggers)

\* A context is registered at most once, so that erasing it once is enough.
TypeOK ==
  /\ loggers \in Seq(Contexts) /\ IsInjective(loggers)
  /\ gLogLevel \in Levels
  /\ mutex \in Threads \cup {Free}
  /\ pc \in [Threads -> {"idle", "accepted", "callback"}]
  /\ called \in [Threads -> Contexts \cup {NoContext}]

Init ==
  /\ loggers = IF DefaultLogger = NoContext THEN << >> ELSE <<DefaultLogger>>
  /\ gLogLevel = Info
  /\ mutex = Free
  /\ pc = [t \in Threads |-> "idle"]
  /\ called = [t \in Threads |-> NoContext]

SetLogLevel(l) ==
  /\ gLogLevel' = l
  /\ UNCHANGED <<loggers, mutex, pc, called>>

\* Registering a context that is registered is refused.
RegisterLogger(t, c) ==
  /\ pc[t] = "idle" /\ mutex = Free
  /\ c \notin Registered
  /\ loggers' = Append(loggers, c)
  /\ UNCHANGED <<gLogLevel, mutex, pc, called>>

\* A null callback unregisters; the application may then free the context.
UnregisterLogger(t, c) ==
  /\ pc[t] = "idle" /\ mutex = Free
  /\ c \in Registered
  /\ LET i == CHOOSE i \in DOMAIN loggers :
                loggers[i] = c /\ \A j \in 1..(i - 1) : loggers[j] # c
     IN  loggers' = RemoveAt(loggers, i)
  /\ UNCHANGED <<gLogLevel, mutex, pc, called>>

\* A message of level l passes the check of the level, which takes no lock.
Log(t, l) ==
  /\ pc[t] = "idle"
  /\ gLogLevel <= l
  /\ pc' = [pc EXCEPT ![t] = "accepted"]
  /\ UNCHANGED <<loggers, gLogLevel, mutex, called>>

\* Mutant of LogToTopOfStackLogger: the logger is copied under the mutex and
\* called after it.
LogToTopOfStackLogger_Copies(t) ==
  /\ pc[t] = "accepted" /\ mutex = Free
  /\ IF loggers = << >>
       THEN pc' = [pc EXCEPT ![t] = "idle"] /\ UNCHANGED called
       ELSE /\ pc' = [pc EXCEPT ![t] = "callback"]
            /\ called' = [called EXCEPT ![t] = Last(loggers)]
  /\ UNCHANGED <<loggers, gLogLevel, mutex>>

\* The mutex is taken and the last logger called, if there is one.
LogToTopOfStackLogger(t) ==
  /\ pc[t] = "accepted" /\ mutex = Free
  /\ IF loggers = << >>
       THEN /\ pc' = [pc EXCEPT ![t] = "idle"]
            /\ UNCHANGED <<mutex, called>>
       ELSE /\ mutex' = t
            /\ pc' = [pc EXCEPT ![t] = "callback"]
            /\ called' = [called EXCEPT ![t] = Last(loggers)]
  /\ UNCHANGED <<loggers, gLogLevel>>

CallbackReturns(t) ==
  /\ pc[t] = "callback"
  /\ mutex' = Free
  /\ pc' = [pc EXCEPT ![t] = "idle"]
  /\ called' = [called EXCEPT ![t] = NoContext]
  /\ UNCHANGED <<loggers, gLogLevel>>

Step(t) == LogToTopOfStackLogger(t) \/ CallbackReturns(t)

Next ==
  \/ \E l \in Levels : SetLogLevel(l)
  \/ \E t \in Threads :
       \/ Step(t)
       \/ \E c \in Contexts : RegisterLogger(t, c) \/ UnregisterLogger(t, c)
       \/ \E l \in Messages : Log(t, l)

Spec == Init /\ [][Next]_vars

-----------------------------------------------------------------------------
\* A callback runs only while its context is registered, from its first
\* instruction to its last, whatever other threads unregister meanwhile: once
\* unregisterLogger has returned, the context is never used again.
CalledWhileRegistered ==
  \A t \in Threads : pc[t] = "callback" => called[t] \in Registered

\* Callbacks never overlap, so a context needs no lock of its own.
OneCallbackAtATime ==
  \A t, u \in Threads : pc[t] = "callback" /\ pc[u] = "callback" => t = u

\* What an application may rely on in a callback it registers: its context is
\* still there, and no other callback runs beside it (logToTopOfStackLogger).
CallbacksRespected == CalledWhileRegistered /\ OneCallbackAtATime

-----------------------------------------------------------------------------
USE LoggerAssumption

\* The mutex is held by the thread whose callback runs, and only by that.
LockInv ==
  \A t \in Threads : pc[t] = "callback" <=> mutex = t

LEMMA InitTyped == Init => TypeOK /\ LockInv
BY DEF Init, TypeOK, LockInv, IsInjective, Levels

\* Registering a context that is not registered keeps them apart.
LEMMA Registering ==
  ASSUME NEW s \in Seq(Contexts), IsInjective(s), NEW c \in Contexts, c \notin ToSet(s)
  PROVE  /\ Append(s, c) \in Seq(Contexts) /\ IsInjective(Append(s, c))
         /\ ToSet(Append(s, c)) = ToSet(s) \cup {c}
BY DEF IsInjective, ToSet

\* Erasing one registration of a context leaves none of it, and all others.
LEMMA Unregistering ==
  ASSUME NEW s \in Seq(Contexts), IsInjective(s), NEW i \in DOMAIN s
  PROVE  /\ RemoveAt(s, i) \in Seq(Contexts) /\ IsInjective(RemoveAt(s, i))
         /\ ToSet(RemoveAt(s, i)) = ToSet(s) \ {s[i]}
<1> DEFINE r == RemoveAt(s, i)
<1>1. /\ r \in Seq(Contexts) /\ Len(r) = Len(s) - 1
      /\ \A j \in 1..Len(r) : r[j] = IF j < i THEN s[j] ELSE s[j + 1]
  <2> DEFINE a == SubSeq(s, 1, i - 1)
             b == SubSeq(s, i + 1, Len(s))
  <2>1. Len(s) \in Nat /\ i \in 1..Len(s)
    BY LenProperties
  <2>2. /\ a \in Seq(Contexts) /\ Len(a) = i - 1
        /\ \A j \in 1..(i - 1) : a[j] = s[j]
    BY <2>1, ElementOfSeq, SubSeqProperties
  <2>3. /\ b \in Seq(Contexts) /\ Len(b) = Len(s) - i
        /\ \A j \in 1..(Len(s) - i) : b[j] = s[j + i]
    BY <2>1, ElementOfSeq, SubSeqProperties
  <2> HIDE DEF a, b
  <2>4. r = a \o b
    BY DEF r, RemoveAt, a, b
  <2> HIDE DEF r
  <2>5. /\ r \in Seq(Contexts) /\ Len(r) = Len(s) - 1
        /\ \A j \in 1..(Len(s) - 1) : r[j] = IF j <= Len(a) THEN a[j] ELSE b[j - Len(a)]
    <3>1. Len(a) + Len(b) = Len(s) - 1
      BY <2>1, <2>2, <2>3
    <3>2. /\ a \o b \in Seq(Contexts) /\ Len(a \o b) = Len(a) + Len(b)
          /\ \A j \in 1..(Len(a) + Len(b)) : (a \o b)[j] = IF j <= Len(a) THEN a[j] ELSE b[j - Len(a)]
      BY <2>2, <2>3, ConcatProperties
    <3> QED BY <2>4, <3>1, <3>2
  <2>6. ASSUME NEW j \in 1..(Len(s) - 1)
        PROVE  r[j] = IF j < i THEN s[j] ELSE s[j + 1]
    <3>1. CASE j < i
      BY <3>1, <2>1, <2>2, <2>5
    <3>2. CASE j >= i
      <4>1. j - Len(a) \in 1..(Len(s) - i) /\ (j - Len(a)) + i = j + 1 /\ ~(j <= Len(a))
        BY <3>2, <2>1, <2>2
      <4> QED BY <4>1, <3>2, <2>1, <2>3, <2>5
    <3> QED BY <2>1, <3>1, <3>2
  <2> QED BY <2>5, <2>6
<1>2. DOMAIN r = 1..Len(r) /\ DOMAIN s = 1..Len(s)
  BY <1>1, LenProperties
<1> HIDE DEF r
<1>3. IsInjective(r)
  BY <1>1, <1>2 DEF IsInjective
<1>4. ToSet(r) \subseteq ToSet(s) \ {s[i]}
  BY <1>1, <1>2 DEF ToSet, IsInjective
<1>5. ASSUME NEW j \in DOMAIN s, s[j] # s[i] PROVE s[j] \in ToSet(r)
  <2>1. CASE j < i
    BY <2>1, <1>1, <1>2 DEF ToSet
  <2>2. CASE j > i
    <3>1. j - 1 \in DOMAIN r /\ r[j - 1] = s[j]
      BY <2>2, <1>1, <1>2
    <3> QED BY <3>1 DEF ToSet
  <2> QED BY <1>2, <1>5, <2>1, <2>2
<1>6. ASSUME NEW c \in ToSet(s), c # s[i] PROVE c \in ToSet(r)
  BY <1>5, <1>6 DEF ToSet
<1> QED BY <1>1, <1>3, <1>4, <1>6 DEF r


LEMMA StepTyped == TypeOK /\ LockInv /\ [Next]_vars => TypeOK' /\ LockInv'
<1> SUFFICES ASSUME TypeOK, LockInv, [Next]_vars PROVE TypeOK' /\ LockInv'
  OBVIOUS
<1> USE DEF TypeOK, LockInv
<1>1. ASSUME NEW l \in Levels, SetLogLevel(l) PROVE TypeOK' /\ LockInv'
  BY <1>1 DEF SetLogLevel
<1>2. ASSUME NEW t \in Threads, LogToTopOfStackLogger(t) PROVE TypeOK' /\ LockInv'
  <2>1. loggers # << >> => Last(loggers) \in Contexts
    BY EmptySeq, ElementOfSeq, LenProperties DEF Last
  <2> QED BY <1>2, <2>1 DEF LogToTopOfStackLogger
<1>3. ASSUME NEW t \in Threads, CallbackReturns(t) PROVE TypeOK' /\ LockInv'
  BY <1>3 DEF CallbackReturns
<1>4. ASSUME NEW t \in Threads, NEW c \in Contexts, RegisterLogger(t, c)
      PROVE  TypeOK' /\ LockInv'
  BY <1>4, Registering DEF RegisterLogger, Registered
<1>5. ASSUME NEW t \in Threads, NEW c \in Contexts, UnregisterLogger(t, c)
      PROVE  TypeOK' /\ LockInv'
  <2>1. PICK i \in DOMAIN loggers : loggers[i] = c
    BY <1>5 DEF UnregisterLogger, Registered, ToSet
  <2>2. \A j \in 1..(i - 1) : loggers[j] # c
    BY <2>1, LenProperties DEF IsInjective
  <2>3. PICK k \in DOMAIN loggers : loggers' = RemoveAt(loggers, k)
    BY <1>5, <2>1, <2>2 DEF UnregisterLogger
  <2> QED BY <1>5, <2>3, Unregistering DEF UnregisterLogger
<1>6. ASSUME NEW t \in Threads, NEW l \in Messages, Log(t, l) PROVE TypeOK' /\ LockInv'
  BY <1>6 DEF Log
<1>7. CASE UNCHANGED vars
  BY <1>7 DEF vars
<1> QED BY <1>1, <1>2, <1>3, <1>4, <1>5, <1>6, <1>7 DEF Next, Step

\* The state is typed: no context is ever registered twice, and it is the mutex
\* that a running callback holds (registerLogger, unregisterLogger,
\* logToTopOfStackLogger).
THEOREM TypeCorrect == Spec => [](TypeOK /\ LockInv)
BY InitTyped, StepTyped, PTL DEF Spec

\* A callback of a registered context runs to its end undisturbed, however many
\* threads log, register and unregister.
THEOREM Callbacks == Spec => []CallbacksRespected
<1>1. TypeOK /\ LockInv => OneCallbackAtATime
  BY DEF TypeOK, LockInv, OneCallbackAtATime
<1>2. Init => CalledWhileRegistered
  BY DEF Init, CalledWhileRegistered
<1>3. TypeOK /\ LockInv /\ CalledWhileRegistered /\ [Next]_vars => CalledWhileRegistered'
  <2> SUFFICES ASSUME TypeOK, LockInv, CalledWhileRegistered, [Next]_vars
               PROVE  CalledWhileRegistered'
    OBVIOUS
  <2> USE DEF TypeOK, LockInv, CalledWhileRegistered, Registered
  <2>1. ASSUME NEW t \in Threads, LogToTopOfStackLogger(t) PROVE CalledWhileRegistered'
    <3>1. loggers # << >> => Last(loggers) \in ToSet(loggers)
      BY EmptySeq, LenProperties DEF Last, ToSet
    <3> QED BY <2>1, <3>1 DEF LogToTopOfStackLogger
  <2>2. ASSUME NEW t \in Threads, CallbackReturns(t) PROVE CalledWhileRegistered'
    BY <2>2 DEF CallbackReturns
  <2>3. ASSUME NEW t \in Threads, NEW c \in Contexts,
               RegisterLogger(t, c) \/ UnregisterLogger(t, c)
        PROVE  CalledWhileRegistered'
    BY <2>3 DEF RegisterLogger, UnregisterLogger
  <2>4. ASSUME NEW t \in Threads, NEW l \in Messages, Log(t, l) PROVE CalledWhileRegistered'
    BY <2>4 DEF Log
  <2>5. ASSUME NEW l \in Levels, SetLogLevel(l) PROVE CalledWhileRegistered'
    BY <2>5 DEF SetLogLevel
  <2>6. CASE UNCHANGED vars
    BY <2>6 DEF vars
  <2> QED BY <2>1, <2>2, <2>3, <2>4, <2>5, <2>6 DEF Next, Step
<1> QED BY <1>1, <1>2, <1>3, TypeCorrect, PTL DEF Spec, CallbacksRespected

\* While a callback runs, nothing is registered or unregistered: an application
\* that returns from unregisterLogger may free the context at once.
THEOREM StacksStandStill ==
  Spec => [][(\E t \in Threads : pc[t] = "callback") => UNCHANGED loggers]_vars
<1>1. TypeOK /\ LockInv /\ [Next]_vars
        => [(\E t \in Threads : pc[t] = "callback") => UNCHANGED loggers]_vars
  <2> SUFFICES ASSUME TypeOK, LockInv, Next, NEW t \in Threads, pc[t] = "callback"
               PROVE  UNCHANGED loggers
    OBVIOUS
  <2>1. mutex = t /\ mutex # Free
    BY DEF LockInv, TypeOK
  <2> QED BY <2>1 DEF Next, Step, SetLogLevel, RegisterLogger, UnregisterLogger, Log,
                      LogToTopOfStackLogger, CallbackReturns
<1> QED BY <1>1, TypeCorrect, PTL DEF Spec

=============================================================================
