---------------------------- MODULE ServiceCache ----------------------------
(***************************************************************************)
(* What every process-wide cache of the library promises its callers, with *)
(* no locks and no fallback rules: each family of keys (all the locales    *)
(* that share one tokenizer, all the locales of one dictionary language,   *)
(* ...) has at most one service, the service is made once, it is never     *)
(* replaced ("caching is a one-way street", README.md:60), and whatever a  *)
(* caller is handed is the service of the family it asked for.             *)
(* TokenizerCache and DictionaryCache implement this module.               *)
(***************************************************************************)
CONSTANTS Callers,     \* the threads that ask for services
          Families,    \* what a service is cached for
          Services,    \* the objects that can be made
          NoService    \* no object: nothing cached, nothing handed out

VARIABLES service,     \* service[f]: the object published for family f
          handed       \* handed[c]: the object caller c holds, and its family

vars == <<service, handed>>

\* The object and family a caller that holds nothing is shown with.
Nothing == [family |-> NoService, object |-> NoService]

Init ==
  /\ service = [f \in Families |-> NoService]
  /\ handed  = [c \in Callers |-> Nothing]

\* A caller receives the service published for the family it asked for.
HandOut(c, f) ==
  /\ service[f] # NoService
  /\ handed[c] = Nothing
  /\ handed' = [handed EXCEPT ![c] = [family |-> f, object |-> service[f]]]
  /\ UNCHANGED service

\* A new service is published for its family and handed to who asked first.
Make(c, f, s) ==
  /\ service[f] = NoService
  /\ \A g \in Families : service[g] # s
  /\ handed[c] = Nothing
  /\ service' = [service EXCEPT ![f] = s]
  /\ handed'  = [handed EXCEPT ![c] = [family |-> f, object |-> s]]

\* The caller is done with the service, which stays published.
Drop(c) ==
  /\ handed[c] # Nothing
  /\ handed' = [handed EXCEPT ![c] = Nothing]
  /\ UNCHANGED service

Next ==
  \/ \E c \in Callers, f \in Families : HandOut(c, f)
  \/ \E c \in Callers, f \in Families, s \in Services : Make(c, f, s)
  \/ \E c \in Callers : Drop(c)

Spec == Init /\ [][Next]_vars
=============================================================================
