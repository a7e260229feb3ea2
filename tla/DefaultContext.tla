--------------------------- MODULE DefaultContext ---------------------------
(***************************************************************************)
(* What Yang.hpp promises of getDefaultContext: "a fully-initialized       *)
(* default context" that "initializes once".  Callers ask; they are        *)
(* refused only as long as no call has succeeded, and every call after the *)
(* first success answers with the shared context, which has the default    *)
(* modules and never loses a module.  Yang.tla is shown to implement this. *)
(***************************************************************************)
EXTENDS FiniteSets

CONSTANTS
  Callers,  \* the threads of the program
  Modules,  \* what a context can hold
  Default   \* the modules of kDefaultModules

VARIABLES
  shared,   \* the modules in the shared context
  ready,    \* some getDefaultContext has succeeded
  answer    \* each caller's current or last getDefaultContext

vars == <<shared, ready, answer>>

Answers == {"none", "pending", "context", "error"}

Init ==
  /\ shared = {}
  /\ ready = FALSE
  /\ answer = [t \in Callers |-> "none"]

Answer(t, a) == answer' = [answer EXCEPT ![t] = a]

Ask(t) ==
  /\ answer[t] # "pending"
  /\ Answer(t, "pending")
  /\ UNCHANGED <<shared, ready>>

\* A module is loaded, for getDefaultContext or by a caller.
Grow ==
  /\ \E m \in Modules : shared' = shared \union {m}
  /\ UNCHANGED <<ready, answer>>

\* The caller goes on to use the context in another way.
Move(t) ==
  /\ answer[t] # "pending"
  /\ Answer(t, "none")
  /\ \/ UNCHANGED shared
     \/ \E m \in Modules : shared' = shared \union {m}
  /\ UNCHANGED ready

\* The call succeeds: the first time because everything is loaded now.
Succeed(t) ==
  /\ answer[t] = "pending"
  /\ Default \subseteq shared
  /\ Answer(t, "context")
  /\ ready' = TRUE
  /\ UNCHANGED shared

\* The call throws.  After a success that cannot happen.
Refuse(t) ==
  /\ answer[t] = "pending"
  /\ ~ready
  /\ Answer(t, "error")
  /\ UNCHANGED <<shared, ready>>

Next == Grow \/ \E t \in Callers : Ask(t) \/ Move(t) \/ Succeed(t) \/ Refuse(t)

Spec == Init /\ [][Next]_vars

=============================================================================
