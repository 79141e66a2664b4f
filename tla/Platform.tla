------------------------------- MODULE Platform -------------------------------
(***************************************************************************)
(* The platform shell together with the search that orders its components: *)
(* the list the search returns is the Order PlatformShell is given.  The   *)
(* registrations never change, so every start() gets the same answer and   *)
(* the search, which awaits nothing, runs once, ahead of the shell.        *)
(***************************************************************************)
EXTENDS PlatformShell, PlatformOrder

PlatformInit == Init /\ SearchInit

Search == SearchNext /\ UNCHANGED vars

\* The shell runs the list that the search returned.
Shell(action) ==
    /\ result = "ordered" /\ sorted = Order
    /\ action
    /\ UNCHANGED searchVars

Transition(c) == Shell(Start(c) \/ Stop(c))
Proceed(c) == Shell(Step(c))

PlatformNext == Search \/ \E c \in Call : Transition(c) \/ Proceed(c)

\* The search is synchronous, and every validate(), start() and stop() of a
\* component settles in the end.
PlatformFairness ==
    /\ WF_<<vars, searchVars>>(Search)
    /\ \A c \in Call : WF_<<vars, searchVars>>(Proceed(c))

-----------------------------------------------------------------------------
(* Properties *)

\* A transition, once admitted, gives the shell back however its components
\* answer: a rejected start() or stop() never locks out the next one
\* (platform-shell.ts, clearActiveTransition()).
TransitionsEnd == \A c \in Call : c \in active ~> c \notin active
=============================================================================
