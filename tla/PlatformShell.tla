----------------------------- MODULE PlatformShell -----------------------------
(***************************************************************************)
(* RuntimePlatformShell (packages/runtime/src/platform-shell.ts): exclusive*)
(* start() and stop() transitions over components with dependencies, the   *)
(* rollback of a failed start and the retry of components whose stop()     *)
(* failed.  Each action is a synchronous segment of a transition, resumed  *)
(* by the settling of a component's validate(), start() or stop().         *)
(*                                                                         *)
(* Order is the list orderPlatformComponents() returns; module             *)
(* PlatformOrder shows that it is what OrderAssumption says.               *)
(***************************************************************************)
EXTENDS Naturals, Sequences

CONSTANTS
    Component,
    Order,      \* the components in dependency order
    DependsOn,  \* component -> the components it depends on
    Call        \* start() and stop() calls of the host, reused once settled

\* Order lists every component once, after its dependencies.
ASSUME OrderAssumption ==
    /\ Order \in Seq(Component)
    /\ \A c \in Component : \E i \in 1 .. Len(Order) : Order[i] = c
    /\ \A i, j \in 1 .. Len(Order) : Order[i] = Order[j] => i = j
    /\ DependsOn \in [Component -> SUBSET Component]
    /\ \A i, j \in 1 .. Len(Order) : Order[j] \in DependsOn[Order[i]] => j < i

VARIABLES
    started,    \* this.started
    ordered,    \* orderedComponents
    pending,    \* rollbackPendingComponents
    active,     \* the call that owns activeLifecycleTransition: one or none
    running,    \* the host: components whose start() resolved and that have
                \* not been stopped since
    pc,         \* call -> where its transition is suspended
    n,          \* call -> length of startedComponents
    todo,       \* call -> components still to be stopped, last one first
    kept,       \* call -> pendingComponents, those whose stop() failed
    then        \* call -> what follows the stop pass

localVars == <<pc, n, todo, kept, then>>
vars == <<started, ordered, pending, active, running, localVars>>

Elements(s) == {s[i] : i \in 1 .. Len(s)}

-----------------------------------------------------------------------------
GoTo(c, where) == pc' = [pc EXCEPT ![c] = where]

\* A mutated form: stop the components in the order they started in.
StopInStartOrder(c, list, next) ==
    /\ GoTo(c, "stop")
    /\ todo' = [todo EXCEPT ![c] = [i \in 1 .. Len(list) |-> list[Len(list) + 1 - i]]]
    /\ kept' = [kept EXCEPT ![c] = <<>>]
    /\ then' = [then EXCEPT ![c] = next]

\* stopStartedComponents(): nothing is awaited for an empty list.
BeginStop(c, list, next) ==
    /\ GoTo(c, "stop")
    /\ todo' = [todo EXCEPT ![c] = list]
    /\ kept' = [kept EXCEPT ![c] = <<>>]
    /\ then' = [then EXCEPT ![c] = next]

\* runLifecycleTransition(): a call that meets an active transition rejects
\* and changes nothing.
Admitted(c) == pc[c] = "idle" /\ active = {}

\* A start() that follows a failed rollback stops what was left over first.
StopLeftovers(c) ==
    IF pending # <<>>
    THEN BeginStop(c, pending, "start")
    ELSE GoTo(c, "validate") /\ UNCHANGED <<todo, kept, then>>

Start(c) ==
    /\ Admitted(c)
    /\ active' = {c}
    /\ IF Order = <<>> \/ started
       THEN GoTo(c, "settled") /\ UNCHANGED <<todo, kept, then>>
       ELSE StopLeftovers(c)
    /\ UNCHANGED <<started, ordered, pending, running, n>>

\* Leftovers only, after a failure; else everything.  A started shell has its
\* orderedComponents, so the registration order is never used.
ToStop == IF pending # <<>> THEN pending ELSE ordered

Stop(c) ==
    /\ Admitted(c)
    /\ active' = {c}
    /\ IF ~started /\ pending = <<>>
       THEN GoTo(c, "settled") /\ UNCHANGED <<started, todo, kept, then>>
       ELSE BeginStop(c, ToStop, "return") /\ started' = FALSE
    /\ UNCHANGED <<ordered, pending, running, n>>

\* The graph is valid and every validate() has settled.
Validated(c, ok) ==
    /\ pc[c] = "validate"
    /\ IF ok
       THEN /\ GoTo(c, "start")
            /\ ordered' = Order
            /\ n' = [n EXCEPT ![c] = 0]
       ELSE GoTo(c, "settled") /\ UNCHANGED <<ordered, n>>
    /\ UNCHANGED <<started, pending, active, running, todo, kept, then>>

\* The component that has just started is the last one.
IsLast(c) == n[c] + 1 = Len(Order)

ComponentStarts(c) ==
    /\ pc[c] = "start"
    /\ running' = running \cup {Order[n[c] + 1]}
    /\ n' = [n EXCEPT ![c] = @ + 1]
    /\ IF IsLast(c)
       THEN GoTo(c, "settled") /\ started' = TRUE /\ pending' = <<>>
       ELSE UNCHANGED <<pc, started, pending>>
    /\ UNCHANGED <<ordered, active, todo, kept, then>>

\* The components that did start are stopped; with none there is no pass.
RollBack(c) ==
    IF n[c] = 0
    THEN GoTo(c, "settled") /\ pending' = <<>> /\ UNCHANGED <<todo, kept, then>>
    ELSE BeginStop(c, SubSeq(Order, 1, n[c]), "return") /\ UNCHANGED pending

ComponentStartFails(c) ==
    /\ pc[c] = "start"
    /\ RollBack(c)
    /\ UNCHANGED <<started, ordered, active, running, n>>

\* The component whose stop() is awaited: reverse dependency order.
Stopping(c) == todo[c][Len(todo[c])]

AfterStop(c, ok) == IF ok THEN kept[c] ELSE <<Stopping(c)>> \o kept[c]

\* A failed stop() does not end the pass; the component is kept for a retry.
ComponentStops(c, ok) ==
    /\ pc[c] = "stop"
    /\ running' = IF ok THEN running \ {Stopping(c)} ELSE running
    /\ todo' = [todo EXCEPT ![c] = SubSeq(@, 1, Len(@) - 1)]
    /\ kept' = [kept EXCEPT ![c] = AfterStop(c, ok)]
    /\ IF Len(todo[c]) > 1
       THEN UNCHANGED <<pc, pending>>
       ELSE /\ pending' = AfterStop(c, ok)
            /\ GoTo(c, IF AfterStop(c, ok) = <<>> /\ then[c] = "start"
                       THEN "validate" ELSE "settled")
    /\ UNCHANGED <<started, ordered, active, n, then>>

\* clearActiveTransition() runs when the promise resolves and when it rejects.
Cleared(c) == active \ {c}

\* The transition's promise has settled; it gives the shell back before the
\* caller's continuation runs.
Clear(c) ==
    /\ pc[c] = "settled"
    /\ GoTo(c, "idle")
    /\ active' = Cleared(c)
    /\ n' = [n EXCEPT ![c] = 0]
    /\ todo' = [todo EXCEPT ![c] = <<>>] /\ kept' = [kept EXCEPT ![c] = <<>>]
    /\ then' = [then EXCEPT ![c] = "return"]
    /\ UNCHANGED <<started, ordered, pending, running>>

-----------------------------------------------------------------------------
Init ==
    /\ started = FALSE /\ ordered = <<>> /\ pending = <<>>
    /\ active = {} /\ running = {}
    /\ pc = [c \in Call |-> "idle"] /\ n = [c \in Call |-> 0]
    /\ todo = [c \in Call |-> <<>>] /\ kept = [c \in Call |-> <<>>]
    /\ then = [c \in Call |-> "return"]

\* What a component's answer, or the event loop, does next.
Step(c) ==
    \/ ComponentStarts(c) \/ ComponentStartFails(c) \/ Clear(c)
    \/ \E ok \in BOOLEAN : Validated(c, ok) \/ ComponentStops(c, ok)

Next == \E c \in Call : Start(c) \/ Stop(c) \/ Step(c)

Spec == Init /\ [][Next]_vars

-----------------------------------------------------------------------------
(* Properties *)

\* Type invariant of the shell's fields and of the transitions' locals: a
\* transition that is starting or stopping has a component to start or stop.
TypeOK ==
    /\ started \in BOOLEAN
    /\ ordered \in Seq(Component) /\ pending \in Seq(Component)
    /\ active \subseteq Call
    /\ running \subseteq Component
    /\ pc \in [Call -> {"idle", "validate", "start", "stop", "settled"}]
    /\ n \in [Call -> Nat]
    /\ todo \in [Call -> Seq(Component)] /\ kept \in [Call -> Seq(Component)]
    /\ then \in [Call -> {"start", "return"}]
    /\ \A c \in Call : pc[c] = "start" => n[c] < Len(Order)
    /\ \A c \in Call : pc[c] = "stop" => todo[c] # <<>>

\* Between transitions the shell accounts for every running component: all
\* when started, and otherwise exactly those whose stop() it still owes, so a
\* failed start, rollback or stop never loses one (platform-shell.ts,
\* rollbackPendingComponents).
Accounting ==
    active = {} => running = IF started THEN Component ELSE Elements(pending)

\* start() is called only on a component that is not running and whose
\* dependencies all are, also in a retry after a failed rollback
\* (platform-shell.ts, startComponents()).
StartSound ==
    \A c \in Call : pc[c] = "start" =>
        /\ Order[n[c] + 1] \notin running
        /\ DependsOn[Order[n[c] + 1]] \subseteq running

\* stop() is called only on a running component, and only when each running
\* dependent of it has failed its own stop() in the same pass
\* (platform-shell.ts, stopStartedComponents()).
StopSound ==
    \A c \in Call : pc[c] = "stop" =>
        /\ Stopping(c) \in running
        /\ \A d \in running : Stopping(c) \in DependsOn[d] => d \in Elements(kept[c])

\* Whatever fails and is retried, the shell forgets no running component, starts
\* each after its dependencies and stops each after its dependents.
ShellSound == TypeOK /\ Accounting /\ StartSound /\ StopSound

(* The inductive invariant behind these properties. *)

\* x comes before y in the dependency order.
Before(x, y) ==
    \E p, q \in 1 .. Len(Order) : p < q /\ Order[p] = x /\ Order[q] = y

Sorted(s) == \A i, j \in 1 .. Len(s) : i < j => Before(s[i], s[j])

\* At most one transition is under way, and it owns the shell.
OneOwner ==
    /\ \A c \in Call : c \in active <=> pc[c] # "idle"
    /\ \A c, d \in active : c = d

\* What runs when no component's start() or stop() is awaited.
Balanced == running = IF started THEN Component ELSE Elements(pending)

FieldsOK ==
    /\ started => Order # <<>> /\ ordered = Order /\ pending = <<>>
    /\ Sorted(pending)
    /\ (\A c \in Call : pc[c] \in {"idle", "settled"}) => Balanced

\* What runs while one is, as the transition's locals record it.
TransitionOK ==
    \A c \in Call :
      /\ pc[c] = "validate" => ~started /\ pending = <<>> /\ running = {} /\ Order # <<>>
      /\ pc[c] = "start" =>
            ~started /\ pending = <<>> /\ ordered = Order /\ running = Elements(SubSeq(Order, 1, n[c]))
      /\ pc[c] = "stop" =>
            /\ ~started /\ Order # <<>>
            /\ running = Elements(todo[c]) \cup Elements(kept[c])
            /\ Sorted(todo[c]) /\ Sorted(kept[c])
            /\ \A x \in Elements(todo[c]), y \in Elements(kept[c]) : Before(x, y)

ShellInv == TypeOK /\ OneOwner /\ FieldsOK /\ TransitionOK
=============================================================================
