----------------------------- MODULE PlatformOrder -----------------------------
(***************************************************************************)
(* assertValidPlatformComponentGraph() and orderPlatformComponents()       *)
(* (packages/runtime/src/platform-component-registry.ts): the checks of a  *)
(* registered component graph and the depth-first search that orders it.   *)
(* The recursion of visit() is a stack of frames: a component and the      *)
(* position of the dependency its loop is at.                              *)
(***************************************************************************)
EXTENDS Naturals, Sequences

CONSTANTS
    Id,             \* non-empty component ids
    Blank,          \* an empty or all-whitespace id
    Registrations   \* lists of registrations [id, dependencies] to order

ASSUME RegistrationsAssumption ==
    /\ Blank \notin Id
    /\ Registrations \subseteq Seq([id : Id \cup {Blank}, dependencies : Seq(Id)])

VARIABLES
    components,  \* the registered components
    stack,       \* active calls of visit(), the current one last
    root,        \* index of the outer loop
    visited,
    sorted,
    result       \* unchecked, running, or how the call ended

searchVars == <<components, stack, root, visited, sorted, result>>

Ids == {components[i].id : i \in 1 .. Len(components)}

\* byId: ids are unique once the graph has been checked.
ById(list, id) == list[CHOOSE i \in 1 .. Len(list) : list[i].id = id]

DependenciesOf(id) == ById(components, id).dependencies

-----------------------------------------------------------------------------
\* Every id is nonblank and registered once.
IdsOK ==
    /\ Blank \notin Ids
    /\ \A i, j \in 1 .. Len(components) :
          components[i].id = components[j].id => i = j

\* A dependency is registered and is not the component itself.
DependencyOK(id, dependency) == dependency \in Ids /\ dependency # id

DependenciesOK ==
    \A i \in 1 .. Len(components) :
        \A k \in 1 .. Len(components[i].dependencies) :
            DependencyOK(components[i].id, components[i].dependencies[k])

\* assertValidPlatformComponentGraph() throws before the search begins.
AssertValid ==
    /\ result = "unchecked"
    /\ result' = IF IdsOK /\ DependenciesOK THEN "running" ELSE "invalid"
    /\ UNCHANGED <<components, stack, root, visited, sorted>>

\* visiting: a component is on the stack until its dependencies are done.
Visiting == {stack[i].id : i \in 1 .. Len(stack)}

Top == stack[Len(stack)]
Below == SubSeq(stack, 1, Len(stack) - 1)

\* A call of visit() begins at the first dependency.
Frame(id) == [id |-> id, at |-> 1]

\* The loop over the dependencies goes on.
NextDependency(frame) == [frame EXCEPT !.at = @ + 1]

\* visit(id), called by the loop whose frames are given.
Visit(frames, id) ==
    IF id \in visited THEN stack' = frames /\ UNCHANGED result
    ELSE IF id \in Visiting THEN stack' = frames /\ result' = "cycle"
    ELSE stack' = Append(frames, Frame(id)) /\ UNCHANGED result

\* The outer loop visits every registered component.
VisitRoot ==
    /\ result = "running" /\ stack = <<>> /\ root <= Len(components)
    /\ Visit(<<>>, components[root].id)
    /\ root' = root + 1
    /\ UNCHANGED <<components, visited, sorted>>

\* The loop of a visit reaches its next dependency.
VisitDependency ==
    /\ result = "running" /\ stack # <<>>
    /\ Top.at <= Len(DependenciesOf(Top.id))
    /\ Visit(Append(Below, NextDependency(Top)), DependenciesOf(Top.id)[Top.at])
    /\ UNCHANGED <<components, root, visited, sorted>>

\* A mutated form: a component is put before its dependencies.
PushFirst == <<Top.id>> \o sorted

\* A component is appended when its dependencies are.
PushLast == Append(sorted, Top.id)

\* The loop of a visit is over.
Leave ==
    /\ result = "running" /\ stack # <<>>
    /\ Top.at > Len(DependenciesOf(Top.id))
    /\ stack' = Below
    /\ visited' = visited \cup {Top.id}
    /\ sorted' = PushLast
    /\ UNCHANGED <<components, root, result>>

Return ==
    /\ result = "running" /\ stack = <<>> /\ root > Len(components)
    /\ result' = "ordered"
    /\ UNCHANGED <<components, stack, root, visited, sorted>>

-----------------------------------------------------------------------------
SearchInit ==
    /\ components \in Registrations
    /\ stack = <<>> /\ root = 1 /\ visited = {} /\ sorted = <<>>
    /\ result = "unchecked"

SearchNext == AssertValid \/ VisitRoot \/ VisitDependency \/ Leave \/ Return

SearchSpec == SearchInit /\ [][SearchNext]_searchVars

\* The call is synchronous: it runs until it returns or throws.
FairSearch == SearchSpec /\ WF_searchVars(SearchNext)

-----------------------------------------------------------------------------
(* Properties *)

\* Type invariant of the registrations and of the search.
SearchTypeOK ==
    /\ components \in Seq([id : Id \cup {Blank}, dependencies : Seq(Id)])
    /\ stack \in Seq([id : Id, at : Nat \ {0}])
    /\ root \in 1 .. Len(components) + 1
    /\ visited \subseteq Id
    /\ sorted \in Seq(Id)
    /\ result \in {"unchecked", "running", "invalid", "cycle", "ordered"}

DependencySet(id) ==
    {DependenciesOf(id)[k] : k \in 1 .. Len(DependenciesOf(id))}

\* What PlatformShell assumes: every component is listed, exactly once, after
\* everything it depends on (orderPlatformComponents()).
OrderCorrect ==
    result = "ordered" =>
        /\ {sorted[i] : i \in 1 .. Len(sorted)} = Ids
        /\ \A i, j \in 1 .. Len(sorted) : sorted[i] = sorted[j] => i = j
        /\ \A i \in 1 .. Len(sorted) : \A d \in DependencySet(sorted[i]) :
              \E j \in 1 .. Len(sorted) : j < i /\ sorted[j] = d

\* A cycle is reported only when there is one: some components each depend on
\* another of them (orderPlatformComponents()).
CycleReal ==
    result = "cycle" =>
        \E S \in SUBSET Ids : S # {} /\ \A id \in S : DependencySet(id) \cap S # {}

\* The search never looks up a component that is not registered, so the
\* "missing from runtime registration" error cannot happen.
NeverMissing == Visiting \subseteq Ids

\* What orderPlatformComponents() answers is right for every list of
\* registrations: an order that respects the dependencies, or a real cycle.
OrderSound == SearchTypeOK /\ OrderCorrect /\ CycleReal /\ NeverMissing

\* The search ends for every graph, cyclic ones included.
Ends == <>(result \in {"invalid", "cycle", "ordered"})

(* The inductive invariant behind these properties. *)

Members(s) == {s[i] : i \in 1 .. Len(s)}

\* The search runs on checked graphs only.
CheckedOK ==
    /\ result \in {"running", "cycle", "ordered"} => IdsOK /\ DependenciesOK
    /\ result = "unchecked" => stack = <<>> /\ visited = {} /\ sorted = <<>> /\ root = 1

\* Frame k is at the dependency that the next frame visits; what its loop has
\* passed is finished.
FrameOK(frames, finished, k) ==
    LET deps == DependenciesOf(frames[k].id) IN
    /\ frames[k].at <= Len(deps) + 1
    /\ k < Len(frames) => /\ frames[k].at > 1
                          /\ deps[frames[k].at - 1] = frames[k + 1].id
    /\ \A m \in 1 .. Len(deps) :
         m < frames[k].at => \/ deps[m] \in finished
                             \/ k < Len(frames) /\ m = frames[k].at - 1

\* The stack is a path of unfinished components.
StackOK ==
    /\ Visiting \subseteq Ids /\ Visiting \cap visited = {}
    /\ \A i, j \in 1 .. Len(stack) : stack[i].id = stack[j].id => i = j
    /\ result = "running" => \A k \in 1 .. Len(stack) : FrameOK(stack, visited, k)

\* The finished components are those appended, each after its dependencies.
OrderedOK ==
    /\ Members(sorted) = visited /\ visited \subseteq Ids
    /\ \A i, j \in 1 .. Len(sorted) : sorted[i] = sorted[j] => i = j
    /\ \A i \in 1 .. Len(sorted) : \A d \in DependencySet(sorted[i]) :
          \E j \in 1 .. Len(sorted) : j < i /\ sorted[j] = d

\* The outer loop leaves nothing behind.
RootOK ==
    /\ result = "running" => \A i \in 1 .. Len(components) :
         i < root => components[i].id \in visited \cup Visiting
    /\ result = "ordered" => Ids \subseteq visited

OrderInv == SearchTypeOK /\ CheckedOK /\ StackOK /\ OrderedOK /\ RootOK /\ CycleReal
=============================================================================
