------------------------------ MODULE SagaBus ------------------------------
(***************************************************************************)
(* The CQRS event bus and its sagas.  A publication runs the event's       *)
(* handlers, then its sagas, then hands the event to the delegated event   *)
(* bus.  Executions of one saga token form a chain of promises; a          *)
(* publication that re-enters a token of its own context becomes a         *)
(* continuation, run by the execution that opened the context's scope once *)
(* its handle() has returned.  A shutdown drains publications, then        *)
(* dispatches, under one deadline.                                         *)
(*                                                                         *)
(* Publications and executions are numbered in the order of their start; 0 *)
(* is none.  A context is [routes, scope, root]: the routes active in it,  *)
(* the execution that drains its continuations, its drain token (the       *)
(* publication that created it).  The bus starts discovered and ready.     *)
(***************************************************************************)
EXTENDS Integers, Sequences, FiniteSets, SequencesExt

CONSTANTS
  Saga,         \* provider tokens of the discovered sagas
  Topic,        \* event classes
  RoutesOf,     \* RoutesOf[t]: the routes [token, type] an event of class t matches
  Publishes,    \* Publishes[s]: the classes saga s may publish with its context
  Reacts,       \* Reacts[t]: the classes that awaited @OnEvent subscribers of t publish
  Published,    \* classes that callers from outside publish
  Dispatched,   \* classes that they dispatch to the sagas directly
  MayHang,      \* sagas whose handle() may be stuck
  MaxNested,    \* MAX_NESTED_SAGA_DEPTH
  MaxCallers,   \* bound: publications and dispatches from outside
  MaxPubs       \* bound: publications and dispatches in all

Route == [token : Saga, type : Topic]

ASSUME SagaAssumption ==
  /\ RoutesOf \in [Topic -> Seq(Route)]
  /\ Published \subseteq Topic /\ Dispatched \subseteq Topic

VARIABLES
  pubs,         \* publications and dispatches, each a call of publish() or dispatch()
  runs,         \* executions of sagas, each a call of dispatchWithOrdering()
  chains,       \* executionChains: the last execution of each token
  eventState,   \* lifecycleState of the event bus: "ready", "stopping", "stopped"
  sagaState,    \* lifecycleState of the saga service
  kept,         \* which discovered graphs are kept: "events", "sagas"
  callers,      \* how many publications and dispatches came from outside
  hook,         \* shutdown hook that runs: "none", "events", "sagas", "over"
  late,         \* the shared deadline has passed
  timedOut      \* a drain was cut short by it

sagaVars == <<pubs, runs, chains, eventState, sagaState, kept, callers, hook, late, timedOut>>
stopVars == <<eventState, sagaState, hook, late, timedOut>>

NoContext == [routes |-> <<>>, scope |-> 0, root |-> 0]

SagaInit ==
  /\ pubs = <<>> /\ runs = <<>>
  /\ chains = [s \in Saga |-> 0]
  /\ eventState = "ready" /\ sagaState = "ready" /\ kept = {"events", "sagas"}
  /\ callers = 0 /\ hook = "none" /\ late = FALSE /\ timedOut = FALSE

-----------------------------------------------------------------------------
Settled(pub) == pub.pc \in {"ok", "failed"}
Ended(run) == run.pc \in {"done", "failed"}

\* The promise that the next execution of the token waits for has settled:
\* handle() is over, whatever is left to drain.
Handled(run) == run.pc \notin {"queued", "nested", "hung"}

\* handle() runs: its turn in the chain has come and nothing it published is
\* still awaited.
Running(r) ==
  \/ runs[r].pc = "queued" /\ (runs[r].prev # 0 => Handled(runs[runs[r].prev]))
  \/ runs[r].pc = "nested" /\ Settled(pubs[runs[r].nested])

ActivePipelines(ps) == {p \in DOMAIN ps : ~ps[p].direct /\ ~Settled(ps[p])}

\* A mutated form: the saga service tracks what has reached its sagas only.
TracksSagasOnly(ps) == {p \in DOMAIN ps : ps[p].pc = "after"}

PendingDispatches(ps) == {p \in DOMAIN ps : ps[p].pc \in {"enter", "sagas", "after"}}

(***************************************************************************)
(* Promise continuations that are ready run before the next event of the   *)
(* outside: a call, a handler or a subscriber that returns, a timer.       *)
(***************************************************************************)
Outcomes(p) == {runs[pubs[p].tasks[i].run].pc : i \in DOMAIN pubs[p].tasks}

PubReady(p) ==
  pubs[p].pc = "sagas" /\ ("failed" \in Outcomes(p) \/ Outcomes(p) \subseteq {"done"})

\* A task may join its chain when the earlier ones of its token are over.
TaskReady(tasks, i) ==
  /\ tasks[i].run = 0
  /\ \A j \in 1 .. i - 1 : tasks[j].route.token = tasks[i].route.token =>
        tasks[j].run # 0 /\ Ended(runs[tasks[j].run])

TasksOver(tasks) == \A i \in DOMAIN tasks : tasks[i].run # 0 /\ Ended(runs[tasks[i].run])

RunReady(r) ==
  LET tasks == pubs[runs[r].queue[1]].tasks
  IN  \/ runs[r].pc = "drain"
      \/ /\ runs[r].pc = "tasks"
         /\ TasksOver(tasks) \/ \E i \in DOMAIN tasks : TaskReady(tasks, i)

PromisesIdle == (\A p \in DOMAIN pubs : ~PubReady(p)) /\ (\A r \in DOMAIN runs : ~RunReady(r))

\* A drain token is active while a publication that carries it is.
TokenActive(root) == \E p \in ActivePipelines(pubs) : pubs[p].ctx.root = root

\* What a stopped service may forget: nothing it admitted is under way.
Forgettable(ps, es, ss) ==
  {g \in {"events", "sagas"} :
     /\ ActivePipelines(ps) = {}
     /\ g = "events" => es = "stopped"
     /\ g = "sagas" => ss = "stopped" /\ PendingDispatches(ps) = {}}

\* clearStoppedSagaGraphIfQuiescent() clears the chains too.
Cleared(ch, gone) == IF "sagas" \in gone THEN [s \in Saga |-> 0] ELSE ch

\* The end of a publication clears the graphs it was the last to need.
Forget(ps, ch) ==
  LET gone == Forgettable(ps, eventState, sagaState)
  IN  kept' = kept \ gone /\ chains' = Cleared(ch, gone)

SettlePub(p, outcome) ==
  LET ps == [pubs EXCEPT ![p].pc = outcome]
  IN  pubs' = ps /\ Forget(ps, chains)

\* The entry of the chain goes only if no later execution has replaced it.
\* A mutated form: it goes in any case.
UnlinksAlways(r) == [chains EXCEPT ![runs[r].route.token] = 0]

Unlinked(r) ==
  LET s == runs[r].route.token
  IN  IF chains[s] = r THEN [chains EXCEPT ![s] = 0] ELSE chains

EndRun(r, outcome) ==
  /\ runs' = [runs EXCEPT ![r].pc = outcome, ![r].queue = <<>>]
  /\ chains' = Unlinked(r)

-----------------------------------------------------------------------------
(***************************************************************************)
(* publish() and dispatch().  Work from outside is refused once shutdown   *)
(* has started; a publication that carries an active drain token is        *)
(* admitted until the event bus has stopped.                               *)
(***************************************************************************)
Pub(t, ctx, direct) ==
  [topic |-> t, direct |-> direct, ctx |-> ctx, tasks |-> <<>>, reaction |-> 0,
   delegated |-> FALSE, pc |-> IF direct THEN "enter" ELSE "handlers"]

NextPub == Len(pubs) + 1

\* createPublishContext(): a context without a drain token gets a new one.
PublishContext(ctx) == IF ctx.root = 0 THEN [ctx EXCEPT !.root = NextPub] ELSE ctx

AcceptsContext(ctx) ==
  eventState = "ready" \/ (eventState = "stopping" /\ ctx.root # 0 /\ TokenActive(ctx.root))

AdmitContext(ctx) ==
  /\ PromisesIdle /\ Len(pubs) < MaxPubs /\ AcceptsContext(ctx)
  /\ UNCHANGED <<chains, kept>> /\ UNCHANGED stopVars

PublishFromOutside(t) ==
  /\ callers < MaxCallers /\ AdmitContext(NoContext)
  /\ pubs' = Append(pubs, Pub(t, PublishContext(NoContext), FALSE))
  /\ callers' = callers + 1 /\ UNCHANGED runs

DispatchFromOutside(t) ==
  /\ callers < MaxCallers /\ PromisesIdle /\ Len(pubs) < MaxPubs /\ sagaState = "ready"
  /\ pubs' = Append(pubs, Pub(t, NoContext, TRUE))
  /\ callers' = callers + 1
  /\ UNCHANGED <<runs, chains, kept>> /\ UNCHANGED stopVars

\* handle() publishes once at most, with its context, and awaits it.
PublishFromSaga(r, t) ==
  /\ Running(r) /\ runs[r].pc = "queued" /\ t \in Publishes[runs[r].route.token]
  /\ AdmitContext(runs[r].ctx)
  /\ pubs' = Append(pubs, Pub(t, PublishContext(runs[r].ctx), FALSE))
  /\ runs' = [runs EXCEPT ![r].pc = "nested", ![r].nested = NextPub]
  /\ UNCHANGED callers

\* An awaited subscriber of the delegated event bus publishes in its turn; it
\* has no context to pass on.
Delegating(p) ==
  \/ pubs[p].pc = "after"
  \/ \E r \in DOMAIN runs : runs[r].pc = "delegate" /\ runs[r].queue[1] = p

PublishFromSubscriber(p, t) ==
  /\ Delegating(p) /\ pubs[p].reaction = 0 /\ t \in Reacts[pubs[p].topic]
  /\ AdmitContext(NoContext)
  /\ pubs' = Append([pubs EXCEPT ![p].reaction = NextPub],
                    Pub(t, PublishContext(NoContext), FALSE))
  /\ UNCHANGED <<runs, callers>>

-----------------------------------------------------------------------------
(***************************************************************************)
(* The handlers of the event are over: if one failed, so has the           *)
(* publication, else it comes to runDispatch().  All routes are entered    *)
(* before anything is scheduled.  If one of them belongs to a token of the *)
(* context, the re-entrant ones join their chains now, the rest is left to *)
(* the continuation, and the publication resolves.                         *)
(***************************************************************************)
UnsafeCycle(ctx, routes) ==
  \/ \E i \in DOMAIN routes : routes[i] \in ToSet(ctx.routes)
  \/ routes # <<>> /\ Len(ctx.routes) >= MaxNested

\* A mutated form: a token is taken for re-entered by the same route only.
ReentersRouteOnly(ctx, route) == route \in ToSet(ctx.routes)

Reentrant(ctx, route) == \E i \in DOMAIN ctx.routes : ctx.routes[i].token = route.token

\* The tasks in `chosen', in the order of their routes.
InOrder(chosen) ==
  {q \in [1 .. Cardinality(chosen) -> chosen] :
     ToSet(q) = chosen /\ \A j, k \in DOMAIN q : j < k => q[j] < q[k]}

\* The last execution of token s once the first k tasks of q have been scheduled.
LastOf(tasks, q, s, k) ==
  LET joined == {j \in 1 .. k : tasks[q[j]].route.token = s}
  IN  IF joined = {} THEN chains[s] ELSE Len(runs) + Max(joined)

\* dispatchWithOrdering() for task q[k] of publication p: behind the last
\* execution of its token, in a context that has the route added.
Execution(p, tasks, q, k) ==
  LET route == tasks[q[k]].route
      ctx == pubs[p].ctx
  IN  [event |-> p, route |-> route, prev |-> LastOf(tasks, q, route.token, k - 1),
       ctx |-> [routes |-> Append(ctx.routes, route), root |-> ctx.root,
                scope |-> IF ctx.scope = 0 THEN Len(runs) + k ELSE ctx.scope],
       owns |-> ctx.scope = 0, nested |-> 0, queue |-> <<>>, pc |-> "queued"]

\* The tasks q of publication p are scheduled, one after the other.
Scheduled(p, tasks, q) == runs \o [k \in DOMAIN q |-> Execution(p, tasks, q, k)]
Chained(tasks, q) == [s \in Saga |-> LastOf(tasks, q, s, Len(q))]
Numbered(tasks, q) ==
  [i \in DOMAIN tasks |->
     IF i \in ToSet(q)
     THEN [tasks[i] EXCEPT !.run = Len(runs) + (CHOOSE k \in DOMAIN q : q[k] = i)]
     ELSE tasks[i]]

EnterSagas(p) ==
  LET ctx == pubs[p].ctx
      routes == RoutesOf[pubs[p].topic]
      tasks == [i \in DOMAIN routes |-> [route |-> routes[i], run |-> 0]]
      again == {i \in DOMAIN routes : Reentrant(ctx, routes[i])}
      ps(q, pc) == [pubs EXCEPT ![p].tasks = Numbered(tasks, q), ![p].pc = pc]
  IN  /\ pubs[p].pc \in {"handlers", "enter"} /\ PromisesIdle
      /\ \/ /\ pubs[p].pc = "handlers" \/ UnsafeCycle(ctx, routes)
            /\ SettlePub(p, "failed") /\ UNCHANGED runs
         \/ /\ ~UnsafeCycle(ctx, routes) /\ again = {}
            /\ \E q \in InOrder(DOMAIN routes) :
                 /\ pubs' = ps(q, "sagas") /\ runs' = Scheduled(p, tasks, q)
                 /\ chains' = Chained(tasks, q) /\ UNCHANGED kept
         \/ /\ ~UnsafeCycle(ctx, routes) /\ again # {}
            /\ \E q \in InOrder(again) :
                 /\ pubs' = ps(q, "ok") /\ Forget(ps(q, "ok"), Chained(tasks, q))
                 /\ runs' = [Scheduled(p, tasks, q) EXCEPT ![ctx.scope].queue = Append(@, p)]
      /\ UNCHANGED callers /\ UNCHANGED stopVars

\* Promise.all(): over at the first failure, whatever still runs.
SagasEnd(p) ==
  /\ pubs[p].pc = "sagas" /\ PubReady(p)
  /\ \/ "failed" \in Outcomes(p) /\ SettlePub(p, "failed")
     \/ "failed" \notin Outcomes(p) /\ pubs[p].direct /\ SettlePub(p, "ok")
     \/ /\ "failed" \notin Outcomes(p) /\ ~pubs[p].direct
        /\ pubs' = [pubs EXCEPT ![p].pc = "after"] /\ UNCHANGED <<chains, kept>>
  /\ UNCHANGED <<runs, callers>> /\ UNCHANGED stopVars

\* The delegated event bus reports failures as outcomes: it does not reject.
Reacted(p) == pubs[p].reaction # 0 => Settled(pubs[pubs[p].reaction])

Delegate(p) ==
  LET ps == [pubs EXCEPT ![p].delegated = TRUE, ![p].pc = "ok"]
  IN  /\ pubs[p].pc = "after" /\ Reacted(p) /\ PromisesIdle
      /\ pubs' = ps /\ Forget(ps, chains)
      /\ UNCHANGED <<runs, callers>> /\ UNCHANGED stopVars

-----------------------------------------------------------------------------
(***************************************************************************)
(* An execution: invokeSaga() once its predecessor has been handled; the   *)
(* one that owns its scope then drains the continuations.                  *)
(***************************************************************************)
\* A mutated form: the continuations are left behind.
LeavesQueue(r) == "done"

AfterHandle(r) == IF runs[r].owns THEN "drain" ELSE "done"

\* handle() returns or throws; it may have caught the failure of what it
\* published.
HandleEnds(r) ==
  /\ Running(r) /\ PromisesIdle
  /\ \/ EndRun(r, "failed")
     \/ AfterHandle(r) = "done" /\ EndRun(r, "done")
     \/ /\ AfterHandle(r) = "drain"
        /\ runs' = [runs EXCEPT ![r].pc = "drain"] /\ UNCHANGED chains
  /\ UNCHANGED <<pubs, kept, callers>> /\ UNCHANGED stopVars

\* handle() is stuck for good.
HandleHangs(r) ==
  /\ Running(r) /\ runs[r].route.token \in MayHang /\ PromisesIdle
  /\ runs' = [runs EXCEPT ![r].pc = "hung"]
  /\ UNCHANGED <<pubs, chains, kept, callers>> /\ UNCHANGED stopVars

\* drainSagaContinuations(): the continuation at the head is under way, or
\* the queue is empty and the execution ends.
TakeContinuation(r) ==
  /\ runs[r].pc = "drain"
  /\ \/ runs[r].queue = <<>> /\ EndRun(r, "done")
     \/ /\ runs[r].queue # <<>>
        /\ runs' = [runs EXCEPT ![r].pc = "tasks"] /\ UNCHANGED chains
  /\ UNCHANGED <<pubs, kept, callers>> /\ UNCHANGED stopVars

\* runSerializedSagaContinuationTasks(): a task that has not joined its chain
\* does so when the earlier ones of its token are over.
StartTask(r) ==
  LET p == runs[r].queue[1]
      tasks == pubs[p].tasks
  IN  /\ runs[r].pc = "tasks"
      /\ \E i \in DOMAIN tasks :
           /\ TaskReady(tasks, i)
           /\ runs' = Scheduled(p, tasks, <<i>>) /\ chains' = Chained(tasks, <<i>>)
           /\ pubs' = [pubs EXCEPT ![p].tasks = Numbered(tasks, <<i>>)]
      /\ UNCHANGED <<kept, callers>> /\ UNCHANGED stopVars

\* All tasks are over; the failure of one is the failure of the execution,
\* and what is left in the queue is dropped.
TasksEnd(r) ==
  LET tasks == pubs[runs[r].queue[1]].tasks
  IN  /\ runs[r].pc = "tasks"
      /\ TasksOver(tasks)
      /\ \/ /\ \E i \in DOMAIN tasks : runs[tasks[i].run].pc = "failed"
            /\ EndRun(r, "failed")
         \/ /\ \A i \in DOMAIN tasks : runs[tasks[i].run].pc = "done"
            /\ runs' = [runs EXCEPT ![r].pc = "delegate"] /\ UNCHANGED chains
      /\ UNCHANGED <<pubs, kept, callers>> /\ UNCHANGED stopVars

DelegateContinuation(r) ==
  /\ runs[r].pc = "delegate" /\ Reacted(runs[r].queue[1]) /\ PromisesIdle
  /\ pubs' = [pubs EXCEPT ![runs[r].queue[1]].delegated = TRUE]
  /\ runs' = [runs EXCEPT ![r].pc = "drain", ![r].queue = Tail(@)]
  /\ UNCHANGED <<chains, kept, callers>> /\ UNCHANGED stopVars

-----------------------------------------------------------------------------
(***************************************************************************)
(* Shutdown.  The runtime cleanup callbacks stop the admission and start   *)
(* the shared deadline; then the hook of the event bus runs, then the one  *)
(* of the saga service (reverse provider order).                           *)
(***************************************************************************)
BeginShutdown ==
  /\ hook = "none" /\ PromisesIdle /\ hook' = "events"
  /\ eventState' = "stopping" /\ sagaState' = "stopping"
  /\ UNCHANGED <<pubs, runs, chains, kept, callers, late, timedOut>>

DeadlinePasses ==
  /\ hook \in {"events", "sagas"} /\ ~late /\ PromisesIdle
  /\ late' = TRUE
  /\ UNCHANGED <<pubs, runs, chains, kept, callers, eventState, sagaState, hook, timedOut>>

DrainOver(work) == work = {} \/ late

StopEvents ==
  /\ hook = "events" /\ DrainOver(ActivePipelines(pubs)) /\ PromisesIdle
  /\ hook' = "sagas" /\ eventState' = "stopped"
  /\ kept' = kept \ Forgettable(pubs, "stopped", sagaState)
  /\ timedOut' = (ActivePipelines(pubs) # {})
  /\ UNCHANGED <<pubs, runs, chains, callers, sagaState, late>>

StopSagas ==
  /\ hook = "sagas" /\ DrainOver(PendingDispatches(pubs)) /\ PromisesIdle
  /\ hook' = "over" /\ sagaState' = "stopped"
  /\ LET gone == Forgettable(pubs, eventState, "stopped")
     IN  kept' = kept \ gone /\ chains' = Cleared(chains, gone)
  /\ timedOut' = (timedOut \/ PendingDispatches(pubs) # {})
  /\ UNCHANGED <<pubs, runs, callers, eventState, late>>

-----------------------------------------------------------------------------
SagaProgress ==
  \/ \E p \in DOMAIN pubs : EnterSagas(p) \/ SagasEnd(p) \/ Delegate(p)
  \/ \E r \in DOMAIN runs :
       \/ HandleEnds(r) \/ TakeContinuation(r) \/ StartTask(r) \/ TasksEnd(r)
       \/ DelegateContinuation(r)
  \/ DeadlinePasses \/ StopEvents \/ StopSagas

SagaNext ==
  \/ \E t \in Published : PublishFromOutside(t)
  \/ \E t \in Dispatched : DispatchFromOutside(t)
  \/ \E r \in DOMAIN runs, t \in Topic : PublishFromSaga(r, t)
  \/ \E p \in DOMAIN pubs, t \in Topic : PublishFromSubscriber(p, t)
  \/ \E r \in DOMAIN runs : HandleHangs(r)
  \/ SagaProgress
  \/ BeginShutdown

\* Promises settle, handlers return unless they are stuck, timers fire; nobody
\* has to publish or to shut down.
SagaFairness == WF_sagaVars(SagaProgress)

SagaSpec == SagaInit /\ [][SagaNext]_sagaVars /\ SagaFairness
-----------------------------------------------------------------------------
Context == [routes : Seq(Route), scope : Nat, root : Nat]
PubPc == {"handlers", "enter", "sagas", "after", "ok", "failed"}
RunPc == {"queued", "nested", "hung", "drain", "tasks", "delegate", "done", "failed"}

PubSet ==
  [topic : Topic, direct : BOOLEAN, ctx : Context, tasks : Seq([route : Route, run : Nat]),
   reaction : Nat, delegated : BOOLEAN, pc : PubPc]

RunSet ==
  [event : Nat, route : Route, prev : Nat, ctx : Context, owns : BOOLEAN, nested : Nat,
   queue : Seq(Nat), pc : RunPc]

\* What publications and executions refer to exists; an execution waits for an
\* earlier one only.
LinksOK ==
  /\ \A p \in DOMAIN pubs :
       /\ pubs[p].reaction \in 0 .. Len(pubs)
       /\ \A i \in DOMAIN pubs[p].tasks : pubs[p].tasks[i].run \in 0 .. Len(runs)
  /\ \A r \in DOMAIN runs :
       /\ runs[r].event \in DOMAIN pubs /\ runs[r].prev \in 0 .. r - 1
       /\ runs[r].nested \in 0 .. Len(pubs)
       /\ \A i \in DOMAIN runs[r].queue : runs[r].queue[i] \in DOMAIN pubs
  /\ \A s \in Saga : chains[s] \in 0 .. Len(runs)

SagaTypeOK ==
  /\ pubs \in Seq(PubSet) /\ runs \in Seq(RunSet) /\ chains \in [Saga -> Nat]
  /\ LinksOK
  /\ {eventState, sagaState} \subseteq {"ready", "stopping", "stopped"}
  /\ kept \subseteq {"events", "sagas"} /\ callers \in Nat
  /\ hook \in {"none", "events", "sagas", "over"}
  /\ late \in BOOLEAN /\ timedOut \in BOOLEAN

\* Executions of one saga token are handled one at a time and in the order in
\* which they were enqueued, be they of a publication, a continuation or a
\* subscriber's publication (dispatchWithOrdering(), executionChains). A stopped
\* saga service that is quiet forgets the order with the handler graph.
HandledInOrder ==
  "sagas" \in kept => \A a, b \in DOMAIN runs :
    /\ a < b /\ runs[a].route.token = runs[b].route.token
    /\ runs[b].pc # "queued" \/ Running(b)
    => Handled(runs[a])

\* What descends from a publication through contexts.
TreePubs(root) == {p \in DOMAIN pubs : pubs[p].ctx.root = root}
TreeRuns(root) == {r \in DOMAIN runs : runs[r].ctx.root = root}

\* When a publication that opened a context resolves and no saga beneath it has
\* failed, everything published with that context has been handled and handed
\* to the delegated event bus, continuations included, although the nested
\* publish() calls returned before (runDispatch(), drainSagaContinuations()).
OuterWaits ==
  \A p \in DOMAIN pubs :
    /\ pubs[p].ctx.root = p /\ pubs[p].ctx.scope = 0 /\ pubs[p].pc = "ok"
    /\ \A q \in TreePubs(p) : pubs[q].pc # "failed"
    /\ \A r \in TreeRuns(p) : runs[r].pc # "failed"
    => /\ \A q \in TreePubs(p) : pubs[q].delegated
       /\ \A r \in TreeRuns(p) : runs[r].pc = "done"

NoneFailed == /\ \A p \in DOMAIN pubs : pubs[p].pc # "failed"
              /\ \A r \in DOMAIN runs : runs[r].pc # "failed"

\* A shutdown whose drains were not cut short leaves no saga execution behind,
\* provided that none failed (onApplicationShutdown() of both services).
QuietSagas ==
  hook = "over" /\ ~timedOut /\ NoneFailed => \A r \in DOMAIN runs : Ended(runs[r])

\* A stopped service keeps its discovered graph exactly as long as something it
\* admitted is under way: nothing is cleared beneath a late dispatch, nothing
\* is kept for good (clearStoppedSagaGraphIfQuiescent()).
GraphReleased == kept = {"events", "sagas"} \ Forgettable(pubs, eventState, sagaState)

\* After the shutdown nothing is left: no handler that both hooks should have
\* waited for, and no execution that keeps the handler graph alive.
SagaShutdownQuiet == SagaTypeOK /\ QuietSagas /\ GraphReleased

\* Every publication settles unless a handler is stuck: a saga never waits for
\* itself, along continuations and awaited subscribers (runDispatch()).
PublicationsSettle ==
  []<>(\/ \A p \in DOMAIN pubs : Settled(pubs[p])
       \/ \E r \in DOMAIN runs : runs[r].pc = "hung")

\* A shutdown that has begun ends, also with a handler that is stuck.
SagasStop == (hook # "none") ~> (hook = "over")
=============================================================================
