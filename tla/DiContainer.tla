------------------------------ MODULE DiContainer ------------------------------
(***************************************************************************)
(* The dependency injection container of @fluojs/di                        *)
(* (packages/di/src/container.ts): one root container whose resolve()      *)
(* calls run concurrently, share cached promises, detect cycles between    *)
(* pending resolutions, and race with override() and dispose().            *)
(*                                                                         *)
(* JavaScript runs one synchronous segment at a time.  A resolve() call is *)
(* a member of Call; while it is "visiting" it holds the thread (Quiet is  *)
(* false) and nothing else moves, so a descent through first dependencies  *)
(* is one segment although it is several actions.  In every other state it *)
(* is suspended at an await.  Its chain of tokens under construction is a  *)
(* stack of frames, innermost first.  A cached promise is an element of    *)
(* Promise: pending while its provider is constructed, then ok (and it     *)
(* names the instance) or the reason of its rejection.  Every provider     *)
(* constructs an instance of its own, and every instance has an            *)
(* onDestroy() hook.                                                       *)
(***************************************************************************)
EXTENDS Naturals, Sequences, FiniteSets

CONSTANTS
    Token,        \* injection tokens
    Call,         \* resolve() calls, each made at most once
    Transient,    \* tokens whose provider has scope 'transient'
    Alias,        \* tokens registered with useExisting
    OptionalDep,  \* tokens that every consumer injects through Optional
    Missing,      \* registry value of a token without a provider
    Registries,   \* registrations the container may start from
    Replacements, \* inject lists register() and override() may install
    MaxPromise,   \* bound: promises ever created
    MaxOverride,  \* bound: override() calls
    MaxDispose    \* bound: dispose() attempts

ASSUME ConstantsAssumption ==
    /\ Transient \subseteq Token /\ Alias \subseteq Token
    /\ Transient \cap Alias = {}
    /\ OptionalDep \subseteq Token
    /\ Missing \notin Seq(Token)
    /\ Replacements \subseteq Seq(Token)
    /\ Registries \subseteq [Token -> Seq(Token) \cup {Missing}]
    /\ MaxPromise \in Nat /\ MaxOverride \in Nat /\ MaxDispose \in Nat

Promise == 1 .. MaxPromise
None == 0

VARIABLES
    registry,     \* registrations: the inject list of each token's provider
    cache,        \* singletonCache: token -> promise
    status,       \* promise -> free, pending, ok or the rejection reason
    owner,        \* pendingResolutionOwners: promise -> the creating call
    tokenOf,      \* promise -> its token
    uses,         \* promise -> the cached instances injected into it
    settledAt,    \* promise -> its place in materializedCachePromises
    clock,        \* number of materializations so far
    materialized, \* materializedCachePromises, ordered by settledAt
    pc,           \* resolve() call -> where its async function is suspended
    goal,         \* resolve() call -> the requested token
    stack,        \* resolve() call -> chain/activeTokens, innermost first
    awaits,       \* resolve() call -> the cached promise it awaits
    error,        \* resolve() call -> why it is failing
    waited,       \* resolve() call -> stale tasks it has waited for
    blame,        \* resolve() call -> stale failures delivered to it
    stale,        \* staleDisposalTasks: promise -> task state
    consumed,     \* tasks with errorConsumed
    overrides,    \* number of override() calls so far
    disposed,     \* this.disposed
    phase,        \* phase of the current dispose() attempt
    attempts,     \* number of dispose() attempts so far
    entries,      \* disposalCacheEntries() snapshot of the attempt
    drained,      \* stale tasks the attempt waits for
    retry,        \* retained stale tasks the attempt still has to retry
    queue,        \* disposables whose hook has not run in this attempt
    pending,      \* pendingDisposables: disposables whose hook failed
    faults,       \* TRUE when the attempt has collected an error
    destroyed,    \* promise -> number of onDestroy() calls that completed
    late,         \* promises created after dispose() had begun
    evicted       \* promises evicted by another one before dispose()

promiseVars == <<status, owner, tokenOf, uses, settledAt, clock, materialized>>
callVars    == <<pc, goal, stack, awaits, error, waited, blame>>
staleVars   == <<stale, consumed>>
disposeVars == <<disposed, phase, attempts, entries, drained, retry, queue,
                 pending, faults>>
vars == <<registry, cache, promiseVars, callVars, staleVars, overrides,
          disposeVars, destroyed, late, evicted>>

Failed == {"circular", "missing", "thrown"}
Frame == [tok : Token, id : Promise \cup {None}, rest : Seq(Token),
          uses : SUBSET Promise]

\* No call is inside a synchronous segment: another one may start.
Quiet == \A c \in Call : pc[c] # "visiting"

\* The tokens in the chain of call c (activeTokens).
ActiveTokens(c) == {stack[c][i].tok : i \in DOMAIN stack[c]}

-----------------------------------------------------------------------------
(* Pending resolutions: who waits for whom                                 *)

\* Call c has linked itself to the creator d of a pending promise.  A call
\* with an empty chain creates no link: nothing can wait for it.  The waiter's
\* release runs in the first microtask after the promise settles, before the
\* creator can continue, so a link lasts exactly as long as the promise is
\* pending.
Linked(c, d) ==
    /\ pc[c] = "awaiting" /\ stack[c] # <<>>
    /\ status[awaits[c]] = "pending"
    /\ owner[awaits[c]] = d

\* findPendingResolutionPath(): target belongs to every set of calls that
\* holds start and is closed under links, so it is reachable from start.
PendingPath(start, target) ==
    \A S \in SUBSET Call :
        (start \in S /\ \A c \in S, d \in Call : Linked(c, d) => d \in S)
            => target \in S

\* Mutated forms: links are never searched; only the creator itself is
\* compared; any creator that waits counts as a cycle.
NeverClosesCycle(c, p) == FALSE
OnlySelfCloses(c, p) == stack[c] # <<>> /\ owner[p] = c
AnyWaiterCloses(c, p) == stack[c] # <<>> /\ pc[owner[p]] = "awaiting"

\* linkPendingResolution() throws when the promise's creator already waits,
\* directly or not, for this call.
ClosesCycle(c, p) == stack[c] # <<>> /\ PendingPath(owner[p], c)

-----------------------------------------------------------------------------
(* The provider graph                                                      *)

DepsOf(t) == IF registry[t] = Missing THEN {}
             ELSE {registry[t][i] : i \in DOMAIN registry[t]}

\* providerDependsOnToken(): a path of dependencies leads from u to t.
Reaches(u, t) ==
    \A S \in SUBSET Token :
        (DepsOf(u) \subseteq S /\ \A v \in S : DepsOf(v) \subseteq S)
            => t \in S

\* A mutated form: only the overridden token itself is invalidated.
OnlyTheToken(u, t) == u = t

\* shouldInvalidateCachedToken()
ShouldInvalidate(u, t) == u = t \/ Reaches(u, t)

-----------------------------------------------------------------------------
(* Stale disposal tasks                                                    *)

\* staleDisposalTasks: scheduled and not yet released.
Ledger == {p \in Promise : stale[p] \in {"pending", "failed", "rejected"}}

Settled(w) == \A p \in w : stale[p] # "pending"

\* A mutated form: a failure is delivered whether or not it was consumed.
EveryFailure(w) == {p \in w : stale[p] \in {"failed", "rejected"}}

\* Failures that assertStaleDisposalsSettled() delivers for the tasks in w.
Undelivered(w) ==
    {p \in w : stale[p] \in {"failed", "rejected"} /\ p \notin consumed}

\* A rejected materialization has no hook to retry: it leaves the ledger.
Release(w) ==
    [p \in Promise |->
        IF p \in w /\ stale[p] = "rejected" THEN "released" ELSE stale[p]]

\* retainedStaleDisposalTasks()
Retained == {p \in Ledger : stale[p] = "failed" /\ p \in consumed}

-----------------------------------------------------------------------------
Init ==
    /\ registry \in Registries
    /\ cache = [t \in Token |-> None]
    /\ status = [p \in Promise |-> "free"]
    /\ owner = [p \in Promise |-> None]
    /\ tokenOf = [p \in Promise |-> None]
    /\ uses = [p \in Promise |-> {}]
    /\ settledAt = [p \in Promise |-> 0] /\ clock = 0
    /\ materialized = {}
    /\ pc = [c \in Call |-> "idle"]
    /\ goal = [c \in Call |-> None]
    /\ stack = [c \in Call |-> <<>>]
    /\ awaits = [c \in Call |-> None]
    /\ error = [c \in Call |-> "none"]
    /\ waited = [c \in Call |-> {}] /\ blame = [c \in Call |-> {}]
    /\ stale = [p \in Promise |-> "no"] /\ consumed = {}
    /\ overrides = 0
    /\ disposed = FALSE /\ phase = "open" /\ attempts = 0
    /\ entries = {} /\ drained = {} /\ retry = {} /\ queue = {}
    /\ pending = {} /\ faults = FALSE
    /\ destroyed = [p \in Promise |-> 0] /\ late = {} /\ evicted = {}

-----------------------------------------------------------------------------
(* resolve(): admission and stale disposal barrier                         *)

\* resolve() checks disposed once, then awaits assertStaleDisposalsSettled().
Resolve(c, t) ==
    /\ Quiet /\ pc[c] = "idle"
    /\ goal' = [goal EXCEPT ![c] = t]
    /\ \/ /\ disposed
          /\ pc' = [pc EXCEPT ![c] = "rejected"]
          /\ error' = [error EXCEPT ![c] = "disposed"]
          /\ UNCHANGED waited
       \/ /\ ~disposed
          /\ waited' = [waited EXCEPT ![c] = Ledger]
          /\ pc' = [pc EXCEPT ![c] = IF Ledger = {} THEN "entering"
                                     ELSE "settling"]
          /\ UNCHANGED error
    /\ UNCHANGED <<registry, cache, promiseVars, stack, awaits, blame,
                   staleVars, overrides, disposeVars, destroyed, late, evicted>>

\* One iteration of the loop of assertStaleDisposalsSettled(): every awaited
\* task has settled, their undelivered failures become this caller's, and
\* tasks scheduled meanwhile are awaited in turn.
Settle(c) ==
    LET fresh == Ledger \ waited[c]
        faulty == blame[c] \cup Undelivered(waited[c])
    IN  /\ Quiet /\ pc[c] = "settling" /\ Settled(waited[c])
        /\ blame' = [blame EXCEPT ![c] = faulty]
        /\ consumed' = consumed \cup Undelivered(waited[c])
        /\ stale' = Release(waited[c])
        /\ waited' = [waited EXCEPT ![c] = @ \cup fresh]
        /\ pc' = [pc EXCEPT ![c] = IF fresh # {} THEN "settling"
                                   ELSE IF faulty = {} THEN "entering"
                                   ELSE "rejected"]
        /\ error' = [error EXCEPT ![c] = IF fresh = {} /\ faulty # {}
                                         THEN "stale" ELSE @]
        /\ UNCHANGED <<registry, cache, promiseVars, goal, stack, awaits,
                       overrides, disposeVars, destroyed, late, evicted>>

\* resolve() continues after the barrier: disposed is not checked again.
Enter(c) ==
    /\ Quiet /\ pc[c] = "entering"
    /\ pc' = [pc EXCEPT ![c] = "visiting"]
    /\ UNCHANGED <<registry, cache, promiseVars, goal, stack, awaits, error,
                   waited, blame, staleVars, overrides, disposeVars,
                   destroyed, late, evicted>>

-----------------------------------------------------------------------------
(* resolveWithChain(): one visit of a token                                *)

Target(c) == IF stack[c] = <<>> THEN goal[c] ELSE Head(Head(stack[c]).rest)

\* A value that holds the instances in u reaches the rest s of the chain: the
\* innermost provider goes on to its next dependency, or the call is done.
Handed(s, u) ==
    IF s = <<>> THEN <<>>
    ELSE <<[Head(s) EXCEPT !.rest = Tail(@), !.uses = @ \cup u]>> \o Tail(s)
AfterHanding(s) == IF s = <<>> THEN "done" ELSE "suspended"

\* The call throws: its chain, if any, has to be unwound.
Throw(c, why) ==
    /\ error' = [error EXCEPT ![c] = why]
    /\ pc' = [pc EXCEPT ![c] = IF stack[c] = <<>> THEN "rejected"
                               ELSE "failing"]

\* What a visit never touches.
VisitUnchanged ==
    UNCHANGED <<registry, goal, waited, blame, staleVars, overrides,
                disposeVars, destroyed>>

\* resolveForwardRefCircularDependency(): the token is already in the chain.
VisitActive(c) ==
    /\ pc[c] = "visiting" /\ Target(c) \in ActiveTokens(c)
    /\ Throw(c, "circular")
    /\ VisitUnchanged /\ UNCHANGED <<cache, promiseVars, stack, awaits, late, evicted>>

\* requireProvider() throws, except for an Optional dependency.
VisitMissing(c) ==
    /\ pc[c] = "visiting" /\ Target(c) \notin ActiveTokens(c)
    /\ registry[Target(c)] = Missing
    /\ \/ /\ stack[c] # <<>> /\ Target(c) \in OptionalDep
          /\ stack' = [stack EXCEPT ![c] = Handed(@, {})]
          /\ pc' = [pc EXCEPT ![c] = "suspended"]
          /\ UNCHANGED error
       \/ /\ stack[c] = <<>> \/ Target(c) \notin OptionalDep
          /\ Throw(c, "missing")
          /\ UNCHANGED stack
    /\ VisitUnchanged /\ UNCHANGED <<cache, promiseVars, awaits, late, evicted>>

Plain(t) == t \in Transient \cup Alias

\* requireProvider() finds a provider for a token that is not in the chain.
VisitProvider(c) ==
    /\ pc[c] = "visiting" /\ Target(c) \notin ActiveTokens(c)
    /\ registry[Target(c)] # Missing

\* getCachedScopedOrSingletonInstance() finds a promise: await it, unless the
\* wait would close a cycle of pending resolutions.
VisitCached(c) ==
    LET p == cache[Target(c)]
    IN  /\ VisitProvider(c) /\ ~Plain(Target(c)) /\ p # None
        /\ \/ /\ status[p] = "pending" /\ ClosesCycle(c, p)
              /\ Throw(c, "circular")
              /\ UNCHANGED awaits
           \/ /\ ~(status[p] = "pending" /\ ClosesCycle(c, p))
              /\ awaits' = [awaits EXCEPT ![c] = p]
              /\ pc' = [pc EXCEPT ![c] = "awaiting"]
              /\ UNCHANGED error
        /\ VisitUnchanged /\ UNCHANGED <<cache, promiseVars, stack, late, evicted>>

\* withTokenInChain(): the token enters the chain and its provider's inject
\* list is walked; without dependencies the call waits to construct.
Push(c, t, p) ==
    /\ stack' = [stack EXCEPT ![c] = <<[tok |-> t, id |-> p,
                     rest |-> registry[t], uses |-> {}]>> \o @]
    /\ pc' = [pc EXCEPT ![c] = IF registry[t] = <<>> THEN "suspended"
                               ELSE "visiting"]
    /\ UNCHANGED <<awaits, error>>

\* A mutated form: the promise is not published.
CacheSetNothing(t, p) == cache

\* cache.set(): the promise is published while it is still pending.
CacheSet(t, p) == [cache EXCEPT ![t] = p]

\* resolveScopedOrSingletonInstance(): a new promise is tracked and cached.
VisitNew(c) ==
    LET t == Target(c)
    IN  /\ VisitProvider(c) /\ ~Plain(t) /\ cache[t] = None
        /\ \E p \in Promise :
              /\ status[p] = "free" /\ \A q \in 1 .. (p - 1) : status[q] # "free"
              /\ status' = [status EXCEPT ![p] = "pending"]
              /\ owner' = [owner EXCEPT ![p] = c]
              /\ tokenOf' = [tokenOf EXCEPT ![p] = t]
              /\ cache' = CacheSet(t, p)
              /\ Push(c, t, p)
              /\ late' = IF disposed THEN late \cup {p} ELSE late
        /\ VisitUnchanged /\ UNCHANGED <<uses, settledAt, clock, materialized, evicted>>

\* A transient provider, or resolveAliasTarget(): nothing is cached.
VisitPlain(c) ==
    /\ VisitProvider(c) /\ Plain(Target(c))
    /\ Push(c, Target(c), None)
    /\ VisitUnchanged /\ UNCHANGED <<cache, promiseVars, late, evicted>>

-----------------------------------------------------------------------------
(* resolveProviderDeps() and instantiate(): after an await                 *)

\* The awaited cached promise has settled; releasePendingResolution() runs.
Wake(c) ==
    LET p == awaits[c]
    IN  /\ Quiet /\ pc[c] = "awaiting" /\ status[p] # "pending"
        /\ awaits' = [awaits EXCEPT ![c] = None]
        /\ \/ /\ status[p] = "ok"
              /\ stack' = [stack EXCEPT ![c] = Handed(@, {p})]
              /\ pc' = [pc EXCEPT ![c] = AfterHanding(stack[c])]
              /\ UNCHANGED error
           \/ /\ status[p] # "ok"
              /\ Throw(c, status[p])
              /\ UNCHANGED stack
        /\ VisitUnchanged /\ UNCHANGED <<cache, promiseVars, late, evicted>>

\* The loop of resolveProviderDeps() goes on to the next dependency.
Resume(c) ==
    /\ Quiet /\ pc[c] = "suspended" /\ Head(stack[c]).rest # <<>>
    /\ pc' = [pc EXCEPT ![c] = "visiting"]
    /\ VisitUnchanged
    /\ UNCHANGED <<cache, promiseVars, stack, awaits, error, late, evicted>>

\* Every dependency is there: the constructor or factory of the innermost
\* provider succeeds, and the promise (if any) settles and is recorded by
\* trackCacheMaterialization().
Construct(c) ==
    LET f == Head(stack[c])
        below == Tail(stack[c])
    IN  /\ Quiet /\ pc[c] = "suspended" /\ f.rest = <<>>
        /\ stack' = [stack EXCEPT ![c] =
                        Handed(below, IF f.id = None THEN f.uses ELSE {f.id})]
        /\ pc' = [pc EXCEPT ![c] = AfterHanding(below)]
        /\ \/ /\ f.id = None
              /\ UNCHANGED promiseVars
           \/ /\ f.id # None
              /\ status' = [status EXCEPT ![f.id] = "ok"]
              /\ uses' = [uses EXCEPT ![f.id] = f.uses]
              /\ clock' = clock + 1
              /\ settledAt' = [settledAt EXCEPT ![f.id] = clock + 1]
              /\ materialized' = materialized \cup {f.id}
              /\ UNCHANGED <<owner, tokenOf>>
        /\ VisitUnchanged /\ UNCHANGED <<cache, awaits, error, late, evicted>>

\* The constructor or factory throws; an alias constructs nothing.
ConstructFails(c) ==
    /\ Quiet /\ pc[c] = "suspended" /\ Head(stack[c]).rest = <<>>
    /\ Head(stack[c]).tok \notin Alias
    /\ Throw(c, "thrown")
    /\ VisitUnchanged /\ UNCHANGED <<cache, promiseVars, stack, awaits, late, evicted>>

\* cache.delete(provider.provide): whichever promise the entry holds.
Evict(f) == [cache EXCEPT ![f.tok] = None]

\* After an override() the entry may be the replacement's: nothing offers or
\* disposes of that promise any more.
Evicted(f) == {cache[f.tok]} \ {None, f.id}

\* The rejection leaves one frame: the cache entry of its token is deleted and
\* the frame's promise rejects.
Unwind(c) ==
    LET f == Head(stack[c])
    IN  /\ Quiet /\ pc[c] = "failing"
        /\ stack' = [stack EXCEPT ![c] = Tail(@)]
        /\ pc' = [pc EXCEPT ![c] = IF Tail(stack[c]) = <<>> THEN "rejected"
                                   ELSE "failing"]
        /\ \/ /\ f.id = None
              /\ UNCHANGED <<status, cache, evicted>>
           \/ /\ f.id # None
              /\ status' = [status EXCEPT ![f.id] = error[c]]
              /\ cache' = Evict(f)
              /\ evicted' = IF disposed THEN evicted ELSE evicted \cup Evicted(f)
        /\ UNCHANGED <<owner, tokenOf, uses, settledAt, clock, materialized>>
        /\ VisitUnchanged /\ UNCHANGED <<awaits, error, late>>

-----------------------------------------------------------------------------
(* register() and override()                                               *)

\* Inject lists a provider of token t may have: an alias has one target.
ProviderFor(t) == {d \in Replacements : t \in Alias => Len(d) = 1}

Register(t, d) ==
    /\ Quiet /\ ~disposed /\ registry[t] = Missing /\ d \in ProviderFor(t)
    /\ registry' = [registry EXCEPT ![t] = d]
    /\ UNCHANGED <<cache, promiseVars, callVars, staleVars, overrides,
                   disposeVars, destroyed, late, evicted>>

\* invalidateAffectedCachedEntries(): the tokens whose entry is stale.
Affected(t) == {u \in Token : cache[u] # None /\ ShouldInvalidate(u, t)}

\* override(): every cached entry that is, or depends on, the token is handed
\* to scheduleStaleDisposal() and leaves the cache; then the registration is
\* replaced.
Override(t, d) ==
    LET hit == Affected(t)
        gone == {cache[u] : u \in hit}
    IN  /\ Quiet /\ ~disposed /\ overrides < MaxOverride /\ d \in ProviderFor(t)
        /\ overrides' = overrides + 1
        /\ stale' = [p \in Promise |-> IF p \in gone THEN "pending" ELSE stale[p]]
        /\ cache' = [u \in Token |-> IF u \in hit THEN None ELSE cache[u]]
        /\ registry' = [registry EXCEPT ![t] = d]
        /\ UNCHANGED <<promiseVars, callVars, consumed, disposeVars, destroyed,
                       late, evicted>>

\* A mutated form: a rejected materialization never settles its task.
StaleRejectLost(p) == FALSE

\* The stale task's promise rejected: there is no hook to run.
StaleReject(p) ==
    /\ Quiet /\ stale[p] = "pending" /\ status[p] \in Failed
    /\ stale' = [stale EXCEPT ![p] = "rejected"]
    /\ UNCHANGED <<registry, cache, promiseVars, callVars, consumed, overrides,
                   disposeVars, destroyed, late, evicted>>

\* The stale task's instance materialized and its onDestroy() completes or
\* fails; either way it leaves materializedCachePromises.
StaleHook(p, ok) ==
    /\ Quiet /\ stale[p] = "pending" /\ status[p] = "ok"
    /\ stale' = [stale EXCEPT ![p] = IF ok THEN "clean" ELSE "failed"]
    /\ destroyed' = [destroyed EXCEPT ![p] = IF ok THEN @ + 1 ELSE @]
    /\ materialized' = materialized \ {p}
    /\ UNCHANGED <<registry, cache, status, owner, tokenOf, uses, settledAt,
                   clock, callVars, consumed, overrides, disposeVars, late, evicted>>

-----------------------------------------------------------------------------
(* dispose()                                                               *)

Active == {"draining", "retrying", "collecting", "hooks"}

\* What the steps of a disposal attempt never touch.
DisposeUnchanged == UNCHANGED <<registry, callVars, overrides, late, evicted>>

\* A mutated form: constructions still in flight are not snapshotted.
MaterializedEntries == {p \in {cache[t] : t \in Token} \ {None} : status[p] = "ok"}

\* disposalCacheEntries()
DisposalCacheEntries == {cache[t] : t \in Token} \ {None}

\* The synchronous part of an attempt: terminal from here on, the cache
\* entries and the retryable stale tasks are snapshotted.  Callers that
\* arrive during an attempt, or after a complete one, share its promise.
Dispose ==
    /\ Quiet /\ phase \in {"open", "failed", "retained"}
    /\ attempts < MaxDispose
    /\ attempts' = attempts + 1
    /\ disposed' = TRUE
    /\ entries' = DisposalCacheEntries
    /\ retry' = Retained
    /\ drained' = Ledger
    /\ phase' = "draining" /\ faults' = FALSE
    /\ DisposeUnchanged
    /\ UNCHANGED <<cache, promiseVars, staleVars, queue, pending, destroyed>>

\* assertStaleDisposalsSettled() of the attempt.  override() is refused by
\* now, so no task joins the ledger and one iteration is enough.
DisposeDrain ==
    /\ Quiet /\ phase = "draining" /\ Settled(drained)
    /\ faults' = (Undelivered(drained) # {})
    /\ consumed' = consumed \cup Undelivered(drained)
    /\ stale' = Release(drained)
    /\ phase' = IF retry = {} THEN "collecting" ELSE "retrying"
    /\ DisposeUnchanged
    /\ UNCHANGED <<cache, promiseVars, disposed, attempts, entries, drained,
                   retry, queue, pending, destroyed>>

\* retryFailedStaleDisposals(): one retained hook runs again.
DisposeRetry(p, ok) ==
    /\ Quiet /\ phase = "retrying" /\ p \in retry
    /\ retry' = retry \ {p}
    /\ stale' = [stale EXCEPT ![p] = IF ok THEN "clean" ELSE @]
    /\ destroyed' = [destroyed EXCEPT ![p] = IF ok THEN @ + 1 ELSE @]
    /\ faults' = (faults \/ ~ok)
    /\ phase' = IF retry = {p} THEN "collecting" ELSE "retrying"
    /\ DisposeUnchanged
    /\ UNCHANGED <<cache, promiseVars, consumed, disposed, attempts, entries,
                   drained, queue, pending>>

\* Hooks that failed in an earlier attempt go first and alone.
DisposalCandidates == IF pending # {} THEN pending ELSE materialized \cap entries

\* collectDisposableInstances() waits until every snapshotted promise settles.
DisposeCollect ==
    /\ Quiet /\ phase = "collecting"
    /\ \A p \in entries : status[p] # "pending"
    /\ faults' = (faults \/ \E p \in entries : status[p] # "ok")
    /\ queue' = DisposalCandidates /\ pending' = {}
    /\ phase' = "hooks"
    /\ DisposeUnchanged
    /\ UNCHANGED <<cache, promiseVars, staleVars, disposed, attempts, entries,
                   drained, retry, destroyed>>

\* A mutated form: hooks run in creation order.
FirstCreated(p) == p \in queue /\ \A q \in queue : settledAt[p] <= settledAt[q]

LastCreated(p) == p \in queue /\ \A q \in queue : settledAt[q] <= settledAt[p]

\* A mutated form: a completed hook is retained with the failed ones.
RetainEvery(p, ok) == pending \cup {p}

\* Only a hook that failed is kept for a later attempt.
RetainFailed(p, ok) == IF ok THEN pending ELSE pending \cup {p}

\* disposeInstancesInReverseOrder(): one hook, the failed ones are retained.
DisposeHook(p, ok) ==
    /\ Quiet /\ phase = "hooks" /\ LastCreated(p)
    /\ queue' = queue \ {p}
    /\ destroyed' = [destroyed EXCEPT ![p] = IF ok THEN @ + 1 ELSE @]
    /\ pending' = RetainFailed(p, ok)
    /\ faults' = (faults \/ ~ok)
    /\ DisposeUnchanged
    /\ UNCHANGED <<cache, promiseVars, staleVars, disposed, phase, attempts,
                   entries, drained, retry>>

\* clearDisposalCaches(), then disposeWithOrigin() decides whether a later
\* dispose() call starts another attempt.
DisposeFinish ==
    /\ Quiet /\ phase = "hooks" /\ queue = {}
    /\ cache' = [t \in Token |-> None]
    /\ materialized' = {}
    /\ phase' = IF faults THEN "failed"
                ELSE IF Retained # {} THEN "retained" ELSE "done"
    /\ DisposeUnchanged
    /\ UNCHANGED <<status, owner, tokenOf, uses, settledAt, clock, staleVars,
                   disposed, attempts, entries, drained, retry, queue, pending,
                   faults, destroyed>>

-----------------------------------------------------------------------------
CallStep(c) ==
    \/ Settle(c) \/ Enter(c)
    \/ VisitActive(c) \/ VisitMissing(c) \/ VisitCached(c) \/ VisitNew(c)
    \/ VisitPlain(c) \/ Wake(c) \/ Resume(c)
    \/ Construct(c) \/ ConstructFails(c) \/ Unwind(c)

StaleStep(p) == StaleReject(p) \/ \E ok \in BOOLEAN : StaleHook(p, ok)

DisposeStep ==
    \/ DisposeDrain \/ DisposeCollect \/ DisposeFinish
    \/ \E p \in Promise, ok \in BOOLEAN : DisposeRetry(p, ok) \/ DisposeHook(p, ok)

Next ==
    \/ \E c \in Call, t \in Token : Resolve(c, t)
    \/ \E c \in Call : CallStep(c)
    \/ \E p \in Promise : StaleStep(p)
    \/ \E t \in Token, d \in Replacements : Register(t, d) \/ Override(t, d)
    \/ Dispose \/ DisposeStep

Spec == Init /\ [][Next]_vars

\* The event loop runs every suspended continuation whose promise has settled,
\* and factories and hooks are assumed to settle.  Nothing obliges a caller to
\* call resolve(), register(), override() or dispose().
Fairness ==
    /\ \A c \in Call : WF_vars(CallStep(c))
    /\ WF_vars(\E p \in Promise : StaleStep(p))
    /\ WF_vars(DisposeStep)

FairSpec == Spec /\ Fairness

-----------------------------------------------------------------------------
(* Properties                                                              *)

GraphTypeOK ==
    /\ registry \in [Token -> Seq(Token) \cup {Missing}]
    /\ cache \in [Token -> Promise \cup {None}]
    /\ overrides \in 0 .. MaxOverride

PromiseTypeOK ==
    /\ status \in [Promise -> {"free", "pending", "ok"} \cup Failed]
    /\ owner \in [Promise -> Call \cup {None}]
    /\ tokenOf \in [Promise -> Token \cup {None}]
    /\ uses \in [Promise -> SUBSET Promise]
    /\ settledAt \in [Promise -> Nat] /\ clock \in Nat
    /\ materialized \subseteq Promise

CallTypeOK ==
    /\ pc \in [Call -> {"idle", "settling", "entering", "visiting", "suspended",
                        "awaiting", "failing", "done", "rejected"}]
    /\ goal \in [Call -> Token \cup {None}]
    /\ stack \in [Call -> Seq(Frame)]
    /\ awaits \in [Call -> Promise \cup {None}]
    /\ error \in [Call -> {"none", "disposed", "stale"} \cup Failed]
    /\ waited \in [Call -> SUBSET Promise] /\ blame \in [Call -> SUBSET Promise]

DisposalTypeOK ==
    /\ stale \in [Promise -> {"no", "pending", "clean", "failed", "rejected",
                              "released"}]
    /\ consumed \subseteq Promise
    /\ disposed \in BOOLEAN /\ faults \in BOOLEAN
    /\ phase \in Active \cup {"open", "failed", "retained", "done"}
    /\ attempts \in 0 .. MaxDispose
    /\ entries \subseteq Promise /\ drained \subseteq Promise
    /\ retry \subseteq Promise /\ queue \subseteq Promise
    /\ pending \subseteq Promise
    /\ destroyed \in [Promise -> Nat] /\ late \subseteq Promise /\ evicted \subseteq Promise

\* Every variable has its type.
TypeOK == GraphTypeOK /\ PromiseTypeOK /\ CallTypeOK /\ DisposalTypeOK

WaitsOn(c, d) ==
    /\ pc[c] = "awaiting"
    /\ status[awaits[c]] = "pending" /\ owner[awaits[c]] = d

\* Concurrent resolutions never wait for each other in a circle: in every
\* group of calls, someone does not wait for a member of the group.  This is
\* what linkPendingResolution() buys; without it resolve(A) and resolve(B) of
\* a cycle A -> B -> A started together would hang instead of rejecting.
NoCircularWait ==
    \A S \in SUBSET Call :
        S # {} => \E c \in S : \A d \in S : ~WaitsOn(c, d)

\* A CircularDependencyError is never a false alarm of the cross-call cycle
\* detection: the registered graph really has a cycle.
NoSpuriousCycle ==
    (overrides = 0 /\ \E c \in Call : error[c] = "circular")
        => \E t \in Token : Reaches(t, t)

\* However resolutions interleave and fail, a token that was not overridden
\* has at most one pending or usable promise: the singleton is shared.
SharedInstance ==
    (overrides = 0 /\ ~disposed) =>
        \A p, q \in Promise :
            (status[p] \in {"pending", "ok"} /\ status[q] \in {"pending", "ok"}
                /\ tokenOf[p] = tokenOf[q]) => p = q

\* The same promise as README.md states it, with overrides allowed: two live
\* instances of one singleton never coexist.
SharedAcrossOverride ==
    ~disposed =>
        \A p, q \in Promise :
            (status[p] = "ok" /\ stale[p] = "no" /\ status[q] = "ok"
                /\ stale[q] = "no" /\ tokenOf[p] = tokenOf[q]) => p = q

\* A failed construction does not poison its token: the cache never offers a
\* rejected promise, so a later resolve() tries again.
NoPoisonedCache ==
    \A t \in Token : cache[t] # None => status[cache[t]] \in {"pending", "ok"}

\* An instance the cache offers was never built from one that an override has
\* replaced, even when the override came while it was under construction.
NoStaleDependency ==
    \A t \in Token : cache[t] # None =>
        \A p \in uses[cache[t]] : stale[p] = "no"

\* A hook that completed never runs again: not by a stale task and dispose()
\* both, not by a retry of a failed attempt.
DestroyOnce == \A p \in Promise : destroyed[p] <= 1

\* Each stale disposal failure is delivered once: no two resolve() calls throw
\* it, and a dispose() attempt reports failures after its drain only if one of
\* them has reached no call (assertStaleDisposalsSettled(), errorConsumed).
DeliveredOnce ==
    /\ [](\A c, d \in Call : c # d => blame[c] \cap blame[d] = {})
    /\ [][phase = "draining" /\ faults' =>
            \E p \in drained : stale[p] # "clean" /\ \A c \in Call : p \notin blame[c]]_vars

\* dispose() runs the hook of an instance only after the hooks of the
\* instances it was injected into have been run in this attempt.
DependentsFirst ==
    [][\A p \in queue \ queue' : \A q \in queue' : p \notin uses[q]]_vars

\* When an attempt succeeds, every instance that existed or was under
\* construction when dispose() was first called has been destroyed, those that
\* an override replaced included, whichever attempt or task ran its hook.  The
\* one exception is a replacement that the rejection of the promise it replaced
\* has evicted before: the container no longer knows it (SharedAcrossOverride).
DisposalComplete ==
    phase = "done" =>
        \A p \in Promise \ (late \cup evicted) :
            status[p] = "ok" => destroyed[p] = 1

\* When an attempt succeeds, every instance the container created is
\* destroyed, those created by resolve() calls in flight included.
NothingLeaks ==
    phase = "done" =>
        \A p \in Promise :
            (status[p] = "ok" /\ overrides = 0) => destroyed[p] = 1

\* What makes the type invariant and NoCircularWait inductive: the shape of a
\* call's chain at each suspension point, and where pending promises live.
ChainOK ==
    \A c \in Call :
        /\ pc[c] # "idle" => goal[c] \in Token
        /\ pc[c] \in {"idle", "settling", "entering"} => stack[c] = <<>>
        /\ pc[c] \in {"suspended", "failing"} => stack[c] # <<>>
        /\ pc[c] \in {"visiting", "awaiting"} /\ stack[c] # <<>>
               => stack[c][1].rest # <<>>
        /\ \A i \in 2 .. Len(stack[c]) : stack[c][i].rest # <<>>
        /\ pc[c] = "awaiting" => /\ awaits[c] \in Promise
                                 /\ status[awaits[c]] # "free"
        /\ pc[c] = "failing" => error[c] \in Failed

CachedStarted == \A t \in Token : cache[t] # None => status[cache[t]] # "free"

\* A pending promise is under construction in its creator's chain.
PendingOnStack ==
    \A p \in Promise : status[p] = "pending" =>
        /\ owner[p] \in Call
        /\ \E i \in 1 .. Len(stack[owner[p]]) : stack[owner[p]][i].id = p

ChainInv == TypeOK /\ ChainOK /\ CachedStarted /\ PendingOnStack

\* Every resolve() call that was made settles.
ResolveSettles ==
    \A c \in Call : pc[c] # "idle" ~> pc[c] \in {"done", "rejected"}

\* Every disposal attempt ends, although it waits for resolutions and stale
\* hooks in flight.
DisposeEnds == phase \in Active ~> phase \notin Active

\* Both settle although calls wait for stale hooks and disposal attempts wait
\* for calls: no one waits for itself through the other (container.ts,
\* resolve() and dispose()).
DisposalSettles == DisposeEnds /\ ResolveSettles

\* Calls that need the same cached provider share one construction, and a
\* failed construction never stays behind for later calls (container.ts,
\* resolveScopedOrSingletonInstance()).
SingletonShared == TypeOK /\ SharedInstance /\ NoPoisonedCache
=============================================================================
