------------------------------ MODULE CacheService ------------------------------
(***************************************************************************)
(* The cache facade of @fluojs/cache-manager                               *)
(* (packages/cache-manager/src/service.ts) over its operation scheduler    *)
(* (store-operation-scheduler.ts): remember(), get(), set(), del(),        *)
(* reset() and close() of one service, each suspended at every await.      *)
(*                                                                         *)
(* A call owns at most one store operation at a time.  The operation is    *)
(* queued until the scheduler admits it, then runs, takes effect in the    *)
(* store and settles; a store may reject it before or after the effect.    *)
(* A loaded value is abstracted to the number of invalidations its loader  *)
(* had seen when it began and to the reset version it was loaded under.    *)
(***************************************************************************)
EXTENDS Naturals, Sequences

CONSTANTS
    Key,     \* cache keys
    Call,    \* calls of the service
    Nobody   \* no call

ASSUME CacheAssumption == Key # {} /\ Nobody \notin Call

VARIABLES
    cacheClosed,    \* this.closed
    version,        \* this.resetVersion
    inflight,       \* key -> the remember() call that owns the inflight entry
    pendingLoads,   \* pendingLoads: the remember() calls it counts
    pendingInv,     \* pendingInvalidations: key -> 1 + generation, 0 if unset
    queue,          \* operations that wait for exclusiveTail, in order
    op,             \* call -> state of its store operation
    opKind,         \* call -> kind of its store operation
    store,          \* key -> cached value
    storeClosed,    \* the store's close() or dispose() has run
    pc,             \* call -> where it is suspended
    key,            \* call -> its key
    gen,            \* remember() call -> its resetVersion
    invalidated,    \* remember() call -> entry.invalidated
    owner,          \* remember() call -> the call whose load it awaits
    read,           \* call -> what its store.get() returned
    stamp,          \* call -> its number among the invalidations of the key
    invs,           \* key -> number of del() calls that began
    lastDel,        \* key -> number of the last del() that succeeded
    lastReset,      \* resetVersion of the last reset() that succeeded
    unsure,         \* keys for which a remember() failed to write or undo
    abandoned       \* keys with a stale value that a close() kept from being undone

bookVars  == <<cacheClosed, version, inflight, pendingLoads, pendingInv>>
opVars    == <<queue, op, opKind>>
storeVars == <<store, storeClosed>>
callVars  == <<key, gen, invalidated, owner, stamp>>
ghostVars == <<invs, lastDel, lastReset, unsure, abandoned>>
vars == <<bookVars, opVars, storeVars, pc, callVars, read, ghostVars>>

Exclusive == {"reset", "close"}
Kind == {"get", "set", "del"} \cup Exclusive
OpState == {"none", "queued", "running", "applied", "skipped"}
Location == {"idle", "get", "set", "del", "reset", "close", "reading", "bypass",
             "joined", "loading", "writing", "undoing", "ending", "done"}

\* Store contents: nothing, a value of set(), or a loaded value.
Value   == [by : {"none", "set", "load"}, gen : Nat, stamp : Nat]
NoValue == [by |-> "none", gen |-> 0, stamp |-> 0]
ASet    == [by |-> "set", gen |-> 0, stamp |-> 0]
Loaded(c) == [by |-> "load", gen |-> gen[c], stamp |-> stamp[c]]

-----------------------------------------------------------------------------
(* StoreOperationScheduler *)

\* run() and runExclusive(): the operation of c joins the tail.
Submit(c, k) ==
    /\ queue' = Append(queue, c)
    /\ op' = [op EXCEPT ![c] = "queued"]
    /\ opKind' = [opKind EXCEPT ![c] = k]

\* activeOperations, and the exclusive operation while it runs.
Started(c) == op[c] \in {"running", "applied", "skipped"}

\* Mutated forms: an exclusive operation also waits for the queued ones, which
\* wait for it; or it waits for none.
WaitsForQueue(c) == \A d \in Call \ {c} : op[d] = "none"
StartsAtOnce(c) == TRUE

\* An exclusive operation first waits until the started ones have settled.
Drained(c) == \A d \in Call \ {c} : ~Started(d)

\* A later operation waits for the exclusive one ahead of it.
TailResolved(c) == \A d \in Call : Started(d) => opKind[d] \notin Exclusive

\* The operations look at this.closed again when they start; close() does not.
Skipped(c) == cacheClosed /\ opKind[c] # "close"

\* The operation at the head of the queue starts.
StartOperation(c) ==
    /\ queue # <<>> /\ Head(queue) = c
    /\ TailResolved(c)
    /\ opKind[c] \in Exclusive => Drained(c)
    /\ queue' = Tail(queue)
    /\ op' = [op EXCEPT ![c] = IF Skipped(c) THEN "skipped" ELSE "running"]
    /\ UNCHANGED <<bookVars, opKind, storeVars, pc, callVars, read, ghostVars>>

\* The store applies a running operation.
ApplyOperation(c) ==
    /\ op[c] = "running"
    /\ op' = [op EXCEPT ![c] = "applied"]
    /\ store' = [k \in Key |->
                   CASE opKind[c] = "set" /\ k = key[c] ->
                            IF pc[c] = "set" THEN ASet ELSE Loaded(c)
                     [] opKind[c] = "del" /\ k = key[c] -> NoValue
                     [] opKind[c] = "reset" -> NoValue
                     [] OTHER -> store[k]]
    /\ read' = IF opKind[c] = "get" THEN [read EXCEPT ![c] = store[key[c]]] ELSE read
    /\ storeClosed' = (storeClosed \/ opKind[c] = "close")
    /\ UNCHANGED <<bookVars, queue, opKind, pc, callVars, ghostVars>>

\* The operation of c settles: fulfilled once applied or skipped, rejected by
\* the store at any time after it started to run.
Settles(c, ok) ==
    /\ IF ok THEN op[c] \in {"applied", "skipped"}
             ELSE op[c] \in {"running", "applied"}
    /\ op' = [op EXCEPT ![c] = "none"]

\* The entry of a key expires or is evicted to keep the entry limit.
ExpireEntry(k) ==
    /\ store[k].by # "none"
    /\ store' = [store EXCEPT ![k] = NoValue]
    /\ UNCHANGED <<bookVars, opVars, storeClosed, pc, callVars, read, ghostVars>>

-----------------------------------------------------------------------------
(* get(), set(), del(), reset() and close() *)

\* get() and set() of an open service go to the store at once.
GetOrSet(c, k, kd) ==
    /\ pc[c] = "idle" /\ kd \in {"get", "set"} /\ ~cacheClosed
    /\ pc' = [pc EXCEPT ![c] = kd]
    /\ key' = [key EXCEPT ![c] = k]
    /\ Submit(c, kd)
    /\ UNCHANGED <<bookVars, storeVars, gen, invalidated, owner, stamp, read,
                   ghostVars>>

\* invalidateKey() marks the load in flight, or the loads about to begin.
Mark(k) ==
    IF inflight[k] # Nobody
    THEN /\ invalidated' = [invalidated EXCEPT ![inflight[k]] = TRUE]
         /\ UNCHANGED pendingInv
    ELSE /\ pendingInv' = [pendingInv EXCEPT ![k] =
                 IF \E c \in pendingLoads : key[c] = k THEN 1 + version ELSE @]
         /\ UNCHANGED invalidated

Del(c, k) ==
    /\ pc[c] = "idle" /\ ~cacheClosed
    /\ pc' = [pc EXCEPT ![c] = "del"]
    /\ key' = [key EXCEPT ![c] = k]
    /\ Mark(k)
    /\ invs' = [invs EXCEPT ![k] = @ + 1]
    /\ stamp' = [stamp EXCEPT ![c] = invs[k] + 1]
    /\ Submit(c, "del")
    /\ UNCHANGED <<cacheClosed, version, inflight, pendingLoads, storeVars, gen, owner,
                   read, lastDel, lastReset, unsure, abandoned>>

\* reset() and close() start a new generation and forget every load.
NewGeneration ==
    /\ version' = version + 1
    /\ inflight' = [k \in Key |-> Nobody]
    /\ pendingLoads' = {}
    /\ pendingInv' = [k \in Key |-> 0]

Reset(c) ==
    /\ pc[c] = "idle" /\ ~cacheClosed
    /\ pc' = [pc EXCEPT ![c] = "reset"]
    /\ NewGeneration
    /\ gen' = [gen EXCEPT ![c] = version + 1]
    /\ Submit(c, "reset")
    /\ UNCHANGED <<cacheClosed, storeVars, key, invalidated, owner, stamp, read,
                   ghostVars>>

\* The first close(); later calls share its promise and change nothing.
Close(c) ==
    /\ pc[c] = "idle" /\ ~cacheClosed
    /\ pc' = [pc EXCEPT ![c] = "close"]
    /\ cacheClosed' = TRUE
    /\ NewGeneration
    /\ Submit(c, "close")
    /\ UNCHANGED <<storeVars, callVars, read, ghostVars>>

\* The promise of get(), set(), del(), reset() or close() settles.
CallSettles(c, ok) ==
    /\ pc[c] \in Kind
    /\ Settles(c, ok)
    /\ pc' = [pc EXCEPT ![c] = "done"]
    /\ lastDel' = IF pc[c] = "del" /\ ok /\ op[c] = "applied" /\ stamp[c] > lastDel[key[c]]
                  THEN [lastDel EXCEPT ![key[c]] = stamp[c]] ELSE lastDel
    /\ lastReset' = IF pc[c] = "reset" /\ ok /\ op[c] = "applied" THEN gen[c] ELSE lastReset
    /\ UNCHANGED <<bookVars, queue, opKind, storeVars, callVars, read, invs, unsure,
                   abandoned>>

-----------------------------------------------------------------------------
(* remember() *)

\* remember() counts itself as a pending load and reads the store; a closed
\* service only runs the loader.
Remember(c, k) ==
    /\ pc[c] = "idle"
    /\ key' = [key EXCEPT ![c] = k]
    /\ gen' = [gen EXCEPT ![c] = version]
    /\ \/ /\ cacheClosed
          /\ pc' = [pc EXCEPT ![c] = "bypass"]
          /\ UNCHANGED <<pendingLoads, opVars>>
       \/ /\ ~cacheClosed
          /\ pc' = [pc EXCEPT ![c] = "reading"]
          /\ pendingLoads' = pendingLoads \cup {c}
          /\ Submit(c, "get")
    /\ UNCHANGED <<cacheClosed, version, inflight, pendingInv, storeVars, invalidated,
                   owner, stamp, read, ghostVars>>

\* The read found a value, or failed: the call returns.
ReadReturns(c, ok) ==
    /\ pc[c] = "reading"
    /\ Settles(c, ok)
    /\ ok => read[c].by # "none"
    /\ pc' = [pc EXCEPT ![c] = "done"]
    /\ pendingLoads' = pendingLoads \ {c}
    /\ UNCHANGED <<cacheClosed, version, inflight, pendingInv, queue, opKind, storeVars,
                   callVars, read, ghostVars>>

\* A mutated form: every miss starts its own load.
NeverJoins(c) == FALSE

\* A load of this generation is in flight.
CanJoin(c) == inflight[key[c]] # Nobody /\ gen[inflight[key[c]]] = gen[c]

\* The service was closed or reset since the call or load of c began.
Outdated(c) == cacheClosed \/ version # gen[c]

\* The read missed: the call bypasses the cache, joins the load in flight, or
\* starts one.
ReadMissed(c) ==
    /\ pc[c] = "reading"
    /\ Settles(c, TRUE)
    /\ read[c].by = "none"
    /\ \/ /\ Outdated(c)
          /\ pc' = [pc EXCEPT ![c] = "bypass"]
          /\ UNCHANGED <<inflight, invalidated, owner, stamp>>
       \/ /\ ~Outdated(c) /\ CanJoin(c)
          /\ pc' = [pc EXCEPT ![c] = "joined"]
          /\ owner' = [owner EXCEPT ![c] = inflight[key[c]]]
          /\ UNCHANGED <<inflight, invalidated, stamp>>
       \/ /\ ~Outdated(c) /\ ~CanJoin(c)
          /\ pc' = [pc EXCEPT ![c] = "loading"]
          /\ inflight' = [inflight EXCEPT ![key[c]] = c]
          /\ invalidated' = [invalidated EXCEPT ![c] =
                                pendingInv[key[c]] = 1 + gen[c]]
          /\ stamp' = [stamp EXCEPT ![c] = invs[key[c]]]
          /\ UNCHANGED owner
    /\ UNCHANGED <<cacheClosed, version, pendingLoads, pendingInv, queue, opKind, storeVars,
                   key, gen, read, ghostVars>>

\* The finally clause of the load.
ForgetLoad(c) ==
    /\ inflight' = [inflight EXCEPT ![key[c]] = IF @ = c THEN Nobody ELSE @]
    /\ pendingInv' = [pendingInv EXCEPT ![key[c]] = IF @ = 1 + gen[c] THEN 0 ELSE @]

\* A mutated form: the generation is not compared after the load.
IgnoresReset(c) == cacheClosed \/ invalidated[c]

\* The loaded value must not be written.
MustSkip(c) == Outdated(c) \/ invalidated[c]

\* The loader settles; its value is written unless it is already stale.
LoaderSettles(c, ok) ==
    /\ pc[c] = "loading"
    /\ \/ /\ ok /\ ~MustSkip(c)
          /\ pc' = [pc EXCEPT ![c] = "writing"]
          /\ Submit(c, "set")
          /\ UNCHANGED <<inflight, pendingInv>>
       \/ /\ ok => MustSkip(c)
          /\ pc' = [pc EXCEPT ![c] = "ending"]
          /\ ForgetLoad(c)
          /\ UNCHANGED opVars
    /\ UNCHANGED <<cacheClosed, version, pendingLoads, storeVars, callVars, read, ghostVars>>

\* A mutated form: nothing is checked after the write.
NeverUndo(c) == FALSE

\* The value became stale while it was being written.
MustUndo(c) == ~cacheClosed /\ (invalidated[c] \/ version # gen[c])

\* A del() began after the load, but the service was closed after the write.
Abandons(c) == cacheClosed /\ op[c] = "applied" /\ stamp[c] < invs[key[c]]

\* The write settles; a value that became stale meanwhile is deleted again,
\* unless the service is closed.
WriteSettles(c, ok) ==
    /\ pc[c] = "writing"
    /\ \/ /\ ok /\ MustUndo(c)
          /\ op[c] \in {"applied", "skipped"}
          /\ pc' = [pc EXCEPT ![c] = "undoing"]
          /\ Submit(c, "del")
          /\ UNCHANGED <<inflight, pendingInv, unsure, abandoned>>
       \/ /\ ok => ~MustUndo(c)
          /\ Settles(c, ok)
          /\ pc' = [pc EXCEPT ![c] = "ending"]
          /\ ForgetLoad(c)
          /\ unsure' = IF ok THEN unsure ELSE unsure \cup {key[c]}
          /\ abandoned' = IF ok /\ Abandons(c) THEN abandoned \cup {key[c]} ELSE abandoned
          /\ UNCHANGED <<queue, opKind>>
    /\ UNCHANGED <<cacheClosed, version, pendingLoads, storeVars, callVars, read, invs,
                   lastDel, lastReset>>

\* The compensating delete settles; a close() ahead of it makes it do nothing.
UndoSettles(c, ok) ==
    /\ pc[c] = "undoing"
    /\ Settles(c, ok)
    /\ pc' = [pc EXCEPT ![c] = "ending"]
    /\ ForgetLoad(c)
    /\ unsure' = IF ok THEN unsure ELSE unsure \cup {key[c]}
    /\ abandoned' = IF ok /\ op[c] = "skipped" THEN abandoned \cup {key[c]} ELSE abandoned
    /\ UNCHANGED <<cacheClosed, version, pendingLoads, queue, opKind, storeVars, callVars,
                   read, invs, lastDel, lastReset>>

\* The promise of the load that c awaits has settled.
LoadSettled(c) ==
    \/ pc[c] = "ending"
    \/ pc[c] = "joined" /\ pc[owner[c]] \in {"ending", "done"}

\* endPendingLoad(), after the load or, in a bypass, after the loader.
Leave(c) ==
    /\ LoadSettled(c) \/ pc[c] = "bypass"
    /\ pc' = [pc EXCEPT ![c] = "done"]
    /\ pendingLoads' = pendingLoads \ {c}
    /\ UNCHANGED <<cacheClosed, version, inflight, pendingInv, opVars, storeVars,
                   callVars, read, ghostVars>>

-----------------------------------------------------------------------------
Init ==
    /\ cacheClosed = FALSE /\ version = 0
    /\ inflight = [k \in Key |-> Nobody]
    /\ pendingLoads = {} /\ pendingInv = [k \in Key |-> 0]
    /\ queue = <<>>
    /\ op = [c \in Call |-> "none"]
    /\ opKind = [c \in Call |-> "get"]
    /\ store = [k \in Key |-> NoValue] /\ storeClosed = FALSE
    /\ pc = [c \in Call |-> "idle"]
    /\ key = [c \in Call |-> CHOOSE k \in Key : TRUE]
    /\ gen = [c \in Call |-> 0]
    /\ invalidated = [c \in Call |-> FALSE]
    /\ owner = [c \in Call |-> Nobody]
    /\ read = [c \in Call |-> NoValue]
    /\ stamp = [c \in Call |-> 0]
    /\ invs = [k \in Key |-> 0] /\ lastDel = [k \in Key |-> 0]
    /\ lastReset = 0 /\ unsure = {} /\ abandoned = {}

\* What the service does by itself or when the host's callbacks settle.
Resume(c) ==
    \/ StartOperation(c)
    \/ ApplyOperation(c)
    \/ ReadMissed(c)
    \/ Leave(c)
    \/ \E ok \in BOOLEAN :
          \/ CallSettles(c, ok)
          \/ ReadReturns(c, ok)
          \/ LoaderSettles(c, ok)
          \/ WriteSettles(c, ok)
          \/ UndoSettles(c, ok)

Next ==
    \/ \E c \in Call :
          \/ Resume(c)
          \/ Reset(c)
          \/ Close(c)
          \/ \E k \in Key : \/ Remember(c, k)
                            \/ Del(c, k)
                            \/ \E kd \in Kind : GetOrSet(c, k, kd)
    \/ \E k \in Key : ExpireEntry(k)

Spec == Init /\ [][Next]_vars

\* The event loop keeps running, and loaders and stores settle what they began.
Fairness == WF_vars(\E c \in Call : Resume(c))

-----------------------------------------------------------------------------
TypeOK ==
    /\ cacheClosed \in BOOLEAN /\ storeClosed \in BOOLEAN
    /\ version \in Nat /\ lastReset \in Nat
    /\ inflight \in [Key -> Call \cup {Nobody}]
    /\ pendingLoads \subseteq Call
    /\ pendingInv \in [Key -> Nat]
    /\ queue \in Seq(Call)
    /\ op \in [Call -> OpState] /\ opKind \in [Call -> Kind]
    /\ store \in [Key -> Value]
    /\ pc \in [Call -> Location]
    /\ key \in [Call -> Key] /\ gen \in [Call -> Nat]
    /\ invalidated \in [Call -> BOOLEAN]
    /\ owner \in [Call -> Call \cup {Nobody}]
    /\ read \in [Call -> Value] /\ stamp \in [Call -> Nat]
    /\ invs \in [Key -> Nat] /\ lastDel \in [Key -> Nat]
    /\ unsure \subseteq Key /\ abandoned \subseteq Key

\* A loaded value that a completed del() should have removed.
Stale(k) == store[k].by = "load" /\ store[k].stamp < lastDel[k]

\* remember() does not repopulate a key that del() invalidated while the load
\* was in flight: such a value is in the store only while the load that wrote
\* it is still there to delete it, or after a remember() reported that the
\* store failed.  A close() is the other exception: a closed service no longer
\* deletes, so a value whose write was under way stays in the store.
StaleIsTransient ==
    \A k \in Key : Stale(k) =>
        \/ k \in unsure
        \/ k \in abandoned
        \/ \E c \in Call : /\ key[c] = k
                           /\ pc[c] \in {"writing", "undoing"}
                           /\ stamp[c] < lastDel[k]

\* What a completed reset() removed never comes back, not even for a moment:
\* no load of an earlier generation writes after it.
ResetIsFinal ==
    \A k \in Key : store[k].by = "load" => store[k].gen >= lastReset

\* The store is not touched once its teardown has run, and no other operation
\* is under way while it runs.
TeardownRunsAlone ==
    /\ \A c, d \in Call :
          c # d /\ opKind[c] = "close" /\ Started(c) => ~Started(d)
    /\ storeClosed => \A d \in Call : op[d] # "running"

\* Concurrent misses of a key share one load per generation.
Coalesced ==
    \A c, d \in Call :
        /\ c # d /\ key[c] = key[d] /\ gen[c] = gen[d]
        /\ pc[c] \in {"loading", "writing", "undoing"}
        => pc[d] \notin {"loading", "writing", "undoing"}

\* Every call settles: neither an exclusive operation and the ordinary ones,
\* nor a joined load, wait for each other for ever.
CallsSettle == []<>(\A c \in Call : pc[c] \in {"idle", "done"})
=============================================================================
