------------------------------ MODULE CacheUpdate ------------------------------
(***************************************************************************)
(* Atomic updates of one key of a MemoryStore that several cache services  *)
(* share (packages/cache-manager/src/service.ts, atomic-update.ts,         *)
(* stores/memory-store.ts).  update() registers with the queue of the      *)
(* store at once, waits for the updates ahead of it and for the scheduler  *)
(* of its own service, and then runs its reducer across an await, while    *)
(* set(), del(), reset() and close() of any service go on.                 *)
(*                                                                         *)
(* The store is synchronous: an operation takes effect when the scheduler  *)
(* starts it.  Every call writes at most one entry, so that the call is    *)
(* the identity of the entry, and the value is the set of calls it was     *)
(* computed from.  A time to live is a number of clock ticks.              *)
(***************************************************************************)
EXTENDS Naturals, Sequences, FiniteSets

CONSTANTS
    Service,      \* cache services that share the store
    Caller,       \* calls of the services
    NoCall,       \* no call
    MaxAttempts,  \* maxAttempts of every update
    MaxTime       \* bound on the clock

ASSUME UpdateAssumption ==
    /\ Service # {} /\ NoCall \notin Caller
    /\ MaxAttempts \in Nat \ {0} /\ MaxTime \in Nat

VARIABLES
    shut,      \* service -> this.closed
    line,      \* service -> calls that wait for exclusiveTail, in order
    tail,      \* updates registered with the CacheUpdateQueue, in order
    aborted,   \* updates whose signal is aborted
    phase,     \* call -> where it is
    act,       \* call -> what it does
    home,      \* call -> its service
    entry,     \* the entry of the key
    snap,      \* update -> the entry its reducer was given
    attempt,   \* update -> attempt
    now,       \* Date.now()
    met        \* updates that a del(), reset() or close() found registered

updateVars == <<shut, line, tail, aborted, phase, act, home, entry, snap, attempt, now, met>>
callState  == <<act, home>>

Act      == {"update", "set", "del", "reset", "close"}
Boundary == {"reset", "close"}
Phase    == {"idle", "queued", "admitted", "reducing", "committed", "failed", "done"}
Entry    == [by : Caller \cup {NoCall}, value : SUBSET Caller, expiresAt : Nat]
NoEntry  == [by |-> NoCall, value |-> {}, expiresAt |-> 0]
\* ttlSeconds of a decision: omitted, persistent, or one tick.
Omitted  == 99
Ttl      == {Omitted, 0, 1}

\* Registered with the queue of the store and not settled.
Active(c) == \E i \in DOMAIN tail : tail[i] = c

Updates(s) == {c \in Caller : Active(c) /\ home[c] = s}

\* expiresAt <= Date.now(), where 0 stands for an entry that does not expire.
Expired(e) == e.expiresAt # 0 /\ e.expiresAt <= now

\* get(): an expired entry is swept before the key is looked up.
Lookup == IF Expired(entry) THEN NoEntry ELSE entry

-----------------------------------------------------------------------------
(* CacheService *)

\* update(): the store registers the call synchronously, the scheduler admits
\* it later.  A closed service refuses it.
UpdateCall(c, s) ==
    /\ phase[c] = "idle"
    /\ act' = [act EXCEPT ![c] = "update"]
    /\ home' = [home EXCEPT ![c] = s]
    /\ \/ /\ shut[s]
          /\ phase' = [phase EXCEPT ![c] = "failed"]
          /\ UNCHANGED <<line, tail>>
       \/ /\ ~shut[s]
          /\ phase' = [phase EXCEPT ![c] = "queued"]
          /\ line' = [line EXCEPT ![s] = Append(@, c)]
          /\ tail' = Append(tail, c)
    /\ UNCHANGED <<shut, aborted, entry, snap, attempt, now, met>>

\* invalidateUpdates(): del(), reset() and close() tell the updates of their
\* service at once.
Told(s, a) == {c \in Updates(s) : a # "set"}

\* set(), del(), reset() and close() of an open service.
OtherCall(c, s, a) ==
    /\ phase[c] = "idle" /\ ~shut[s]
    /\ act' = [act EXCEPT ![c] = a]
    /\ home' = [home EXCEPT ![c] = s]
    /\ phase' = [phase EXCEPT ![c] = "queued"]
    /\ line' = [line EXCEPT ![s] = Append(@, c)]
    /\ shut' = [shut EXCEPT ![s] = @ \/ a = "close"]
    /\ aborted' = aborted \cup Told(s, a)
    /\ met' = IF a = "set" THEN met ELSE met \cup Updates(s)
    /\ UNCHANGED <<tail, entry, snap, attempt, now>>

\* The signal of the caller.
CallerAborts(c) ==
    /\ Active(c) /\ c \notin aborted
    /\ aborted' = aborted \cup {c}
    /\ UNCHANGED <<shut, line, tail, phase, callState, entry, snap, attempt, now, met>>

-----------------------------------------------------------------------------
(* StoreOperationScheduler *)

\* The started operations of a service have settled.
ServiceDrained(s) == \A c \in Caller : home[c] = s => phase[c] \notin {"admitted", "reducing"}

FirstInLine(c) == line[home[c]] # <<>> /\ Head(line[home[c]]) = c

LeaveLine(c) == line' = [line EXCEPT ![home[c]] = Tail(@)]

\* The scheduler admits an update, which may still wait for those ahead of it.
Admit(c) ==
    /\ FirstInLine(c) /\ act[c] = "update"
    /\ LeaveLine(c)
    /\ phase' = [phase EXCEPT ![c] = "admitted"]
    /\ UNCHANGED <<shut, tail, aborted, callState, entry, snap, attempt, now, met>>

\* A mutated form: a deletion of the store does not tell the updates.
TellsNobody(c) == {}

\* del() and reset() of the store tell every update, of whichever service.
StoreTold(c) == {d \in Caller : Active(d) /\ act[c] \in {"del", "reset"}}

\* set(), del() and reset() reach the store, or find the service closed;
\* close() tears down a store that has nothing to tear down.
RunOperation(c) ==
    /\ FirstInLine(c) /\ act[c] # "update"
    /\ act[c] \in Boundary => ServiceDrained(home[c])
    /\ LeaveLine(c)
    /\ phase' = [phase EXCEPT ![c] = "done"]
    /\ \/ /\ shut[home[c]] \/ act[c] = "close"
          /\ UNCHANGED <<entry, aborted, met>>
       \/ /\ ~shut[home[c]] /\ act[c] = "set"
          /\ \E t \in {0, 1} : entry' = [by |-> c, value |-> {c},
                                         expiresAt |-> IF t = 0 THEN 0 ELSE now + t]
          /\ UNCHANGED <<aborted, met>>
       \/ /\ ~shut[home[c]] /\ act[c] \in {"del", "reset"}
          /\ entry' = NoEntry
          /\ aborted' = aborted \cup StoreTold(c)
          /\ met' = met \cup {d \in Caller : Active(d)}
    /\ UNCHANGED <<shut, tail, callState, snap, attempt, now>>

-----------------------------------------------------------------------------
(* MemoryStore.atomicUpdate.update *)

\* The update settles; the next one in the queue may begin.
Settle(c, p) ==
    /\ phase' = [phase EXCEPT ![c] = p]
    /\ tail' = Tail(tail)

\* It is the turn of the update and its service has admitted it.
MyTurn(c) == tail # <<>> /\ Head(tail) = c /\ phase[c] = "admitted"

\* The first attempt, or none if the update was told meanwhile.
BeginUpdate(c) ==
    /\ MyTurn(c)
    /\ \/ /\ c \in aborted
          /\ Settle(c, "failed")
          /\ UNCHANGED <<entry, snap, attempt>>
       \/ /\ c \notin aborted
          /\ phase' = [phase EXCEPT ![c] = "reducing"]
          /\ entry' = Lookup
          /\ snap' = [snap EXCEPT ![c] = Lookup]
          /\ attempt' = [attempt EXCEPT ![c] = 1]
          /\ UNCHANGED tail
    /\ UNCHANGED <<shut, line, aborted, callState, now, met>>

\* The reducer failed, was told, or its snapshot has expired.
ReducerFails(c) ==
    /\ phase[c] = "reducing"
    /\ Settle(c, "failed")
    /\ UNCHANGED <<shut, line, aborted, callState, entry, snap, attempt, now, met>>

\* this.entries.get(key) === entry
Unchanged(c) == entry.by = snap[c].by

\* The decision may be applied.
MayCommit(c) == phase[c] = "reducing" /\ c \notin aborted /\ ~Expired(snap[c])

\* Another writer came first: a fresh attempt on what the key holds now.
Retry(c) ==
    /\ MayCommit(c) /\ ~Unchanged(c)
    /\ \/ /\ attempt[c] = MaxAttempts
          /\ Settle(c, "failed")
          /\ UNCHANGED <<entry, snap, attempt>>
       \/ /\ attempt[c] < MaxAttempts
          /\ attempt' = [attempt EXCEPT ![c] = @ + 1]
          /\ entry' = Lookup
          /\ snap' = [snap EXCEPT ![c] = Lookup]
          /\ UNCHANGED <<phase, tail>>
    /\ UNCHANGED <<shut, line, aborted, callState, now, met>>

\* resolveUpdateExpiry(), with a default of no expiry.
UpdateExpiry(t, e) ==
    IF t = Omitted THEN e.expiresAt ELSE IF t = 0 THEN 0 ELSE now + t

\* The reducer decided to set a value computed from its snapshot, or to delete.
Commit(c) ==
    /\ MayCommit(c) /\ Unchanged(c)
    /\ \/ entry' = NoEntry
       \/ \E t \in Ttl : entry' = [by |-> c, value |-> snap[c].value \cup {c},
                                   expiresAt |-> UpdateExpiry(t, snap[c])]
    /\ Settle(c, "committed")
    /\ UNCHANGED <<shut, line, aborted, callState, snap, attempt, now, met>>

\* enforceEntryLimit() evicts the entry for the sake of another key.
Evict ==
    /\ entry # NoEntry
    /\ entry' = NoEntry
    /\ UNCHANGED <<shut, line, tail, aborted, phase, callState, snap, attempt, now, met>>

Tick ==
    /\ now < MaxTime
    /\ now' = now + 1
    /\ UNCHANGED <<shut, line, tail, aborted, phase, callState, entry, snap, attempt, met>>

-----------------------------------------------------------------------------
UpdateInit ==
    /\ shut = [s \in Service |-> FALSE]
    /\ line = [s \in Service |-> <<>>]
    /\ tail = <<>> /\ aborted = {}
    /\ phase = [c \in Caller |-> "idle"]
    /\ act = [c \in Caller |-> "set"]
    /\ home = [c \in Caller |-> CHOOSE s \in Service : TRUE]
    /\ entry = NoEntry
    /\ snap = [c \in Caller |-> NoEntry]
    /\ attempt = [c \in Caller |-> 0]
    /\ now = 0 /\ met = {}

\* What the services and the store do by themselves, and the reducers.
Proceed(c) ==
    Admit(c) \/ RunOperation(c) \/ BeginUpdate(c) \/ ReducerFails(c) \/ Retry(c) \/ Commit(c)

UpdateNext ==
    \/ Evict
    \/ Tick
    \/ \E c \in Caller :
          \/ Proceed(c)
          \/ CallerAborts(c)
          \/ \E s \in Service : UpdateCall(c, s) \/ \E a \in Act \ {"update"} : OtherCall(c, s, a)

\* The event loop keeps running and reducers settle.
UpdateFairness == WF_updateVars(\E c \in Caller : Proceed(c))

UpdateSpec == UpdateInit /\ [][UpdateNext]_updateVars

-----------------------------------------------------------------------------
\* The types, and that exactly the updates under way are registered.
UpdateTypeOK ==
    /\ shut \in [Service -> BOOLEAN] /\ line \in [Service -> Seq(Caller)]
    /\ tail \in Seq(Caller) /\ aborted \subseteq Caller /\ met \subseteq Caller
    /\ phase \in [Caller -> Phase] /\ act \in [Caller -> Act] /\ home \in [Caller -> Service]
    /\ entry \in Entry /\ snap \in [Caller -> Entry]
    /\ attempt \in [Caller -> 0 .. MaxAttempts] /\ now \in 0 .. MaxTime
    /\ \A c \in Caller : Active(c) <=>
          act[c] = "update" /\ phase[c] \in {"queued", "admitted", "reducing"}

\* Every update of the store takes effect at one instant on what the key holds
\* then, although its reducer worked on an older snapshot: no write, deletion,
\* expiry or eviction in between is lost or undone.
Cell == INSTANCE AtomicCell WITH
    Call <- Caller,
    cell <- Lookup.value,
    applied <- {c \in Caller : phase[c] = "committed"}
UpdatesAtomic == Cell!Spec

\* An update that was registered when del(), reset() or close() was called on
\* its service, or when a deletion reached the store, never takes effect.
InvalidatedNeverCommits == \A c \in met : phase[c] # "committed"

\* Once close() of a service is done, every update it accepted has settled,
\* also those that were still queued.
CloseCoversUpdates ==
    \A c, d \in Caller :
        /\ act[c] = "close" /\ phase[c] = "done"
        /\ act[d] = "update" /\ home[d] = home[c]
        => ~Active(d)

\* Updates that wait for each other in the store, for their services and,
\* through a reset or close, for the updates of other services, all settle.
UpdateCallsSettle ==
    []<>(\A c \in Caller : phase[c] \in {"idle", "committed", "failed", "done"})
=============================================================================
