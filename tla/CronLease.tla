------------------------------- MODULE CronLease -------------------------------
(***************************************************************************)
(* The distributed execution of @fluojs/cron: runDistributedTaskTick() and *)
(* the shutdown of CronLifecycleService (packages/cron/src/service.ts) over*)
(* CronDistributedLockManager (distributed-lock-manager.ts), for the ticks *)
(* of several nodes, and of several tasks of a node, that share one lock   *)
(* key.  An action is a synchronous segment, resumed by the reply to a     *)
(* Redis command, a timer or the task's own promise.                       *)
(*                                                                         *)
(* Redis runs a command after it was sent; the command or its reply may be *)
(* lost, and a release whose caller gave up may still run later.  The time *)
(* to live of the key may run out at any moment.  Every node has completed *)
(* its bootstrap.                                                          *)
(***************************************************************************)
EXTENDS Naturals, FiniteSets

CONSTANTS
    Node,         \* scheduler instances
    Tick,         \* calls of handleTaskTick() for the key, on any node
    MayStop,      \* bound: the nodes that shut down
    NoTick,
    MaxRenewals   \* bound: renewal attempts queued at a time

ASSUME LeaseAssumption ==
    /\ NoTick \notin Tick \cup Node /\ Node \cap Tick = {}
    /\ Node # {} /\ IsFiniteSet(Tick) /\ MayStop \subseteq Node
    /\ MaxRenewals \in Nat

VARIABLES
    holder,    \* Redis: the token stored under the key
    lapsed,    \* Redis: tokens whose time to live ran out
    stray,     \* releases nobody waits for that may still reach Redis
    life,      \* node -> lifecycleState
    overdue,   \* node -> whether the shutdown deadline has passed
    owned,     \* node -> the lease in ownedLeases
    leases,    \* node -> runningDistributedLeaseCounts
    nodeOf,    \* tick -> the node it runs on, once it has begun
    at,        \* tick -> where it is suspended
    cmd,       \* tick or node -> its Redis command: none, sent, or its answer
    target,    \* tick or node -> the lease it releases
    due,       \* tick -> renewal attempts in the chain
    renewal,   \* tick -> the answer to the first of them
    postRun    \* tick -> lockPostRunError

redisVars == <<holder, lapsed>>
nodeVars == <<life, overdue, owned, leases>>
renewalVars == <<due, renewal, postRun>>
leaseVars == <<holder, lapsed, stray, life, overdue, owned, leases, nodeOf, at,
               cmd, target, due, renewal, postRun>>

Caller == Tick \cup Node

\* A mutated form: the owner id alone, shared by all leases of a node.
OwnerId(t) == nodeOf[t]

\* A token is unique to an acquisition.
TokenOf(t) == t

Running(t) == at[t] \in {"run", "settle"}
Active(n) == {t \in Tick : nodeOf[t] = n /\ at[t] \notin {"idle", "skipped", "done"}}

-----------------------------------------------------------------------------
(* Redis *)

\* SET key token PX ttl NX
SetRuns(t) ==
    /\ at[t] = "acquire" /\ cmd[t] = "sent"
    /\ IF holder = NoTick
       THEN holder' = TokenOf(t) /\ cmd' = [cmd EXCEPT ![t] = "yes"]
       ELSE UNCHANGED holder /\ cmd' = [cmd EXCEPT ![t] = "no"]
    /\ UNCHANGED <<lapsed, stray, nodeVars, at, target, renewalVars, nodeOf>>

\* A node has no command but a release.
Releasing(p) == p \in Tick => at[p] \in {"drop", "release", "retry"}

\* RELEASE_LOCK_SCRIPT deletes the key only when it holds the token; the
\* callers treat both answers alike.
Deleted(lease) == IF holder = TokenOf(lease) THEN NoTick ELSE holder

ReleaseRuns(p) ==
    /\ Releasing(p) /\ cmd[p] = "sent"
    /\ holder' = Deleted(target[p])
    /\ cmd' = [cmd EXCEPT ![p] = "yes"]
    /\ UNCHANGED <<lapsed, stray, nodeVars, at, target, renewalVars, nodeOf>>

\* A release whose caller gave up runs after all.
StrayRuns(t) ==
    /\ t \in stray
    /\ stray' = stray \ {t}
    /\ holder' = Deleted(t)
    /\ UNCHANGED <<lapsed, nodeVars, at, cmd, target, renewalVars, nodeOf>>

\* RENEW_LOCK_SCRIPT tells whether the key still holds the token.
RenewalRuns(t) ==
    /\ due[t] > 0 /\ renewal[t] = "none"
    /\ renewal' = [renewal EXCEPT ![t] = IF holder = TokenOf(t) THEN "yes" ELSE "no"]
    /\ UNCHANGED <<redisVars, stray, nodeVars, at, cmd, target, due, postRun, nodeOf>>

Expire ==
    /\ holder # NoTick
    /\ holder' = NoTick /\ lapsed' = lapsed \cup {holder}
    /\ UNCHANGED <<stray, nodeVars, at, cmd, target, renewalVars, nodeOf>>

-----------------------------------------------------------------------------
(* The lock manager *)

Send(p, lease) ==
    /\ cmd' = [cmd EXCEPT ![p] = "sent"]
    /\ target' = [target EXCEPT ![p] = lease]

Forget(p) ==
    /\ cmd' = [cmd EXCEPT ![p] = "none"]
    /\ target' = [target EXCEPT ![p] = NoTick]

\* clearOwnedLease(): the entry may belong to a newer lease by now.
ClearOwned(n, lease) ==
    IF owned[n] # NoTick /\ TokenOf(owned[n]) = TokenOf(lease)
    THEN [owned EXCEPT ![n] = NoTick] ELSE owned

\* releaseLease() of p returns true when Redis answered, and false when the
\* connection failed or the timeout of a shutdown passed first.
Returned(p, n, confirmed) ==
    IF confirmed
    THEN /\ cmd[p] = "yes"
         /\ owned' = ClearOwned(n, target[p])
         /\ UNCHANGED stray
    ELSE /\ cmd[p] # "none"
         /\ stray' = IF cmd[p] = "sent" THEN stray \cup {target[p]} ELSE stray
         /\ UNCHANGED owned

\* releaseLease() with no time left sends nothing.
BeginRelease(t, where) ==
    IF overdue[nodeOf[t]]
    THEN at' = [at EXCEPT ![t] = "done"] /\ Forget(t)
    ELSE at' = [at EXCEPT ![t] = where] /\ Send(t, t)

\* releaseOwnedLocks() has a lease to release, and time for it.
CanSweep(n, sparing) ==
    owned[n] # NoTick /\ ~overdue[n] /\ (sparing => leases[n] = 0)

\* renewLock() and toLockPostRunError()
Outcome(t, heard) ==
    IF heard THEN (IF renewal[t] = "yes" THEN "none" ELSE "lost") ELSE "failed"

\* runLockRenewalAttempt(): the first error is kept.
RenewalReply(t, heard) ==
    /\ due[t] > 0
    /\ heard => renewal[t] # "none"
    /\ postRun' = [postRun EXCEPT ![t] = IF @ = "none" THEN Outcome(t, heard) ELSE @]
    /\ due' = [due EXCEPT ![t] = @ - 1]
    /\ renewal' = [renewal EXCEPT ![t] = "none"]
    /\ UNCHANGED <<redisVars, stray, nodeVars, at, cmd, target, nodeOf>>

-----------------------------------------------------------------------------
(* The ticks *)

\* handleTaskTick() admits the tick and asks for the lease.
BeginTick(t, n) ==
    /\ at[t] = "idle" /\ life[n] = "ready"
    /\ nodeOf' = [nodeOf EXCEPT ![t] = n]
    /\ at' = [at EXCEPT ![t] = "acquire"]
    /\ cmd' = [cmd EXCEPT ![t] = "sent"]
    /\ UNCHANGED <<redisVars, stray, nodeVars, target, renewalVars>>

\* Not granted, or the command failed, whether Redis ran it or not.
AcquireFails(t) ==
    /\ at[t] = "acquire"
    /\ at' = [at EXCEPT ![t] = "skipped"] /\ cmd' = [cmd EXCEPT ![t] = "none"]
    /\ UNCHANGED <<redisVars, stray, nodeVars, target, renewalVars, nodeOf>>

\* A node has one connection, so that replies come in the order of the grants:
\* of two leases whose grants are unread the first one has lapsed.
NextReply(t) ==
    \A u \in Tick \ {t} :
        nodeOf[u] = nodeOf[t] /\ at[u] = "acquire" /\ cmd[u] = "yes"
          => TokenOf(t) \in lapsed

\* The lease was granted.  A tick whose schedule was retired meanwhile, or
\* whose service is stopping, gives it back; any other one runs its task.
Acquired(t, current) ==
    LET n == nodeOf[t] IN
    /\ at[t] = "acquire" /\ cmd[t] = "yes" /\ NextReply(t)
    /\ owned' = [owned EXCEPT ![n] = t]
    /\ IF current /\ life[n] = "ready"
       THEN /\ at' = [at EXCEPT ![t] = "run"] /\ Forget(t)
            /\ leases' = [leases EXCEPT ![n] = @ + 1]
       ELSE BeginRelease(t, "drop") /\ UNCHANGED leases
    /\ UNCHANGED <<redisVars, stray, life, overdue, renewalVars, nodeOf>>

\* The interval of the renewal monitor.
RenewalDue(t) ==
    /\ at[t] = "run" /\ due[t] < MaxRenewals
    /\ due' = [due EXCEPT ![t] = @ + 1]
    /\ UNCHANGED <<redisVars, stray, nodeVars, at, cmd, target, renewal, postRun, nodeOf>>

\* A mutated form: the key is no longer counted when one of its tasks ends.
CountDropped(count) == 0

\* One task of the key has ended.
CountDown(count) == count - 1

Finally(t) ==
    /\ leases' = [leases EXCEPT ![nodeOf[t]] = CountDown(@)]
    /\ BeginRelease(t, "release")
    /\ UNCHANGED <<redisVars, stray, life, overdue, owned, nodeOf>>

\* The task body resolved: the monitor stops, attempts that are overdue join
\* the chain, and the chain is awaited.
BodyEnds(t) ==
    /\ at[t] = "run"
    /\ at' = [at EXCEPT ![t] = "settle"]
    /\ \E k \in due[t] .. MaxRenewals : due' = [due EXCEPT ![t] = k]
    /\ UNCHANGED <<redisVars, stray, nodeVars, cmd, target, renewal, postRun, nodeOf>>

\* The chain has ended; lockPostRunError decides how the hooks are called.
Settled(t) ==
    /\ at[t] = "settle" /\ due[t] = 0
    /\ Finally(t)
    /\ UNCHANGED renewalVars

\* The body or a hook in front of it rejected.  What is left of the chain goes
\* on, but nobody reads its outcome.
BodyFails(t) ==
    /\ at[t] = "run"
    /\ Finally(t)
    /\ due' = [due EXCEPT ![t] = 0]
    /\ renewal' = [renewal EXCEPT ![t] = "none"]
    /\ postRun' = [postRun EXCEPT ![t] = "none"]

\* The tick's own release, or its retry, returns.  A failed release of a
\* stopped service tries the owned lock once more.
ReleaseReply(t, confirmed) ==
    LET n == nodeOf[t] IN
    /\ at[t] \in {"drop", "release", "retry"}
    /\ Returned(t, n, confirmed)
    /\ IF at[t] = "release" /\ ~confirmed /\ life[n] = "stopped" /\ CanSweep(n, TRUE)
       THEN at' = [at EXCEPT ![t] = "retry"] /\ Send(t, owned[n])
       ELSE at' = [at EXCEPT ![t] = "done"] /\ Forget(t)
    /\ UNCHANGED <<redisVars, life, overdue, leases, renewalVars, nodeOf>>

-----------------------------------------------------------------------------
(* The shutdown of a node *)

Shutdown(n) ==
    /\ n \in MayStop /\ life[n] = "ready"
    /\ life' = [life EXCEPT ![n] = "stopping"]
    /\ UNCHANGED <<redisVars, stray, overdue, owned, leases, at, cmd, target, renewalVars, nodeOf>>

DeadlinePasses(n) ==
    /\ life[n] # "ready" /\ ~overdue[n]
    /\ overdue' = [overdue EXCEPT ![n] = TRUE]
    /\ UNCHANGED <<redisVars, stray, life, owned, leases, at, cmd, target, renewalVars, nodeOf>>

\* A mutated form: shutdown waits until every task has ended.
NoTimer(n, timedOut) == ~timedOut /\ Active(n) = {}

\* waitForActiveTasks(): the tasks have ended, or the timer fires first, which
\* may be a moment before the deadline.
WaitOver(n, timedOut) == IF timedOut THEN Active(n) # {} ELSE Active(n) = {}

\* Shutdown goes on; with tasks still active it spares the locks of running
\* ones.
WaitEnds(n, timedOut) ==
    /\ life[n] = "stopping" /\ cmd[n] = "none"
    /\ WaitOver(n, timedOut)
    /\ IF CanSweep(n, timedOut)
       THEN Send(n, owned[n]) /\ UNCHANGED life
       ELSE life' = [life EXCEPT ![n] = "stopped"] /\ UNCHANGED <<cmd, target>>
    /\ UNCHANGED <<redisVars, stray, overdue, owned, leases, at, renewalVars, nodeOf>>

SweepReply(n, confirmed) ==
    /\ Returned(n, n, confirmed)
    /\ Forget(n)
    /\ life' = [life EXCEPT ![n] = "stopped"]
    /\ UNCHANGED <<redisVars, overdue, leases, at, renewalVars, nodeOf>>

\* A later shutdown hook retries what is still owned.
ShutdownAgain(n) ==
    /\ life[n] = "stopped" /\ cmd[n] = "none" /\ Active(n) = {}
    /\ CanSweep(n, FALSE)
    /\ Send(n, owned[n])
    /\ UNCHANGED <<redisVars, stray, nodeVars, at, renewalVars, nodeOf>>

-----------------------------------------------------------------------------
LeaseInit ==
    /\ holder = NoTick /\ lapsed = {} /\ stray = {}
    /\ life = [n \in Node |-> "ready"] /\ overdue = [n \in Node |-> FALSE]
    /\ owned = [n \in Node |-> NoTick] /\ leases = [n \in Node |-> 0]
    /\ nodeOf \in [Tick -> {CHOOSE n \in Node : TRUE}]
    /\ at = [t \in Tick |-> "idle"]
    /\ cmd = [p \in Caller |-> "none"] /\ target = [p \in Caller |-> NoTick]
    /\ due = [t \in Tick |-> 0] /\ renewal = [t \in Tick |-> "none"]
    /\ postRun = [t \in Tick |-> "none"]

TickStep(t) ==
    \/ \E n \in Node : BeginTick(t, n)
    \/ SetRuns(t) \/ AcquireFails(t)
    \/ RenewalDue(t) \/ RenewalRuns(t) \/ BodyEnds(t) \/ BodyFails(t) \/ Settled(t)
    \/ StrayRuns(t)
    \/ \E b \in BOOLEAN : Acquired(t, b) \/ RenewalReply(t, b) \/ ReleaseReply(t, b)

NodeStep(n) ==
    \/ Shutdown(n) \/ DeadlinePasses(n) \/ ShutdownAgain(n)
    \/ \E b \in BOOLEAN : WaitEnds(n, b) \/ SweepReply(n, b)

LeaseNext ==
    \/ Expire
    \/ \E t \in Tick : TickStep(t)
    \/ \E n \in Node : NodeStep(n)
    \/ \E p \in Caller : ReleaseRuns(p)

LeaseSpec == LeaseInit /\ [][LeaseNext]_leaseVars

\* The timers of a shutdown fire.  Nothing is assumed of Redis, which may
\* never answer, nor of the task bodies, which may hang.
LeaseFairness(n) ==
    /\ WF_leaseVars(\E b \in BOOLEAN : WaitEnds(n, b))
    /\ WF_leaseVars(SweepReply(n, FALSE))

-----------------------------------------------------------------------------
(* Properties *)

\* Type invariant of the ticks, the nodes and the Redis key.
LeaseTypeOK ==
    /\ holder \in Tick \cup Node \cup {NoTick} /\ lapsed \subseteq Tick \cup Node
    /\ stray \subseteq Tick
    /\ life \in [Node -> {"ready", "stopping", "stopped"}]
    /\ overdue \in [Node -> BOOLEAN]
    /\ nodeOf \in [Tick -> Node]
    /\ owned \in [Node -> Tick \cup {NoTick}] /\ leases \in [Node -> Nat]
    /\ at \in [Tick -> {"idle", "acquire", "skipped", "run", "settle", "drop",
                        "release", "retry", "done"}]
    /\ cmd \in [Caller -> {"none", "sent", "yes", "no"}]
    /\ target \in [Caller -> Tick \cup {NoTick}]
    /\ due \in [Tick -> 0 .. MaxRenewals]
    /\ renewal \in [Tick -> {"none", "yes", "no"}]
    /\ postRun \in [Tick -> {"none", "lost", "failed"}]

\* While a task runs, neither its node nor a stray release gives its lock away:
\* unless its lease ran out, the key holds its token, so no other tick of any
\* node runs with it (README.md: "locks held by still-running tasks are not
\* eagerly released on timeout").
HeldWhileRunning ==
    \A t \in Tick : Running(t) => TokenOf(t) \in lapsed \/ holder = TokenOf(t)

\* A lease that Redis granted, that the node knows of and that still holds the
\* key, stays in ownedLeases until a release of it is confirmed, so that the
\* shutdown can retry (README.md: "does not clear ownership until Redis
\* confirms release").
Remembered ==
    \A t \in Tick :
        /\ at[t] \in {"run", "settle", "drop", "release", "retry", "done"}
        /\ holder = TokenOf(t)
        => owned[nodeOf[t]] = t

\* A task is told that it lost its lock only when its lease ran out: neither a
\* failed renewal nor one that races its own release is taken for a loss
\* (distributed-lock-manager.ts, runLockRenewalAttempt()).
TrueLoss == \A t \in Tick : postRun[t] = "lost" => TokenOf(t) \in lapsed

\* The three together: what a node believes of its locks agrees with what Redis
\* holds, through late releases, renewals in flight and timed-out drains.
LeaseSafe == LeaseTypeOK /\ HeldWhileRunning /\ Remembered /\ TrueLoss

\* Shutdown ends although tasks hang and Redis never answers (service.ts,
\* waitForActiveTasks() and withTimeout()).
ShutdownEnds == \A n \in Node : life[n] = "stopping" ~> life[n] = "stopped"

Lock == INSTANCE LeaseLock WITH
    Claim <- Tick, Nobody <- NoTick, owner <- holder, lapsed <- lapsed,
    working <- {t \in Tick : Running(t)}

\* The scheduler and its lock manager implement the lease of LeaseLock.
ImplementsLease == Lock!Spec
=============================================================================
