--------------------------------- MODULE Cache ---------------------------------
(***************************************************************************)
(* The cache manager (packages/cache-manager): the calls of one service    *)
(* over an arbitrary store (CacheService), updates of the services that    *)
(* share a memory store (CacheUpdate) and updates of the processes that    *)
(* share a Redis (RedisUpdate), and what they promise together.            *)
(***************************************************************************)
EXTENDS CacheService, CacheUpdate, RedisUpdate

\* A reset is final for both stores: nothing that was admitted before it, and
\* on Redis nothing computed from an older epoch, is there when it is over
\* (service.ts, reset(); redis-store.ts, reset()).
ResetsFinal == ResetIsFinal /\ ResetForgets

\* The teardown of a store runs alone: after every operation and update that
\* was started before it, of whichever service (service.ts, close() and reset()).
CacheSafe ==
    /\ TypeOK /\ UpdateTypeOK /\ DistTypeOK
    /\ TeardownRunsAlone /\ CloseCoversUpdates

\* update() is atomic in one process and across processes: each store
\* implements an AtomicCell, which a successful update reads and writes at once
\* (memory-store.ts and redis-store.ts, update()).
AtomicUpdates == UpdatesAtomic /\ DistributedAtomic

\* An update whose entry was invalidated while its reducer ran gives up: it
\* neither commits nor, on Redis, tries again from the deleted entry.
InvalidatedGivenUp == InvalidatedNeverCommits /\ StaleNotRetried
=============================================================================
