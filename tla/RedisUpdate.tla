------------------------------ MODULE RedisUpdate ------------------------------
(***************************************************************************)
(* Distributed updates of one key through RedisStore                       *)
(* (packages/cache-manager/src/stores/redis-store.ts, atomicUpdates): each *)
(* update watches the data key, the epoch of the namespace and the         *)
(* invalidation marker of the key on a connection of its own, reads them,  *)
(* runs its reducer and commits with EXEC, which Redis refuses if a        *)
(* watched key was written since.  set(), del() and reset() of any process *)
(* interleave with every command; a connection may be lost at any of them. *)
(*                                                                         *)
(* Redis is external.  It applies one command or transaction at a time; a  *)
(* key that expires disappears for the clock of the process and for Redis  *)
(* at the same instant.  Epoch and marker are the call that wrote them.    *)
(***************************************************************************)
EXTENDS Naturals, Sequences

CONSTANTS
    Process,      \* processes, each with one RedisStore
    Op,           \* calls of the stores
    NoOp,       \* no call
    MaxTries   \* maxAttempts of every update

ASSUME RedisUpdateAssumption ==
    Process # {} /\ NoOp \notin Op /\ MaxTries \in Nat \ {0}

VARIABLES
    chain,     \* process -> updates registered with its CacheUpdateQueue, in order
    canceled,  \* updates whose signal is aborted
    at,        \* call -> where it is
    does,      \* call -> what it does
    where,     \* call -> its process
    data,      \* Redis: the calls the entry is made of, {} if there is none
    marks,     \* Redis: epoch and invalidation marker
    dirty,     \* Redis: updates one of whose watched keys was written
    seen,      \* update -> initialEpoch and initialInvalidation
    given,     \* update -> the value handed to its reducer
    tries,     \* update -> attempt
    lapsed,    \* updates whose snapshot has expired
    must,      \* reset -> keys its SCAN has to return
    applied,   \* updates that Redis committed
    deleted,   \* updates that a del() found under way
    fenced,    \* updates that the new epoch of a reset() found under way
    before     \* reset -> what the key held when it replaced the epoch

redisVars  == <<data, marks, dirty>>
updateLocal == <<seen, given, tries, lapsed>>
history    == <<applied, deleted, fenced, before>>
distVars   == <<chain, canceled, at, does, where, redisVars, updateLocal, must, history>>

Does == {"update", "set", "del", "reset"}
At   == {"idle", "waiting", "watched", "marked", "reducing", "exec", "refused",
         "sent", "scanning", "done", "failed"}
\* Commands of an update in flight; a failing connection fails each of them.
OnConnection == {"watched", "marked", "exec", "refused"}
MarkPair == [epoch : Op \cup {NoOp}, marker : Op \cup {NoOp}]
NoMark == [epoch |-> NoOp, marker |-> NoOp]

\* The update has read the marks of its first attempt and has not settled.
UnderWay(c) == at[c] \in {"marked", "reducing", "exec", "refused"}

Registered(p) == {c \in Op : \E i \in DOMAIN chain[p] : chain[p][i] = c}

-----------------------------------------------------------------------------
(* Redis *)

\* Every connection that watches a key which is written.
Watching == {c \in Op : at[c] \in {"watched", "marked", "reducing", "exec"}}

Writes(d, m) ==
    /\ data' = d /\ marks' = m
    /\ dirty' = dirty \cup Watching

\* A SCAN has to return the keys that exist from its beginning to its end.
Gone(keys) == must' = [c \in Op |-> must[c] \ keys]

-----------------------------------------------------------------------------
(* Calls *)

Calls(c, p, d) ==
    /\ at[c] = "idle"
    /\ does' = [does EXCEPT ![c] = d]
    /\ where' = [where EXCEPT ![c] = p]

UpdateStarts(c, p) ==
    /\ Calls(c, p, "update")
    /\ at' = [at EXCEPT ![c] = "waiting"]
    /\ chain' = [chain EXCEPT ![p] = Append(@, c)]
    /\ UNCHANGED <<canceled, redisVars, updateLocal, must, history>>

\* set() sends SET; del() and reset() first tell the updates of the process.
OtherStarts(c, p, d) ==
    /\ Calls(c, p, d)
    /\ at' = [at EXCEPT ![c] = "sent"]
    /\ canceled' = IF d = "set" THEN canceled ELSE canceled \cup Registered(p)
    /\ UNCHANGED <<chain, redisVars, updateLocal, must, history>>

CallerCancels(c) ==
    /\ c \in Registered(where[c]) \ canceled
    /\ canceled' = canceled \cup {c}
    /\ UNCHANGED <<chain, at, does, where, redisVars, updateLocal, must, history>>

\* A command that takes effect leads to `next', or is reported as failed since
\* its reply is lost.
Answered(c, next) == \E how \in {next, "failed"} : at' = [at EXCEPT ![c] = how]

SetArrives(c) ==
    /\ at[c] = "sent" /\ does[c] = "set"
    /\ Answered(c, "done")
    /\ Writes({c}, marks)
    /\ UNCHANGED <<chain, canceled, does, where, updateLocal, must, history>>

\* A deletion leaves a fresh marker behind.
Deletion(c) == [marks EXCEPT !.marker = c]

\* MULTI, SET of the marker, DEL of the data, EXEC.
DelArrives(c) ==
    /\ at[c] = "sent" /\ does[c] = "del"
    /\ Answered(c, "done")
    /\ Writes({}, Deletion(c))
    /\ Gone({"data"})
    /\ deleted' = deleted \cup {u \in Op : UnderWay(u)}
    /\ UNCHANGED <<chain, canceled, does, where, updateLocal, applied, fenced, before>>

\* reset() marks a new epoch of the namespace.
NewEpoch(c) == [marks EXCEPT !.epoch = c]

EpochArrives(c) ==
    /\ at[c] = "sent" /\ does[c] = "reset"
    /\ Answered(c, "scanning")
    /\ Writes(data, NewEpoch(c))
    /\ must' = [must EXCEPT ![c] = (IF data = {} THEN {} ELSE {"data"}) \cup
                                   (IF marks.marker = NoOp THEN {} ELSE {"marker"})]
    /\ before' = [before EXCEPT ![c] = data]
    /\ fenced' = fenced \cup {u \in Op : UnderWay(u)}
    /\ UNCHANGED <<chain, canceled, does, where, updateLocal, applied, deleted>>

\* A batch of the SCAN returned the data key or the marker.  One that was not
\* there all the time may be missed.
ScanDeletes(c, k) ==
    /\ at[c] = "scanning"
    /\ Writes(IF k = "data" THEN {} ELSE data,
              IF k = "marker" THEN [marks EXCEPT !.marker = NoOp] ELSE marks)
    /\ IF k = "data" THEN data # {} ELSE marks.marker # NoOp
    /\ Gone({k})
    /\ UNCHANGED <<chain, canceled, at, does, where, updateLocal, history>>

\* The cursor has come back to 0.
CursorDone(c) == must[c] = {}

ScanEnds(c) ==
    /\ at[c] = "scanning" /\ CursorDone(c)
    /\ at' = [at EXCEPT ![c] = "done"]
    /\ UNCHANGED <<chain, canceled, does, where, redisVars, updateLocal, must, history>>

\* A command of set(), del() or reset() fails; what a reset() did before stays,
\* the last deletion of its SCAN included.
CallFails(c) ==
    /\ at[c] \in {"sent", "scanning"}
    /\ at' = [at EXCEPT ![c] = "failed"]
    /\ UNCHANGED <<chain, canceled, does, where, redisVars, updateLocal, must, history>>

\* The entry expires.
KeyExpires ==
    /\ data # {}
    /\ Writes({}, marks)
    /\ lapsed' = lapsed \cup {c \in Op : UnderWay(c) /\ given[c] # {}}
    /\ Gone({"data"})
    /\ UNCHANGED <<chain, canceled, at, does, where, seen, given, tries, history>>

-----------------------------------------------------------------------------
(* updateWatched() *)

\* The update settles: its connection is closed and the next one may begin.
Leaves(c) ==
    /\ at' = [at EXCEPT ![c] = "done"]
    /\ chain' = [chain EXCEPT ![where[c]] = Tail(@)]

\* WATCH begins anew on the connection.
Watches(c) == dirty \ {c}

\* The head of the queue starts its first attempt.
WatchFirst(c) ==
    /\ at[c] = "waiting" /\ Head(chain[where[c]]) = c
    /\ IF c \in canceled
       THEN Leaves(c) /\ UNCHANGED <<dirty, tries>>
       ELSE /\ at' = [at EXCEPT ![c] = "watched"]
            /\ dirty' = Watches(c)
            /\ tries' = [tries EXCEPT ![c] = 1]
            /\ UNCHANGED chain
    /\ UNCHANGED <<canceled, does, where, data, marks, seen, given, lapsed, must, history>>

\* A retry found an epoch or a marker other than that of the first attempt.
MarksMoved(c) == tries[c] > 1 /\ seen[c] # marks

ReadMarks(c) ==
    /\ at[c] = "watched"
    /\ IF MarksMoved(c)
       THEN Leaves(c) /\ UNCHANGED seen
       ELSE /\ at' = [at EXCEPT ![c] = "marked"]
            /\ seen' = [seen EXCEPT ![c] = marks]
            /\ UNCHANGED chain
    /\ UNCHANGED <<canceled, does, where, redisVars, given, tries, lapsed, must, history>>

ReadData(c) ==
    /\ at[c] = "marked"
    /\ IF c \in canceled
       THEN Leaves(c) /\ UNCHANGED <<given, lapsed>>
       ELSE /\ at' = [at EXCEPT ![c] = "reducing"]
            /\ given' = [given EXCEPT ![c] = data]
            /\ lapsed' = lapsed \ {c}
            /\ UNCHANGED chain
    /\ UNCHANGED <<canceled, does, where, redisVars, seen, tries, must, history>>

\* The reducer failed, was told, or its snapshot expired; or EXEC is sent.
ReducerEnds(c) ==
    /\ at[c] = "reducing"
    /\ \/ Leaves(c)
       \/ /\ c \notin canceled \cup lapsed
          /\ at' = [at EXCEPT ![c] = "exec"]
          /\ UNCHANGED chain
    /\ UNCHANGED <<canceled, does, where, redisVars, updateLocal, must, history>>

\* A mutated form: the transaction does not depend on what was watched.
AlwaysCommits(c) == TRUE

\* EXEC is refused after a write to a watched key.
Clean(c) == c \notin dirty

\* Redis runs the transaction of c: it sets the value or deletes the key and
\* marks the deletion.
Transaction(c) ==
    /\ \/ Writes(given[c] \cup {c}, marks) /\ UNCHANGED must
       \/ Writes({}, Deletion(c)) /\ Gone({"data"})
    /\ applied' = applied \cup {c}

ExecArrives(c) ==
    /\ at[c] = "exec"
    /\ \/ /\ Clean(c)
          /\ Transaction(c)
          /\ Leaves(c)
       \/ /\ ~Clean(c)
          /\ at' = [at EXCEPT ![c] = "refused"]
          /\ UNCHANGED <<chain, redisVars, must, applied>>
    /\ UNCHANGED <<canceled, does, where, updateLocal, deleted, fenced, before>>

\* The reply to EXEC is lost after it was applied: the caller is told of an
\* error.
ReplyLost(c) ==
    /\ at[c] = "exec" /\ Clean(c)
    /\ Transaction(c)
    /\ Leaves(c)
    /\ UNCHANGED <<canceled, does, where, updateLocal, deleted, fenced, before>>

\* The connection is lost with a command under way that was not applied.
ConnectionLost(c) ==
    /\ at[c] \in OnConnection
    /\ Leaves(c)
    /\ UNCHANGED <<canceled, does, where, redisVars, updateLocal, must, history>>

\* After a refusal the marks and the data are read again: another attempt only
\* if all that happened is an ordinary write.
OrdinaryConflict(c) == seen[c] = marks /\ data # {}

AfterRefusal(c) ==
    /\ at[c] = "refused"
    /\ IF c \notin canceled /\ OrdinaryConflict(c) /\ tries[c] < MaxTries
       THEN /\ at' = [at EXCEPT ![c] = "watched"]
            /\ dirty' = Watches(c)
            /\ tries' = [tries EXCEPT ![c] = @ + 1]
            /\ UNCHANGED chain
       ELSE Leaves(c) /\ UNCHANGED <<dirty, tries>>
    /\ UNCHANGED <<canceled, does, where, data, marks, seen, given, lapsed, must, history>>

-----------------------------------------------------------------------------
DistInit ==
    /\ chain = [p \in Process |-> <<>>] /\ canceled = {}
    /\ at = [c \in Op |-> "idle"] /\ does = [c \in Op |-> "set"]
    /\ where = [c \in Op |-> CHOOSE p \in Process : TRUE]
    /\ data = {} /\ marks = NoMark /\ dirty = {}
    /\ seen = [c \in Op |-> NoMark] /\ given = [c \in Op |-> {}]
    /\ tries = [c \in Op |-> 0] /\ lapsed = {}
    /\ must = [c \in Op |-> {}]
    /\ applied = {} /\ deleted = {} /\ fenced = {} /\ before = [c \in Op |-> {}]

\* What the stores and Redis do by themselves, and the reducers.
Advance(c) ==
    \/ SetArrives(c) \/ DelArrives(c) \/ EpochArrives(c) \/ ScanEnds(c) \/ CallFails(c)
    \/ \E k \in {"data", "marker"} : ScanDeletes(c, k)
    \/ WatchFirst(c) \/ ReadMarks(c) \/ ReadData(c) \/ ReducerEnds(c)
    \/ ExecArrives(c) \/ ReplyLost(c) \/ ConnectionLost(c) \/ AfterRefusal(c)

DistNext ==
    \/ KeyExpires
    \/ \E c \in Op :
          \/ Advance(c)
          \/ CallerCancels(c)
          \/ \E p \in Process :
                UpdateStarts(c, p) \/ \E d \in Does \ {"update"} : OtherStarts(c, p, d)

DistSpec == DistInit /\ [][DistNext]_distVars

-----------------------------------------------------------------------------
\* The types, and that exactly the updates under way are registered.
DistTypeOK ==
    /\ chain \in [Process -> Seq(Op)] /\ canceled \subseteq Op
    /\ at \in [Op -> At] /\ does \in [Op -> Does] /\ where \in [Op -> Process]
    /\ data \subseteq Op /\ marks \in MarkPair /\ dirty \subseteq Op
    /\ seen \in [Op -> MarkPair] /\ given \in [Op -> SUBSET Op]
    /\ tries \in [Op -> 0 .. MaxTries] /\ lapsed \subseteq Op
    /\ must \in [Op -> SUBSET {"data", "marker"}]
    /\ {applied, deleted, fenced} \subseteq SUBSET Op /\ before \in [Op -> SUBSET Op]
    /\ \A c \in Op : c \in Registered(where[c]) <=>
          does[c] = "update" /\ at[c] \notin {"idle", "done", "failed"}

\* Updates of several processes take effect one at a time, each on what the key
\* holds at that instant, although each works on a snapshot and connections
\* are lost: no competing write, deletion, reset or expiry is lost or undone.
DistCell == INSTANCE AtomicCell WITH Call <- Op, cell <- data, applied <- applied
DistributedAtomic == DistCell!Spec

\* An update that the new epoch of a reset(), or a del() of any process, found
\* under way is given up and not tried again on what was written later.  The
\* one exception is a del() while a reset() is under way or after: the scan
\* deletes its marker.
StaleNotRetried ==
    /\ fenced \cap applied = {}
    /\ deleted \cap applied # {} => \E d \in Op : does[d] = "reset" /\ at[d] # "sent"

\* Once reset() has succeeded the key holds nothing computed from what it held
\* when the reset began, although the scan deletes keys one batch at a time.
ResetForgets ==
    \A c \in Op : does[c] = "reset" /\ at[c] = "done" => data \cap before[c] = {}
=============================================================================
