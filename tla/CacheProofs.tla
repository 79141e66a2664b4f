------------------------------ MODULE CacheProofs ------------------------------
(***************************************************************************)
(* Proofs about the cache manager, for any number of keys, calls,          *)
(* services, processes and attempts: the updates of a MemoryStore          *)
(* (CacheUpdate) and those that processes make through Redis (RedisUpdate) *)
(* both implement an AtomicCell; the service over its operation scheduler  *)
(* (CacheService) keeps resets final, loads shared and teardowns alone.    *)
(***************************************************************************)
EXTENDS Cache, TLAPS

(* The parts of the inductive invariant of RedisUpdate *)

\* An update whose call has not returned.
Waits(c) == at[c] \in {"waiting", "watched", "marked", "reducing", "exec", "refused"}

\* It has begun its first attempt.
Engaged(c) == at[c] \in {"watched", "marked", "reducing", "exec", "refused"}

Distinct(s) == \A i, j \in DOMAIN s : s[i] = s[j] => i = j

\* The elements of a queue.
In(s) == {s[i] : i \in DOMAIN s}

\* The updates of a process wait in its queue, each once, and only the first
\* of them is engaged.
ChainSound ==
    /\ \A p \in Process : Distinct(chain[p])
    /\ \A p \in Process : \A c \in In(chain[p]) : where[c] = p /\ Waits(c)
    /\ \A c \in Op : Waits(c) => does[c] = "update" /\ c \in In(chain[where[c]])
    /\ \A c \in Op : Engaged(c) => Head(chain[where[c]]) = c
    /\ \A c \in Op : at[c] \in {"sent", "scanning", "failed"} => does[c] # "update"
    /\ \A c \in Op : at[c] = "scanning" => does[c] = "reset"
    /\ \A c \in Op : at[c] = "idle" => does[c] = "set"

\* What an update was given is what the key holds, unless EXEC will be refused.
WatchSound ==
    \A c \in Op : at[c] \in {"reducing", "exec"} /\ c \notin dirty => given[c] = data

\* Whatever was written or applied belongs to calls that are over.
Over(S) == \A c \in S : at[c] \in {"done", "failed"}

WritersOver ==
    /\ Over(data) /\ Over(applied) /\ applied \subseteq {c \in Op : does[c] = "update"}
    /\ \A c \in Op : Over(before[c])

\* A mark comes from a reset that has begun its scan or has failed, or from a
\* call that is over.
IsEpoch(e) == e = NoOp \/ (does[e] = "reset" /\ at[e] \in {"scanning", "done", "failed"})
IsMarker(m) == m = NoOp \/ at[m] \in {"done", "failed"}

MarksSound ==
    /\ IsEpoch(marks.epoch) /\ IsMarker(marks.marker)
    /\ \A c \in Op : IsEpoch(seen[c].epoch) /\ IsMarker(seen[c].marker)

\* An update that lost what it had watched: EXEC refuses it.
Refused(c) == at[c] = "refused" \/ (UnderWay(c) /\ c \in dirty)

ResetBegun == \E d \in Op : does[d] = "reset" /\ at[d] # "sent"

\* What a new epoch or a deletion found under way is over without effect, or
\* will be refused and find other marks than it has seen.
FencedSound ==
    /\ \A c \in fenced \ applied : at[c] = "done" \/
          (Refused(c) /\ seen[c].epoch # marks.epoch)
    /\ fenced \cap applied = {}

DeletedSound ==
    \/ ResetBegun
    \/ /\ \A c \in deleted \ applied : at[c] = "done" \/
             (Refused(c) /\ seen[c].marker # marks.marker)
       /\ deleted \cap applied = {}

\* While the scan of a reset has not returned the data key, and only then, the
\* key may hold something of what the reset found.
ScanSound ==
    \A c \in Op : does[c] = "reset" /\ at[c] \in {"scanning", "done"} =>
        data \cap before[c] = {} \/ (at[c] = "scanning" /\ "data" \in must[c])

FlowTyped ==
    /\ chain \in [Process -> Seq(Op)] /\ canceled \subseteq Op
    /\ at \in [Op -> At] /\ does \in [Op -> Does] /\ where \in [Op -> Process]

RedisTyped ==
    /\ data \subseteq Op /\ marks \in MarkPair /\ dirty \subseteq Op
    /\ seen \in [Op -> MarkPair] /\ given \in [Op -> SUBSET Op]
    /\ tries \in [Op -> 0 .. MaxTries] /\ lapsed \subseteq Op
    /\ must \in [Op -> SUBSET {"data", "marker"}]
    /\ {applied, deleted, fenced} \subseteq SUBSET Op /\ before \in [Op -> SUBSET Op]

DistInv ==
    /\ FlowTyped /\ RedisTyped /\ ChainSound /\ WatchSound /\ WritersOver /\ MarksSound
    /\ FencedSound /\ DeletedSound /\ ScanSound

-----------------------------------------------------------------------------
(* The parts of the inductive invariant of CacheUpdate *)

LastOf(s) == s[Len(s)]

CallsTyped ==
    /\ shut \in [Service -> BOOLEAN] /\ line \in [Service -> Seq(Caller)]
    /\ tail \in Seq(Caller) /\ aborted \subseteq Caller /\ met \subseteq Caller
    /\ phase \in [Caller -> Phase] /\ act \in [Caller -> Act] /\ home \in [Caller -> Service]

EntryTyped ==
    /\ entry \in Entry /\ snap \in [Caller -> Entry]
    /\ attempt \in [Caller -> 0 .. MaxAttempts] /\ now \in 0 .. MaxTime

\* Registered with the store and not settled.
Open(c) == act[c] = "update" /\ phase[c] \in {"queued", "admitted", "reducing"}

\* A call waits in the line of its service until it is admitted, each once.
LineSound ==
    /\ \A s \in Service : Distinct(line[s])
    /\ \A s \in Service : \A c \in In(line[s]) : phase[c] = "queued" /\ home[c] = s
    /\ \A c \in Caller : phase[c] = "queued" => c \in In(line[home[c]])

\* An update is in the queue of the store until it settles, and only the first
\* one runs its reducer.
TailSound ==
    /\ Distinct(tail)
    /\ \A c \in In(tail) : Open(c)
    /\ \A c \in Caller : Open(c) => c \in In(tail)
    /\ \A c \in Caller : phase[c] = "reducing" => Head(tail) = c

ActsSound ==
    /\ \A c \in Caller : phase[c] \in {"admitted", "reducing", "committed", "failed"} =>
          act[c] = "update"
    /\ \A c \in Caller : phase[c] = "idle" => act[c] = "set"

\* Nothing follows a close() in its line, and nothing is under way after it.
ClosesSound ==
    \A c \in Caller : act[c] = "close" =>
        /\ shut[home[c]]
        /\ phase[c] = "queued" => LastOf(line[home[c]]) = c
        /\ phase[c] # "queued" =>
              \A d \in Caller : home[d] = home[c] =>
                  phase[d] \notin {"queued", "admitted", "reducing"}

\* The call is the identity of the entry it wrote: what has the identity of a
\* snapshot is the snapshot.
IsEntry(e) ==
    IF e.by = NoCall THEN e = NoEntry ELSE phase[e.by] \in {"done", "committed"}

EntrySound ==
    /\ IsEntry(entry) /\ \A c \in Caller : IsEntry(snap[c])
    /\ \A c \in Caller : entry.by = snap[c].by => entry = snap[c]

\* Whoever met an invalidation is told and has not committed.
MetSound == met \subseteq aborted /\ \A c \in met : phase[c] # "committed"

UpdateInv ==
    /\ CallsTyped /\ EntryTyped /\ LineSound /\ TailSound /\ ActsSound /\ ClosesSound
    /\ EntrySound /\ MetSound

-----------------------------------------------------------------------------
(* The parts of the inductive invariant of CacheService *)

\* An operation of a call is the one that the call awaits.
Fits(l, k) ==
    \/ l \in Kind /\ k = l
    \/ l = "reading" /\ k = "get"
    \/ l = "writing" /\ k = "set"
    \/ l = "undoing" /\ k = "del"

OpsSound ==
    /\ \A c \in Call : op[c] = "none" \/ Fits(pc[c], opKind[c])
    /\ \A c \in Call : op[c] = "skipped" => cacheClosed
    /\ Distinct(queue)
    /\ \A c \in Call : c \in In(queue) <=> op[c] = "queued"

ExclusiveAlone ==
    \A c, d \in Call : c # d /\ opKind[c] \in Exclusive /\ Started(c) => ~Started(d)

\* There is one close(), and the store is torn down once it has run.
TeardownSound ==
    /\ \A c \in Call : opKind[c] = "close" => cacheClosed /\ pc[c] \in {"close", "done"}
    /\ \A c, d \in Call : opKind[c] = "close" /\ opKind[d] = "close" => c = d
    /\ storeClosed =>
          /\ \E c \in Call : opKind[c] = "close" /\ op[c] \notin {"queued", "running"}
          /\ \A d \in Call : op[d] # "running"

GenerationsSound == lastReset <= version /\ \A c \in Call : gen[c] <= version

\* A load that is to write its value.
Writer(c) == pc[c] = "writing" /\ op[c] \in {"queued", "running"}

\* A load that is written after a reset() belongs to a later generation.
ResetOrder ==
    /\ \A i, j \in DOMAIN queue :
          i < j /\ pc[queue[i]] = "reset" /\ pc[queue[j]] = "writing" =>
              gen[queue[i]] <= gen[queue[j]]
    /\ \A r, w \in Call : pc[r] = "reset" /\ Started(r) /\ Writer(w) => gen[r] <= gen[w]
    /\ \A w \in Call : Writer(w) => lastReset <= gen[w]
    /\ \A r \in Call : pc[r] = "reset" /\ op[r] = "applied" =>
          \A k \in Key : store[k].by = "load" => gen[r] <= store[k].gen

\* The load of the current generation is the one in flight.
Loads(c) == pc[c] \in {"loading", "writing", "undoing"}

LoadsSound == \A c \in Call : Loads(c) /\ gen[c] = version => inflight[key[c]] = c

\* A load that a del() of its key met knows it, or belongs to the past.
StampsSound ==
    /\ \A c \in Call : pc[c] = "del" => stamp[c] <= invs[key[c]]
    /\ \A k \in Key : lastDel[k] <= invs[k]
    /\ \A c \in Call : Loads(c) /\ stamp[c] < invs[key[c]] => invalidated[c] \/ gen[c] # version

\* The load has written a value that the del() numbered n removed, and has not
\* deleted it again.
Amends(c, k, n) ==
    /\ key[c] = k /\ stamp[c] < n
    /\ \/ pc[c] = "writing" /\ op[c] = "applied"
       \/ pc[c] = "undoing" /\ op[c] \in {"queued", "running", "skipped"}

\* Deletions of the key that have reached the store.
DeletionsOf(k) ==
    {lastDel[k]} \cup
    {stamp[d] : d \in {c \in Call : pc[c] = "del" /\ key[c] = k /\ op[c] = "applied"}}

StaleSound ==
    \A k \in Key : \A n \in DeletionsOf(k) :
        store[k].by = "load" /\ store[k].stamp < n =>
            k \in unsure \cup abandoned \/ \E c \in Call : Amends(c, k, n)

ServiceInv ==
    /\ TypeOK /\ OpsSound /\ ExclusiveAlone /\ TeardownSound /\ GenerationsSound
    /\ ResetOrder /\ ResetIsFinal /\ LoadsSound /\ Coalesced /\ StampsSound /\ StaleSound

-----------------------------------------------------------------------------
(* Queues *)

\* An update joins a queue it is not in.
LEMMA JoinsQueue ==
    ASSUME NEW S, NEW s \in Seq(S), NEW c \in S, Distinct(s), c \notin In(s)
    PROVE  /\ Append(s, c) \in Seq(S) /\ Distinct(Append(s, c))
           /\ In(Append(s, c)) = In(s) \cup {c}
           /\ s # <<>> => Head(Append(s, c)) = Head(s)
<1> DEFINE t == Append(s, c)
<1>1. t \in Seq(S) /\ Len(t) = Len(s) + 1 /\ Len(s) \in Nat
  OBVIOUS
<1>2. t[Len(s) + 1] = c /\ \A i \in 1 .. Len(s) : t[i] = s[i]
  OBVIOUS
<1>3. DOMAIN s = 1 .. Len(s) /\ DOMAIN t = 1 .. Len(s) + 1
  BY <1>1
<1> HIDE DEF t
<1>4. \A i \in DOMAIN t : i \in DOMAIN s \/ i = Len(s) + 1
  BY <1>1, <1>3
<1>5. In(t) = In(s) \cup {c}
  BY <1>1, <1>2, <1>3, <1>4 DEF In
<1>6. Distinct(t)
  BY <1>1, <1>2, <1>3, <1>4 DEF Distinct, In
<1>7. s # <<>> => t[1] = s[1]
  BY <1>1, <1>2
<1> QED
  BY <1>1, <1>5, <1>6, <1>7 DEF t

\* The first update leaves the queue.
LEMMA LeavesQueue ==
    ASSUME NEW S, NEW s \in Seq(S), s # <<>>, Distinct(s)
    PROVE  /\ Tail(s) \in Seq(S) /\ Distinct(Tail(s)) /\ Head(s) \in In(s)
           /\ In(Tail(s)) = In(s) \ {Head(s)}
<1> DEFINE t == Tail(s)
<1>1. t \in Seq(S) /\ Len(t) = Len(s) - 1 /\ Len(s) \in Nat \ {0} /\ Head(s) = s[1]
  OBVIOUS
<1>2. \A i \in 1 .. Len(s) - 1 : t[i] = s[i + 1]
  OBVIOUS
<1>3. DOMAIN s = 1 .. Len(s) /\ DOMAIN t = 1 .. Len(s) - 1
  BY <1>1
<1> HIDE DEF t
<1>4. /\ \A i \in DOMAIN t : i + 1 \in DOMAIN s /\ i + 1 # 1 /\ t[i] = s[i + 1]
      /\ \A i \in DOMAIN s : i = 1 \/ (i - 1 \in DOMAIN t /\ t[i - 1] = s[i])
      /\ 1 \in DOMAIN s
  BY <1>1, <1>2, <1>3
<1>5. In(t) = In(s) \ {s[1]}
  <2>1. ASSUME NEW x \in In(t) PROVE x \in In(s) \ {s[1]}
    BY <2>1, <1>4 DEF In, Distinct
  <2>2. ASSUME NEW x \in In(s) \ {s[1]} PROVE x \in In(t)
    BY <2>2, <1>4 DEF In
  <2> QED
    BY <2>1, <2>2
<1>6. Distinct(t)
  <2> SUFFICES ASSUME NEW i \in DOMAIN t, NEW j \in DOMAIN t, t[i] = t[j] PROVE i = j
    BY DEF Distinct
  <2>1. i + 1 = j + 1
    BY <1>4 DEF Distinct
  <2> QED
    BY <2>1, <1>1, <1>3
<1>7. s[1] \in In(s)
  BY <1>4 DEF In
<1> QED
  BY <1>1, <1>5, <1>6, <1>7 DEF t

-----------------------------------------------------------------------------
(* RedisUpdate: who waits for whom *)

\* `Registered' and `In' say the same, and the last conjunct of DistTypeOK
\* follows from ChainSound.
LEMMA TypesFollow ==
    ASSUME FlowTyped, RedisTyped, ChainSound
    PROVE  /\ DistTypeOK
           /\ \A p \in Process : Registered(p) = In(chain[p])
<1>1. \A p \in Process : Registered(p) = In(chain[p])
  <2> SUFFICES ASSUME NEW p \in Process PROVE Registered(p) = In(chain[p])
    OBVIOUS
  <2>1. chain[p] \in Seq(Op)
    BY DEF FlowTyped
  <2>2. \A i \in DOMAIN chain[p] : chain[p][i] \in Op
    BY <2>1
  <2> QED
    BY <2>2 DEF Registered, In
<1>2. \A c \in Op : Waits(c) <=> does[c] = "update" /\ at[c] \notin {"idle", "done", "failed"}
  BY DEF Waits, FlowTyped, ChainSound, At
<1>3. \A c \in Op : c \in In(chain[where[c]]) <=> Waits(c)
  BY DEF ChainSound, FlowTyped
<1> QED
  BY <1>1, <1>2, <1>3 DEF DistTypeOK, FlowTyped, RedisTyped

\* The head of a queue leaves it.
LEMMA HeadLeaves ==
    ASSUME FlowTyped, ChainSound, NEW c \in Op, Waits(c), Head(chain[where[c]]) = c,
           Leaves(c), UNCHANGED <<does, where, canceled>>
    PROVE  FlowTyped' /\ ChainSound'
<1> PICK p \in Process : p = where[c]
  BY DEF FlowTyped
<1> DEFINE q == chain[p]
<1>1. q \in Seq(Op) /\ Distinct(q) /\ c \in In(q) /\ Head(q) = c
  BY DEF FlowTyped, ChainSound
<1>2. q # <<>>
  BY <1>1 DEF In
<1>3. Tail(q) \in Seq(Op) /\ Distinct(Tail(q)) /\ In(Tail(q)) = In(q) \ {c}
  BY <1>1, <1>2, LeavesQueue
<1>4. chain' = [chain EXCEPT ![p] = Tail(q)] /\ at' = [at EXCEPT ![c] = "done"]
  BY DEF Leaves
<1>5. /\ chain'[p] = Tail(q) /\ \A r \in Process \ {p} : chain'[r] = chain[r]
      /\ at'[c] = "done" /\ \A d \in Op \ {c} : at'[d] = at[d]
  BY <1>4 DEF FlowTyped
<1>6. FlowTyped'
  BY <1>3, <1>4 DEF FlowTyped, At
<1> HIDE DEF q
<1>7. \A d \in Op : (Waits(d)' <=> Waits(d) /\ d # c) /\ (Engaged(d)' <=> Engaged(d) /\ d # c)
  BY <1>5 DEF Waits, Engaged
<1>8. \A r \in Process : Distinct(chain[r])'
  BY <1>3, <1>5 DEF ChainSound, Distinct
<1>9. \A r \in Process : In(chain[r])' = In(chain[r]) \ {c}
  <2> SUFFICES ASSUME NEW r \in Process PROVE In(chain[r])' = In(chain[r]) \ {c}
    OBVIOUS
  <2>1. CASE r = p
    BY <2>1, <1>3, <1>5 DEF q
  <2>2. CASE r # p
    <3>1. c \notin In(chain[r])
      BY <2>2 DEF ChainSound
    <3> QED
      BY <3>1, <2>2, <1>5 DEF In
  <2> QED
    BY <2>1, <2>2
<1>10. ASSUME NEW d \in Op, Engaged(d), d # c PROVE Head(chain[where[d]])' = d
  <2>1. where[d] \in Process /\ Head(chain[where[d]]) = d
    BY <1>10 DEF ChainSound, FlowTyped
  <2>2. where[d] # p
    BY <2>1, <1>1, <1>10 DEF q
  <2> QED
    BY <2>1, <2>2, <1>5
<1>11. \A r \in Process : \A d \in In(chain[r])' : where'[d] = r /\ Waits(d)'
  <2> SUFFICES ASSUME NEW r \in Process, NEW d \in In(chain[r])'
               PROVE  where'[d] = r /\ Waits(d)'
    OBVIOUS
  <2>1. d \in In(chain[r]) /\ d # c
    BY <1>9
  <2>2. d \in Op
    <3>1. chain[r] \in Seq(Op)
      BY DEF FlowTyped
    <3> QED
      BY <2>1, <3>1 DEF In
  <2> QED
    BY <2>1, <2>2, <1>7 DEF ChainSound
<1>12. \A d \in Op : Waits(d)' => does'[d] = "update" /\ d \in In(chain[where[d]])'
  <2> SUFFICES ASSUME NEW d \in Op, Waits(d)'
               PROVE  does'[d] = "update" /\ d \in In(chain[where[d]])'
    OBVIOUS
  <2>1. Waits(d) /\ d # c /\ where[d] \in Process /\ where'[d] = where[d]
    BY <1>7 DEF FlowTyped
  <2>2. does[d] = "update" /\ d \in In(chain[where[d]])
    BY <2>1 DEF ChainSound
  <2>3. PICK r \in Process : r = where[d] /\ r = where'[d]
    BY <2>1
  <2>4. d \in In(chain[r])'
    BY <2>1, <2>2, <2>3, <1>9
  <2> QED
    BY <2>2, <2>3, <2>4
<1>13. \A d \in Op : Engaged(d)' => Head(chain[where[d]])' = d
  BY <1>7, <1>10
<1>14. /\ \A d \in Op : at'[d] \in {"sent", "scanning", "failed"} => does'[d] # "update"
       /\ \A d \in Op : at'[d] = "scanning" => does'[d] = "reset"
       /\ \A d \in Op : at'[d] = "idle" => does'[d] = "set"
  BY <1>5 DEF ChainSound
<1> QED
  BY <1>6, <1>8, <1>11, <1>12, <1>13, <1>14 DEF ChainSound

\* The head of a queue goes on with its attempt or begins one.
LEMMA HeadAdvances ==
    ASSUME FlowTyped, ChainSound, NEW c \in Op, Waits(c), Head(chain[where[c]]) = c,
           NEW a \in {"watched", "marked", "reducing", "exec", "refused"},
           at' = [at EXCEPT ![c] = a], UNCHANGED <<chain, does, where, canceled>>
    PROVE  FlowTyped' /\ ChainSound'
<1>1. FlowTyped'
  BY DEF FlowTyped, At
<1>2. at'[c] = a /\ \A d \in Op \ {c} : at'[d] = at[d]
  BY DEF FlowTyped
<1>3. \A d \in Op : (Waits(d)' <=> Waits(d)) /\ (Engaged(d)' <=> Engaged(d) \/ d = c)
  BY <1>2 DEF Waits, Engaged
<1>4. \A p \in Process : \A d \in In(chain[p]) : d \in Op
  BY DEF In, FlowTyped
<1> QED
  BY <1>1, <1>2, <1>3, <1>4 DEF ChainSound

\* A set(), del() or reset() goes on or is over.
LEMMA OtherAdvances ==
    ASSUME FlowTyped, ChainSound, NEW c \in Op, at[c] \in {"sent", "scanning"},
           NEW a \in {"scanning", "done", "failed"}, a = "scanning" => does[c] = "reset",
           at' = [at EXCEPT ![c] = a], UNCHANGED <<chain, does, where, canceled>>
    PROVE  FlowTyped' /\ ChainSound'
<1>1. FlowTyped'
  BY DEF FlowTyped, At
<1>2. at'[c] = a /\ \A d \in Op \ {c} : at'[d] = at[d]
  BY DEF FlowTyped
<1>3. \A d \in Op : (Waits(d)' <=> Waits(d)) /\ (Engaged(d)' <=> Engaged(d))
  BY <1>2 DEF Waits, Engaged
<1>4. \A p \in Process : \A d \in In(chain[p]) : d \in Op
  BY DEF In, FlowTyped
<1> QED
  BY <1>1, <1>2, <1>3, <1>4 DEF ChainSound

\* A call is made that does not join a queue.
LEMMA OtherCalls ==
    ASSUME FlowTyped, ChainSound, NEW c \in Op, NEW p \in Process,
           NEW d \in Does \ {"update"}, OtherStarts(c, p, d)
    PROVE  FlowTyped' /\ ChainSound'
<1>0. \A q \in Process : \A e \in In(chain[q]) : e \in Op
  BY DEF In, FlowTyped
<1>1. canceled' \subseteq Op
  BY DEF OtherStarts, FlowTyped, Registered
<1>2. FlowTyped'
  BY <1>1 DEF OtherStarts, Calls, FlowTyped, At
<1>3. /\ at'[c] = "sent" /\ does'[c] = d /\ at[c] = "idle" /\ chain' = chain
      /\ \A e \in Op \ {c} : at'[e] = at[e] /\ does'[e] = does[e] /\ where'[e] = where[e]
  BY DEF OtherStarts, Calls, FlowTyped
<1>4. \A e \in Op : (Waits(e)' <=> Waits(e)) /\ (Engaged(e)' <=> Engaged(e))
                    /\ (Waits(e) \/ Engaged(e) => e # c)
  BY <1>3 DEF Waits, Engaged
<1>5. \A q \in Process : \A e \in In(chain[q]) : e # c
  BY <1>3, <1>4, <1>0 DEF ChainSound
<1> QED
  BY <1>0, <1>2, <1>3, <1>4, <1>5 DEF ChainSound

\* An update joins the queue of its process.
LEMMA UpdateJoins ==
    ASSUME FlowTyped, ChainSound, NEW c \in Op, NEW p \in Process, UpdateStarts(c, p)
    PROVE  FlowTyped' /\ ChainSound'
<1> DEFINE q == chain[p]
<1>1. /\ at[c] = "idle" /\ chain' = [chain EXCEPT ![p] = Append(q, c)]
      /\ at' = [at EXCEPT ![c] = "waiting"] /\ does' = [does EXCEPT ![c] = "update"]
      /\ where' = [where EXCEPT ![c] = p] /\ canceled' = canceled
  BY DEF UpdateStarts, Calls
<1>2. \A r \in Process : chain[r] \in Seq(Op) /\ Distinct(chain[r]) /\ c \notin In(chain[r])
  BY <1>1 DEF FlowTyped, ChainSound, Waits
<1>3. /\ Append(q, c) \in Seq(Op) /\ Distinct(Append(q, c))
      /\ In(Append(q, c)) = In(q) \cup {c}
      /\ q # <<>> => Head(Append(q, c)) = Head(q)
  BY <1>2, JoinsQueue
<1>4. FlowTyped'
  BY <1>1, <1>3 DEF FlowTyped, At, Does
<1>5. /\ chain'[p] = Append(q, c) /\ \A r \in Process \ {p} : chain'[r] = chain[r]
      /\ at'[c] = "waiting" /\ does'[c] = "update" /\ where'[c] = p
      /\ \A e \in Op \ {c} : at'[e] = at[e] /\ does'[e] = does[e] /\ where'[e] = where[e]
  BY <1>1 DEF FlowTyped
<1> HIDE DEF q
<1>6. \A e \in Op : (Waits(e)' <=> Waits(e) \/ e = c) /\ (Engaged(e)' <=> Engaged(e) /\ e # c)
  BY <1>1, <1>5 DEF Waits, Engaged
<1>7. \A r \in Process : In(chain[r])' = In(chain[r]) \cup (IF r = p THEN {c} ELSE {})
  BY <1>3, <1>5 DEF In, q
<1>8. \A r \in Process : Distinct(chain[r])'
  BY ZenonT(40), <1>2, <1>3, <1>5 DEF Distinct
<1>9. \A r \in Process : \A e \in In(chain[r]) : e \in Op /\ e # c
  BY <1>2 DEF In
<1>10. \A r \in Process : \A e \in In(chain[r])' : where'[e] = r /\ Waits(e)'
  BY <1>5, <1>6, <1>7, <1>9 DEF ChainSound
<1>11. \A e \in Op : Waits(e)' => does'[e] = "update" /\ e \in In(chain[where[e]])'
  <2> SUFFICES ASSUME NEW e \in Op, Waits(e)'
               PROVE  does'[e] = "update" /\ e \in In(chain[where[e]])'
    OBVIOUS
  <2>1. PICK r \in Process : r = where'[e]
    BY <1>4 DEF FlowTyped
  <2>2. does'[e] = "update" /\ e \in In(chain[r])'
    BY SMTT(30), <2>1, <1>5, <1>6, <1>7 DEF ChainSound
  <2> QED
    BY <2>1, <2>2
<1>12. ASSUME NEW e \in Op, Engaged(e), e # c PROVE Head(chain[where[e]])' = e
  <2>1. PICK r \in Process : r = where[e]
    BY DEF FlowTyped
  <2>2. Head(chain[r]) = e /\ e \in In(chain[r])
    BY <2>1, <1>12 DEF ChainSound, Waits, Engaged
  <2>3. chain[r] # <<>>
    BY <2>2 DEF In
  <2>4. Head(chain'[r]) = e
    BY <2>2, <2>3, <1>3, <1>5 DEF q
  <2> QED
    BY <2>1, <2>4, <1>12, <1>5
<1>13. \A e \in Op : Engaged(e)' => Head(chain[where[e]])' = e
  BY <1>6, <1>12
<1>14. /\ \A e \in Op : at'[e] \in {"sent", "scanning", "failed"} => does'[e] # "update"
       /\ \A e \in Op : at'[e] = "scanning" => does'[e] = "reset"
       /\ \A e \in Op : at'[e] = "idle" => does'[e] = "set"
  BY <1>5 DEF ChainSound
<1> QED
  BY <1>4, <1>8, <1>10, <1>11, <1>13, <1>14 DEF ChainSound

\* Leaving an attempt that is under way.
LEMMA EngagedHeads ==
    ASSUME FlowTyped, ChainSound, NEW c \in Op, Engaged(c)
    PROVE  Waits(c) /\ Head(chain[where[c]]) = c
BY DEF ChainSound, Engaged, Waits

LEMMA FlowKept ==
    ASSUME FlowTyped, ChainSound, [DistNext]_distVars
    PROVE  FlowTyped' /\ ChainSound'
<1>1. ASSUME UNCHANGED <<chain, at, does, where>>, canceled' \subseteq Op
      PROVE  FlowTyped' /\ ChainSound'
  BY <1>1 DEF FlowTyped, ChainSound, Waits, Engaged
<1>2. CASE UNCHANGED distVars
  BY <1>1, <1>2 DEF distVars, FlowTyped
<1>3. CASE KeyExpires
  BY <1>1, <1>3 DEF KeyExpires, FlowTyped
<1>4. ASSUME NEW c \in Op, Advance(c) PROVE FlowTyped' /\ ChainSound'
  <2>1. CASE SetArrives(c) \/ DelArrives(c) \/ ScanEnds(c)
    BY <2>1, OtherAdvances DEF SetArrives, DelArrives, ScanEnds, Answered
  <2>2. CASE EpochArrives(c)
    BY <2>2, OtherAdvances DEF EpochArrives, Answered
  <2>3. CASE CallFails(c)
    BY <2>3, OtherAdvances DEF CallFails
  <2>4. CASE \E k \in {"data", "marker"} : ScanDeletes(c, k)
    BY <2>4, <1>1 DEF ScanDeletes, FlowTyped
  <2>5. CASE WatchFirst(c)
    <3>1. Waits(c) /\ Head(chain[where[c]]) = c /\ UNCHANGED <<does, where, canceled>>
      BY <2>5 DEF WatchFirst, Waits
    <3>2. CASE c \in canceled
      BY <2>5, <3>1, <3>2, HeadLeaves DEF WatchFirst
    <3>3. CASE c \notin canceled
      BY <2>5, <3>1, <3>3, HeadAdvances DEF WatchFirst
    <3> QED
      BY <3>2, <3>3
  <2>6. CASE ReadMarks(c)
    <3>1. Waits(c) /\ Head(chain[where[c]]) = c /\ UNCHANGED <<does, where, canceled>>
      BY <2>6, EngagedHeads DEF ReadMarks, Engaged
    <3>2. CASE MarksMoved(c)
      BY <2>6, <3>1, <3>2, HeadLeaves DEF ReadMarks
    <3>3. CASE ~MarksMoved(c)
      BY <2>6, <3>1, <3>3, HeadAdvances DEF ReadMarks
    <3> QED
      BY <3>2, <3>3
  <2>7. CASE ReadData(c)
    <3>1. Waits(c) /\ Head(chain[where[c]]) = c /\ UNCHANGED <<does, where, canceled>>
      BY <2>7, EngagedHeads DEF ReadData, Engaged
    <3>2. CASE c \in canceled
      BY <2>7, <3>1, <3>2, HeadLeaves DEF ReadData
    <3>3. CASE c \notin canceled
      BY <2>7, <3>1, <3>3, HeadAdvances DEF ReadData
    <3> QED
      BY <3>2, <3>3
  <2>8. CASE ReducerEnds(c)
    <3>1. Waits(c) /\ Head(chain[where[c]]) = c /\ UNCHANGED <<does, where, canceled>>
      BY <2>8, EngagedHeads DEF ReducerEnds, Engaged
    <3>2. Leaves(c) \/ (at' = [at EXCEPT ![c] = "exec"] /\ chain' = chain)
      BY <2>8 DEF ReducerEnds
    <3> QED
      BY <3>1, <3>2, HeadLeaves, HeadAdvances
  <2>9. CASE ExecArrives(c)
    <3>1. Waits(c) /\ Head(chain[where[c]]) = c /\ UNCHANGED <<does, where, canceled>>
      BY <2>9, EngagedHeads DEF ExecArrives, Engaged
    <3>2. Leaves(c) \/ (at' = [at EXCEPT ![c] = "refused"] /\ chain' = chain)
      BY <2>9 DEF ExecArrives
    <3> QED
      BY <3>1, <3>2, HeadLeaves, HeadAdvances
  <2>10. CASE ReplyLost(c) \/ ConnectionLost(c)
    <3>1. Waits(c) /\ Head(chain[where[c]]) = c /\ UNCHANGED <<does, where, canceled>>
      BY <2>10, EngagedHeads DEF ReplyLost, ConnectionLost, OnConnection, Engaged
    <3>2. Leaves(c)
      BY <2>10 DEF ReplyLost, ConnectionLost
    <3> QED
      BY <3>1, <3>2, HeadLeaves
  <2>11. CASE AfterRefusal(c)
    <3>1. Waits(c) /\ Head(chain[where[c]]) = c /\ UNCHANGED <<does, where, canceled>>
      BY <2>11, EngagedHeads DEF AfterRefusal, Engaged
    <3>2. Leaves(c) \/ (at' = [at EXCEPT ![c] = "watched"] /\ chain' = chain)
      BY <2>11 DEF AfterRefusal
    <3> QED
      BY <3>1, <3>2, HeadLeaves, HeadAdvances
  <2> QED
    BY <1>4, <2>1, <2>2, <2>3, <2>4, <2>5, <2>6, <2>7, <2>8, <2>9, <2>10, <2>11 DEF Advance
<1>5. ASSUME NEW c \in Op, CallerCancels(c) PROVE FlowTyped' /\ ChainSound'
  BY <1>1, <1>5 DEF CallerCancels, FlowTyped
<1>6. ASSUME NEW c \in Op, NEW p \in Process, UpdateStarts(c, p)
      PROVE  FlowTyped' /\ ChainSound'
  BY <1>6, UpdateJoins
<1>7. ASSUME NEW c \in Op, NEW p \in Process, NEW d \in Does \ {"update"},
             OtherStarts(c, p, d)
      PROVE  FlowTyped' /\ ChainSound'
  BY <1>7, OtherCalls
<1> QED
  BY <1>2, <1>3, <1>4, <1>5, <1>6, <1>7 DEF DistNext

\* What a call is and where it stands only ever goes forward.
Forward(c) ==
    /\ at[c] # "idle" => does'[c] = does[c] /\ where'[c] = where[c] /\ at'[c] # "idle"
    /\ at[c] \in {"done", "failed"} => at'[c] = at[c]
    /\ at[c] \in {"scanning", "done", "failed"} => at'[c] \in {"scanning", "done", "failed"}
    /\ at[c] \notin {"idle", "sent"} => at'[c] # "sent"
    /\ c \in applied => c \in applied'

LEMMA StepsForward ==
    ASSUME FlowTyped, ChainSound, [DistNext]_distVars
    PROVE  \A c \in Op : Forward(c)
<1>1. CASE UNCHANGED distVars
  BY <1>1 DEF distVars, history, Forward
<1>2. CASE KeyExpires
  BY <1>2 DEF KeyExpires, history, Forward
<1>3. ASSUME NEW c \in Op, Advance(c) PROVE \A d \in Op : Forward(d)
  <2>1. CASE SetArrives(c) \/ DelArrives(c) \/ EpochArrives(c) \/ ScanEnds(c) \/ CallFails(c)
    BY <2>1 DEF SetArrives, DelArrives, EpochArrives, Answered, ScanEnds, CallFails,
                history, Forward, FlowTyped
  <2>2. CASE \E k \in {"data", "marker"} : ScanDeletes(c, k)
    BY <2>2 DEF ScanDeletes, history, Forward
  <2>3. CASE WatchFirst(c) \/ ReadMarks(c) \/ ReadData(c) \/ ReducerEnds(c)
    BY <2>3 DEF WatchFirst, ReadMarks, ReadData, ReducerEnds, Leaves, history, Forward,
                FlowTyped
  <2>4. CASE ExecArrives(c) \/ ReplyLost(c)
    BY <2>4 DEF ExecArrives, ReplyLost, Transaction, Leaves, Forward, FlowTyped
  <2>5. CASE ConnectionLost(c) \/ AfterRefusal(c)
    BY <2>5 DEF ConnectionLost, AfterRefusal, OnConnection, Leaves, history, Forward,
                FlowTyped
  <2> QED
    BY <1>3, <2>1, <2>2, <2>3, <2>4, <2>5 DEF Advance
<1>4. ASSUME NEW c \in Op, CallerCancels(c) PROVE \A d \in Op : Forward(d)
  BY <1>4 DEF CallerCancels, history, Forward
<1>5. ASSUME NEW c \in Op, NEW p \in Process, UpdateStarts(c, p)
      PROVE  \A d \in Op : Forward(d)
  BY <1>5 DEF UpdateStarts, Calls, history, Forward, FlowTyped
<1>6. ASSUME NEW c \in Op, NEW p \in Process, NEW d \in Does \ {"update"},
             OtherStarts(c, p, d)
      PROVE  \A e \in Op : Forward(e)
  BY <1>6 DEF OtherStarts, Calls, history, Forward, FlowTyped
<1> QED
  BY <1>1, <1>2, <1>3, <1>4, <1>5, <1>6 DEF DistNext

-----------------------------------------------------------------------------
(* RedisUpdate: what Redis holds *)

LEMMA MarkTypes ==
    ASSUME marks \in MarkPair, NEW c \in Op
    PROVE  /\ NewEpoch(c) \in MarkPair /\ NewEpoch(c).epoch = c
           /\ NewEpoch(c).marker = marks.marker
           /\ Deletion(c) \in MarkPair /\ Deletion(c).marker = c
           /\ Deletion(c).epoch = marks.epoch
           /\ [marks EXCEPT !.marker = NoOp] \in MarkPair
           /\ [marks EXCEPT !.marker = NoOp].epoch = marks.epoch
           /\ [marks EXCEPT !.marker = NoOp].marker = NoOp
BY DEF MarkPair, NewEpoch, Deletion

LEMMA WritesTyped ==
    ASSUME RedisTyped, NEW d \in SUBSET Op, NEW m \in MarkPair, Writes(d, m)
    PROVE  data' \subseteq Op /\ marks' \in MarkPair /\ dirty' \subseteq Op
BY DEF RedisTyped, Writes, Watching

LEMMA GoneTyped ==
    ASSUME RedisTyped, NEW keys, Gone(keys)
    PROVE  /\ must' \in [Op -> SUBSET {"data", "marker"}]
           /\ \A c \in Op : must'[c] = must[c] \ keys
BY DEF RedisTyped, Gone

\* What a transaction does, whether or not its reply arrives: it adds the call
\* to the entry, or deletes the entry and leaves a marker.
LEMMA TransactionTyped ==
    ASSUME FlowTyped, RedisTyped, NEW c \in Op, Transaction(c),
           UNCHANGED <<updateLocal, deleted, fenced, before>>
    PROVE  RedisTyped'
<1>1. CASE Writes(given[c] \cup {c}, marks) /\ UNCHANGED must
  <2>1. given[c] \cup {c} \in SUBSET Op /\ marks \in MarkPair
    BY DEF RedisTyped
  <2>2. data' \subseteq Op /\ marks' \in MarkPair /\ dirty' \subseteq Op
    BY <2>1, <1>1, WritesTyped
  <2> QED
    BY <2>2, <1>1 DEF RedisTyped, Transaction, updateLocal
<1>2. CASE Writes({}, Deletion(c)) /\ Gone({"data"})
  <2>1. Deletion(c) \in MarkPair
    BY MarkTypes DEF RedisTyped
  <2>2. data' \subseteq Op /\ marks' \in MarkPair /\ dirty' \subseteq Op
    BY <2>1, <1>2, WritesTyped
  <2>3. must' \in [Op -> SUBSET {"data", "marker"}]
    BY <1>2, GoneTyped
  <2> QED
    BY <2>2, <2>3 DEF RedisTyped, Transaction, updateLocal
<1> QED
  BY <1>1, <1>2 DEF Transaction

LEMMA RedisTypesKept ==
    ASSUME FlowTyped, RedisTyped, [DistNext]_distVars
    PROVE  RedisTyped'
<1>0. marks \in MarkPair /\ MaxTries \in Nat \ {0}
  BY RedisUpdateAssumption DEF RedisTyped
<1>1. ASSUME UNCHANGED <<redisVars, updateLocal, must, history>> PROVE RedisTyped'
  BY <1>1 DEF RedisTyped, redisVars, updateLocal, history
<1>2. CASE UNCHANGED distVars
  BY <1>1, <1>2 DEF distVars
<1>3. CASE KeyExpires
  <2>1. data' \subseteq Op /\ marks' \in MarkPair /\ dirty' \subseteq Op
    BY <1>3, <1>0, WritesTyped DEF KeyExpires
  <2>2. must' \in [Op -> SUBSET {"data", "marker"}]
    BY <1>3, GoneTyped DEF KeyExpires
  <2>3. lapsed' \subseteq Op
    BY <1>3 DEF KeyExpires, RedisTyped
  <2> QED
    BY <1>3, <2>1, <2>2, <2>3 DEF KeyExpires, RedisTyped, history
<1>4. ASSUME NEW c \in Op, Advance(c) PROVE RedisTyped'
  <2>1. CASE SetArrives(c)
    <3>1. data' \subseteq Op /\ marks' \in MarkPair /\ dirty' \subseteq Op
      BY <2>1, <1>0, WritesTyped DEF SetArrives
    <3> QED
      BY <2>1, <3>1 DEF SetArrives, RedisTyped, updateLocal, history
  <2>2. CASE DelArrives(c)
    <3>1. data' \subseteq Op /\ marks' \in MarkPair /\ dirty' \subseteq Op
      BY <2>2, <1>0, WritesTyped, MarkTypes DEF DelArrives
    <3>2. must' \in [Op -> SUBSET {"data", "marker"}]
      BY <2>2, GoneTyped DEF DelArrives
    <3>3. deleted' \subseteq Op
      BY <2>2 DEF DelArrives, RedisTyped
    <3> QED
      BY <2>2, <3>1, <3>2, <3>3 DEF DelArrives, RedisTyped, updateLocal
  <2>3. CASE EpochArrives(c)
    <3>0. data \in SUBSET Op
      BY DEF RedisTyped
    <3>1. data' \subseteq Op /\ marks' \in MarkPair /\ dirty' \subseteq Op
      BY <2>3, <3>0, <1>0, WritesTyped, MarkTypes DEF EpochArrives
    <3>2. must' \in [Op -> SUBSET {"data", "marker"}]
      BY <2>3 DEF EpochArrives, RedisTyped
    <3>3. fenced' \subseteq Op /\ before' \in [Op -> SUBSET Op]
      BY <2>3 DEF EpochArrives, RedisTyped
    <3> QED
      BY <2>3, <3>1, <3>2, <3>3 DEF EpochArrives, RedisTyped, updateLocal
  <2>4. ASSUME NEW k \in {"data", "marker"}, ScanDeletes(c, k) PROVE RedisTyped'
    <3> DEFINE d == IF k = "data" THEN {} ELSE data
    <3> DEFINE m == IF k = "marker" THEN [marks EXCEPT !.marker = NoOp] ELSE marks
    <3>1. d \in SUBSET Op /\ m \in MarkPair
      BY <1>0, MarkTypes DEF RedisTyped
    <3>2. Writes(d, m) /\ Gone({k}) /\ UNCHANGED <<updateLocal, history>>
      BY <2>4 DEF ScanDeletes
    <3> HIDE DEF d, m
    <3>3. data' \subseteq Op /\ marks' \in MarkPair /\ dirty' \subseteq Op
      BY <3>1, <3>2, WritesTyped
    <3>4. must' \in [Op -> SUBSET {"data", "marker"}]
      BY <3>2, GoneTyped
    <3> QED
      BY <3>2, <3>3, <3>4 DEF RedisTyped, updateLocal, history
  <2>5. CASE ScanEnds(c) \/ CallFails(c) \/ ReducerEnds(c) \/ ConnectionLost(c)
    BY <2>5, <1>1 DEF ScanEnds, CallFails, ReducerEnds, ConnectionLost
  <2>6. CASE WatchFirst(c)
    BY <2>6, <1>0 DEF WatchFirst, Watches, RedisTyped, history
  <2>7. CASE ReadMarks(c)
    BY <2>7 DEF ReadMarks, RedisTyped, redisVars, history
  <2>8. CASE ReadData(c)
    BY <2>8 DEF ReadData, RedisTyped, redisVars, history
  <2>9. CASE ExecArrives(c)
    <3>1. CASE Transaction(c)
      BY <2>9, <3>1, TransactionTyped DEF ExecArrives
    <3>2. CASE UNCHANGED <<redisVars, must, applied>>
      BY <2>9, <3>2, <1>1 DEF ExecArrives, history
    <3> QED
      BY <2>9, <3>1, <3>2 DEF ExecArrives
  <2>10. CASE ReplyLost(c)
    BY <2>10, TransactionTyped DEF ReplyLost
  <2>11. CASE AfterRefusal(c)
    <3>1. tries' \in [Op -> 0 .. MaxTries]
      <4>1. CASE tries' = tries
        BY <4>1 DEF RedisTyped
      <4>2. CASE tries[c] < MaxTries /\ tries' = [tries EXCEPT ![c] = @ + 1]
        BY <4>2, <1>0 DEF RedisTyped
      <4> QED
        BY <4>1, <4>2, <2>11 DEF AfterRefusal
    <3>2. dirty' \subseteq Op
      BY <2>11 DEF AfterRefusal, Watches, RedisTyped
    <3> QED
      BY <2>11, <3>1, <3>2 DEF AfterRefusal, RedisTyped, history
  <2> QED
    BY <1>4, <2>1, <2>2, <2>3, <2>4, <2>5, <2>6, <2>7, <2>8, <2>9, <2>10, <2>11 DEF Advance
<1>5. ASSUME NEW c \in Op, NEW p \in Process,
             CallerCancels(c) \/ UpdateStarts(c, p)
             \/ \E d \in Does \ {"update"} : OtherStarts(c, p, d)
      PROVE  RedisTyped'
  BY <1>5, <1>1 DEF CallerCancels, UpdateStarts, OtherStarts
<1> QED
  BY <1>2, <1>3, <1>4, <1>5, RedisUpdateAssumption DEF DistNext

\* What an update was given is current until a watched key is written.
LEMMA WatchKept ==
    ASSUME FlowTyped, RedisTyped, WatchSound, [DistNext]_distVars
    PROVE  WatchSound'
<1>1. ASSUME dirty' = dirty \cup Watching, NEW c \in Op \cup {NoOp},
             \A d \in Op : d = c \/ at'[d] = at[d],
             c \in Op => at'[c] \notin {"reducing", "exec"}
      PROVE  WatchSound'
  BY <1>1 DEF WatchSound, Watching
<1>2. ASSUME UNCHANGED <<data, dirty, given>>, NEW c \in Op \cup {NoOp},
             \A d \in Op : d = c \/ at'[d] = at[d],
             c \in Op => at'[c] \notin {"reducing", "exec"}
      PROVE  WatchSound'
  BY <1>2 DEF WatchSound
<1>3. CASE UNCHANGED distVars
  BY <1>3 DEF distVars, redisVars, updateLocal, WatchSound
<1>4. CASE KeyExpires
  BY <1>4, <1>1, RedisUpdateAssumption DEF KeyExpires, Writes
<1>5. ASSUME NEW c \in Op, Advance(c) PROVE WatchSound'
  <2>1. CASE SetArrives(c) \/ DelArrives(c) \/ EpochArrives(c)
    <3>1. dirty' = dirty \cup Watching /\ at'[c] \notin {"reducing", "exec"}
          /\ \A d \in Op : d = c \/ at'[d] = at[d]
      BY <2>1 DEF SetArrives, DelArrives, EpochArrives, Answered, Writes, FlowTyped
    <3> QED
      BY <3>1, <1>1
  <2>2. CASE \E k \in {"data", "marker"} : ScanDeletes(c, k)
    <3>1. dirty' = dirty \cup Watching /\ at[c] = "scanning" /\ at' = at
      BY <2>2 DEF ScanDeletes, Writes
    <3> QED
      BY <3>1, <1>1
  <2>3. CASE ScanEnds(c) \/ CallFails(c) \/ ConnectionLost(c)
    <3>1. UNCHANGED <<data, dirty, given>> /\ at'[c] \notin {"reducing", "exec"}
          /\ \A d \in Op : d = c \/ at'[d] = at[d]
      BY <2>3 DEF ScanEnds, CallFails, ConnectionLost, Leaves, redisVars, updateLocal, FlowTyped
    <3> QED
      BY <3>1, <1>2
  <2>4. CASE WatchFirst(c) \/ AfterRefusal(c)
    BY <2>4 DEF WatchFirst, AfterRefusal, Leaves, Watches, WatchSound, FlowTyped
  <2>5. CASE ReadMarks(c)
    BY <2>5 DEF ReadMarks, Leaves, redisVars, WatchSound, FlowTyped
  <2>6. CASE ReadData(c)
    BY <2>6 DEF ReadData, Leaves, redisVars, WatchSound, FlowTyped, RedisTyped
  <2>7. CASE ReducerEnds(c)
    BY <2>7 DEF ReducerEnds, Leaves, redisVars, updateLocal, WatchSound, FlowTyped
  <2>8. CASE ExecArrives(c)
    <3>1. CASE Transaction(c) /\ Leaves(c)
      <4>1. dirty' = dirty \cup Watching /\ at'[c] = "done"
            /\ \A d \in Op : d = c \/ at'[d] = at[d]
        BY <3>1 DEF Transaction, Writes, Leaves, FlowTyped
      <4> QED
        BY <4>1, <1>1
    <3>2. CASE at' = [at EXCEPT ![c] = "refused"] /\ UNCHANGED redisVars
      BY <2>8, <3>2 DEF ExecArrives, redisVars, updateLocal, WatchSound, FlowTyped
    <3> QED
      BY <2>8, <3>1, <3>2 DEF ExecArrives
  <2>9. CASE ReplyLost(c)
    <3>1. dirty' = dirty \cup Watching /\ at'[c] = "done"
          /\ \A d \in Op : d = c \/ at'[d] = at[d]
      BY <2>9 DEF ReplyLost, Transaction, Writes, Leaves, FlowTyped
    <3> QED
      BY <3>1, <1>1
  <2> QED
    BY <1>5, <2>1, <2>2, <2>3, <2>4, <2>5, <2>6, <2>7, <2>8, <2>9 DEF Advance
<1>6. ASSUME NEW c \in Op, CallerCancels(c) PROVE WatchSound'
  BY <1>6 DEF CallerCancels, redisVars, updateLocal, WatchSound
<1>7. ASSUME NEW c \in Op, NEW p \in Process,
             UpdateStarts(c, p) \/ \E d \in Does \ {"update"} : OtherStarts(c, p, d)
      PROVE  WatchSound'
  <2>1. UNCHANGED <<data, dirty, given>> /\ at'[c] \notin {"reducing", "exec"}
        /\ \A d \in Op : d = c \/ at'[d] = at[d]
    BY <1>7 DEF UpdateStarts, OtherStarts, redisVars, updateLocal, FlowTyped
  <2> QED
    BY <2>1, <1>2
<1> QED
  BY <1>3, <1>4, <1>5, <1>6, <1>7 DEF DistNext

-----------------------------------------------------------------------------
(* RedisUpdate: who wrote what *)

\* A call that wrote something is over, and what a transaction adds to is what
\* the key holds.
LEMMA WritersKept ==
    ASSUME FlowTyped, RedisTyped, ChainSound, WatchSound, WritersOver,
           [DistNext]_distVars
    PROVE  WritersOver'
<1>1. \A c \in Op : Forward(c)
  BY StepsForward
<1>2. \A S \in SUBSET Op : Over(S) => Over(S)'
  BY <1>1 DEF Over, Forward
<1>3. data \in SUBSET Op /\ applied \in SUBSET Op /\ \A c \in Op : before[c] \in SUBSET Op
  BY DEF RedisTyped
<1>4. /\ Over(data)' \/ data' # data
      /\ Over(applied)' \/ applied' # applied
      /\ \A c \in Op : Over(before[c])' \/ before'[c] # before[c]
  BY <1>2, <1>3 DEF WritersOver, Over
<1>5. \A c \in applied : does'[c] = "update"
  <2> SUFFICES ASSUME NEW c \in applied PROVE does'[c] = "update"
    OBVIOUS
  <2>1. c \in Op /\ at[c] # "idle" /\ does[c] = "update"
    BY <1>3 DEF WritersOver, Over
  <2> QED
    BY <2>1, <1>1 DEF Forward
<1>6. ASSUME Over(data)', UNCHANGED <<applied, before>> PROVE WritersOver'
  BY <1>6, <1>2, <1>3, <1>5 DEF WritersOver, Over
<1>7. ASSUME UNCHANGED <<data, applied, before>> PROVE WritersOver'
  <2>1. Over(data)'
    BY <1>7, <1>2, <1>3 DEF WritersOver, Over
  <2> QED
    BY <2>1, <1>6, <1>7
<1>8. ASSUME data' = {}, UNCHANGED <<applied, before>> PROVE WritersOver'
  BY <1>8, <1>6 DEF Over
<1>9. ASSUME NEW c \in Op, at[c] = "exec", at'[c] = "done", Clean(c), Transaction(c),
             UNCHANGED before
      PROVE  WritersOver'
  <2>1. given[c] = data /\ does[c] = "update" /\ does'[c] = "update"
    BY <1>9, <1>1 DEF WatchSound, Clean, ChainSound, Waits, Forward
  <2>2. data' \subseteq data \cup {c} /\ applied' = applied \cup {c}
    BY <1>9, <2>1 DEF Transaction, Writes
  <2>3. /\ \A d \in data \cup applied : at'[d] \in {"done", "failed"}
        /\ \A b \in Op : \A d \in before[b] : at'[d] \in {"done", "failed"}
    BY <1>2, <1>3 DEF WritersOver, Over
  <2>4. Over(data)' /\ Over(applied)' /\ \A b \in Op : Over(before[b])'
    BY <1>9, <2>2, <2>3 DEF Over
  <2>5. applied' \subseteq {d \in Op : does'[d] = "update"}
    BY <2>1, <2>2, <1>3, <1>5
  <2> QED
    BY <2>4, <2>5 DEF WritersOver
<1>10. CASE UNCHANGED distVars
  BY <1>7, <1>10 DEF distVars, redisVars, history
<1>11. CASE KeyExpires
  BY <1>8, <1>11 DEF KeyExpires, Writes, history
<1>12. ASSUME NEW c \in Op, Advance(c) PROVE WritersOver'
  <2>1. CASE SetArrives(c)
    <3>1. data' = {c} /\ at'[c] \in {"done", "failed"}
      BY <2>1 DEF SetArrives, Answered, Writes, FlowTyped
    <3> QED
      BY <2>1, <3>1, <1>6 DEF SetArrives, history, Over
  <2>2. CASE DelArrives(c)
    BY <2>2, <1>8 DEF DelArrives, Writes
  <2>3. CASE EpochArrives(c)
    <3>1. data' = data /\ applied' = applied /\ before' = [before EXCEPT ![c] = data]
      BY <2>3 DEF EpochArrives, Writes
    <3>2. \A b \in Op : before'[b] = before[b] \/ before'[b] = data
      BY <3>1 DEF RedisTyped
    <3>3. /\ \A d \in data \cup applied : at'[d] \in {"done", "failed"}
          /\ \A b \in Op : \A d \in before[b] : at'[d] \in {"done", "failed"}
      BY <1>2, <1>3 DEF WritersOver, Over
    <3>4. Over(data)' /\ Over(applied)' /\ \A b \in Op : Over(before[b])'
      BY <3>1, <3>2, <3>3 DEF Over
    <3> QED
      BY <3>1, <3>4, <1>3, <1>5 DEF WritersOver
  <2>4. CASE \E k \in {"data", "marker"} : ScanDeletes(c, k)
    <3>1. (data' = {} \/ data' = data) /\ UNCHANGED <<applied, before>>
      BY <2>4 DEF ScanDeletes, Writes, history
    <3> QED
      BY <3>1, <1>7, <1>8
  <2>5. CASE ScanEnds(c) \/ CallFails(c) \/ ReducerEnds(c) \/ ConnectionLost(c)
    BY <2>5, <1>7 DEF ScanEnds, CallFails, ReducerEnds, ConnectionLost, redisVars, history
  <2>6. CASE WatchFirst(c) \/ ReadMarks(c) \/ ReadData(c) \/ AfterRefusal(c)
    BY <2>6, <1>7 DEF WatchFirst, ReadMarks, ReadData, AfterRefusal, redisVars, history
  <2>7. CASE ExecArrives(c)
    <3>1. CASE Clean(c)
      BY <2>7, <3>1, <1>9 DEF ExecArrives, Leaves, FlowTyped
    <3>2. CASE ~Clean(c)
      BY <2>7, <3>2, <1>7 DEF ExecArrives, redisVars
    <3> QED
      BY <3>1, <3>2
  <2>8. CASE ReplyLost(c)
    BY <2>8, <1>9 DEF ReplyLost, Leaves, FlowTyped
  <2> QED
    BY <1>12, <2>1, <2>2, <2>3, <2>4, <2>5, <2>6, <2>7, <2>8 DEF Advance
<1>13. ASSUME NEW c \in Op, NEW p \in Process,
             CallerCancels(c) \/ UpdateStarts(c, p)
             \/ \E d \in Does \ {"update"} : OtherStarts(c, p, d)
      PROVE  WritersOver'
  BY <1>13, <1>7 DEF CallerCancels, UpdateStarts, OtherStarts, redisVars, history
<1> QED
  BY <1>10, <1>11, <1>12, <1>13, RedisUpdateAssumption DEF DistNext

-----------------------------------------------------------------------------
(* RedisUpdate: epochs and markers *)

\* How the marks change: every new one is of a call that was still to arrive.
NewEpochBy(c) ==
    /\ at[c] = "sent" /\ does[c] = "reset" /\ at'[c] \in {"scanning", "failed"}
    /\ marks'.epoch = c /\ marks'.marker = marks.marker

NewMarkerBy(c) ==
    /\ at[c] \in {"sent", "exec"} /\ at'[c] \in {"done", "failed"}
    /\ marks'.marker = c /\ marks'.epoch = marks.epoch

MarkerScanned ==
    ResetBegun /\ marks'.epoch = marks.epoch /\ marks'.marker = NoOp

LEMMA MarksChange ==
    ASSUME FlowTyped, RedisTyped, ChainSound, [DistNext]_distVars
    PROVE  \/ UNCHANGED marks
           \/ MarkerScanned
           \/ \E c \in Op : NewEpochBy(c) \/ NewMarkerBy(c)
<1>0. marks \in MarkPair
  BY DEF RedisTyped
<1>1. CASE UNCHANGED distVars
  BY <1>1 DEF distVars, redisVars
<1>2. CASE KeyExpires
  BY <1>2 DEF KeyExpires, Writes
<1>3. ASSUME NEW c \in Op, Advance(c)
      PROVE  UNCHANGED marks \/ MarkerScanned \/ NewEpochBy(c) \/ NewMarkerBy(c)
  <2>1. CASE SetArrives(c)
    BY <2>1 DEF SetArrives, Writes
  <2>2. CASE DelArrives(c)
    BY <2>2, <1>0, MarkTypes DEF DelArrives, Answered, Writes, NewMarkerBy, FlowTyped
  <2>3. CASE EpochArrives(c)
    BY <2>3, <1>0, MarkTypes DEF EpochArrives, Answered, Writes, NewEpochBy, FlowTyped
  <2>4. ASSUME NEW k \in {"data", "marker"}, ScanDeletes(c, k)
        PROVE  UNCHANGED marks \/ MarkerScanned
    <3>1. at[c] = "scanning" /\ (marks' = marks \/ marks' = [marks EXCEPT !.marker = NoOp])
      BY <2>4 DEF ScanDeletes, Writes
    <3>2. ResetBegun
      BY <3>1 DEF ResetBegun, ChainSound
    <3> QED
      BY <3>1, <3>2, <1>0, MarkTypes DEF MarkerScanned
  <2>5. CASE ScanEnds(c) \/ CallFails(c) \/ ReducerEnds(c) \/ ConnectionLost(c)
    BY <2>5 DEF ScanEnds, CallFails, ReducerEnds, ConnectionLost, redisVars
  <2>6. CASE WatchFirst(c) \/ ReadMarks(c) \/ ReadData(c) \/ AfterRefusal(c)
    BY <2>6 DEF WatchFirst, ReadMarks, ReadData, AfterRefusal, redisVars
  <2>7. CASE ExecArrives(c) \/ ReplyLost(c)
    <3>1. UNCHANGED marks \/ (at[c] = "exec" /\ Leaves(c) /\ marks' = Deletion(c))
      BY <2>7 DEF ExecArrives, ReplyLost, Transaction, Writes, redisVars
    <3> QED
      BY <3>1, <1>0, MarkTypes DEF Leaves, NewMarkerBy, FlowTyped
  <2> QED
    BY <1>3, <2>1, <2>2, <2>3, <2>4, <2>5, <2>6, <2>7 DEF Advance
<1>4. ASSUME NEW c \in Op, NEW p \in Process,
             CallerCancels(c) \/ UpdateStarts(c, p)
             \/ \E d \in Does \ {"update"} : OtherStarts(c, p, d)
      PROVE  UNCHANGED marks
  BY <1>4 DEF CallerCancels, UpdateStarts, OtherStarts, redisVars
<1> QED
  BY <1>1, <1>2, <1>3, <1>4, RedisUpdateAssumption DEF DistNext

\* What an update has seen is the marks of some moment.
LEMMA SeenChange ==
    ASSUME FlowTyped, RedisTyped, [DistNext]_distVars
    PROVE  \A c \in Op : seen'[c] = seen[c] \/ (at[c] = "watched" /\ seen'[c] = marks)
<1>1. ASSUME NEW c \in Op, ReadMarks(c)
      PROVE  \A d \in Op : seen'[d] = seen[d] \/ (at[d] = "watched" /\ seen'[d] = marks)
  BY <1>1 DEF ReadMarks, RedisTyped
<1>2. ASSUME NEW c \in Op, Advance(c) PROVE ReadMarks(c) \/ UNCHANGED seen
  BY <1>2 DEF Advance, SetArrives, DelArrives, EpochArrives, ScanEnds, CallFails,
       ScanDeletes, WatchFirst, ReadData, ReducerEnds, ExecArrives, ReplyLost,
       ConnectionLost, AfterRefusal, updateLocal
<1>3. ASSUME NEW c \in Op, NEW p \in Process,
             CallerCancels(c) \/ UpdateStarts(c, p)
             \/ \E d \in Does \ {"update"} : OtherStarts(c, p, d)
      PROVE  UNCHANGED seen
  BY <1>3 DEF CallerCancels, UpdateStarts, OtherStarts, updateLocal
<1>4. CASE KeyExpires \/ UNCHANGED distVars
  BY <1>4 DEF KeyExpires, distVars, updateLocal
<1> QED
  BY <1>1, <1>2, <1>3, <1>4, RedisUpdateAssumption DEF DistNext

LEMMA MarksKept ==
    ASSUME FlowTyped, RedisTyped, ChainSound, MarksSound, [DistNext]_distVars
    PROVE  MarksSound'
<1>1. \A c \in Op : Forward(c)
  BY StepsForward
<1>2. \A e \in Op \cup {NoOp} : (IsEpoch(e) => IsEpoch(e)') /\ (IsMarker(e) => IsMarker(e)')
  BY <1>1 DEF IsEpoch, IsMarker, Forward
<1>3. /\ marks.epoch \in Op \cup {NoOp} /\ marks.marker \in Op \cup {NoOp}
      /\ \A c \in Op : seen[c].epoch \in Op \cup {NoOp} /\ seen[c].marker \in Op \cup {NoOp}
  BY DEF RedisTyped, MarkPair
<1>4. IsEpoch(marks.epoch)' /\ IsMarker(marks.marker)'
  <2>1. CASE UNCHANGED marks
    BY <2>1, <1>2, <1>3 DEF MarksSound, IsEpoch, IsMarker
  <2>2. CASE MarkerScanned
    BY <2>2, <1>2, <1>3 DEF MarkerScanned, MarksSound, IsEpoch, IsMarker
  <2>3. ASSUME NEW c \in Op, NewEpochBy(c) PROVE IsEpoch(marks.epoch)' /\ IsMarker(marks.marker)'
    <3>1. does'[c] = "reset"
      BY <2>3, <1>1 DEF NewEpochBy, Forward
    <3> QED
      BY <2>3, <3>1, <1>2, <1>3 DEF NewEpochBy, MarksSound, IsEpoch, IsMarker
  <2>4. ASSUME NEW c \in Op, NewMarkerBy(c) PROVE IsEpoch(marks.epoch)' /\ IsMarker(marks.marker)'
    BY <2>4, <1>2, <1>3 DEF NewMarkerBy, MarksSound, IsEpoch, IsMarker
  <2> QED
    BY <2>1, <2>2, <2>3, <2>4, MarksChange
<1>5. ASSUME NEW c \in Op PROVE IsEpoch(seen[c].epoch)' /\ IsMarker(seen[c].marker)'
  <2>1. seen'[c] = seen[c] \/ seen'[c] = marks
    BY SeenChange
  <2> QED
    BY <2>1, <1>2, <1>3 DEF MarksSound, IsEpoch, IsMarker
<1> QED
  BY <1>4, <1>5 DEF MarksSound

-----------------------------------------------------------------------------
(* RedisUpdate: updates that an invalidation found under way *)

\* An update that EXEC will refuse, and that will then find other marks than it
\* has seen, ends without effect.
LEMMA RefusalStays ==
    ASSUME FlowTyped, RedisTyped, ChainSound, [DistNext]_distVars,
           NEW u \in Op, Refused(u), seen[u] # marks
    PROVE  /\ Refused(u)' \/ at'[u] = "done"
           /\ seen'[u] = seen[u]
           /\ u \in applied' => u \in applied
<1>0. UnderWay(u) /\ (at[u] = "refused" \/ u \in dirty)
  BY DEF Refused, UnderWay
<1>1. seen'[u] = seen[u]
  BY <1>0, SeenChange DEF UnderWay
<1>2. ASSUME at'[u] = at[u], u \in dirty => u \in dirty' PROVE Refused(u)'
  BY <1>2, <1>0 DEF Refused, UnderWay
<1>3. ASSUME UNCHANGED <<at, applied>>, u \in dirty => u \in dirty'
      PROVE  Refused(u)' /\ (u \in applied' => u \in applied)
  BY <1>3, <1>2
<1>4. CASE KeyExpires \/ UNCHANGED distVars
  BY <1>1, <1>4, <1>3 DEF KeyExpires, Writes, distVars, redisVars, history
<1>5. ASSUME NEW c \in Op, Advance(c)
      PROVE  (Refused(u)' \/ at'[u] = "done") /\ (u \in applied' => u \in applied)
  <2>1. CASE SetArrives(c) \/ DelArrives(c) \/ EpochArrives(c)
    <3>1. at'[u] = at[u] /\ (u \in dirty => u \in dirty') /\ applied' = applied
      BY <2>1, <1>0 DEF SetArrives, DelArrives, EpochArrives, Answered, Writes, UnderWay,
                        FlowTyped, history
    <3> QED
      BY <3>1, <1>2
  <2>2. CASE \E k \in {"data", "marker"} : ScanDeletes(c, k)
    BY <2>2, <1>3 DEF ScanDeletes, Writes, history
  <2>3. CASE ScanEnds(c) \/ CallFails(c)
    <3>1. at'[u] = at[u] /\ dirty' = dirty /\ applied' = applied
      BY <2>3, <1>0 DEF ScanEnds, CallFails, UnderWay, FlowTyped, history, redisVars
    <3> QED
      BY <3>1, <1>2
  <2>4. CASE WatchFirst(c)
    <3>1. c # u /\ (u \in dirty => u \in dirty') /\ applied' = applied /\ at'[u] = at[u]
      BY <2>4, <1>0 DEF WatchFirst, Leaves, Watches, UnderWay, FlowTyped, history
    <3> QED
      BY <3>1, <1>2
  <2>5. CASE ReadMarks(c)
    <3>1. c # u /\ dirty' = dirty /\ applied' = applied /\ at'[u] = at[u]
      BY <2>5, <1>0 DEF ReadMarks, Leaves, UnderWay, FlowTyped, history, redisVars
    <3> QED
      BY <3>1, <1>2
  <2>6. CASE ReadData(c)
    <3>1. dirty' = dirty /\ applied' = applied
          /\ (at'[u] = at[u] \/ at'[u] = "done" \/ (c = u /\ at'[u] = "reducing"))
      BY <2>6 DEF ReadData, Leaves, FlowTyped, history, redisVars
    <3>2. c = u => u \in dirty
      BY <1>0, <2>6 DEF ReadData
    <3> QED
      BY <3>1, <3>2, <1>0 DEF Refused, UnderWay
  <2>7. CASE ReducerEnds(c)
    <3>1. dirty' = dirty /\ applied' = applied
          /\ (at'[u] = at[u] \/ at'[u] = "done" \/ (c = u /\ at'[u] = "exec"))
      BY <2>7 DEF ReducerEnds, Leaves, FlowTyped, history, redisVars
    <3>2. c = u => u \in dirty
      BY <1>0, <2>7 DEF ReducerEnds
    <3> QED
      BY <3>1, <3>2, <1>0 DEF Refused, UnderWay
  <2>8. CASE ExecArrives(c) /\ ~Clean(c)
    <3>1. dirty' = dirty /\ applied' = applied /\ (at'[u] = at[u] \/ at'[u] = "refused")
      BY <2>8 DEF ExecArrives, FlowTyped, redisVars
    <3> QED
      BY <3>1, <1>2 DEF Refused
  <2>9. CASE (ExecArrives(c) /\ Clean(c)) \/ ReplyLost(c)
    <3>1. at[c] = "exec" /\ Clean(c) /\ Transaction(c) /\ Leaves(c)
      BY <2>9 DEF ExecArrives, ReplyLost
    <3>2. c # u
      BY <3>1, <1>0 DEF Clean
    <3>3. at'[u] = at[u] /\ (u \in dirty => u \in dirty') /\ applied' = applied \cup {c}
      BY <3>1, <3>2 DEF Transaction, Writes, Leaves, FlowTyped
    <3> QED
      BY <3>2, <3>3, <1>2
  <2>10. CASE ConnectionLost(c)
    <3>1. dirty' = dirty /\ applied' = applied /\ (at'[u] = at[u] \/ at'[u] = "done")
      BY <2>10 DEF ConnectionLost, Leaves, FlowTyped, history, redisVars
    <3> QED
      BY <3>1, <1>2
  <2>11. CASE AfterRefusal(c)
    <3>1. CASE c = u
      <4>1. Leaves(u) /\ applied' = applied
        BY <2>11, <3>1 DEF AfterRefusal, OrdinaryConflict, history
      <4> QED
        BY <4>1 DEF Leaves, FlowTyped
    <3>2. CASE c # u
      <4>1. at'[u] = at[u] /\ (u \in dirty => u \in dirty') /\ applied' = applied
        BY <2>11, <3>2 DEF AfterRefusal, Leaves, Watches, FlowTyped, history
      <4> QED
        BY <4>1, <1>2
    <3> QED
      BY <3>1, <3>2
  <2> QED
    BY <1>5, <2>1, <2>2, <2>3, <2>4, <2>5, <2>6, <2>7, <2>8, <2>9, <2>10, <2>11 DEF Advance
<1>6. ASSUME NEW c \in Op, NEW p \in Process,
             CallerCancels(c) \/ UpdateStarts(c, p)
             \/ \E d \in Does \ {"update"} : OtherStarts(c, p, d)
      PROVE  Refused(u)' /\ (u \in applied' => u \in applied)
  <2>1. at'[u] = at[u] /\ dirty' = dirty /\ applied' = applied
    BY <1>6, <1>0 DEF CallerCancels, UpdateStarts, OtherStarts, Calls, UnderWay, FlowTyped,
                      redisVars, history
  <2> QED
    BY <2>1, <1>2
<1> QED
  BY <1>1, <1>4, <1>5, <1>6, RedisUpdateAssumption DEF DistNext

\* A call that is over takes no effect any more.
LEMMA DoneStays ==
    ASSUME FlowTyped, ChainSound, [DistNext]_distVars, NEW u \in Op, at[u] = "done"
    PROVE  at'[u] = "done" /\ (u \in applied' => u \in applied)
<1>1. at'[u] = "done"
  BY StepsForward DEF Forward
<1>2. ASSUME NEW c \in Op, Advance(c) PROVE u \in applied' => u \in applied
  BY <1>2 DEF Advance, SetArrives, DelArrives, EpochArrives, ScanEnds, CallFails,
       ScanDeletes, WatchFirst, ReadMarks, ReadData, ReducerEnds, ExecArrives, ReplyLost,
       ConnectionLost, AfterRefusal, Transaction, history
<1>3. ASSUME NEW c \in Op, NEW p \in Process,
             CallerCancels(c) \/ UpdateStarts(c, p)
             \/ \E d \in Does \ {"update"} : OtherStarts(c, p, d)
      PROVE  UNCHANGED applied
  BY <1>3 DEF CallerCancels, UpdateStarts, OtherStarts, history
<1>4. CASE KeyExpires \/ UNCHANGED distVars
  BY <1>4 DEF KeyExpires, distVars, history
<1> QED
  BY <1>1, <1>2, <1>3, <1>4, RedisUpdateAssumption DEF DistNext

\* Which updates count as found under way.
LEMMA FoundUnderWay ==
    ASSUME [DistNext]_distVars, RedisTyped, FlowTyped
    PROVE  /\ UNCHANGED fenced
              \/ \E c \in Op : EpochArrives(c) /\ NewEpochBy(c)
                    /\ fenced' = fenced \cup {u \in Op : UnderWay(u)}
           /\ UNCHANGED deleted
              \/ \E c \in Op : DelArrives(c) /\ NewMarkerBy(c)
                    /\ deleted' = deleted \cup {u \in Op : UnderWay(u)}
<1>0. marks \in MarkPair
  BY DEF RedisTyped
<1>1. ASSUME NEW c \in Op, Advance(c)
      PROVE  EpochArrives(c) \/ DelArrives(c) \/ UNCHANGED <<fenced, deleted>>
  BY <1>1 DEF Advance, SetArrives, ScanEnds, CallFails,
       ScanDeletes, WatchFirst, ReadMarks, ReadData, ReducerEnds, ExecArrives, ReplyLost,
       ConnectionLost, AfterRefusal, Transaction, history
<1>2. ASSUME NEW c \in Op, EpochArrives(c)
      PROVE  NewEpochBy(c) /\ fenced' = fenced \cup {u \in Op : UnderWay(u)}
             /\ UNCHANGED deleted
  BY <1>0, <1>2, MarkTypes DEF EpochArrives, Answered, Writes, NewEpochBy, FlowTyped
<1>3. ASSUME NEW c \in Op, DelArrives(c)
      PROVE  NewMarkerBy(c) /\ deleted' = deleted \cup {u \in Op : UnderWay(u)}
             /\ UNCHANGED fenced
  BY <1>0, <1>3, MarkTypes DEF DelArrives, Answered, Writes, NewMarkerBy, FlowTyped
<1>4. ASSUME NEW c \in Op, NEW p \in Process,
             CallerCancels(c) \/ UpdateStarts(c, p)
             \/ \E d \in Does \ {"update"} : OtherStarts(c, p, d)
      PROVE  UNCHANGED <<fenced, deleted>>
  BY <1>4 DEF CallerCancels, UpdateStarts, OtherStarts, history
<1>5. CASE KeyExpires \/ UNCHANGED distVars
  BY <1>5 DEF KeyExpires, distVars, history
<1> QED
  BY <1>1, <1>2, <1>3, <1>4, <1>5, RedisUpdateAssumption DEF DistNext

\* What a write finds under way is refused from then on.
LEMMA WriteRefuses ==
    ASSUME FlowTyped, NEW c \in Op, at[c] = "sent", at'[c] # "idle",
           at' = [at EXCEPT ![c] = at'[c]], dirty' = dirty \cup Watching,
           NEW u \in Op, UnderWay(u)
    PROVE  Refused(u)'
<1>1. u # c /\ at'[u] = at[u]
  BY DEF UnderWay, FlowTyped
<1> QED
  BY <1>1 DEF Refused, UnderWay, Watching

\* The epoch of `marks' moves to one that no update under way has seen.
LEMMA FencedKept ==
    ASSUME FlowTyped, RedisTyped, ChainSound, WritersOver, MarksSound, FencedSound,
           [DistNext]_distVars
    PROVE  FencedSound'
<1>1. ASSUME NEW c \in Op, NewEpochBy(c) PROVE \A u \in Op : seen[u].epoch # c
  <2>1. at[c] = "sent" /\ c # NoOp
    BY <1>1, RedisUpdateAssumption DEF NewEpochBy
  <2> QED
    BY <2>1 DEF MarksSound, IsEpoch
<1>2. marks'.epoch = marks.epoch
      \/ \E c \in Op : NewEpochBy(c) /\ marks'.epoch = c
  BY MarksChange DEF MarkerScanned, NewEpochBy, NewMarkerBy
<1>3. ASSUME NEW u \in fenced, u \notin applied
      PROVE  /\ u \notin applied'
             /\ at'[u] = "done" \/ (Refused(u)' /\ seen'[u].epoch # marks'.epoch)
  <2>0. u \in Op
    BY DEF RedisTyped
  <2>1. CASE at[u] = "done"
    BY <2>0, <2>1, <1>3, DoneStays
  <2>2. CASE Refused(u) /\ seen[u].epoch # marks.epoch
    <3>1. /\ Refused(u)' \/ at'[u] = "done"
          /\ seen'[u] = seen[u] /\ (u \in applied' => u \in applied)
      BY <2>0, <2>2, RefusalStays
    <3>2. seen'[u].epoch # marks'.epoch
      BY <2>0, <2>2, <3>1, <1>1, <1>2
    <3> QED
      BY <3>1, <3>2, <1>3
  <2> QED
    BY <2>1, <2>2, <1>3 DEF FencedSound
<1>4. ASSUME NEW c \in Op, EpochArrives(c), NewEpochBy(c), NEW u \in Op, UnderWay(u)
      PROVE  u \notin applied' /\ Refused(u)' /\ seen'[u].epoch # marks'.epoch
  <2>1. u \notin applied
    BY <1>4 DEF WritersOver, Over, UnderWay
  <2>2. applied' = applied /\ seen' = seen /\ dirty' = dirty \cup Watching
        /\ at' = [at EXCEPT ![c] = at'[c]] /\ at[c] = "sent" /\ at'[c] # "idle"
    BY <1>4 DEF EpochArrives, Answered, Writes, updateLocal, FlowTyped
  <2>3. Refused(u)'
    BY <1>4, <2>2, WriteRefuses
  <2> QED
    BY <2>1, <2>2, <2>3, <1>1, <1>4 DEF NewEpochBy
<1>5. fenced \cap applied = {}
  BY DEF FencedSound
<1>6. ASSUME NEW u \in fenced'
      PROVE  /\ u \notin applied'
             /\ at'[u] = "done" \/ (Refused(u)' /\ seen'[u].epoch # marks'.epoch)
  <2>1. CASE u \in fenced
    BY <2>1, <1>3, <1>5
  <2>2. CASE u \notin fenced
    BY <1>6, <2>2, <1>4, FoundUnderWay
  <2> QED
    BY <2>1, <2>2
<1> QED
  BY <1>6 DEF FencedSound

\* As long as no reset() has begun, so does the marker.
LEMMA DeletedKept ==
    ASSUME FlowTyped, RedisTyped, ChainSound, WritersOver, MarksSound, DeletedSound,
           [DistNext]_distVars
    PROVE  DeletedSound'
<1>1. ASSUME NEW c \in Op, NewMarkerBy(c) PROVE \A u \in Op : seen[u].marker # c
  <2>1. at[c] \notin {"done", "failed"} /\ c # NoOp
    BY <1>1, RedisUpdateAssumption DEF NewMarkerBy
  <2> QED
    BY <2>1 DEF MarksSound, IsMarker
<1>2. ResetBegun => ResetBegun'
  <2> SUFFICES ASSUME NEW d \in Op, does[d] = "reset", at[d] # "sent" PROVE ResetBegun'
    BY DEF ResetBegun
  <2>1. at[d] # "idle" /\ Forward(d)
    BY StepsForward DEF ChainSound
  <2> QED
    BY <2>1 DEF Forward, ResetBegun
<1>3. ASSUME NEW c \in Op, NewEpochBy(c) PROVE ResetBegun'
  <2>1. does'[c] = "reset" /\ at'[c] # "sent"
    BY <1>3, StepsForward DEF NewEpochBy, Forward
  <2> QED
    BY <2>1 DEF ResetBegun
<1> SUFFICES ASSUME ~ResetBegun, ~ResetBegun' PROVE DeletedSound'
  BY <1>2 DEF DeletedSound
<1>4. marks'.marker = marks.marker
      \/ \E c \in Op : NewMarkerBy(c) /\ marks'.marker = c
  BY <1>3, MarksChange DEF MarkerScanned, NewMarkerBy
<1>5. ASSUME NEW u \in deleted, u \notin applied
      PROVE  /\ u \notin applied'
             /\ at'[u] = "done" \/ (Refused(u)' /\ seen'[u].marker # marks'.marker)
  <2>0. u \in Op
    BY DEF RedisTyped
  <2>1. CASE at[u] = "done"
    BY <2>0, <2>1, <1>5, DoneStays
  <2>2. CASE Refused(u) /\ seen[u].marker # marks.marker
    <3>1. /\ Refused(u)' \/ at'[u] = "done"
          /\ seen'[u] = seen[u] /\ (u \in applied' => u \in applied)
      BY <2>0, <2>2, RefusalStays
    <3>2. seen'[u].marker # marks'.marker
      BY <2>0, <2>2, <3>1, <1>1, <1>4
    <3> QED
      BY <3>1, <3>2, <1>5
  <2> QED
    BY <2>1, <2>2, <1>5 DEF DeletedSound
<1>6. ASSUME NEW c \in Op, DelArrives(c), NewMarkerBy(c), NEW u \in Op, UnderWay(u)
      PROVE  u \notin applied' /\ Refused(u)' /\ seen'[u].marker # marks'.marker
  <2>1. u \notin applied
    BY <1>6 DEF WritersOver, Over, UnderWay
  <2>2. applied' = applied /\ seen' = seen /\ dirty' = dirty \cup Watching
        /\ at' = [at EXCEPT ![c] = at'[c]] /\ at[c] = "sent" /\ at'[c] # "idle"
    BY <1>6 DEF DelArrives, Answered, Writes, updateLocal, FlowTyped
  <2>3. Refused(u)'
    BY <1>6, <2>2, WriteRefuses
  <2> QED
    BY <2>1, <2>2, <2>3, <1>1, <1>6 DEF NewMarkerBy
<1>7. ASSUME NEW u \in deleted'
      PROVE  /\ u \notin applied'
             /\ at'[u] = "done" \/ (Refused(u)' /\ seen'[u].marker # marks'.marker)
  <2>1. CASE u \in deleted
    BY <2>1, <1>5 DEF DeletedSound
  <2>2. CASE u \notin deleted
    BY <1>7, <2>2, <1>6, FoundUnderWay
  <2> QED
    BY <2>1, <2>2
<1> QED
  BY <1>7 DEF DeletedSound

-----------------------------------------------------------------------------
(* RedisUpdate: what the entry holds *)

\* How the entry changes: a set() replaces it, an update that Redis commits
\* adds itself to it, and otherwise it goes.
Stored(c) ==
    at[c] = "sent" /\ data' = {c} /\ UNCHANGED <<applied, must, before>>

Committed(c) ==
    /\ at[c] = "exec" /\ applied' = applied \cup {c} /\ UNCHANGED before
    /\ (data' = data \cup {c} /\ UNCHANGED must) \/ data' = {}

LEMMA DataChange ==
    ASSUME FlowTyped, RedisTyped, WatchSound, [DistNext]_distVars
    PROVE  \/ UNCHANGED <<data, applied>>
           \/ data' = {} /\ UNCHANGED applied
           \/ \E c \in Op : Stored(c) \/ Committed(c)
<1>1. ASSUME NEW c \in Op, Advance(c)
      PROVE  UNCHANGED <<data, applied>> \/ (data' = {} /\ UNCHANGED applied)
             \/ Stored(c) \/ Committed(c)
  <2>1. CASE SetArrives(c)
    BY <2>1 DEF SetArrives, Writes, Stored, history
  <2>2. CASE ExecArrives(c) \/ ReplyLost(c)
    <3>1. UNCHANGED <<data, applied>>
          \/ (at[c] = "exec" /\ Clean(c) /\ Transaction(c) /\ UNCHANGED before)
      BY <2>2 DEF ExecArrives, ReplyLost, redisVars
    <3>2. at[c] = "exec" /\ Clean(c) => given[c] = data
      BY DEF WatchSound, Clean
    <3> QED
      BY <3>1, <3>2 DEF Transaction, Writes, Committed
  <2>3. CASE ~SetArrives(c) /\ ~ExecArrives(c) /\ ~ReplyLost(c)
    BY <1>1, <2>3 DEF Advance, DelArrives, EpochArrives, ScanEnds, CallFails, ScanDeletes,
       WatchFirst, ReadMarks, ReadData, ReducerEnds, ConnectionLost, AfterRefusal, Writes,
       redisVars, history
  <2> QED
    BY <2>1, <2>2, <2>3
<1>2. ASSUME NEW c \in Op, NEW p \in Process,
             CallerCancels(c) \/ UpdateStarts(c, p)
             \/ \E d \in Does \ {"update"} : OtherStarts(c, p, d)
      PROVE  UNCHANGED <<data, applied>>
  BY <1>2 DEF CallerCancels, UpdateStarts, OtherStarts, redisVars, history
<1>3. CASE KeyExpires \/ UNCHANGED distVars
  BY <1>3 DEF KeyExpires, Writes, distVars, redisVars, history
<1> QED
  BY <1>1, <1>2, <1>3, RedisUpdateAssumption DEF DistNext

\* What a reset() still has to find.
LEMMA MustChange ==
    ASSUME FlowTyped, RedisTyped, [DistNext]_distVars
    PROVE  \/ \E c \in Op : EpochArrives(c)
           \/ /\ UNCHANGED before
              /\ \/ data' = {}
                 \/ \A c \in Op : "data" \in must[c] => "data" \in must'[c]
<1>1. ASSUME NEW c \in Op, Advance(c)
      PROVE  \/ EpochArrives(c)
             \/ /\ UNCHANGED before
                /\ data' = {} \/ \A d \in Op : "data" \in must[d] => "data" \in must'[d]
  <2>1. CASE ExecArrives(c) \/ ReplyLost(c)
    BY <2>1 DEF ExecArrives, ReplyLost, Transaction, Writes
  <2>2. CASE \E k \in {"data", "marker"} : ScanDeletes(c, k)
    BY <2>2 DEF ScanDeletes, Gone, Writes, history
  <2>3. CASE SetArrives(c) \/ DelArrives(c) \/ ScanEnds(c) \/ CallFails(c)
    BY <2>3 DEF SetArrives, DelArrives, ScanEnds, CallFails, Writes, history
  <2>4. CASE WatchFirst(c) \/ ReadMarks(c) \/ ReadData(c) \/ ReducerEnds(c)
             \/ ConnectionLost(c) \/ AfterRefusal(c)
    BY <2>4 DEF WatchFirst, ReadMarks, ReadData, ReducerEnds, ConnectionLost, AfterRefusal,
       history
  <2> QED
    BY <1>1, <2>1, <2>2, <2>3, <2>4 DEF Advance
<1>2. ASSUME NEW c \in Op, NEW p \in Process,
             CallerCancels(c) \/ UpdateStarts(c, p)
             \/ \E d \in Does \ {"update"} : OtherStarts(c, p, d)
      PROVE  UNCHANGED <<before, must>>
  BY <1>2 DEF CallerCancels, UpdateStarts, OtherStarts, history
<1>3. CASE KeyExpires \/ UNCHANGED distVars
  BY <1>3 DEF KeyExpires, Writes, distVars, history
<1> QED
  BY <1>1, <1>2, <1>3, RedisUpdateAssumption DEF DistNext

\* A scan goes on until it has returned what it has to.
LEMMA ScanPhases ==
    ASSUME FlowTyped, ChainSound, [DistNext]_distVars,
           NEW c \in Op, does'[c] = "reset", at'[c] \in {"scanning", "done"}
    PROVE  \/ EpochArrives(c)
           \/ /\ does[c] = "reset" /\ at[c] \in {"scanning", "done"}
              /\ at'[c] = at[c] \/ must[c] = {}
<1>1. CASE UNCHANGED <<at, does>>
  BY <1>1
<1>2. ASSUME NEW d \in Op, Advance(d), d # c, UNCHANGED does
      PROVE  at'[c] = at[c]
  BY <1>2 DEF Advance, SetArrives, DelArrives, EpochArrives, ScanEnds, CallFails,
       ScanDeletes, WatchFirst, ReadMarks, ReadData, ReducerEnds, ExecArrives, ReplyLost,
       ConnectionLost, AfterRefusal, Leaves, Answered, FlowTyped
<1>3. ASSUME NEW d \in Op, Advance(d) PROVE UNCHANGED does
  BY <1>3 DEF Advance, SetArrives, DelArrives, EpochArrives, ScanEnds, CallFails,
       ScanDeletes, WatchFirst, ReadMarks, ReadData, ReducerEnds, ExecArrives, ReplyLost,
       ConnectionLost, AfterRefusal
<1>4. CASE Advance(c)
  <2>0. does[c] = "reset"
    BY <1>3, <1>4
  <2>1. ~Engaged(c) /\ at[c] # "waiting"
    BY <2>0 DEF ChainSound, Engaged, Waits
  <2>2. \/ EpochArrives(c) \/ ScanEnds(c) \/ CallFails(c)
        \/ \E k \in {"data", "marker"} : ScanDeletes(c, k)
    BY <1>4, <2>0, <2>1 DEF Advance, SetArrives, DelArrives, WatchFirst, ReadMarks,
       ReadData, ReducerEnds, ExecArrives, ReplyLost, ConnectionLost, OnConnection,
       AfterRefusal, Engaged
  <2>3. CASE ScanEnds(c)
    BY <2>0, <2>3 DEF ScanEnds, CursorDone
  <2>4. CASE CallFails(c)
    BY <2>4 DEF CallFails, FlowTyped
  <2>5. CASE \E k \in {"data", "marker"} : ScanDeletes(c, k)
    BY <2>0, <2>5 DEF ScanDeletes
  <2> QED
    BY <2>2, <2>3, <2>4, <2>5
<1>5. ASSUME NEW d \in Op, NEW p \in Process,
             CallerCancels(d) \/ UpdateStarts(d, p)
             \/ \E e \in Does \ {"update"} : OtherStarts(d, p, e)
      PROVE  (d # c /\ at'[c] = at[c] /\ does'[c] = does[c]) \/ UNCHANGED <<at, does>>
  BY <1>5 DEF CallerCancels, UpdateStarts, OtherStarts, Calls, FlowTyped
<1>6. CASE KeyExpires \/ UNCHANGED distVars
  BY <1>6, <1>1 DEF KeyExpires, distVars
<1> QED
  BY <1>1, <1>2, <1>3, <1>4, <1>5, <1>6, RedisUpdateAssumption DEF DistNext

LEMMA ScanKept ==
    ASSUME FlowTyped, RedisTyped, ChainSound, WatchSound, WritersOver, ScanSound,
           [DistNext]_distVars
    PROVE  ScanSound'
<1> SUFFICES ASSUME NEW c \in Op, does'[c] = "reset", at'[c] \in {"scanning", "done"}
             PROVE  data' \cap before'[c] = {} \/ (at'[c] = "scanning" /\ "data" \in must'[c])
  BY DEF ScanSound
<1>1. CASE EpochArrives(c)
  <2>1. /\ data' = data /\ before'[c] = data /\ at'[c] = "scanning"
        /\ data # {} => "data" \in must'[c]
    BY <1>1 DEF EpochArrives, Answered, Writes, FlowTyped, RedisTyped
  <2> QED
    BY <2>1
<1>2. ASSUME NEW d \in Op, EpochArrives(d), d # c
      PROVE  UNCHANGED data /\ before'[c] = before[c] /\ must'[c] = must[c]
  BY <1>2 DEF EpochArrives, Writes, RedisTyped
<1>3. CASE ~EpochArrives(c)
  <2>1. /\ does[c] = "reset" /\ at[c] \in {"scanning", "done"}
        /\ at'[c] = at[c] \/ must[c] = {}
    BY <1>3, ScanPhases
  <2>2. data \cap before[c] = {} \/ (at'[c] = "scanning" /\ "data" \in must[c])
    BY <2>1 DEF ScanSound
  <2>3. before'[c] = before[c] /\ (data' = {} \/ ("data" \in must[c] => "data" \in must'[c]))
    BY <1>2, <1>3, MustChange
  <2>4. ASSUME NEW d \in Op, at[d] \notin {"done", "failed"} PROVE d \notin before[c]
    BY <2>4 DEF WritersOver, Over
  <2>5. data' \cap before[c] \subseteq data \cap before[c]
    <3>1. CASE UNCHANGED data \/ data' = {}
      BY <3>1
    <3>2. ASSUME NEW d \in Op, Stored(d) \/ Committed(d)
          PROVE  data' \subseteq data \cup {d} /\ d \notin before[c]
      BY <3>2, <2>4 DEF Stored, Committed
    <3> QED
      BY <3>1, <3>2, DataChange
  <2> QED
    BY <2>2, <2>3, <2>5
<1> QED
  BY <1>1, <1>3

-----------------------------------------------------------------------------
(* RedisUpdate: the theorems *)

LEMMA DistInvInit == ASSUME DistInit PROVE DistInv
<1>0. Process # {} /\ 0 \in 0 .. MaxTries
  BY RedisUpdateAssumption
<1>1. (CHOOSE p \in Process : TRUE) \in Process
  BY <1>0
<1>2. NoMark \in MarkPair /\ NoMark.epoch = NoOp /\ NoMark.marker = NoOp
  BY DEF NoMark, MarkPair
<1>3. FlowTyped
  <2>1. where \in [Op -> Process]
    <3> DEFINE first == CHOOSE p \in Process : TRUE
    <3>1. where = [c \in Op |-> first]
      BY DEF DistInit
    <3> HIDE DEF first
    <3> QED
      BY <1>1, <3>1 DEF first
  <2>2. chain \in [Process -> Seq(Op)]
    BY DEF DistInit
  <2>3. at \in [Op -> At] /\ does \in [Op -> Does] /\ canceled \subseteq Op
    BY DEF DistInit, At, Does
  <2> QED
    BY <2>1, <2>2, <2>3 DEF FlowTyped
<1>4. RedisTyped
  BY <1>0, <1>2 DEF DistInit, RedisTyped
<1>5. ChainSound
  <2>1. <<>> \in Seq(Op) /\ Distinct(<<>>) /\ In(<<>>) = {}
    BY DEF Distinct, In
  <2>2. \A c \in Op : at[c] = "idle" /\ does[c] = "set"
    BY DEF DistInit
  <2>3. \A p \in Process : chain[p] = <<>>
    BY DEF DistInit
  <2> QED
    BY <2>1, <2>2, <2>3 DEF ChainSound, Waits, Engaged
<1>6. WatchSound /\ WritersOver
  BY DEF DistInit, WatchSound, WritersOver, Over
<1>7. MarksSound
  BY <1>2 DEF DistInit, MarksSound, IsEpoch, IsMarker
<1>8. FencedSound /\ DeletedSound /\ ScanSound
  BY DEF DistInit, FencedSound, DeletedSound, ScanSound
<1> QED
  BY <1>3, <1>4, <1>5, <1>6, <1>7, <1>8 DEF DistInv

LEMMA DistInvStep == ASSUME DistInv, [DistNext]_distVars PROVE DistInv'
BY FlowKept, RedisTypesKept, WatchKept, WritersKept, MarksKept, FencedKept, DeletedKept,
   ScanKept DEF DistInv

THEOREM DistInvHolds == DistSpec => []DistInv
<1>1. DistInit => DistInv
  BY DistInvInit
<1>2. DistInv /\ [DistNext]_distVars => DistInv'
  BY DistInvStep
<1> QED
  BY <1>1, <1>2, PTL DEF DistSpec

\* RedisStore.atomicUpdates: every call and what it reads is well-formed, and
\* exactly the updates under way are registered with the queues.
THEOREM DistTypesHold == DistSpec => []DistTypeOK
<1>1. DistInv => DistTypeOK
  BY TypesFollow DEF DistInv
<1> QED
  BY <1>1, DistInvHolds, PTL

\* RedisStore.update(): an update that a reset() or del() found under way is
\* given up, never tried again on what was written later.
THEOREM StaleUpdatesGiveUp == DistSpec => []StaleNotRetried
<1>1. DistInv => StaleNotRetried
  BY DEF DistInv, StaleNotRetried, FencedSound, DeletedSound, ResetBegun
<1> QED
  BY <1>1, DistInvHolds, PTL

\* RedisStore.reset(): after a reset() the key holds nothing computed from what
\* it held when the reset began.
THEOREM ResetsForget == DistSpec => []ResetForgets
<1>1. DistInv => ResetForgets
  BY DEF DistInv, ResetForgets, ScanSound
<1> QED
  BY <1>1, DistInvHolds, PTL

\* RedisStore.update(): updates of several processes implement an AtomicCell.
THEOREM RedisImplementsCell == DistSpec => DistributedAtomic
<1>1. DistInit => DistCell!Init
  BY DEF DistInit, DistCell!Init
<1>2. DistInv /\ [DistNext]_distVars => [DistCell!Next]_(DistCell!vars)
  <2> SUFFICES ASSUME DistInv, [DistNext]_distVars
               PROVE  [DistCell!Next]_(DistCell!vars)
    OBVIOUS
  <2>1. CASE UNCHANGED <<data, applied>>
    BY <2>1 DEF DistCell!vars
  <2>2. CASE data' = {} /\ UNCHANGED applied
    BY <2>2 DEF DistCell!Next, DistCell!Vanish
  <2>3. ASSUME NEW c \in Op, Stored(c) \/ Committed(c)
        PROVE  DistCell!Update(c) \/ DistCell!Overwrite(c)
    <3>1. c \notin applied
      BY <2>3 DEF Stored, Committed, DistInv, WritersOver, Over
    <3> QED
      BY <2>3, <3>1 DEF Stored, Committed, DistCell!Update, DistCell!Overwrite
  <2> QED
    BY <2>1, <2>2, <2>3, DataChange DEF DistInv, DistCell!Next
<1> QED
  BY <1>1, <1>2, DistInvHolds, PTL DEF DistSpec, DistributedAtomic, DistCell!Spec

-----------------------------------------------------------------------------
(* CacheUpdate: lines and the queue of the store *)

\* The only element of a queue that is its first and its last.
LEMMA FirstAndLast ==
    ASSUME NEW S, NEW s \in Seq(S), s # <<>>, Distinct(s), Head(s) = LastOf(s)
    PROVE  Tail(s) = <<>> /\ In(s) = {Head(s)}
<1>1. Len(s) \in Nat \ {0} /\ DOMAIN s = 1 .. Len(s) /\ Head(s) = s[1]
  OBVIOUS
<1>2. 1 \in DOMAIN s /\ Len(s) \in DOMAIN s
  BY <1>1
<1>3. Len(s) = 1
  BY <1>1, <1>2 DEF Distinct, LastOf
<1>4. Tail(s) = <<>>
  <2>1. Tail(s) \in Seq(S) /\ Len(Tail(s)) = 0
    BY <1>3
  <2>2. \A t \in Seq(S) : Len(t) = 0 => t = <<>>
    OBVIOUS
  <2> QED
    BY <2>1, <2>2
<1>5. In(s) = {s[1]}
  BY <1>1, <1>3 DEF In
<1> QED
  BY <1>1, <1>4, <1>5

LEMMA LastStays ==
    ASSUME NEW S, NEW s \in Seq(S), s # <<>>, Tail(s) # <<>>
    PROVE  LastOf(Tail(s)) = LastOf(s)
<1>1. Len(s) \in Nat \ {0} /\ Tail(s) \in Seq(S) /\ Len(Tail(s)) = Len(s) - 1
  OBVIOUS
<1>2. Len(s) # 1
  <2>1. \A t \in Seq(S) : Len(t) = 0 => t = <<>>
    OBVIOUS
  <2> QED
    BY <1>1, <2>1
<1>3. Tail(s)[Len(s) - 1] = s[Len(s)]
  BY <1>1, <1>2
<1> QED
  BY <1>1, <1>3 DEF LastOf

LEMMA LastJoins ==
    ASSUME NEW S, NEW s \in Seq(S), NEW c \in S
    PROVE  LastOf(Append(s, c)) = c
BY DEF LastOf

LEMMA LineElements ==
    ASSUME CallsTyped
    PROVE  /\ \A s \in Service : \A c \in In(line[s]) : c \in Caller
           /\ \A c \in In(tail) : c \in Caller
BY DEF CallsTyped, In

LEMMA LineJoins ==
    ASSUME CallsTyped, LineSound, NEW c \in Caller, NEW s \in Service, phase[c] = "idle",
           line' = [line EXCEPT ![s] = Append(@, c)],
           phase' = [phase EXCEPT ![c] = "queued"], home' = [home EXCEPT ![c] = s]
    PROVE  line' \in [Service -> Seq(Caller)] /\ LineSound'
<1> DEFINE q == line[s]
<1>1. /\ q \in Seq(Caller) /\ Distinct(q)
      /\ \A r \in Service : \A d \in In(line[r]) : d \in Caller /\ d # c
  BY LineElements DEF CallsTyped, LineSound
<1>2. Append(q, c) \in Seq(Caller) /\ Distinct(Append(q, c)) /\ In(Append(q, c)) = In(q) \cup {c}
  BY <1>1, JoinsQueue
<1>3. /\ line'[s] = Append(q, c) /\ \A r \in Service \ {s} : line'[r] = line[r]
      /\ phase'[c] = "queued" /\ home'[c] = s
      /\ \A d \in Caller \ {c} : phase'[d] = phase[d] /\ home'[d] = home[d]
  BY DEF CallsTyped
<1>4. line' \in [Service -> Seq(Caller)]
  BY <1>2 DEF CallsTyped
<1> HIDE DEF q
<1>5. \A r \in Service : Distinct(line[r])'
  BY <1>2, <1>3 DEF LineSound, Distinct
<1>6. \A r \in Service : In(line[r])' = In(line[r]) \cup (IF r = s THEN {c} ELSE {})
  BY <1>2, <1>3 DEF q
<1>7. \A r \in Service : \A d \in In(line[r])' : phase'[d] = "queued" /\ home'[d] = r
  <2> SUFFICES ASSUME NEW r \in Service, NEW d \in In(line[r])'
               PROVE  phase'[d] = "queued" /\ home'[d] = r
    OBVIOUS
  <2>1. CASE d \in In(line[r])
    BY <2>1, <1>1, <1>3 DEF LineSound
  <2>2. CASE d \notin In(line[r])
    <3>1. d = c /\ r = s
      BY <2>2, <1>6
    <3> QED
      BY <3>1, <1>3
  <2> QED
    BY <2>1, <2>2
<1>8. \A d \in Caller : phase'[d] = "queued" => d \in In(line[home[d]])'
  <2> SUFFICES ASSUME NEW d \in Caller, phase'[d] = "queued" PROVE d \in In(line[home[d]])'
    OBVIOUS
  <2>1. PICK r \in Service : r = home'[d]
    BY <1>3 DEF CallsTyped
  <2>2. d \in In(line[r])'
    BY <2>1, <1>3, <1>6 DEF LineSound
  <2> QED
    BY <2>1, <2>2
<1> QED
  BY <1>4, <1>5, <1>7, <1>8 DEF LineSound

LEMMA LineLeaves ==
    ASSUME CallsTyped, LineSound, NEW c \in Caller, NEW p, p # "queued",
           FirstInLine(c), LeaveLine(c), phase' = [phase EXCEPT ![c] = p], home' = home
    PROVE  /\ line' \in [Service -> Seq(Caller)] /\ LineSound'
           /\ phase[c] = "queued"
<1> PICK s \in Service : s = home[c]
  BY DEF CallsTyped
<1> DEFINE q == line[s]
<1>1. q # <<>> /\ Head(q) = c /\ line' = [line EXCEPT ![s] = Tail(q)]
  BY DEF FirstInLine, LeaveLine
<1>2. q \in Seq(Caller) /\ Distinct(q)
  BY DEF CallsTyped, LineSound
<1>3. /\ Tail(q) \in Seq(Caller) /\ Distinct(Tail(q)) /\ c \in In(q)
      /\ In(Tail(q)) = In(q) \ {c}
  BY <1>1, <1>2, LeavesQueue
<1>4. /\ line'[s] = Tail(q) /\ \A r \in Service \ {s} : line'[r] = line[r]
      /\ phase'[c] = p /\ \A d \in Caller \ {c} : phase'[d] = phase[d]
  BY <1>1 DEF CallsTyped
<1>5. line' \in [Service -> Seq(Caller)]
  BY <1>1, <1>3 DEF CallsTyped
<1> HIDE DEF q
<1>6. phase[c] = "queued"
  BY <1>3 DEF LineSound, q
<1>7. \A r \in Service : Distinct(line[r])'
  BY SMTT(30), <1>3, <1>4 DEF LineSound, Distinct
<1>8. \A r \in Service : In(line[r])' = In(line[r]) \ {c}
  <2> SUFFICES ASSUME NEW r \in Service PROVE In(line[r])' = In(line[r]) \ {c}
    OBVIOUS
  <2>1. CASE r = s
    BY <2>1, <1>3, <1>4 DEF q
  <2>2. CASE r # s
    <3>1. c \notin In(line[r])
      BY <2>2 DEF LineSound
    <3> QED
      BY <3>1, <2>2, <1>4
  <2> QED
    BY <2>1, <2>2
<1>9. \A r \in Service : \A d \in In(line[r])' : phase'[d] = "queued" /\ home'[d] = r
  BY <1>4, <1>8, LineElements DEF LineSound
<1>10. \A d \in Caller : phase'[d] = "queued" => d \in In(line[home[d]])'
  <2> SUFFICES ASSUME NEW d \in Caller, phase'[d] = "queued" PROVE d \in In(line[home[d]])'
    OBVIOUS
  <2>1. PICK r \in Service : r = home[d]
    BY DEF CallsTyped
  <2>2. d \in In(line[r])'
    BY <2>1, <1>4, <1>8 DEF LineSound
  <2> QED
    BY <2>1, <2>2
<1> QED
  BY <1>5, <1>6, <1>7, <1>9, <1>10 DEF LineSound

LEMMA LineStays ==
    ASSUME CallsTyped, LineSound, line' = line,
           \A d \in Caller : phase'[d] = "queued" <=> phase[d] = "queued",
           \A d \in Caller : phase[d] = "queued" => home'[d] = home[d]
    PROVE  LineSound'
BY LineElements DEF LineSound

LEMMA TailJoins ==
    ASSUME CallsTyped, TailSound, ActsSound, NEW c \in Caller, phase[c] = "idle",
           tail' = Append(tail, c), act' = [act EXCEPT ![c] = "update"],
           phase' = [phase EXCEPT ![c] = "queued"]
    PROVE  tail' \in Seq(Caller) /\ TailSound'
<1>1. tail \in Seq(Caller) /\ Distinct(tail) /\ \A d \in In(tail) : d \in Caller /\ d # c
  BY LineElements DEF CallsTyped, TailSound, Open
<1>2. /\ tail' \in Seq(Caller) /\ Distinct(tail') /\ In(tail') = In(tail) \cup {c}
      /\ tail # <<>> => Head(tail') = Head(tail)
  BY <1>1, JoinsQueue
<1>3. /\ phase'[c] = "queued" /\ act'[c] = "update"
      /\ \A d \in Caller \ {c} : phase'[d] = phase[d] /\ act'[d] = act[d]
  BY DEF CallsTyped
<1>4. \A d \in Caller : Open(d)' <=> Open(d) \/ d = c
  BY <1>3 DEF Open
<1>5. ASSUME NEW d \in Caller, phase'[d] = "reducing" PROVE Head(tail') = d
  <2>1. d # c /\ phase[d] = "reducing"
    BY <1>3, <1>5
  <2>2. Head(tail) = d /\ tail # <<>>
    <3>1. d \in In(tail)
      BY <2>1 DEF TailSound, Open, ActsSound
    <3> QED
      BY <3>1, <2>1 DEF TailSound, In
  <2> QED
    BY <2>2, <1>2
<1> QED
  BY <1>1, <1>2, <1>4, <1>5 DEF TailSound

LEMMA TailLeaves ==
    ASSUME CallsTyped, TailSound, NEW c \in Caller, NEW p \in {"failed", "committed"},
           tail # <<>>, Head(tail) = c, Settle(c, p), act' = act
    PROVE  tail' \in Seq(Caller) /\ TailSound'
<1>1. /\ Tail(tail) \in Seq(Caller) /\ Distinct(Tail(tail))
      /\ In(Tail(tail)) = In(tail) \ {c} /\ tail' = Tail(tail)
  BY LeavesQueue DEF CallsTyped, TailSound, Settle
<1>2. phase'[c] = p /\ \A d \in Caller \ {c} : phase'[d] = phase[d]
  BY DEF Settle, CallsTyped
<1>3. \A d \in Caller : Open(d)' <=> Open(d) /\ d # c
  BY <1>2 DEF Open
<1>4. \A d \in Caller : phase'[d] # "reducing"
  BY <1>2 DEF TailSound
<1> QED
  BY <1>1, <1>3, <1>4, LineElements DEF TailSound

LEMMA TailStays ==
    ASSUME CallsTyped, TailSound, tail' = tail,
           \A d \in Caller : Open(d)' <=> Open(d),
           \A d \in Caller : phase'[d] = "reducing" => phase[d] = "reducing" \/ Head(tail) = d
    PROVE  TailSound'
BY LineElements DEF TailSound

\* Whoever runs its reducer is the first update in the queue.
LEMMA ReducingHeads ==
    ASSUME CallsTyped, TailSound, ActsSound, NEW c \in Caller, phase[c] = "reducing"
    PROVE  tail # <<>> /\ Head(tail) = c
<1>1. c \in In(tail) /\ Head(tail) = c
  BY DEF TailSound, ActsSound, Open
<1> QED
  BY <1>1 DEF In

-----------------------------------------------------------------------------
(* CacheUpdate: calls, lines and the queue of the store *)

FlowSound == CallsTyped /\ LineSound /\ TailSound /\ ActsSound /\ ClosesSound

LEMMA UpdateCallKept ==
    ASSUME FlowSound, NEW c \in Caller, NEW s \in Service, UpdateCall(c, s)
    PROVE  FlowSound'
<1> USE DEF FlowSound
<1>1. /\ phase[c] = "idle" /\ act' = [act EXCEPT ![c] = "update"]
      /\ home' = [home EXCEPT ![c] = s] /\ UNCHANGED <<shut, aborted, met>>
  BY DEF UpdateCall
<1>2. /\ act'[c] = "update" /\ home'[c] = s
      /\ \A d \in Caller \ {c} : act'[d] = act[d] /\ home'[d] = home[d]
  BY <1>1 DEF CallsTyped
<1>3. CASE shut[s] /\ phase' = [phase EXCEPT ![c] = "failed"] /\ UNCHANGED <<line, tail>>
  <2>1. phase'[c] = "failed" /\ \A d \in Caller \ {c} : phase'[d] = phase[d]
    BY <1>3 DEF CallsTyped
  <2>2. CallsTyped'
    BY <1>1, <1>3 DEF CallsTyped, Act, Phase
  <2>3. LineSound'
    BY <1>1, <1>2, <1>3, <2>1, LineStays
  <2>4. TailSound'
    <3>1. \A d \in Caller : Open(d)' <=> Open(d)
      BY <1>1, <1>2, <2>1 DEF Open
    <3> QED
      BY <1>3, <2>1, <3>1, TailStays
  <2>5. ActsSound' /\ ClosesSound'
    BY <1>1, <1>2, <1>3, <2>1 DEF ActsSound, ClosesSound
  <2> QED
    BY <2>2, <2>3, <2>4, <2>5
<1>4. CASE /\ ~shut[s] /\ phase' = [phase EXCEPT ![c] = "queued"]
           /\ line' = [line EXCEPT ![s] = Append(@, c)] /\ tail' = Append(tail, c)
  <2>1. phase'[c] = "queued" /\ \A d \in Caller \ {c} : phase'[d] = phase[d]
    BY <1>4 DEF CallsTyped
  <2>2. line' \in [Service -> Seq(Caller)] /\ LineSound'
    BY <1>1, <1>4, LineJoins
  <2>3. tail' \in Seq(Caller) /\ TailSound'
    BY <1>1, <1>4, TailJoins
  <2>4. CallsTyped'
    BY <1>1, <1>4, <2>2, <2>3 DEF CallsTyped, Act, Phase
  <2>5. ActsSound'
    BY <1>1, <1>2, <2>1 DEF ActsSound
  <2>6. \A r \in Service : shut[r] => r # s /\ line'[r] = line[r]
    BY <1>4 DEF CallsTyped
  <2>7. ClosesSound'
    <3> SUFFICES ASSUME NEW e \in Caller, act'[e] = "close"
                 PROVE  /\ shut'[home'[e]]
                        /\ phase'[e] = "queued" => LastOf(line'[home'[e]]) = e
                        /\ phase'[e] # "queued" =>
                              \A d \in Caller : home'[d] = home'[e] =>
                                  phase'[d] \notin {"queued", "admitted", "reducing"}
      BY DEF ClosesSound
    <3>1. e # c /\ act[e] = "close" /\ home'[e] = home[e] /\ phase'[e] = phase[e]
      BY <1>2, <2>1
    <3>2. PICK r \in Service : r = home[e]
      BY DEF CallsTyped
    <3>3. shut[r] /\ r # s /\ line'[r] = line[r] /\ shut' = shut
      BY <3>1, <3>2, <2>6, <1>1 DEF ClosesSound
    <3>4. phase[e] = "queued" => LastOf(line[r]) = e
      BY <3>1, <3>2 DEF ClosesSound
    <3>5. phase[e] # "queued" => \A d \in Caller : home'[d] = r =>
             phase'[d] \notin {"queued", "admitted", "reducing"}
      BY <3>1, <3>2, <3>3, <1>2, <2>1 DEF ClosesSound
    <3> QED
      BY <3>1, <3>2, <3>3, <3>4, <3>5
  <2> QED
    BY <2>2, <2>3, <2>4, <2>5, <2>7
<1> QED
  BY <1>3, <1>4 DEF UpdateCall

LEMMA OtherCallKept ==
    ASSUME FlowSound, NEW c \in Caller, NEW s \in Service, NEW a \in Act \ {"update"},
           OtherCall(c, s, a)
    PROVE  FlowSound'
<1> USE DEF FlowSound
<1>1. /\ phase[c] = "idle" /\ ~shut[s] /\ act' = [act EXCEPT ![c] = a]
      /\ home' = [home EXCEPT ![c] = s] /\ phase' = [phase EXCEPT ![c] = "queued"]
      /\ line' = [line EXCEPT ![s] = Append(@, c)] /\ tail' = tail
      /\ shut' = [shut EXCEPT ![s] = @ \/ a = "close"]
  BY DEF OtherCall
<1>2. /\ act'[c] = a /\ home'[c] = s /\ phase'[c] = "queued"
      /\ \A d \in Caller \ {c} : act'[d] = act[d] /\ home'[d] = home[d] /\ phase'[d] = phase[d]
  BY <1>1 DEF CallsTyped
<1>3. line' \in [Service -> Seq(Caller)] /\ LineSound'
  BY <1>1, LineJoins
<1>4. CallsTyped'
  <2>1. aborted' \subseteq Caller /\ met' \subseteq Caller
    BY DEF OtherCall, Told, Updates, CallsTyped
  <2>2. shut' \in [Service -> BOOLEAN]
    BY <1>1 DEF CallsTyped
  <2> QED
    BY <1>1, <1>3, <2>1, <2>2 DEF CallsTyped, Act, Phase
<1>5. TailSound'
  <2>1. \A d \in Caller : Open(d)' <=> Open(d)
    BY <1>1, <1>2 DEF Open
  <2> QED
    BY <1>1, <1>2, <2>1, TailStays
<1>6. ActsSound'
  BY <1>1, <1>2 DEF ActsSound
<1>7. LastOf(line'[s]) = c /\ \A r \in Service : r # s => line'[r] = line[r]
  BY <1>1, LastJoins DEF CallsTyped
<1>8. \A r \in Service : shut[r] => shut'[r] /\ r # s
  BY <1>1 DEF CallsTyped
<1>9. ClosesSound'
  <2> SUFFICES ASSUME NEW e \in Caller, act'[e] = "close"
               PROVE  /\ shut'[home'[e]]
                      /\ phase'[e] = "queued" => LastOf(line'[home'[e]]) = e
                      /\ phase'[e] # "queued" =>
                            \A d \in Caller : home'[d] = home'[e] =>
                                phase'[d] \notin {"queued", "admitted", "reducing"}
    BY DEF ClosesSound
  <2>1. CASE e = c
    <3>1. a = "close" /\ shut'[s]
      BY <2>1, <1>1, <1>2 DEF CallsTyped
    <3> QED
      BY <2>1, <3>1, <1>2, <1>7
  <2>2. CASE e # c
    <3>1. act[e] = "close" /\ home'[e] = home[e] /\ phase'[e] = phase[e]
      BY <2>2, <1>2
    <3>2. PICK r \in Service : r = home[e]
      BY DEF CallsTyped
    <3>3. shut[r] /\ shut'[r] /\ r # s /\ line'[r] = line[r]
      BY <3>1, <3>2, <1>7, <1>8 DEF ClosesSound
    <3>4. phase[e] = "queued" => LastOf(line[r]) = e
      BY <3>1, <3>2 DEF ClosesSound
    <3>5. phase[e] # "queued" => \A d \in Caller : home'[d] = r =>
             phase'[d] \notin {"queued", "admitted", "reducing"}
      BY <3>1, <3>2, <3>3, <1>2 DEF ClosesSound
    <3> QED
      BY <3>1, <3>2, <3>3, <3>4, <3>5
  <2> QED
    BY <2>1, <2>2
<1> QED
  BY <1>3, <1>4, <1>5, <1>6, <1>9

\* The scheduler takes the head of a line.
LEMMA ServedKept ==
    ASSUME FlowSound, NEW c \in Caller, Admit(c) \/ RunOperation(c)
    PROVE  FlowSound' /\ phase[c] = "queued"
<1> USE DEF FlowSound
<1> DEFINE p == IF act[c] = "update" THEN "admitted" ELSE "done"
<1>1. /\ FirstInLine(c) /\ LeaveLine(c) /\ phase' = [phase EXCEPT ![c] = p]
      /\ UNCHANGED <<shut, tail, act, home>>
      /\ aborted' \subseteq Caller /\ met' \subseteq Caller
  <2>1. CASE Admit(c)
    BY <2>1 DEF Admit, callState, CallsTyped
  <2>2. CASE RunOperation(c)
    <3>1. aborted' \subseteq Caller /\ met' \subseteq Caller
      BY <2>2 DEF RunOperation, StoreTold, CallsTyped
    <3> QED
      BY <2>2, <3>1 DEF RunOperation, callState
  <2> QED
    BY <2>1, <2>2
<1>2. line' \in [Service -> Seq(Caller)] /\ LineSound' /\ phase[c] = "queued"
  <2>1. p # "queued"
    OBVIOUS
  <2> HIDE DEF p
  <2> QED
    BY <1>1, <2>1, LineLeaves
<1>3. CallsTyped'
  BY <1>1, <1>2 DEF CallsTyped, Phase
<1>4. phase'[c] = p /\ \A d \in Caller \ {c} : phase'[d] = phase[d]
  BY <1>1 DEF CallsTyped
<1>5. TailSound'
  <2>1. \A d \in Caller : Open(d)' <=> Open(d)
    BY <1>1, <1>2, <1>4 DEF Open
  <2> QED
    BY <1>1, <1>4, <2>1, TailStays
<1>6. ActsSound'
  BY <1>1, <1>4 DEF ActsSound
<1> PICK s \in Service : s = home[c]
  BY DEF CallsTyped
<1>7. /\ line[s] \in Seq(Caller) /\ Distinct(line[s]) /\ line[s] # <<>> /\ Head(line[s]) = c
      /\ line'[s] = Tail(line[s]) /\ \A r \in Service : r # s => line'[r] = line[r]
  BY <1>1 DEF FirstInLine, LeaveLine, CallsTyped, LineSound
<1>8. ClosesSound'
  <2> SUFFICES ASSUME NEW e \in Caller, act[e] = "close"
               PROVE  /\ shut[home[e]]
                      /\ phase'[e] = "queued" => LastOf(line'[home[e]]) = e
                      /\ phase'[e] # "queued" =>
                            \A d \in Caller : home[d] = home[e] =>
                                phase'[d] \notin {"queued", "admitted", "reducing"}
    BY <1>1 DEF ClosesSound
  <2>1. shut[home[e]]
    BY DEF ClosesSound
  <2>2. CASE e = c
    <3>1. LastOf(line[s]) = c /\ In(line[s]) = {c}
      BY <2>2, <1>2, <1>7, FirstAndLast DEF ClosesSound
    <3>2. ServiceDrained(s) /\ phase'[c] = "done"
      BY <2>2, <1>1, <1>4 DEF Admit, RunOperation, Boundary
    <3>3. \A d \in Caller : phase[d] = "queued" /\ home[d] = s => d = c
      BY <3>1 DEF LineSound
    <3> QED
      BY <2>1, <2>2, <3>2, <3>3, <1>4 DEF ServiceDrained
  <2>3. CASE e # c /\ phase[e] = "queued"
    <3>1. PICK r \in Service : r = home[e]
      BY DEF CallsTyped
    <3>2. LastOf(line[r]) = e /\ e \in In(line[r])
      BY <2>3, <3>1 DEF ClosesSound, LineSound
    <3>3. CASE r # s
      BY <2>1, <2>3, <3>1, <3>2, <3>3, <1>4, <1>7
    <3>4. CASE r = s
      <4>1. e \in In(line[s]) \ {c} /\ In(Tail(line[s])) = In(line[s]) \ {c}
        BY <2>3, <3>2, <3>4, <1>7, LeavesQueue
      <4>2. Tail(line[s]) # <<>>
        BY <4>1 DEF In
      <4>3. LastOf(line'[s]) = e
        BY <3>2, <3>4, <4>2, <1>7, LastStays
      <4> QED
        BY <2>1, <2>3, <3>1, <3>4, <4>3, <1>4
    <3> QED
      BY <3>3, <3>4
  <2>4. CASE e # c /\ phase[e] # "queued"
    <3>1. home[c] # home[e]
      BY <2>4, <1>2 DEF ClosesSound
    <3> QED
      BY <2>1, <2>4, <3>1, <1>4 DEF ClosesSound
  <2> QED
    BY <2>2, <2>3, <2>4
<1> QED
  BY <1>2, <1>3, <1>5, <1>6, <1>8

\* An update of the store settles.
LEMMA SettledKept ==
    ASSUME FlowSound, NEW c \in Caller, NEW p \in {"failed", "committed"},
           phase[c] \in {"admitted", "reducing"}, tail # <<>>, Head(tail) = c, Settle(c, p),
           UNCHANGED <<shut, line, aborted, act, home, met>>
    PROVE  FlowSound'
<1> USE DEF FlowSound
<1>1. tail' \in Seq(Caller) /\ TailSound'
  BY TailLeaves
<1>2. phase'[c] = p /\ \A d \in Caller \ {c} : phase'[d] = phase[d]
  BY DEF Settle, CallsTyped
<1>3. CallsTyped'
  BY <1>1 DEF CallsTyped, Phase, Settle
<1>4. LineSound'
  BY <1>2, LineStays
<1>5. ActsSound'
  BY <1>2 DEF ActsSound
<1>6. ClosesSound'
  BY <1>2 DEF ClosesSound, ActsSound
<1> QED
  BY <1>1, <1>3, <1>4, <1>5, <1>6

LEMMA UpdateFlowKept ==
    ASSUME FlowSound, [UpdateNext]_updateVars
    PROVE  FlowSound'
<1> USE DEF FlowSound
<1>1. ASSUME UNCHANGED <<shut, line, tail, phase, act, home>>,
             aborted' \subseteq Caller, met' \subseteq Caller
      PROVE  FlowSound'
  BY <1>1 DEF CallsTyped, LineSound, TailSound, Open, ActsSound, ClosesSound
<1>2. CASE Evict \/ Tick \/ UNCHANGED updateVars
  BY <1>2, <1>1 DEF Evict, Tick, updateVars, callState, CallsTyped
<1>3. ASSUME NEW c \in Caller, CallerAborts(c) PROVE FlowSound'
  BY <1>3, <1>1 DEF CallerAborts, callState, CallsTyped
<1>4. ASSUME NEW c \in Caller, BeginUpdate(c) PROVE FlowSound'
  <2>1. /\ tail # <<>> /\ Head(tail) = c /\ phase[c] = "admitted"
        /\ UNCHANGED <<shut, line, aborted, act, home, met>>
    BY <1>4 DEF BeginUpdate, MyTurn, callState
  <2>2. CASE Settle(c, "failed")
    BY <2>1, <2>2, SettledKept
  <2>3. CASE phase' = [phase EXCEPT ![c] = "reducing"] /\ tail' = tail
    <3>1. phase'[c] = "reducing" /\ \A d \in Caller \ {c} : phase'[d] = phase[d]
      BY <2>3 DEF CallsTyped
    <3>2. CallsTyped'
      BY <2>1, <2>3 DEF CallsTyped, Phase
    <3>3. LineSound'
      BY <2>1, <3>1, LineStays
    <3>4. TailSound'
      <4>1. \A d \in Caller : Open(d)' <=> Open(d)
        BY <2>1, <3>1 DEF Open
      <4> QED
        BY <2>1, <2>3, <3>1, <4>1, TailStays
    <3>5. ActsSound' /\ ClosesSound'
      BY <2>1, <3>1 DEF ActsSound, ClosesSound
    <3> QED
      BY <3>2, <3>3, <3>4, <3>5
  <2> QED
    BY <1>4, <2>2, <2>3 DEF BeginUpdate
<1>5. ASSUME NEW c \in Caller, ReducerFails(c) \/ Commit(c) PROVE FlowSound'
  <2>1. /\ phase[c] = "reducing" /\ UNCHANGED <<shut, line, aborted, act, home, met>>
        /\ Settle(c, "failed") \/ Settle(c, "committed")
    BY <1>5 DEF ReducerFails, Commit, MayCommit, callState
  <2> QED
    BY <2>1, ReducingHeads, SettledKept
<1>6. ASSUME NEW c \in Caller, Retry(c) PROVE FlowSound'
  <2>1. /\ phase[c] = "reducing" /\ UNCHANGED <<shut, line, aborted, act, home, met>>
        /\ Settle(c, "failed") \/ UNCHANGED <<phase, tail>>
    BY <1>6 DEF Retry, MayCommit, callState
  <2>2. CASE Settle(c, "failed")
    BY <2>1, <2>2, ReducingHeads, SettledKept
  <2>3. CASE UNCHANGED <<phase, tail>>
    BY <2>1, <2>3, <1>1 DEF CallsTyped
  <2> QED
    BY <2>1, <2>2, <2>3
<1> QED
  BY <1>2, <1>3, <1>4, <1>5, <1>6, ServedKept, UpdateCallKept, OtherCallKept,
     UpdateAssumption DEF UpdateNext, Proceed

\* `Active' and `In(tail)' say the same, and the last conjunct of UpdateTypeOK
\* follows from TailSound.
LEMMA ActiveIsOpen ==
    ASSUME CallsTyped, TailSound
    PROVE  \A c \in Caller : (Active(c) <=> c \in In(tail)) /\ (Active(c) <=> Open(c))
BY DEF Active, In, TailSound

-----------------------------------------------------------------------------
(* CacheUpdate: the entry and its snapshots *)

Finished(c) == phase[c] \in {"done", "committed"}

LEMMA LookupEntry ==
    ASSUME EntryTyped
    PROVE  /\ Lookup \in {entry, NoEntry} /\ Lookup \in Entry /\ NoEntry \in Entry
           /\ ~Expired(Lookup) /\ ~Expired(NoEntry)
BY DEF Lookup, EntryTyped, NoEntry, Entry, Expired

\* What a commit or a set() stores is live.
LEMMA NewEntry ==
    ASSUME EntryTyped, NEW c \in Caller, NEW v \in SUBSET Caller, NEW x \in Nat,
           x = 0 \/ x > now
    PROVE  /\ [by |-> c, value |-> v, expiresAt |-> x] \in Entry
           /\ ~Expired([by |-> c, value |-> v, expiresAt |-> x])
BY DEF EntryTyped, Entry, Expired

LEMMA NewExpiry ==
    ASSUME EntryTyped, NEW c \in Caller, ~Expired(snap[c]), NEW t \in Ttl
    PROVE  LET x == UpdateExpiry(t, snap[c]) IN x \in Nat /\ (x = 0 \/ x > now)
BY DEF EntryTyped, Entry, Expired, UpdateExpiry, Ttl, Omitted

\* How the entry changes: a set() or a commit stores an entry of its own, or it
\* goes, or it stays; an attempt begins on what is left.
StoresOwn(c) ==
    /\ ~Finished(c) /\ Finished(c)' /\ \A d \in Caller \ {c} : phase'[d] = phase[d]
    /\ entry'.by = c /\ entry' \in Entry /\ ~Expired(entry') /\ UNCHANGED <<snap, now>>

SetBy(c) == StoresOwn(c) /\ phase'[c] = "done" /\ entry'.value = {c}

CommitBy(c) ==
    /\ phase[c] = "reducing" /\ phase'[c] = "committed"
    /\ \A d \in Caller \ {c} : phase'[d] = phase[d]
    /\ c \notin aborted /\ Unchanged(c) /\ ~Expired(snap[c]) /\ UNCHANGED <<snap, now>>
    /\ \/ entry' = NoEntry
       \/ StoresOwn(c) /\ entry'.value = snap[c].value \cup {c}

Begins(c) ==
    entry' = Lookup /\ snap' = [snap EXCEPT ![c] = Lookup] /\ UNCHANGED now

KeepsEntry ==
    /\ entry' \in {entry, NoEntry} /\ snap' = snap
    /\ now' = now \/ (now' = now + 1 /\ entry' = entry)

\* Nothing else commits, and whoever has finished stays finished.
Settled == \A c \in Caller : Finished(c)' <=> Finished(c)

LEMMA EntryChange ==
    ASSUME FlowSound, EntryTyped, [UpdateNext]_updateVars
    PROVE  \/ KeepsEntry /\ UNCHANGED phase
           \/ \E c \in Caller : \/ SetBy(c) \/ CommitBy(c)
                                \/ KeepsEntry /\ ~Finished(c) /\ phase'[c] # "committed"
                                   /\ \A d \in Caller \ {c} : phase'[d] = phase[d]
                                \/ Begins(c) /\ Settled
                                   /\ \A d \in Caller : phase'[d] = "committed" <=>
                                                        phase[d] = "committed"
<1> USE DEF FlowSound
<1>1. CASE Evict \/ Tick \/ UNCHANGED updateVars
  BY <1>1 DEF Evict, Tick, updateVars, KeepsEntry
<1>2. ASSUME NEW c \in Caller,
             CallerAborts(c) \/ \E s \in Service : UpdateCall(c, s)
             \/ \E a \in Act \ {"update"} : OtherCall(c, s, a)
      PROVE  \/ KeepsEntry /\ UNCHANGED phase
             \/ KeepsEntry /\ ~Finished(c) /\ phase'[c] # "committed"
                /\ \A d \in Caller \ {c} : phase'[d] = phase[d]
  BY <1>2 DEF CallerAborts, UpdateCall, OtherCall, KeepsEntry, Finished, CallsTyped
<1>3. ASSUME NEW c \in Caller, Admit(c) \/ ReducerFails(c)
      PROVE  KeepsEntry /\ ~Finished(c) /\ phase'[c] # "committed"
             /\ \A d \in Caller \ {c} : phase'[d] = phase[d]
  BY <1>3, ServedKept DEF Admit, ReducerFails, Settle, KeepsEntry, Finished, CallsTyped
<1>4. ASSUME NEW c \in Caller, RunOperation(c)
      PROVE  \/ SetBy(c)
             \/ KeepsEntry /\ ~Finished(c) /\ phase'[c] # "committed"
                /\ \A d \in Caller \ {c} : phase'[d] = phase[d]
  <2>1. /\ phase[c] = "queued" /\ phase'[c] = "done"
        /\ \A d \in Caller \ {c} : phase'[d] = phase[d]
        /\ UNCHANGED <<snap, now>>
    BY <1>4, ServedKept DEF RunOperation, CallsTyped
  <2>2. CASE entry' \in {entry, NoEntry}
    BY <2>1, <2>2 DEF KeepsEntry, Finished
  <2>3. ASSUME NEW t \in {0, 1}, entry' = [by |-> c, value |-> {c},
                                           expiresAt |-> IF t = 0 THEN 0 ELSE now + t]
        PROVE  SetBy(c)
    <3> DEFINE x == IF t = 0 THEN 0 ELSE now + t
    <3>1. x \in Nat /\ (x = 0 \/ x > now)
      BY DEF EntryTyped
    <3> HIDE DEF x
    <3>2. entry' \in Entry /\ ~Expired([by |-> c, value |-> {c}, expiresAt |-> x])
          /\ entry' = [by |-> c, value |-> {c}, expiresAt |-> x]
      BY <2>3, <3>1, NewEntry DEF x
    <3>3. ~Expired(entry')
      BY <3>2
    <3> QED
      BY <2>1, <3>2, <3>3 DEF SetBy, StoresOwn, Finished
  <2> QED
    BY <1>4, <2>2, <2>3 DEF RunOperation
<1>5. ASSUME NEW c \in Caller, BeginUpdate(c) \/ Retry(c)
      PROVE  \/ KeepsEntry /\ ~Finished(c) /\ phase'[c] # "committed"
                /\ \A d \in Caller \ {c} : phase'[d] = phase[d]
             \/ Begins(c) /\ Settled
                /\ \A d \in Caller : phase'[d] = "committed" <=> phase[d] = "committed"
  <2>1. phase[c] \in {"admitted", "reducing"} /\ now' = now
    BY <1>5 DEF BeginUpdate, MyTurn, Retry, MayCommit
  <2>2. \/ Settle(c, "failed") /\ UNCHANGED <<entry, snap>>
        \/ /\ entry' = Lookup /\ snap' = [snap EXCEPT ![c] = Lookup]
           /\ phase' = phase \/ phase' = [phase EXCEPT ![c] = "reducing"]
    BY <1>5 DEF BeginUpdate, Retry
  <2> QED
    BY <2>1, <2>2 DEF Settle, KeepsEntry, Begins, Settled, Finished, CallsTyped
<1>6. ASSUME NEW c \in Caller, Commit(c) PROVE CommitBy(c)
  <2>1. /\ phase[c] = "reducing" /\ phase'[c] = "committed"
        /\ \A d \in Caller \ {c} : phase'[d] = phase[d]
        /\ c \notin aborted /\ Unchanged(c) /\ ~Expired(snap[c]) /\ UNCHANGED <<snap, now>>
    BY <1>6 DEF Commit, MayCommit, Settle, CallsTyped
  <2>2. ASSUME NEW t \in Ttl,
               entry' = [by |-> c, value |-> snap[c].value \cup {c},
                         expiresAt |-> UpdateExpiry(t, snap[c])]
        PROVE  StoresOwn(c) /\ entry'.value = snap[c].value \cup {c}
    <3> DEFINE x == UpdateExpiry(t, snap[c])
    <3> DEFINE v == snap[c].value \cup {c}
    <3>1. x \in Nat /\ (x = 0 \/ x > now)
      BY <2>1, NewExpiry
    <3>2. v \in SUBSET Caller
      BY DEF EntryTyped, Entry
    <3>3. entry' = [by |-> c, value |-> v, expiresAt |-> x]
      BY <2>2
    <3> HIDE DEF x, v
    <3>4. entry' \in Entry /\ ~Expired([by |-> c, value |-> v, expiresAt |-> x])
      BY <3>1, <3>2, <3>3, NewEntry
    <3>5. ~Expired(entry') /\ entry'.by = c /\ entry'.value = v
      BY <3>3, <3>4
    <3> QED
      BY <2>1, <3>4, <3>5 DEF StoresOwn, Finished, v
  <2> QED
    BY <1>6, <2>1, <2>2 DEF Commit, CommitBy
<1> QED
  BY <1>1, <1>2, <1>3, <1>4, <1>5, <1>6, UpdateAssumption DEF UpdateNext, Proceed

LEMMA EntryKept ==
    ASSUME FlowSound, EntryTyped, EntrySound, [UpdateNext]_updateVars
    PROVE  EntrySound' /\ entry' \in Entry /\ snap' \in [Caller -> Entry] /\ now' \in 0 .. MaxTime
<1> USE DEF FlowSound
<1>0. /\ Lookup \in {entry, NoEntry} /\ Lookup \in Entry /\ NoEntry \in Entry
      /\ NoEntry.by = NoCall /\ NoCall \notin Caller /\ now \in 0 .. MaxTime
      /\ entry \in Entry /\ snap \in [Caller -> Entry] /\ MaxTime \in Nat
  BY LookupEntry, UpdateAssumption DEF NoEntry, EntryTyped
<1>1. entry.by \in Caller \cup {NoCall} /\ \A c \in Caller : snap[c].by \in Caller \cup {NoCall}
  BY <1>0 DEF Entry
<1>2. now' \in 0 .. MaxTime
  BY <1>0 DEF UpdateNext, Evict, Tick, Proceed, Admit, RunOperation, BeginUpdate, ReducerFails,
       Retry, Commit, CallerAborts, UpdateCall, OtherCall, updateVars
<1>3. ASSUME \A c \in Caller : Finished(c) => Finished(c)',
             entry' \in {entry, NoEntry}, UNCHANGED snap
      PROVE  EntrySound' /\ entry' \in Entry /\ snap' \in [Caller -> Entry]
  <2>1. IsEntry(entry)' /\ \A c \in Caller : IsEntry(snap[c])'
    BY <1>0, <1>1, <1>3 DEF EntrySound, IsEntry, Finished
  <2>2. \A c \in Caller : entry'.by = snap'[c].by => entry' = snap'[c]
    BY <1>0, <1>3 DEF EntrySound, IsEntry
  <2> QED
    BY <1>0, <1>3, <2>1, <2>2 DEF EntrySound
<1>4. ASSUME NEW c \in Caller, Begins(c), Settled
      PROVE  EntrySound' /\ entry' \in Entry /\ snap' \in [Caller -> Entry]
  <2>1. /\ entry' = Lookup /\ snap'[c] = Lookup /\ snap' \in [Caller -> Entry]
        /\ \A d \in Caller \ {c} : snap'[d] = snap[d]
    BY <1>0, <1>4 DEF Begins
  <2>2. \A d \in Caller : Finished(d)' <=> Finished(d)
    BY <1>4 DEF Settled
  <2>3. entry' \in {entry, NoEntry}
    BY <1>0, <2>1
  <2>4. IsEntry(entry)' /\ \A d \in Caller : IsEntry(snap[d])'
    BY <1>0, <1>1, <2>1, <2>2, <2>3 DEF EntrySound, IsEntry, Finished
  <2>5. ASSUME NEW d \in Caller, entry'.by = snap'[d].by PROVE entry' = snap'[d]
    <3>1. CASE d = c
      BY <3>1, <2>1
    <3>2. CASE d # c
      <4>1. entry'.by = snap[d].by /\ snap'[d] = snap[d]
        BY <3>2, <2>1, <2>5
      <4> QED
        BY <4>1, <1>0, <2>3 DEF EntrySound, IsEntry
    <3> QED
      BY <3>1, <3>2
  <2>6. EntrySound'
    BY <2>4, <2>5 DEF EntrySound
  <2> QED
    BY <1>0, <2>1, <2>6
<1>5. ASSUME NEW c \in Caller, StoresOwn(c)
      PROVE  EntrySound' /\ entry' \in Entry /\ snap' \in [Caller -> Entry]
  <2>1. /\ ~Finished(c) /\ Finished(c)' /\ \A d \in Caller \ {c} : phase'[d] = phase[d]
        /\ entry'.by = c /\ entry' \in Entry /\ UNCHANGED snap
    BY <1>5 DEF StoresOwn
  <2>2. \A d \in Caller : snap[d].by # c
    BY <2>1, <1>0 DEF EntrySound, IsEntry, Finished
  <2>3. IsEntry(entry)' /\ \A d \in Caller : IsEntry(snap[d])'
    BY <2>1, <2>2, <1>0, <1>1 DEF EntrySound, IsEntry, Finished
  <2> QED
    BY <2>1, <2>2, <2>3, <1>0 DEF EntrySound
<1>6. ASSUME NEW c \in Caller, CommitBy(c)
      PROVE  EntrySound' /\ entry' \in Entry /\ snap' \in [Caller -> Entry]
  <2>1. CASE StoresOwn(c)
    BY <2>1, <1>5
  <2>2. CASE entry' = NoEntry
    <3>1. \A d \in Caller : Finished(d) => Finished(d)'
      BY <1>6 DEF CommitBy, Finished
    <3> QED
      BY <1>3, <1>6, <2>2, <3>1 DEF CommitBy
  <2> QED
    BY <1>6, <2>1, <2>2 DEF CommitBy
<1>7. ASSUME NEW c \in Caller, KeepsEntry, ~Finished(c),
             \A d \in Caller \ {c} : phase'[d] = phase[d]
      PROVE  EntrySound' /\ entry' \in Entry /\ snap' \in [Caller -> Entry]
  <2>1. \A d \in Caller : Finished(d) => Finished(d)'
    BY <1>7 DEF Finished
  <2> QED
    BY <1>3, <1>7, <2>1 DEF KeepsEntry
<1>8. CASE KeepsEntry /\ UNCHANGED phase
  <2>1. \A c \in Caller : Finished(c) => Finished(c)'
    BY <1>8 DEF Finished
  <2> QED
    BY <1>2, <1>3, <1>8, <2>1 DEF KeepsEntry
<1> QED
  BY <1>2, <1>4, <1>5, <1>6, <1>7, <1>8, EntryChange DEF SetBy

LEMMA EntryTypesKept ==
    ASSUME FlowSound, EntryTyped, EntrySound, [UpdateNext]_updateVars
    PROVE  EntryTyped'
<1>1. attempt' \in [Caller -> 0 .. MaxAttempts]
  <2>1. MaxAttempts \in Nat \ {0} /\ attempt \in [Caller -> 0 .. MaxAttempts]
    BY UpdateAssumption DEF EntryTyped
  <2>2. ASSUME NEW c \in Caller, Retry(c) PROVE attempt' \in [Caller -> 0 .. MaxAttempts]
    <3>1. CASE attempt' = attempt
      BY <2>1, <3>1
    <3>2. CASE attempt[c] < MaxAttempts /\ attempt' = [attempt EXCEPT ![c] = @ + 1]
      BY <2>1, <3>2
    <3> QED
      BY <2>2, <3>1, <3>2 DEF Retry
  <2>3. ASSUME NEW c \in Caller, BeginUpdate(c) PROVE attempt' \in [Caller -> 0 .. MaxAttempts]
    BY <2>1, <2>3 DEF BeginUpdate
  <2>4. ASSUME NEW c \in Caller, Proceed(c), ~Retry(c), ~BeginUpdate(c) PROVE UNCHANGED attempt
    BY <2>4 DEF Proceed, Admit, RunOperation, ReducerFails, Commit
  <2>5. ASSUME NEW c \in Caller,
               CallerAborts(c) \/ \E s \in Service : UpdateCall(c, s)
               \/ \E a \in Act \ {"update"} : OtherCall(c, s, a)
        PROVE  UNCHANGED attempt
    BY <2>5 DEF CallerAborts, UpdateCall, OtherCall
  <2>6. CASE Evict \/ Tick \/ UNCHANGED updateVars
    BY <2>1, <2>6 DEF Evict, Tick, updateVars
  <2> QED
    BY <2>1, <2>2, <2>3, <2>4, <2>5, <2>6 DEF UpdateNext
<1> QED
  BY <1>1, EntryKept DEF EntryTyped

\* An update that met an invalidation is told before it can commit.
LEMMA MetKept ==
    ASSUME FlowSound, EntryTyped, MetSound, [UpdateNext]_updateVars
    PROVE  MetSound'
<1> USE DEF FlowSound
<1>0. /\ met \subseteq Caller
      /\ \A c \in Caller : Active(c) => phase[c] # "committed" /\ phase[c] # "idle"
  BY ActiveIsOpen DEF CallsTyped, Open
<1>1. \A c \in Caller : phase'[c] = "committed" => phase[c] = "committed" \/ c \notin aborted
  <2>1. ASSUME NEW c \in Caller, SetBy(c) \/ CommitBy(c), NEW d \in Caller
        PROVE  phase'[d] = "committed" => phase[d] = "committed" \/ d \notin aborted
    BY <2>1 DEF SetBy, CommitBy, StoresOwn
  <2> QED
    BY <2>1, EntryChange
<1>2. /\ aborted \subseteq aborted'
      /\ \A c \in met' \ met : c \in Caller /\ Active(c) /\ c \in aborted' /\ phase'[c] # "committed"
  <2>1. ASSUME NEW c \in Caller, NEW s \in Service, NEW a \in Act \ {"update"},
               OtherCall(c, s, a)
        PROVE  /\ aborted \subseteq aborted'
               /\ \A d \in met' \ met : d \in Caller /\ Active(d) /\ d \in aborted'
                                        /\ phase'[d] # "committed"
    <3>1. \A d \in met' \ met : d \in Updates(s) /\ d \in aborted'
      BY <2>1 DEF OtherCall, Told
    <3>2. \A d \in Caller : phase'[d] = phase[d] \/ phase'[d] = "queued"
      BY <2>1 DEF OtherCall, CallsTyped
    <3>3. aborted \subseteq aborted'
      BY <2>1 DEF OtherCall
    <3> QED
      BY <3>1, <3>2, <3>3, <1>0 DEF Updates
  <2>2. ASSUME NEW c \in Caller, RunOperation(c)
        PROVE  /\ aborted \subseteq aborted'
               /\ \A d \in met' \ met : d \in Caller /\ Active(d) /\ d \in aborted'
                                        /\ phase'[d] # "committed"
    <3>1. \A d \in met' \ met : d \in Caller /\ Active(d) /\ d \in aborted'
      BY <2>2 DEF RunOperation, StoreTold
    <3>2. \A d \in Caller : phase'[d] = phase[d] \/ phase'[d] = "done"
      BY <2>2 DEF RunOperation, CallsTyped
    <3>3. aborted \subseteq aborted'
      BY <2>2 DEF RunOperation
    <3> QED
      BY <3>1, <3>2, <3>3, <1>0
  <2>3. ASSUME NEW c \in Caller, Proceed(c), ~RunOperation(c) PROVE UNCHANGED <<aborted, met>>
    BY <2>3 DEF Proceed, Admit, BeginUpdate, ReducerFails, Retry, Commit
  <2>4. ASSUME NEW c \in Caller, CallerAborts(c) \/ \E s \in Service : UpdateCall(c, s)
        PROVE  aborted \subseteq aborted' /\ UNCHANGED met
    BY <2>4 DEF CallerAborts, UpdateCall
  <2>5. CASE Evict \/ Tick \/ UNCHANGED updateVars
    BY <2>5 DEF Evict, Tick, updateVars
  <2> QED
    BY <2>1, <2>2, <2>3, <2>4, <2>5 DEF UpdateNext
<1>3. \A c \in met' : c \in aborted' /\ phase'[c] # "committed"
  BY <1>0, <1>1, <1>2 DEF MetSound
<1> QED
  BY <1>3 DEF MetSound

-----------------------------------------------------------------------------
(* CacheUpdate: the theorems *)

LEMMA UpdateInvInit == ASSUME UpdateInit PROVE UpdateInv
<1>0. Service # {} /\ NoCall \notin Caller /\ 0 \in 0 .. MaxAttempts /\ 0 \in 0 .. MaxTime
  BY UpdateAssumption
<1>1. CallsTyped
  <2>1. home \in [Caller -> Service]
    <3> DEFINE first == CHOOSE s \in Service : TRUE
    <3>1. home = [c \in Caller |-> first] /\ first \in Service
      BY <1>0 DEF UpdateInit
    <3> HIDE DEF first
    <3> QED
      BY <3>1
  <2>2. line \in [Service -> Seq(Caller)] /\ tail \in Seq(Caller)
    BY DEF UpdateInit
  <2>3. /\ shut \in [Service -> BOOLEAN] /\ aborted \subseteq Caller /\ met \subseteq Caller
        /\ phase \in [Caller -> Phase] /\ act \in [Caller -> Act]
    BY DEF UpdateInit, Phase, Act
  <2> QED
    BY <2>1, <2>2, <2>3 DEF CallsTyped
<1>2. EntryTyped
  BY <1>0 DEF UpdateInit, EntryTyped, NoEntry, Entry
<1>3. /\ \A c \in Caller : phase[c] = "idle" /\ act[c] = "set" /\ snap[c] = NoEntry
      /\ \A s \in Service : line[s] = <<>>
      /\ tail = <<>> /\ entry = NoEntry /\ met = {} /\ NoEntry.by = NoCall
  BY DEF UpdateInit, NoEntry
<1>4. Distinct(<<>>) /\ In(<<>>) = {}
  BY DEF Distinct, In
<1>5. LineSound /\ TailSound
  BY <1>3, <1>4 DEF LineSound, TailSound, Open
<1>6. ActsSound /\ ClosesSound /\ EntrySound /\ MetSound
  BY <1>3 DEF ActsSound, ClosesSound, EntrySound, IsEntry, MetSound
<1> QED
  BY <1>1, <1>2, <1>5, <1>6 DEF UpdateInv

LEMMA UpdateInvStep == ASSUME UpdateInv, [UpdateNext]_updateVars PROVE UpdateInv'
BY UpdateFlowKept, EntryTypesKept, EntryKept, MetKept DEF UpdateInv, FlowSound

THEOREM UpdateInvHolds == UpdateSpec => []UpdateInv
<1>1. UpdateInit => UpdateInv
  BY UpdateInvInit
<1>2. UpdateInv /\ [UpdateNext]_updateVars => UpdateInv'
  BY UpdateInvStep
<1> QED
  BY <1>1, <1>2, PTL DEF UpdateSpec

\* CacheUpdateQueue: every call and what it reads is well-formed, and exactly
\* the updates under way are registered with the queue of the store.
THEOREM UpdateTypesHold == UpdateSpec => []UpdateTypeOK
<1>1. UpdateInv => UpdateTypeOK
  BY ActiveIsOpen DEF UpdateInv, CallsTyped, EntryTyped, UpdateTypeOK, Open
<1> QED
  BY <1>1, UpdateInvHolds, PTL

\* MemoryStore.atomicUpdate: an update that met a deletion, or a del(), reset()
\* or close() of its service, never commits.
THEOREM InvalidatedUpdatesFail == UpdateSpec => []InvalidatedNeverCommits
<1>1. UpdateInv => InvalidatedNeverCommits
  BY DEF UpdateInv, MetSound, InvalidatedNeverCommits
<1> QED
  BY <1>1, UpdateInvHolds, PTL

\* CacheService.close(): when it is done no update of the service is under way.
THEOREM ClosesCover == UpdateSpec => []CloseCoversUpdates
<1>1. UpdateInv => CloseCoversUpdates
  BY ActiveIsOpen DEF UpdateInv, ClosesSound, CloseCoversUpdates, Open
<1> QED
  BY <1>1, UpdateInvHolds, PTL

\* MemoryStore.atomicUpdate: the updates of all services implement an AtomicCell.
THEOREM MemoryImplementsCell == UpdateSpec => UpdatesAtomic
<1>1. UpdateInit => Cell!Init
  <2> SUFFICES ASSUME UpdateInit PROVE Cell!Init
    OBVIOUS
  <2>1. entry = NoEntry /\ \A c \in Caller : phase[c] # "committed"
    BY DEF UpdateInit
  <2> QED
    BY <2>1 DEF Cell!Init, Lookup, NoEntry
<1>2. UpdateInv /\ [UpdateNext]_updateVars => [Cell!Next]_(Cell!vars)
  <2> SUFFICES ASSUME UpdateInv, [UpdateNext]_updateVars
               PROVE  [Cell!Next]_(Cell!vars)
    OBVIOUS
  <2> DEFINE cell == Lookup.value
  <2> DEFINE committed == {c \in Caller : phase[c] = "committed"}
  <2>0. FlowSound /\ EntryTyped /\ EntrySound /\ EntryTyped'
    BY UpdateInvStep DEF UpdateInv, FlowSound
  <2>1. /\ UNCHANGED Cell!vars <=> cell' = cell /\ committed' = committed
        /\ Cell!Vanish <=> cell' = {} /\ committed' = committed
        /\ \A c \in Caller :
              /\ Cell!Overwrite(c) <=> c \notin committed /\ cell' = {c} /\ committed' = committed
              /\ Cell!Update(c) <=> c \notin committed /\ cell' \in {cell \cup {c}, {}}
                                    /\ committed' = committed \cup {c}
    BY DEF Cell!vars, Cell!Vanish, Cell!Overwrite, Cell!Update
  <2>2. NoEntry.value = {} /\ NoEntry.expiresAt = 0
    BY DEF NoEntry
  <2>3. ASSUME KeepsEntry PROVE cell' = cell \/ cell' = {}
    <3>1. Lookup' = Lookup \/ Lookup' = NoEntry
      <4>1. entry \in Entry /\ NoEntry \in Entry /\ now \in Nat
        BY <2>0, LookupEntry DEF EntryTyped
      <4> QED
        BY <2>2, <2>3, <4>1 DEF KeepsEntry, Lookup, Expired, Entry
    <3> QED
      BY <2>2, <3>1
  <2>4. ASSUME NEW c \in Caller, Begins(c) PROVE cell' = cell
    <3>1. ~Expired(Lookup)
      BY <2>0, LookupEntry
    <3>2. entry' = Lookup /\ now' = now
      BY <2>4 DEF Begins
    <3>3. ~Expired(entry)'
      BY <3>1, <3>2 DEF Expired
    <3>4. Lookup' = entry'
      BY <3>3 DEF Lookup
    <3> QED
      BY <3>2, <3>4
  <2>5. ASSUME NEW c \in Caller, StoresOwn(c) PROVE cell' = entry'.value
    <3>1. ~Expired(entry)'
      BY <2>5 DEF StoresOwn, Expired
    <3> QED
      BY <3>1 DEF Lookup
  <2>6. ASSUME NEW c \in Caller, SetBy(c) PROVE Cell!Overwrite(c)
    <3>1. cell' = {c} /\ c \notin committed /\ committed' = committed
      BY <2>5, <2>6 DEF SetBy, StoresOwn, Finished
    <3> QED
      BY <2>1, <3>1
  <2>7. ASSUME NEW c \in Caller, CommitBy(c) PROVE Cell!Update(c)
    <3>1. c \notin committed /\ committed' = committed \cup {c}
      BY <2>7 DEF CommitBy
    <3>2. cell = snap[c].value
      <4>1. entry = snap[c] /\ ~Expired(entry)
        BY <2>0, <2>7 DEF CommitBy, Unchanged, EntrySound
      <4> QED
        BY <4>1 DEF Lookup
    <3>3. cell' \in {cell \cup {c}, {}}
      <4>1. CASE entry' = NoEntry
        BY <4>1, <2>2 DEF Lookup
      <4>2. CASE StoresOwn(c) /\ entry'.value = snap[c].value \cup {c}
        BY <4>2, <3>2, <2>5
      <4> QED
        BY <4>1, <4>2, <2>7 DEF CommitBy
    <3> QED
      BY <2>1, <3>1, <3>3
  <2>8. ASSUME KeepsEntry, committed' = committed PROVE Cell!Vanish \/ UNCHANGED Cell!vars
    BY <2>1, <2>3, <2>8
  <2>9. ASSUME NEW c \in Caller, KeepsEntry, ~Finished(c), phase'[c] # "committed",
               \A d \in Caller \ {c} : phase'[d] = phase[d]
        PROVE  committed' = committed
    BY <2>9 DEF Finished
  <2>10. ASSUME NEW c \in Caller, Begins(c),
                \A d \in Caller : phase'[d] = "committed" <=> phase[d] = "committed"
         PROVE  UNCHANGED Cell!vars
    BY <2>1, <2>4, <2>10
  <2> HIDE DEF cell, committed
  <2>11. CASE KeepsEntry /\ UNCHANGED phase
    BY <2>8, <2>11 DEF Cell!Next, committed
  <2> QED
    BY <2>0, <2>6, <2>7, <2>8, <2>9, <2>10, <2>11, EntryChange DEF Cell!Next
<1> QED
  BY <1>1, <1>2, UpdateInvHolds, PTL DEF UpdateSpec, UpdatesAtomic, Cell!Spec

-----------------------------------------------------------------------------
(* CacheService: types *)

LEMMA ValueTypes ==
    ASSUME TypeOK, NEW c \in Call
    PROVE  NoValue \in Value /\ ASet \in Value /\ Loaded(c) \in Value
           /\ NoValue.by = "none" /\ ASet.by = "set" /\ Loaded(c).by = "load"
           /\ Loaded(c).gen = gen[c] /\ Loaded(c).stamp = stamp[c]
BY DEF TypeOK, NoValue, ASet, Loaded, Value

LEMMA SubmitTyped ==
    ASSUME TypeOK, NEW c \in Call, NEW k \in Kind, Submit(c, k)
    PROVE  queue' \in Seq(Call) /\ op' \in [Call -> OpState] /\ opKind' \in [Call -> Kind]
BY DEF TypeOK, Submit, OpState

\* What an operation leaves in the store.
LEMMA Applied ==
    ASSUME TypeOK, NEW c \in Call, ApplyOperation(c)
    PROVE  /\ store' \in [Key -> Value]
           /\ \A k \in Key : \/ store'[k] = store[k]
                             \/ store'[k] = NoValue
                             \/ store'[k] = ASet
                             \/ /\ opKind[c] = "set" /\ pc[c] # "set" /\ k = key[c]
                                /\ store'[k] = Loaded(c)
           /\ opKind[c] = "del" => store'[key[c]] = NoValue
           /\ opKind[c] = "reset" => \A k \in Key : store'[k] = NoValue
<1> DEFINE f(k) == CASE opKind[c] = "set" /\ k = key[c] ->
                            IF pc[c] = "set" THEN ASet ELSE Loaded(c)
                     [] opKind[c] = "del" /\ k = key[c] -> NoValue
                     [] opKind[c] = "reset" -> NoValue
                     [] OTHER -> store[k]
<1>1. store' = [k \in Key |-> f(k)]
  BY DEF ApplyOperation
<1>2. \A k \in Key : \/ f(k) = store[k]
                     \/ f(k) = NoValue
                     \/ f(k) = ASet
                     \/ opKind[c] = "set" /\ pc[c] # "set" /\ k = key[c] /\ f(k) = Loaded(c)
  OBVIOUS
<1>3. \A k \in Key : /\ opKind[c] = "del" /\ k = key[c] => f(k) = NoValue
                     /\ opKind[c] = "reset" => f(k) = NoValue
  OBVIOUS
<1>4. key[c] \in Key
  BY DEF TypeOK
<1> HIDE DEF f
<1>5. \A k \in Key : f(k) \in Value
  BY ZenonT(40), <1>2, ValueTypes DEF TypeOK
<1>6. store' \in [Key -> Value] /\ \A k \in Key : store'[k] = f(k)
  BY <1>1, <1>5
<1> QED
  BY <1>2, <1>3, <1>4, <1>6

LEMMA ServiceTypesKept ==
    ASSUME TypeOK, [Next]_vars
    PROVE  TypeOK'
<1>1. CASE UNCHANGED vars
  BY <1>1 DEF TypeOK, vars, bookVars, opVars, storeVars, callVars, ghostVars
<1>2. ASSUME NEW c \in Call, StartOperation(c) PROVE TypeOK'
  <2>1. queue' \in Seq(Call)
    BY <1>2 DEF StartOperation, TypeOK
  <2>2. op' \in [Call -> OpState]
    BY <1>2 DEF StartOperation, TypeOK, OpState
  <2> QED
    BY <1>2, <2>1, <2>2 DEF StartOperation, TypeOK, bookVars, storeVars, callVars, ghostVars
<1>3. ASSUME NEW c \in Call, ApplyOperation(c) PROVE TypeOK'
  <2>1. store' \in [Key -> Value]
    BY <1>3, Applied
  <2>2. op' \in [Call -> OpState] /\ storeClosed' \in BOOLEAN
    BY <1>3 DEF ApplyOperation, TypeOK, OpState
  <2>3. read' \in [Call -> Value]
    BY <1>3 DEF ApplyOperation, TypeOK
  <2> QED
    BY <1>3, <2>1, <2>2, <2>3 DEF ApplyOperation, TypeOK, bookVars, callVars, ghostVars
<1>4. ASSUME NEW c \in Call, ReadMissed(c) PROVE TypeOK'
  <2>1. op' \in [Call -> OpState] /\ pc' \in [Call -> Location]
    BY <1>4 DEF ReadMissed, Settles, TypeOK, OpState, Location
  <2>2. /\ inflight' \in [Key -> Call \cup {Nobody}] /\ invalidated' \in [Call -> BOOLEAN]
        /\ owner' \in [Call -> Call \cup {Nobody}] /\ stamp' \in [Call -> Nat]
    <3>1. CASE UNCHANGED <<inflight, invalidated, stamp>>
               /\ (owner' = owner \/ owner' = [owner EXCEPT ![c] = inflight[key[c]]])
      BY <3>1 DEF TypeOK
    <3>2. CASE /\ inflight' = [inflight EXCEPT ![key[c]] = c]
               /\ invalidated' = [invalidated EXCEPT ![c] = pendingInv[key[c]] = 1 + gen[c]]
               /\ stamp' = [stamp EXCEPT ![c] = invs[key[c]]]
               /\ UNCHANGED owner
      BY <3>2 DEF TypeOK
    <3> QED
      BY <1>4, <3>1, <3>2 DEF ReadMissed
  <2> QED
    BY <1>4, <2>1, <2>2 DEF ReadMissed, TypeOK, storeVars, ghostVars
<1>5. ASSUME NEW c \in Call, Leave(c) PROVE TypeOK'
  BY <1>5 DEF Leave, TypeOK, Location, opVars, storeVars, callVars, ghostVars
<1>6. ASSUME NEW c \in Call, NEW ok \in BOOLEAN, CallSettles(c, ok) PROVE TypeOK'
  <2>1. op' \in [Call -> OpState] /\ pc' \in [Call -> Location]
    BY <1>6 DEF CallSettles, Settles, TypeOK, OpState, Location
  <2>2. lastDel' \in [Key -> Nat] /\ lastReset' \in Nat
    BY <1>6 DEF CallSettles, TypeOK
  <2> QED
    BY <1>6, <2>1, <2>2 DEF CallSettles, TypeOK, bookVars, storeVars, callVars
<1>7. ASSUME NEW c \in Call, NEW ok \in BOOLEAN, ReadReturns(c, ok) PROVE TypeOK'
  BY <1>7 DEF ReadReturns, Settles, TypeOK, OpState, Location, storeVars, callVars, ghostVars
<1>8. ASSUME NEW c \in Call, ForgetLoad(c)
      PROVE  inflight' \in [Key -> Call \cup {Nobody}] /\ pendingInv' \in [Key -> Nat]
  BY <1>8 DEF ForgetLoad, TypeOK
<1>9. ASSUME NEW c \in Call, NEW ok \in BOOLEAN, LoaderSettles(c, ok) PROVE TypeOK'
  <2>1. CASE Submit(c, "set") /\ pc' = [pc EXCEPT ![c] = "writing"]
             /\ UNCHANGED <<inflight, pendingInv>>
    <3>1. queue' \in Seq(Call) /\ op' \in [Call -> OpState] /\ opKind' \in [Call -> Kind]
      BY <2>1, SubmitTyped DEF Kind
    <3> QED
      BY <1>9, <2>1, <3>1 DEF LoaderSettles, TypeOK, Location, storeVars, callVars, ghostVars
  <2>2. CASE ForgetLoad(c) /\ pc' = [pc EXCEPT ![c] = "ending"] /\ UNCHANGED opVars
    BY <1>8, <1>9, <2>2 DEF LoaderSettles, TypeOK, Location, opVars, storeVars, callVars,
       ghostVars
  <2> QED
    BY <1>9, <2>1, <2>2 DEF LoaderSettles
<1>10. ASSUME NEW c \in Call, NEW ok \in BOOLEAN, WriteSettles(c, ok) PROVE TypeOK'
  <2>1. CASE Submit(c, "del") /\ pc' = [pc EXCEPT ![c] = "undoing"]
             /\ UNCHANGED <<inflight, pendingInv, unsure, abandoned>>
    <3>1. queue' \in Seq(Call) /\ op' \in [Call -> OpState] /\ opKind' \in [Call -> Kind]
      BY <2>1, SubmitTyped DEF Kind
    <3> QED
      BY <1>10, <2>1, <3>1 DEF WriteSettles, TypeOK, Location, storeVars, callVars
  <2>2. CASE /\ ForgetLoad(c) /\ pc' = [pc EXCEPT ![c] = "ending"] /\ Settles(c, ok)
             /\ unsure' = (IF ok THEN unsure ELSE unsure \cup {key[c]})
             /\ UNCHANGED <<queue, opKind>>
    <3>1. op' \in [Call -> OpState] /\ pc' \in [Call -> Location] /\ unsure' \subseteq Key
      BY <2>2 DEF Settles, TypeOK, OpState, Location
    <3> QED
      BY <1>8, <1>10, <2>2, <3>1 DEF WriteSettles, TypeOK, storeVars, callVars
  <2> QED
    BY <1>10, <2>1, <2>2 DEF WriteSettles
<1>11. ASSUME NEW c \in Call, NEW ok \in BOOLEAN, UndoSettles(c, ok) PROVE TypeOK'
  <2>1. op' \in [Call -> OpState] /\ pc' \in [Call -> Location] /\ unsure' \subseteq Key
    BY <1>11 DEF UndoSettles, Settles, TypeOK, OpState, Location
  <2> QED
    BY <1>8, <1>11, <2>1 DEF UndoSettles, TypeOK, storeVars, callVars
<1>12. NewGeneration => /\ version' \in Nat /\ inflight' \in [Key -> Call \cup {Nobody}]
                        /\ pendingLoads' \subseteq Call /\ pendingInv' \in [Key -> Nat]
  BY DEF NewGeneration, TypeOK
<1>13. ASSUME NEW c \in Call, Reset(c) PROVE TypeOK'
  <2>1. queue' \in Seq(Call) /\ op' \in [Call -> OpState] /\ opKind' \in [Call -> Kind]
    BY <1>13, SubmitTyped DEF Reset, Kind, Exclusive
  <2>2. gen' \in [Call -> Nat] /\ pc' \in [Call -> Location]
    BY <1>13 DEF Reset, TypeOK, Location
  <2> QED
    BY <1>12, <1>13, <2>1, <2>2 DEF Reset, TypeOK, storeVars, ghostVars
<1>14. ASSUME NEW c \in Call, Close(c) PROVE TypeOK'
  <2>1. queue' \in Seq(Call) /\ op' \in [Call -> OpState] /\ opKind' \in [Call -> Kind]
    BY <1>14, SubmitTyped DEF Close, Kind, Exclusive
  <2> QED
    BY <1>12, <1>14, <2>1 DEF Close, TypeOK, Location, storeVars, callVars, ghostVars
<1>15. ASSUME NEW c \in Call, NEW k \in Key, Remember(c, k) PROVE TypeOK'
  <2>1. queue' \in Seq(Call) /\ op' \in [Call -> OpState] /\ opKind' \in [Call -> Kind]
    <3>1. CASE Submit(c, "get")
      BY <3>1, SubmitTyped DEF Kind
    <3>2. CASE UNCHANGED opVars
      BY <3>2 DEF TypeOK, opVars
    <3> QED
      BY <1>15, <3>1, <3>2 DEF Remember
  <2> QED
    BY <1>15, <2>1 DEF Remember, TypeOK, Location, storeVars, ghostVars
<1>16. ASSUME NEW c \in Call, NEW k \in Key, Del(c, k) PROVE TypeOK'
  <2>1. queue' \in Seq(Call) /\ op' \in [Call -> OpState] /\ opKind' \in [Call -> Kind]
    BY <1>16, SubmitTyped DEF Del, Kind
  <2>2. invalidated' \in [Call -> BOOLEAN] /\ pendingInv' \in [Key -> Nat]
    <3>1. CASE inflight[k] # Nobody
      BY <1>16, <3>1 DEF Del, Mark, TypeOK
    <3>2. CASE inflight[k] = Nobody
      <4>1. 1 + version \in Nat
        BY DEF TypeOK
      <4> QED
        BY <1>16, <3>2, <4>1 DEF Del, Mark, TypeOK
    <3> QED
      BY <3>1, <3>2
  <2>3. invs' \in [Key -> Nat] /\ stamp' \in [Call -> Nat]
    BY <1>16 DEF Del, TypeOK
  <2> QED
    BY <1>16, <2>1, <2>2, <2>3 DEF Del, TypeOK, Location, storeVars
<1>17. ASSUME NEW c \in Call, NEW k \in Key, NEW kd \in Kind, GetOrSet(c, k, kd) PROVE TypeOK'
  <2>1. queue' \in Seq(Call) /\ op' \in [Call -> OpState] /\ opKind' \in [Call -> Kind]
    BY <1>17, SubmitTyped DEF GetOrSet
  <2> QED
    BY <1>17, <2>1 DEF GetOrSet, TypeOK, Location, bookVars, storeVars, ghostVars
<1>18. ASSUME NEW k \in Key, ExpireEntry(k) PROVE TypeOK'
  <2>1. NoValue \in Value
    BY DEF NoValue, Value
  <2> QED
    BY <1>18, <2>1 DEF ExpireEntry, TypeOK, bookVars, opVars, callVars, ghostVars
<1> QED
  BY <1>1, <1>2, <1>3, <1>4, <1>5, <1>6, <1>7, <1>9, <1>10, <1>11, <1>13, <1>14, <1>15,
     <1>16, <1>17, <1>18 DEF Next, Resume

-----------------------------------------------------------------------------
(* CacheService: operations *)

\* How a step moves the operation of a call, and the call with it: the call
\* submits one, the operation starts, takes effect or settles, or the call has
\* none.
Submits(c, l, k) ==
    /\ op[c] \in {"none", "applied", "skipped"} /\ opKind[c] # "close" /\ pc[c] # l /\ Fits(l, k)
    /\ k \in Kind /\ Submit(c, k) /\ pc' = [pc EXCEPT ![c] = l]

Ends(c, l) ==
    /\ op[c] \in {"running", "applied", "skipped"}
    /\ op' = [op EXCEPT ![c] = "none"] /\ pc' = [pc EXCEPT ![c] = l]
    /\ UNCHANGED <<queue, opKind>>

Moves(c, l) ==
    op[c] = "none" /\ pc' = [pc EXCEPT ![c] = l] /\ UNCHANGED opVars

LEMMA OperationChange ==
    ASSUME TypeOK, OpsSound, TeardownSound, [Next]_vars
    PROVE  \/ UNCHANGED <<pc, opVars, storeClosed>>
           \/ \E c \in Call : StartOperation(c) \/ ApplyOperation(c)
           \/ UNCHANGED storeClosed /\ \E c \in Call :
                 \/ \E k \in Kind : \E l \in Location :
                       Submits(c, l, k) /\ (k \in Exclusive => k = l)
                          /\ (k = "close" => ~cacheClosed /\ cacheClosed')
                 \/ opKind[c] # "close" /\ \E l \in {"joined", "loading", "bypass", "ending"} :
                       Ends(c, l) \/ Moves(c, l)
                 \/ Ends(c, "done") \/ Moves(c, "done")
<1>1. \A c \in Call : pc[c] \in {"idle", "bypass", "joined", "loading", "ending", "done"} =>
         op[c] = "none"
  BY DEF OpsSound, Fits, Kind, Exclusive
<1>2. \A c \in Call : pc[c] \in {"idle", "reading", "loading", "writing", "undoing"} =>
         opKind[c] # "close"
  BY DEF TeardownSound
<1>3. CASE UNCHANGED vars
  BY <1>3 DEF vars, storeVars
<1>4. ASSUME NEW k \in Key, ExpireEntry(k) PROVE UNCHANGED <<pc, opVars, storeClosed>>
  BY <1>4 DEF ExpireEntry
<1>5. ASSUME NEW c \in Call, ReadMissed(c)
      PROVE  UNCHANGED storeClosed /\ opKind[c] # "close"
             /\ \E l \in {"bypass", "joined", "loading"} : Ends(c, l)
  BY <1>2, <1>5 DEF ReadMissed, Settles, Ends, storeVars
<1>6. ASSUME NEW c \in Call, Leave(c) PROVE UNCHANGED storeClosed /\ Moves(c, "done")
  BY <1>1, <1>6 DEF Leave, LoadSettled, Moves, storeVars
<1>7. ASSUME NEW c \in Call, NEW ok \in BOOLEAN, CallSettles(c, ok) \/ ReadReturns(c, ok)
      PROVE  UNCHANGED storeClosed /\ Ends(c, "done")
  BY <1>7 DEF CallSettles, ReadReturns, Settles, Ends, storeVars
<1>8. ASSUME NEW c \in Call, NEW ok \in BOOLEAN, UndoSettles(c, ok)
      PROVE  UNCHANGED storeClosed /\ opKind[c] # "close" /\ Ends(c, "ending")
  BY <1>2, <1>8 DEF UndoSettles, Settles, Ends, storeVars
<1>9. ASSUME NEW c \in Call, NEW ok \in BOOLEAN, LoaderSettles(c, ok)
      PROVE  UNCHANGED storeClosed /\ opKind[c] # "close"
             /\ (Submits(c, "writing", "set") \/ Moves(c, "ending"))
  BY <1>1, <1>2, <1>9 DEF LoaderSettles, Submits, Fits, Moves, Kind, storeVars
<1>10. ASSUME NEW c \in Call, NEW ok \in BOOLEAN, WriteSettles(c, ok)
       PROVE  UNCHANGED storeClosed /\ opKind[c] # "close"
              /\ (Submits(c, "undoing", "del") \/ Ends(c, "ending"))
  BY <1>2, <1>10 DEF WriteSettles, Settles, Submits, Fits, Ends, Kind, storeVars
<1>11. ASSUME NEW c \in Call, Reset(c)
       PROVE  UNCHANGED storeClosed /\ Submits(c, "reset", "reset")
  BY <1>1, <1>2, <1>11 DEF Reset, Submits, Fits, Kind, Exclusive, storeVars
<1>12. ASSUME NEW c \in Call, Close(c)
       PROVE  UNCHANGED storeClosed /\ Submits(c, "close", "close")
              /\ ~cacheClosed /\ cacheClosed'
  BY <1>1, <1>2, <1>12 DEF Close, Submits, Fits, Kind, Exclusive, storeVars
<1>13. ASSUME NEW c \in Call, NEW k \in Key, Remember(c, k)
       PROVE  UNCHANGED storeClosed /\ opKind[c] # "close"
              /\ (Submits(c, "reading", "get") \/ Moves(c, "bypass"))
  BY <1>1, <1>2, <1>13 DEF Remember, Submits, Fits, Kind, Moves, storeVars
<1>14. ASSUME NEW c \in Call, NEW k \in Key, Del(c, k)
       PROVE  UNCHANGED storeClosed /\ Submits(c, "del", "del")
  BY <1>1, <1>2, <1>14 DEF Del, Submits, Fits, Kind, storeVars
<1>15. ASSUME NEW c \in Call, NEW k \in Key, NEW kd \in Kind, GetOrSet(c, k, kd)
       PROVE  UNCHANGED storeClosed /\ Submits(c, kd, kd) /\ kd \in {"get", "set"}
  BY <1>1, <1>2, <1>15 DEF GetOrSet, Submits, Fits, Kind, storeVars
<1>16. /\ {"get", "set", "del", "reset", "close"} \subseteq Kind
       /\ {"get", "set", "del", "reset", "close", "reading", "writing", "undoing"} \subseteq Location
       /\ "close" # "get" /\ \A k \in Kind : k \in Exclusive <=> k \in {"reset", "close"}
  BY DEF Kind, Exclusive, Location
<1>17. ASSUME NEW c \in Call, NEW l \in Location, NEW k \in Kind, Submits(c, l, k),
              UNCHANGED storeClosed, k \in Exclusive => k = l,
              k = "close" => ~cacheClosed /\ cacheClosed'
       PROVE  UNCHANGED storeClosed /\ \E d \in Call :
                 \E n \in Kind : \E m \in Location :
                    Submits(d, m, n) /\ (n \in Exclusive => n = m)
                       /\ (n = "close" => ~cacheClosed /\ cacheClosed')
  BY <1>17
<1>18. ASSUME NEW c \in Call, Resume(c)
       PROVE  \/ StartOperation(c) \/ ApplyOperation(c)
              \/ UNCHANGED storeClosed /\
                    \/ Submits(c, "writing", "set") \/ Submits(c, "undoing", "del")
                    \/ opKind[c] # "close" /\ \E l \in {"joined", "loading", "bypass", "ending"} :
                          Ends(c, l) \/ Moves(c, l)
                    \/ Ends(c, "done") \/ Moves(c, "done")
  BY <1>5, <1>6, <1>7, <1>8, <1>9, <1>10, <1>18 DEF Resume
<1> QED
  BY <1>3, <1>4, <1>11, <1>12, <1>13, <1>14, <1>15, <1>16, <1>17, <1>18 DEF Next

LEMMA GenerationChange ==
    ASSUME [Next]_vars
    PROVE  \/ UNCHANGED <<cacheClosed, version>>
           \/ \E c \in Call : Reset(c) \/ Close(c)
<1>1. ASSUME NEW c \in Call,
             StartOperation(c) \/ ApplyOperation(c) \/ ReadMissed(c) \/ Leave(c)
      PROVE  UNCHANGED <<cacheClosed, version>>
  BY <1>1 DEF StartOperation, ApplyOperation, ReadMissed, Leave, bookVars
<1>2. ASSUME NEW c \in Call, NEW ok \in BOOLEAN,
             CallSettles(c, ok) \/ ReadReturns(c, ok) \/ LoaderSettles(c, ok)
             \/ WriteSettles(c, ok) \/ UndoSettles(c, ok)
      PROVE  UNCHANGED <<cacheClosed, version>>
  BY <1>2 DEF CallSettles, ReadReturns, LoaderSettles, WriteSettles, UndoSettles, bookVars
<1>3. ASSUME NEW c \in Call, NEW k \in Key, NEW kd \in Kind,
             Remember(c, k) \/ Del(c, k) \/ GetOrSet(c, k, kd)
      PROVE  UNCHANGED <<cacheClosed, version>>
  BY <1>3 DEF Remember, Del, GetOrSet, bookVars
<1>4. ASSUME NEW k \in Key, ExpireEntry(k) PROVE UNCHANGED <<cacheClosed, version>>
  BY <1>4 DEF ExpireEntry, bookVars
<1>5. CASE UNCHANGED vars
  BY <1>5 DEF vars, bookVars
<1>6. Kind # {}
  BY DEF Kind
<1> QED
  BY <1>1, <1>2, <1>3, <1>4, <1>5, <1>6 DEF Next, Resume

LEMMA ClosedForGood ==
    ASSUME [Next]_vars, cacheClosed
    PROVE  cacheClosed'
BY GenerationChange DEF Reset, Close

\* An operation waits in the queue until it starts.
LEMMA OpsKept ==
    ASSUME TypeOK, OpsSound, TeardownSound, [Next]_vars
    PROVE  OpsSound'
<1>0. cacheClosed => cacheClosed'
  BY ClosedForGood
<1>1. queue \in Seq(Call) /\ Distinct(queue)
  BY DEF TypeOK, OpsSound
<1>2. CASE UNCHANGED <<pc, opVars, storeClosed>>
  BY <1>0, <1>2 DEF OpsSound, opVars
<1>3. ASSUME NEW c \in Call, StartOperation(c) PROVE OpsSound'
  <2>1. queue # <<>> /\ Head(queue) = c /\ queue' = Tail(queue) /\ pc' = pc /\ opKind' = opKind
    BY <1>3 DEF StartOperation
  <2>2. Distinct(queue') /\ In(queue') = In(queue) \ {c} /\ c \in In(queue)
    BY <1>1, <2>1, LeavesQueue
  <2>3. /\ op'[c] \in {"skipped", "running"} /\ (op'[c] = "skipped" => cacheClosed')
        /\ \A d \in Call \ {c} : op'[d] = op[d]
    BY <1>0, <1>3 DEF StartOperation, Skipped, TypeOK
  <2>4. Fits(pc[c], opKind[c])
    BY <2>2 DEF OpsSound
  <2> QED
    BY <1>0, <2>1, <2>2, <2>3, <2>4 DEF OpsSound
<1>4. ASSUME NEW c \in Call, ApplyOperation(c) PROVE OpsSound'
  <2>1. /\ op[c] = "running" /\ op'[c] = "applied" /\ UNCHANGED <<queue, opKind, pc>>
        /\ \A d \in Call \ {c} : op'[d] = op[d]
    BY <1>4 DEF ApplyOperation, TypeOK
  <2> QED
    BY <1>0, <2>1 DEF OpsSound
<1>5. ASSUME NEW c \in Call, NEW k \in Kind, NEW l \in Location, Submits(c, l, k)
      PROVE  OpsSound'
  <2>1. /\ op[c] # "queued" /\ op'[c] = "queued" /\ pc'[c] = l /\ opKind'[c] = k /\ Fits(l, k)
        /\ queue' = Append(queue, c)
        /\ \A d \in Call \ {c} : op'[d] = op[d] /\ pc'[d] = pc[d] /\ opKind'[d] = opKind[d]
    BY <1>5 DEF Submits, Submit, TypeOK
  <2>2. c \notin In(queue)
    BY <2>1 DEF OpsSound
  <2>3. Distinct(queue') /\ In(queue') = In(queue) \cup {c}
    BY <1>1, <2>1, <2>2, JoinsQueue
  <2> QED
    BY <1>0, <2>1, <2>3 DEF OpsSound
<1>6. ASSUME NEW c \in Call, NEW l, Ends(c, l) \/ Moves(c, l) PROVE OpsSound'
  <2>1. /\ op[c] # "queued" /\ op'[c] = "none" /\ UNCHANGED <<queue, opKind>>
        /\ \A d \in Call \ {c} : op'[d] = op[d] /\ pc'[d] = pc[d]
    BY <1>6 DEF Ends, Moves, opVars, TypeOK
  <2> QED
    BY <1>0, <2>1 DEF OpsSound
<1> QED
  BY <1>2, <1>3, <1>4, <1>5, <1>6, OperationChange

\* An exclusive operation runs alone.
LEMMA ExclusiveKept ==
    ASSUME TypeOK, OpsSound, TeardownSound, ExclusiveAlone, [Next]_vars
    PROVE  ExclusiveAlone'
<1>1. CASE UNCHANGED <<pc, opVars, storeClosed>>
  BY <1>1 DEF ExclusiveAlone, Started, opVars
<1>2. ASSUME NEW c \in Call, StartOperation(c) PROVE ExclusiveAlone'
  <2>1. /\ TailResolved(c) /\ (opKind[c] \in Exclusive => Drained(c)) /\ opKind' = opKind
        /\ \A d \in Call \ {c} : op'[d] = op[d]
    BY <1>2 DEF StartOperation, TypeOK
  <2>2. \A d \in Call \ {c} : Started(d)' <=> Started(d)
    BY <2>1 DEF Started
  <2>3. ASSUME NEW a \in Call, NEW b \in Call, a # b, opKind'[a] \in Exclusive, Started(a)'
        PROVE  ~Started(b)'
    <3>1. CASE a = c
      BY <2>1, <2>2, <2>3, <3>1 DEF Drained
    <3>2. CASE a # c
      <4>1. Started(a) /\ opKind[a] \in Exclusive
        BY <2>1, <2>2, <2>3, <3>2
      <4> QED
        BY <2>1, <4>1 DEF TailResolved
    <3> QED
      BY <3>1, <3>2
  <2> QED
    BY <2>3 DEF ExclusiveAlone
<1>3. ASSUME NEW c \in Call, ApplyOperation(c) PROVE ExclusiveAlone'
  <2>1. opKind' = opKind /\ \A d \in Call : Started(d)' <=> Started(d)
    BY <1>3 DEF ApplyOperation, Started, TypeOK
  <2> QED
    BY <2>1 DEF ExclusiveAlone
<1>4. ASSUME NEW c \in Call, NEW k \in Kind, NEW l, Submits(c, l, k)
      PROVE  ExclusiveAlone'
  <2>1. ~Started(c)' /\ \A d \in Call \ {c} : opKind'[d] = opKind[d] /\ (Started(d)' <=> Started(d))
    BY <1>4 DEF Submits, Submit, Started, TypeOK
  <2> QED
    BY <2>1 DEF ExclusiveAlone
<1>5. ASSUME NEW c \in Call, NEW l, Ends(c, l) \/ Moves(c, l) PROVE ExclusiveAlone'
  <2>1. opKind' = opKind /\ ~Started(c)' /\ \A d \in Call \ {c} : Started(d)' <=> Started(d)
    BY <1>5 DEF Ends, Moves, opVars, Started, TypeOK
  <2> QED
    BY <2>1 DEF ExclusiveAlone
<1> QED
  BY <1>1, <1>2, <1>3, <1>4, <1>5, OperationChange

\* Once the store is torn down no operation of the service runs any more.
LEMMA TeardownKept ==
    ASSUME TypeOK, OpsSound, TeardownSound, ExclusiveAlone, [Next]_vars
    PROVE  TeardownSound'
<1>0. cacheClosed => cacheClosed'
  BY ClosedForGood
<1>1. CASE UNCHANGED <<pc, opVars, storeClosed>>
  BY <1>0, <1>1 DEF TeardownSound, opVars
<1>2. ASSUME NEW c \in Call, StartOperation(c) PROVE TeardownSound'
  <2>1. /\ UNCHANGED <<pc, opKind, storeClosed, cacheClosed>> /\ op[c] = "queued"
        /\ \A d \in Call \ {c} : op'[d] = op[d]
        /\ op'[c] = IF Skipped(c) THEN "skipped" ELSE "running"
    <3>1. queue \in Seq(Call) /\ queue # <<>> /\ Head(queue) = c
      BY <1>2 DEF StartOperation, TypeOK
    <3>2. c \in In(queue)
      BY <3>1, LeavesQueue DEF OpsSound
    <3> QED
      BY <1>2, <3>2 DEF StartOperation, OpsSound, storeVars, bookVars, TypeOK
  <2>2. ASSUME storeClosed
        PROVE  /\ \E d \in Call : opKind'[d] = "close" /\ op'[d] \notin {"queued", "running"}
               /\ \A d \in Call : op'[d] # "running"
    <3>1. PICK d \in Call : opKind[d] = "close" /\ op[d] \notin {"queued", "running"}
      BY <2>2 DEF TeardownSound
    <3>2. d # c /\ cacheClosed /\ opKind[c] # "close"
      BY <2>1, <3>1 DEF TeardownSound
    <3>3. op'[c] = "skipped" /\ op'[d] = op[d]
      BY <2>1, <3>2 DEF Skipped
    <3> QED
      BY <2>1, <2>2, <3>1, <3>3 DEF TeardownSound
  <2> QED
    BY <2>1, <2>2 DEF TeardownSound
<1>3. ASSUME NEW c \in Call, ApplyOperation(c) PROVE TeardownSound'
  <2>1. /\ UNCHANGED <<pc, opKind, cacheClosed>> /\ op[c] = "running" /\ op'[c] = "applied"
        /\ \A d \in Call \ {c} : op'[d] = op[d]
        /\ storeClosed' = (storeClosed \/ opKind[c] = "close")
    BY <1>3 DEF ApplyOperation, bookVars, TypeOK
  <2>2. ~storeClosed
    BY <2>1 DEF TeardownSound
  <2>3. opKind[c] = "close" => \A d \in Call \ {c} : op[d] # "running"
    BY <2>1 DEF ExclusiveAlone, Exclusive, Started
  <2> QED
    BY <2>1, <2>2, <2>3 DEF TeardownSound
<1>4. ASSUME NEW c \in Call, NEW k \in Kind, NEW l \in Location, Submits(c, l, k),
             k \in Exclusive => k = l, k = "close" => ~cacheClosed /\ cacheClosed',
             UNCHANGED storeClosed
      PROVE  TeardownSound'
  <2>1. /\ opKind[c] # "close" /\ opKind'[c] = k /\ op'[c] = "queued" /\ pc'[c] = l
        /\ \A d \in Call \ {c} : op'[d] = op[d] /\ pc'[d] = pc[d] /\ opKind'[d] = opKind[d]
        /\ k = "close" => l = "close"
    BY <1>4 DEF Submits, Submit, TypeOK, Exclusive
  <2> QED
    BY <1>0, <1>4, <2>1 DEF TeardownSound
<1>5. ASSUME NEW c \in Call, NEW l \in {"done", "joined", "loading", "bypass", "ending"},
             Ends(c, l) \/ Moves(c, l), UNCHANGED storeClosed, opKind[c] = "close" => l = "done"
      PROVE  TeardownSound'
  <2>1. /\ opKind' = opKind /\ op'[c] = "none" /\ pc'[c] = l
        /\ \A d \in Call \ {c} : op'[d] = op[d] /\ pc'[d] = pc[d]
    BY <1>5 DEF Ends, Moves, opVars, TypeOK
  <2> QED
    BY <1>0, <1>5, <2>1 DEF TeardownSound
<1> QED
  BY <1>1, <1>2, <1>3, <1>4, <1>5, OperationChange

-----------------------------------------------------------------------------
(* CacheService: generations *)

\* A call takes its generation when it begins.
LEMMA GenChange ==
    ASSUME TypeOK, [Next]_vars
    PROVE  /\ version' \in {version, version + 1}
           /\ \A c \in Call : gen'[c] = gen[c] \/ (pc[c] = "idle" /\ gen'[c] = version')
<1>1. version' \in {version, version + 1}
  BY GenerationChange DEF Reset, Close, NewGeneration
<1>2. ASSUME NEW c \in Call, NEW k \in Key, Remember(c, k)
      PROVE  \A d \in Call : gen'[d] = gen[d] \/ (pc[d] = "idle" /\ gen'[d] = version')
  BY <1>2 DEF Remember, TypeOK
<1>3. ASSUME NEW c \in Call, Reset(c)
      PROVE  \A d \in Call : gen'[d] = gen[d] \/ (pc[d] = "idle" /\ gen'[d] = version')
  BY <1>3 DEF Reset, NewGeneration, TypeOK
<1>4. ASSUME NEW c \in Call, Resume(c) PROVE UNCHANGED gen
  BY <1>4 DEF Resume, StartOperation, ApplyOperation, ReadMissed, Leave, CallSettles,
     ReadReturns, LoaderSettles, WriteSettles, UndoSettles, callVars
<1>5. ASSUME NEW c \in Call, Close(c) PROVE UNCHANGED gen
  BY <1>5 DEF Close, callVars
<1>6. ASSUME NEW c \in Call, NEW k \in Key, Del(c, k) \/ \E kd \in Kind : GetOrSet(c, k, kd)
      PROVE  UNCHANGED gen
  BY <1>6 DEF Del, GetOrSet
<1>7. ASSUME NEW k \in Key, ExpireEntry(k) PROVE UNCHANGED gen
  BY <1>7 DEF ExpireEntry, callVars
<1>8. UNCHANGED vars => UNCHANGED gen
  BY DEF vars, callVars
<1> QED
  BY <1>1, <1>2, <1>3, <1>4, <1>5, <1>6, <1>7, <1>8 DEF Next

\* The entry of a key changes by an operation, or expires.
LEMMA StoreChange ==
    ASSUME TypeOK, [Next]_vars
    PROVE  \/ UNCHANGED store
           \/ \E c \in Call : ApplyOperation(c)
           \/ UNCHANGED <<pc, opVars>>
              /\ \E k \in Key : store' = [store EXCEPT ![k] = NoValue]
<1>1. ASSUME NEW c \in Call, Resume(c), ~ApplyOperation(c) PROVE UNCHANGED store
  BY <1>1 DEF Resume, StartOperation, ReadMissed, Leave, CallSettles,
     ReadReturns, LoaderSettles, WriteSettles, UndoSettles, storeVars
<1>2. ASSUME NEW c \in Call, Reset(c) \/ Close(c) PROVE UNCHANGED store
  BY <1>2 DEF Reset, Close, storeVars
<1>3. ASSUME NEW c \in Call, NEW k \in Key,
             Remember(c, k) \/ Del(c, k) \/ \E kd \in Kind : GetOrSet(c, k, kd)
      PROVE  UNCHANGED store
  BY <1>3 DEF Remember, Del, GetOrSet, storeVars
<1>4. ASSUME NEW k \in Key, ExpireEntry(k)
      PROVE  UNCHANGED <<pc, opVars>> /\ store' = [store EXCEPT ![k] = NoValue]
  BY <1>4 DEF ExpireEntry
<1>5. CASE UNCHANGED vars
  BY <1>5 DEF vars, storeVars
<1> QED
  BY <1>1, <1>2, <1>3, <1>4, <1>5 DEF Next

\* A reset() that succeeds is remembered.
LEMMA LastResetChange ==
    ASSUME [Next]_vars
    PROVE  \/ UNCHANGED lastReset
           \/ \E r \in Call : /\ pc[r] = "reset" /\ op[r] = "applied" /\ lastReset' = gen[r]
                              /\ Ends(r, "done") /\ UNCHANGED store
<1>1. ASSUME NEW c \in Call, NEW ok \in BOOLEAN, CallSettles(c, ok)
      PROVE  \/ UNCHANGED lastReset
             \/ /\ pc[c] = "reset" /\ op[c] = "applied" /\ lastReset' = gen[c]
                /\ Ends(c, "done") /\ UNCHANGED store
  BY <1>1 DEF CallSettles, Settles, Ends, storeVars
<1>2. ASSUME NEW c \in Call, Resume(c), \A ok \in BOOLEAN : ~CallSettles(c, ok)
      PROVE  UNCHANGED lastReset
  BY <1>2 DEF Resume, StartOperation, ApplyOperation, ReadMissed, Leave,
     ReadReturns, LoaderSettles, WriteSettles, UndoSettles, ghostVars
<1>3. ASSUME NEW c \in Call, Reset(c) \/ Close(c) PROVE UNCHANGED lastReset
  BY <1>3 DEF Reset, Close, ghostVars
<1>4. ASSUME NEW c \in Call, NEW k \in Key,
             Remember(c, k) \/ Del(c, k) \/ \E kd \in Kind : GetOrSet(c, k, kd)
      PROVE  UNCHANGED lastReset
  BY <1>4 DEF Remember, Del, GetOrSet, ghostVars
<1>5. ASSUME NEW k \in Key, ExpireEntry(k) PROVE UNCHANGED lastReset
  BY <1>5 DEF ExpireEntry, ghostVars
<1>6. CASE UNCHANGED vars
  BY <1>6 DEF vars, ghostVars
<1> QED
  BY <1>1, <1>2, <1>3, <1>4, <1>5, <1>6 DEF Next

\* A load that is to be written belongs to the current generation.
LEMMA NewWriters ==
    ASSUME TypeOK, OpsSound, [Next]_vars, NEW w \in Call, pc'[w] = "writing"
    PROVE  \/ pc[w] = "writing"
           \/ gen[w] = version /\ Submit(w, "set") /\ UNCHANGED version
<1>1. ASSUME NEW c \in Call, NEW ok \in BOOLEAN, LoaderSettles(c, ok)
      PROVE  \/ pc[w] = "writing"
             \/ gen[w] = version /\ Submit(w, "set") /\ UNCHANGED version
  <2>1. CASE c = w
    BY <1>1, <2>1 DEF LoaderSettles, MustSkip, Outdated, TypeOK
  <2>2. CASE c # w
    BY <1>1, <2>2 DEF LoaderSettles, TypeOK
  <2> QED
    BY <2>1, <2>2
<1>2. ASSUME NEW c \in Call, Resume(c), \A ok \in BOOLEAN : ~LoaderSettles(c, ok)
      PROVE  pc[w] = "writing"
  BY <1>2 DEF Resume, StartOperation, ApplyOperation, ReadMissed, Leave, CallSettles,
     ReadReturns, WriteSettles, UndoSettles, TypeOK
<1>3. ASSUME NEW c \in Call, Reset(c) \/ Close(c) PROVE pc[w] = "writing"
  BY <1>3 DEF Reset, Close, TypeOK
<1>4. ASSUME NEW c \in Call, NEW k \in Key,
             Remember(c, k) \/ Del(c, k) \/ \E kd \in Kind : GetOrSet(c, k, kd)
      PROVE  pc[w] = "writing"
  BY <1>4 DEF Remember, Del, GetOrSet, TypeOK
<1>5. ASSUME NEW k \in Key, ExpireEntry(k) PROVE pc[w] = "writing"
  BY <1>5 DEF ExpireEntry
<1>6. CASE UNCHANGED vars
  BY <1>6 DEF vars
<1> QED
  BY <1>1, <1>2, <1>3, <1>4, <1>5, <1>6 DEF Next

LEMMA GenerationsKept ==
    ASSUME TypeOK, GenerationsSound, [Next]_vars
    PROVE  GenerationsSound'
<1>1. /\ version \in Nat /\ version' >= version /\ version' \in Nat
      /\ lastReset \in Nat /\ \A c \in Call : gen[c] \in Nat
  BY GenChange DEF TypeOK
<1>2. \A c \in Call : gen'[c] <= version'
  BY <1>1, GenChange DEF GenerationsSound
<1>3. lastReset' <= version'
  BY <1>1, LastResetChange DEF GenerationsSound
<1> QED
  BY <1>2, <1>3 DEF GenerationsSound

\* The operations of a queue after one has joined it, and after the first one
\* has left it.
LEMMA OrderJoins ==
    ASSUME NEW S, NEW s \in Seq(S), NEW c \in S
    PROVE  \A i, j \in DOMAIN Append(s, c) : i < j =>
               /\ i \in DOMAIN s /\ Append(s, c)[i] = s[i]
               /\ (j \in DOMAIN s /\ Append(s, c)[j] = s[j]) \/ Append(s, c)[j] = c
<1>1. /\ Len(s) \in Nat /\ DOMAIN s = 1 .. Len(s)
      /\ DOMAIN Append(s, c) = 1 .. Len(s) + 1
      /\ Append(s, c)[Len(s) + 1] = c /\ \A i \in 1 .. Len(s) : Append(s, c)[i] = s[i]
  OBVIOUS
<1> QED
  BY <1>1

LEMMA OrderLeaves ==
    ASSUME NEW S, NEW s \in Seq(S), s # <<>>
    PROVE  /\ \A i \in DOMAIN Tail(s) :
                  i \in Nat /\ i + 1 \in DOMAIN s /\ Tail(s)[i] = s[i + 1] /\ 1 < i + 1
           /\ 1 \in DOMAIN s /\ Head(s) = s[1]
<1>1. /\ Len(s) \in Nat \ {0} /\ DOMAIN s = 1 .. Len(s)
      /\ DOMAIN Tail(s) = 1 .. Len(s) - 1 /\ Head(s) = s[1]
      /\ \A i \in 1 .. Len(s) - 1 : Tail(s)[i] = s[i + 1]
  OBVIOUS
<1> QED
  BY <1>1

\* Whoever waits in the queue stays where it is, and whoever joins it is new.
LEMMA QueueChange ==
    ASSUME TypeOK, OpsSound, TeardownSound, [Next]_vars
    PROVE  /\ \A c \in Call : op[c] = "queued" => pc'[c] = pc[c] /\ gen'[c] = gen[c]
           /\ \/ UNCHANGED queue
              \/ queue # <<>> /\ queue' = Tail(queue)
              \/ \E c \in Call : op[c] # "queued" /\ pc[c] # pc'[c] /\ queue' = Append(queue, c)
<1>1. ASSUME NEW c \in Call, op[c] = "queued" PROVE gen'[c] = gen[c]
  <2>1. pc[c] # "idle"
    BY <1>1 DEF OpsSound, Fits, Kind, Exclusive
  <2> QED
    BY <2>1, GenChange
<1>2. CASE UNCHANGED <<pc, opVars, storeClosed>>
  BY <1>1, <1>2 DEF opVars
<1>3. ASSUME NEW c \in Call, StartOperation(c) \/ ApplyOperation(c)
      PROVE  UNCHANGED pc /\ (UNCHANGED queue \/ (queue # <<>> /\ queue' = Tail(queue)))
  BY <1>3 DEF StartOperation, ApplyOperation
<1>4. ASSUME NEW c \in Call, NEW k \in Kind, NEW l \in Location, Submits(c, l, k)
      PROVE  /\ \A d \in Call : op[d] = "queued" => pc'[d] = pc[d]
             /\ op[c] # "queued" /\ pc[c] # pc'[c] /\ queue' = Append(queue, c)
  BY <1>4 DEF Submits, Submit, TypeOK
<1>5. ASSUME NEW c \in Call, NEW l, Ends(c, l) \/ Moves(c, l)
      PROVE  UNCHANGED queue /\ \A d \in Call : op[d] = "queued" => pc'[d] = pc[d]
  BY <1>5 DEF Ends, Moves, opVars, TypeOK
<1>6. \A c \in Call : op[c] = "queued" => pc'[c] = pc[c]
  BY <1>2, <1>3, <1>4, <1>5, OperationChange
<1> QED
  BY <1>1, <1>2, <1>3, <1>4, <1>5, <1>6, OperationChange

\* A load that is to be written was so before or belongs to the current
\* generation.
LEMMA WriterChange ==
    ASSUME TypeOK, OpsSound, TeardownSound, [Next]_vars, NEW w \in Call, Writer(w)'
    PROVE  gen'[w] = gen[w] /\ (Writer(w) \/ gen[w] = version)
<1>1. pc[w] = "writing" \/ gen[w] = version
  BY NewWriters DEF Writer
<1>2. gen'[w] = gen[w]
  <2>1. CASE pc[w] = "writing"
    BY <2>1, GenChange
  <2>2. CASE pc[w] # "writing"
    <3>1. gen[w] = version /\ Submit(w, "set") /\ UNCHANGED version
      BY <2>2, NewWriters DEF Writer
    <3> QED
      BY <3>1, GenChange
  <2> QED
    BY <2>1, <2>2
<1>3. ASSUME pc[w] = "writing" PROVE op[w] \in {"queued", "running"}
  <2>1. CASE UNCHANGED <<pc, opVars, storeClosed>>
    BY <2>1 DEF opVars, Writer
  <2>2. ASSUME NEW c \in Call, StartOperation(c) PROVE op[w] \in {"queued", "running"}
    <3>1. c = w => op[w] = "queued"
      <4>1. queue \in Seq(Call) /\ queue # <<>> /\ Head(queue) = c
        BY <2>2 DEF StartOperation, TypeOK
      <4>2. c \in In(queue)
        BY <4>1, LeavesQueue DEF OpsSound
      <4> QED
        BY <4>2 DEF OpsSound
    <3>2. c # w => op'[w] = op[w]
      BY <2>2 DEF StartOperation, TypeOK
    <3> QED
      BY <3>1, <3>2 DEF Writer
  <2>3. ASSUME NEW c \in Call, ApplyOperation(c) PROVE op[w] \in {"queued", "running"}
    BY <2>3 DEF ApplyOperation, TypeOK, Writer
  <2>4. ASSUME NEW c \in Call, NEW k \in Kind, NEW l \in Location, Submits(c, l, k)
        PROVE  op[w] \in {"queued", "running"}
    BY <1>3, <2>4 DEF Submits, Submit, TypeOK, Writer
  <2>5. ASSUME NEW c \in Call, NEW l, Ends(c, l) \/ Moves(c, l)
        PROVE  op[w] \in {"queued", "running"}
    BY <2>5 DEF Ends, Moves, opVars, TypeOK, Writer
  <2> QED
    BY <2>1, <2>2, <2>3, <2>4, <2>5, OperationChange
<1> QED
  BY <1>1, <1>2, <1>3 DEF Writer

\* A reset() that runs was running, or starts.
LEMMA ResetChange ==
    ASSUME TypeOK, OpsSound, TeardownSound, [Next]_vars, NEW r \in Call,
           pc'[r] = "reset", Started(r)'
    PROVE  /\ pc[r] = "reset" /\ gen'[r] = gen[r] /\ opKind[r] = "reset"
           /\ Started(r) \/ StartOperation(r)
           /\ op'[r] = "applied" => op[r] = "applied" \/ ApplyOperation(r)
<1> DEFINE Goes == /\ pc[r] = "reset"
                   /\ Started(r) \/ StartOperation(r)
                   /\ op'[r] = "applied" => op[r] = "applied" \/ ApplyOperation(r)
<1>1. Goes
  <2>1. CASE UNCHANGED <<pc, opVars, storeClosed>>
    BY <2>1 DEF opVars, Started
  <2>2. ASSUME NEW c \in Call, StartOperation(c) PROVE Goes
    BY <2>2 DEF StartOperation, Started, TypeOK
  <2>3. ASSUME NEW c \in Call, ApplyOperation(c) PROVE Goes
    BY <2>3 DEF ApplyOperation, Started, TypeOK
  <2>4. ASSUME NEW c \in Call, NEW k \in Kind, NEW l \in Location, Submits(c, l, k)
        PROVE  Goes
    BY <2>4 DEF Submits, Submit, Started, TypeOK
  <2>5. ASSUME NEW c \in Call, NEW l, Ends(c, l) \/ Moves(c, l) PROVE Goes
    BY <2>5 DEF Ends, Moves, opVars, Started, TypeOK
  <2> QED
    BY <2>1, <2>2, <2>3, <2>4, <2>5, OperationChange
<1>2. gen'[r] = gen[r]
  BY <1>1, GenChange
<1>3. op[r] # "none"
  <2>1. CASE Started(r)
    BY <2>1 DEF Started
  <2>2. CASE StartOperation(r)
    <3>1. queue \in Seq(Call) /\ queue # <<>> /\ Head(queue) = r
      BY <2>2 DEF StartOperation, TypeOK
    <3>2. r \in In(queue)
      BY <3>1, LeavesQueue DEF OpsSound
    <3> QED
      BY <3>2 DEF OpsSound
  <2> QED
    BY <1>1, <2>1, <2>2
<1> QED
  BY <1>1, <1>2, <1>3 DEF OpsSound, Fits

\* Nothing of an earlier generation is written after a reset().
LEMMA ResetOrderKept ==
    ASSUME TypeOK, OpsSound, TeardownSound, ExclusiveAlone, GenerationsSound, ResetOrder,
           [Next]_vars
    PROVE  ResetOrder'
<1>0. queue \in Seq(Call) /\ \A i \in DOMAIN queue : queue[i] \in Call /\ i \in Nat
  <2>1. queue \in Seq(Call)
    BY DEF TypeOK
  <2> QED
    BY <2>1
<1>1. /\ version \in Nat /\ lastReset \in Nat /\ lastReset <= version
      /\ \A c \in Call : gen[c] \in Nat /\ gen[c] <= version
      /\ queue \in Seq(Call) /\ \A i \in DOMAIN queue : queue[i] \in Call /\ i \in Nat
  BY <1>0 DEF TypeOK, GenerationsSound
<1>2. \A i \in DOMAIN queue : op[queue[i]] = "queued"
  BY <1>1 DEF OpsSound, In
<1>3. \A i \in DOMAIN queue : pc'[queue[i]] = pc[queue[i]] /\ gen'[queue[i]] = gen[queue[i]]
  BY <1>1, <1>2, QueueChange
<1>4. ASSUME NEW i \in DOMAIN queue', NEW j \in DOMAIN queue', i < j,
             pc'[queue'[i]] = "reset", pc'[queue'[j]] = "writing"
      PROVE  gen'[queue'[i]] <= gen'[queue'[j]]
  <2>1. CASE UNCHANGED queue
    BY <2>1, <1>3, <1>4 DEF ResetOrder
  <2>2. CASE queue # <<>> /\ queue' = Tail(queue)
    <3>1. \A m \in DOMAIN queue' : m \in Nat /\ m + 1 \in DOMAIN queue /\ queue'[m] = queue[m + 1]
      BY <1>1, <2>2, OrderLeaves
    <3>2. i + 1 < j + 1 /\ i + 1 \in DOMAIN queue /\ j + 1 \in DOMAIN queue
      BY <1>4, <3>1
    <3> QED
      BY <3>1, <3>2, <1>3, <1>4 DEF ResetOrder
  <2>3. ASSUME NEW c \in Call, op[c] # "queued", pc[c] # pc'[c], queue' = Append(queue, c)
        PROVE  gen'[queue'[i]] <= gen'[queue'[j]]
    <3>1. /\ i \in DOMAIN queue /\ queue'[i] = queue[i]
          /\ (j \in DOMAIN queue /\ queue'[j] = queue[j]) \/ queue'[j] = c
      BY <1>1, <1>4, <2>3, OrderJoins
    <3>2. CASE j \in DOMAIN queue /\ queue'[j] = queue[j]
      BY <3>1, <3>2, <1>3, <1>4 DEF ResetOrder
    <3>3. CASE queue'[j] = c
      <4>1. gen[c] = version /\ UNCHANGED version
        BY <1>4, <2>3, <3>3, NewWriters
      <4>2. gen'[c] = version
        BY <4>1, GenChange
      <4>3. gen'[queue'[i]] = gen[queue[i]] /\ queue[i] \in Call
        BY <1>1, <1>3, <3>1
      <4> QED
        BY <4>2, <4>3, <3>3, <1>1
    <3> QED
      BY <3>1, <3>2, <3>3
  <2> QED
    BY <2>1, <2>2, <2>3, QueueChange
<1>5. ASSUME NEW r \in Call, NEW w \in Call, pc'[r] = "reset", Started(r)', Writer(w)'
      PROVE  gen'[r] <= gen'[w]
  <2>1. /\ pc[r] = "reset" /\ gen'[r] = gen[r] /\ opKind[r] = "reset"
        /\ Started(r) \/ StartOperation(r)
        /\ gen'[w] = gen[w] /\ (Writer(w) \/ gen[w] = version)
    BY <1>5, ResetChange, WriterChange
  <2>2. CASE gen[w] = version
    BY <1>1, <2>1, <2>2
  <2>3. CASE Started(r) /\ Writer(w)
    BY <2>1, <2>3 DEF ResetOrder
  <2>4. CASE StartOperation(r) /\ Writer(w)
    <3>1. /\ queue # <<>> /\ Head(queue) = r /\ Drained(r) /\ w # r
      BY <2>1, <2>4 DEF StartOperation, Exclusive, Writer
    <3>2. op[w] = "queued"
      BY <2>4, <3>1 DEF Drained, Started, Writer
    <3>3. PICK j \in DOMAIN queue : queue[j] = w
      BY <3>2 DEF OpsSound, In
    <3>4. 1 \in DOMAIN queue /\ queue[1] = r
      BY <1>1, <3>1, OrderLeaves
    <3>5. 1 < j
      <4>1. j # 1 /\ queue \in Seq(Call)
        BY <1>1, <3>1, <3>3, <3>4
      <4> QED
        BY <4>1
    <3> QED
      BY <2>1, <2>4, <3>3, <3>4, <3>5 DEF ResetOrder, Writer
  <2> QED
    BY <2>1, <2>2, <2>3, <2>4
<1>6. ASSUME NEW w \in Call, Writer(w)' PROVE lastReset' <= gen'[w]
  <2>1. gen'[w] = gen[w] /\ (Writer(w) \/ gen[w] = version)
    BY <1>6, WriterChange
  <2>2. CASE UNCHANGED lastReset
    BY <1>1, <2>1, <2>2 DEF ResetOrder
  <2>3. ASSUME NEW r \in Call, pc[r] = "reset", op[r] = "applied", lastReset' = gen[r]
        PROVE  lastReset' <= gen'[w]
    BY <1>1, <2>1, <2>3 DEF ResetOrder, Started
  <2> QED
    BY <2>2, <2>3, LastResetChange
<1>7. ASSUME NEW r \in Call, pc'[r] = "reset", op'[r] = "applied",
             NEW k \in Key, store'[k].by = "load"
      PROVE  gen'[r] <= store'[k].gen
  <2>1. /\ pc[r] = "reset" /\ gen'[r] = gen[r] /\ opKind[r] = "reset"
        /\ op[r] = "applied" \/ ApplyOperation(r)
    BY <1>7, ResetChange DEF Started
  <2>2. CASE ApplyOperation(r)
    BY <1>7, <2>1, <2>2, Applied, ValueTypes
  <2>3. CASE op[r] = "applied"
    <3>1. \A c \in Call : ~ApplyOperation(c)
      BY <2>1, <2>3 DEF ExclusiveAlone, Exclusive, Started, ApplyOperation
    <3>2. store'[k] = store[k] \/ store'[k] = NoValue
      BY <3>1, StoreChange DEF TypeOK
    <3>3. store'[k] = store[k]
      BY <1>7, <3>2, ValueTypes
    <3> QED
      BY <1>7, <2>1, <2>3, <3>3 DEF ResetOrder
  <2> QED
    BY <2>1, <2>2, <2>3
<1> QED
  BY <1>4, <1>5, <1>6, <1>7 DEF ResetOrder

LEMMA ResetFinalKept ==
    ASSUME TypeOK, OpsSound, ResetOrder, ResetIsFinal, [Next]_vars
    PROVE  ResetIsFinal'
<1> SUFFICES ASSUME NEW k \in Key, store'[k].by = "load" PROVE store'[k].gen >= lastReset'
  BY DEF ResetIsFinal
<1>1. /\ lastReset \in Nat /\ \A c \in Call : gen[c] \in Nat
      /\ store[k].gen \in Nat
  BY DEF TypeOK, Value
<1>2. CASE UNCHANGED lastReset
  <2>1. CASE UNCHANGED store
    BY <1>2, <2>1 DEF ResetIsFinal
  <2>2. ASSUME NEW c \in Call, ApplyOperation(c) PROVE store'[k].gen >= lastReset
    <3>1. CASE store'[k] = store[k]
      BY <3>1 DEF ResetIsFinal
    <3>2. CASE opKind[c] = "set" /\ pc[c] # "set" /\ store'[k] = Loaded(c)
      <4>1. op[c] = "running"
        BY <2>2 DEF ApplyOperation
      <4>2. Writer(c)
        BY <3>2, <4>1 DEF OpsSound, Fits, Writer
      <4> QED
        BY <1>1, <3>2, <4>2, ValueTypes DEF ResetOrder
    <3> QED
      BY <2>2, <3>1, <3>2, Applied, ValueTypes
  <2>3. ASSUME NEW j \in Key, store' = [store EXCEPT ![j] = NoValue]
        PROVE  store'[k].gen >= lastReset
    <3>1. store'[k] = store[k] \/ store'[k] = NoValue
      BY <2>3 DEF TypeOK
    <3> QED
      BY <3>1 DEF ResetIsFinal, NoValue
  <2> QED
    BY <1>2, <2>1, <2>2, <2>3, StoreChange
<1>3. ASSUME NEW r \in Call, pc[r] = "reset", op[r] = "applied", lastReset' = gen[r],
             UNCHANGED store
      PROVE  store'[k].gen >= lastReset'
  BY <1>1, <1>3 DEF ResetOrder
<1> QED
  BY <1>2, <1>3, LastResetChange

-----------------------------------------------------------------------------
(* CacheService: loads *)

\* ReadMissed, where it starts a load.
BeginsLoad(c) ==
    /\ pc[c] = "reading" /\ ~Outdated(c) /\ ~CanJoin(c)
    /\ inflight' = [inflight EXCEPT ![key[c]] = c]
    /\ stamp' = [stamp EXCEPT ![c] = invs[key[c]]]
    /\ UNCHANGED <<version, invs>>

\* A load keeps its key, its generation and its number, and never forgets that
\* it was invalidated.
LEMMA LoadChange ==
    ASSUME TypeOK, [Next]_vars, NEW c \in Call, Loads(c)'
    PROVE  /\ key'[c] = key[c] /\ gen'[c] = gen[c]
           /\ \/ Loads(c) /\ stamp'[c] = stamp[c] /\ (invalidated[c] => invalidated'[c])
              \/ BeginsLoad(c)
<1>1. CASE UNCHANGED vars
  BY <1>1 DEF vars, callVars, Loads
<1>2. ASSUME NEW d \in Call, StartOperation(d) \/ ApplyOperation(d)
      PROVE  Loads(c) /\ UNCHANGED <<key, gen, stamp, invalidated>>
  BY <1>2 DEF StartOperation, ApplyOperation, callVars, Loads
<1>3. ASSUME NEW d \in Call, Leave(d)
      PROVE  Loads(c) /\ UNCHANGED <<key, gen, stamp, invalidated>>
  BY <1>3 DEF Leave, callVars, Loads, TypeOK
<1>4. ASSUME NEW d \in Call, NEW ok \in BOOLEAN, CallSettles(d, ok) \/ ReadReturns(d, ok)
      PROVE  Loads(c) /\ UNCHANGED <<key, gen, stamp, invalidated>>
  BY <1>4 DEF CallSettles, ReadReturns, callVars, Loads, TypeOK
<1>5. ASSUME NEW d \in Call, NEW ok \in BOOLEAN,
             LoaderSettles(d, ok) \/ WriteSettles(d, ok) \/ UndoSettles(d, ok)
      PROVE  Loads(c) /\ UNCHANGED <<key, gen, stamp, invalidated>>
  BY <1>5 DEF LoaderSettles, WriteSettles, UndoSettles, callVars, Loads, TypeOK
<1>6. ASSUME NEW d \in Call, ReadMissed(d)
      PROVE  /\ UNCHANGED <<key, gen>>
             /\ \/ Loads(c) /\ stamp'[c] = stamp[c] /\ (invalidated[c] => invalidated'[c])
                \/ BeginsLoad(c)
  <2>1. CASE d = c
    BY <1>6, <2>1 DEF ReadMissed, BeginsLoad, Loads, ghostVars, TypeOK
  <2>2. CASE d # c
    <3>1. Loads(c) /\ UNCHANGED <<key, gen>>
      BY <1>6, <2>2 DEF ReadMissed, Loads, TypeOK
    <3>2. stamp'[c] = stamp[c] /\ (invalidated[c] => invalidated'[c])
      BY <1>6, <2>2 DEF ReadMissed, TypeOK
    <3> QED
      BY <3>1, <3>2
  <2> QED
    BY <2>1, <2>2
<1>7. ASSUME NEW d \in Call, Reset(d) \/ Close(d)
      PROVE  Loads(c) /\ UNCHANGED <<key, stamp, invalidated>> /\ gen'[c] = gen[c]
  BY <1>7 DEF Reset, Close, callVars, Loads, TypeOK
<1>8. ASSUME NEW d \in Call, NEW k \in Key, NEW kd \in Kind, Remember(d, k) \/ GetOrSet(d, k, kd)
      PROVE  Loads(c) /\ UNCHANGED <<stamp, invalidated>> /\ gen'[c] = gen[c] /\ key'[c] = key[c]
  BY <1>8 DEF Remember, GetOrSet, Loads, TypeOK
<1>9. ASSUME NEW d \in Call, NEW k \in Key, Del(d, k)
      PROVE  /\ Loads(c) /\ gen'[c] = gen[c] /\ key'[c] = key[c] /\ stamp'[c] = stamp[c]
             /\ invalidated[c] => invalidated'[c]
  <2>1. Loads(c) /\ gen'[c] = gen[c] /\ key'[c] = key[c] /\ stamp'[c] = stamp[c]
    BY <1>9 DEF Del, Loads, TypeOK
  <2>2. invalidated[c] => invalidated'[c]
    BY <1>9 DEF Del, Mark, TypeOK
  <2> QED
    BY <2>1, <2>2
<1>10. ASSUME NEW k \in Key, ExpireEntry(k)
       PROVE  Loads(c) /\ UNCHANGED <<key, gen, stamp, invalidated>>
  BY <1>10 DEF ExpireEntry, callVars, Loads
<1>11. Kind # {}
  BY DEF Kind
<1> QED
  BY <1>1, <1>2, <1>3, <1>4, <1>5, <1>6, <1>7, <1>8, <1>9, <1>10, <1>11 DEF Next, Resume

\* A load is registered when it begins, and forgotten when it ends or a new
\* generation begins.
LEMMA InflightChange ==
    ASSUME TypeOK, [Next]_vars
    PROVE  \/ UNCHANGED inflight
           \/ version' # version
           \/ \E c \in Call : BeginsLoad(c)
           \/ \E c \in Call : ForgetLoad(c) /\ pc'[c] = "ending"
<1>1. CASE UNCHANGED vars
  BY <1>1 DEF vars, bookVars
<1>2. ASSUME NEW c \in Call, StartOperation(c) \/ ApplyOperation(c) \/ Leave(c)
      PROVE  UNCHANGED inflight
  BY <1>2 DEF StartOperation, ApplyOperation, Leave, bookVars
<1>3. ASSUME NEW c \in Call, NEW ok \in BOOLEAN, CallSettles(c, ok) \/ ReadReturns(c, ok)
      PROVE  UNCHANGED inflight
  BY <1>3 DEF CallSettles, ReadReturns, bookVars
<1>4. ASSUME NEW c \in Call, NEW ok \in BOOLEAN,
             LoaderSettles(c, ok) \/ WriteSettles(c, ok) \/ UndoSettles(c, ok)
      PROVE  UNCHANGED inflight \/ (ForgetLoad(c) /\ pc'[c] = "ending")
  BY <1>4 DEF LoaderSettles, WriteSettles, UndoSettles, TypeOK
<1>5. ASSUME NEW c \in Call, ReadMissed(c) PROVE UNCHANGED inflight \/ BeginsLoad(c)
  BY <1>5 DEF ReadMissed, BeginsLoad, ghostVars
<1>6. ASSUME NEW c \in Call, Reset(c) \/ Close(c) PROVE version' # version
  BY <1>6 DEF Reset, Close, NewGeneration, TypeOK
<1>7. ASSUME NEW c \in Call, NEW k \in Key,
             Remember(c, k) \/ Del(c, k) \/ \E kd \in Kind : GetOrSet(c, k, kd)
      PROVE  UNCHANGED inflight
  BY <1>7 DEF Remember, Del, GetOrSet, bookVars
<1>8. ASSUME NEW k \in Key, ExpireEntry(k) PROVE UNCHANGED inflight
  BY <1>8 DEF ExpireEntry, bookVars
<1> QED
  BY <1>1, <1>2, <1>3, <1>4, <1>5, <1>6, <1>7, <1>8 DEF Next, Resume

\* There is at most one load of a key in each generation.
LEMMA LoadsKept ==
    ASSUME TypeOK, GenerationsSound, LoadsSound, Coalesced, [Next]_vars
    PROVE  LoadsSound' /\ Coalesced'
<1>0. Nobody \notin Call
  BY CacheAssumption
<1>1. /\ version \in Nat /\ version' \in {version, version + 1}
      /\ \A c \in Call : gen[c] \in Nat /\ gen[c] <= version /\ key[c] \in Key
  BY GenChange DEF TypeOK, GenerationsSound
\* Whoever begins a load of this generation finds none.
<1>2. ASSUME NEW b \in Call, BeginsLoad(b), NEW c \in Call, c # b, Loads(c), key[c] = key[b]
      PROVE  gen[c] # version /\ gen[c] # gen[b]
  <2>1. gen[b] = version
    BY <1>2 DEF BeginsLoad, Outdated
  <2>2. gen[c] # version
    BY <1>0, <1>2, <2>1 DEF LoadsSound, BeginsLoad, CanJoin
  <2> QED
    BY <2>1, <2>2
<1>3. ASSUME NEW c \in Call, Loads(c)', gen'[c] = version' PROVE inflight'[key'[c]] = c
  <2>1. key'[c] = key[c] /\ gen[c] = version /\ version' = version
    BY <1>1, <1>3, LoadChange
  <2>2. CASE BeginsLoad(c)
    BY <1>1, <2>1, <2>2 DEF BeginsLoad, TypeOK
  <2>3. CASE Loads(c) /\ ~BeginsLoad(c)
    <3>1. inflight[key[c]] = c
      BY <2>1, <2>3 DEF LoadsSound
    <3>2. CASE UNCHANGED inflight
      BY <2>1, <3>1, <3>2
    <3>3. ASSUME NEW b \in Call, BeginsLoad(b) PROVE inflight'[key'[c]] = c
      <4>1. key[b] # key[c]
        BY <1>2, <2>1, <2>3, <3>3
      <4> QED
        BY <1>1, <2>1, <3>1, <3>3, <4>1 DEF BeginsLoad, TypeOK
    <3>4. ASSUME NEW b \in Call, ForgetLoad(b), pc'[b] = "ending" PROVE inflight'[key'[c]] = c
      <4>1. b # c
        BY <1>3, <3>4 DEF Loads
      <4> QED
        BY <1>1, <2>1, <3>1, <3>4, <4>1 DEF ForgetLoad, TypeOK
    <3> QED
      BY <2>1, <3>2, <3>3, <3>4, InflightChange
  <2> QED
    BY <1>3, <2>2, <2>3, LoadChange
<1>4. ASSUME NEW c \in Call, NEW d \in Call, c # d, key'[c] = key'[d], gen'[c] = gen'[d],
             Loads(c)', Loads(d)'
      PROVE  FALSE
  <2>1. key[c] = key[d] /\ gen[c] = gen[d]
    BY <1>4, LoadChange
  <2>2. CASE Loads(c) /\ Loads(d)
    BY <1>4, <2>1, <2>2 DEF Coalesced, Loads
  <2>3. CASE BeginsLoad(c) /\ Loads(d)
    BY <1>2, <1>4, <2>1, <2>3
  <2>4. CASE Loads(c) /\ BeginsLoad(d)
    BY <1>2, <1>4, <2>1, <2>4
  <2>5. CASE BeginsLoad(c) /\ BeginsLoad(d)
    <3>1. inflight'[key[c]] = c /\ inflight'[key[c]] = d
      BY <1>1, <2>1, <2>5 DEF BeginsLoad, TypeOK
    <3> QED
      BY <1>4, <3>1
  <2> QED
    BY <1>4, <2>2, <2>3, <2>4, <2>5, LoadChange
<1> QED
  BY <1>3, <1>4 DEF LoadsSound, Coalesced, Loads

-----------------------------------------------------------------------------
(* CacheService: invalidations *)

\* Only del() counts as an invalidation, and only its success is remembered.
LEMMA InvsChange ==
    ASSUME TypeOK, [Next]_vars
    PROVE  /\ UNCHANGED invs \/ \E c \in Call, k \in Key : Del(c, k)
           /\ \/ UNCHANGED lastDel
              \/ \E c \in Call : /\ pc[c] = "del" /\ op[c] = "applied" /\ UNCHANGED invs
                                 /\ lastDel' = [lastDel EXCEPT ![key[c]] = stamp[c]]
<1>1. CASE UNCHANGED vars
  BY <1>1 DEF vars, ghostVars
<1>2. ASSUME NEW c \in Call, StartOperation(c) \/ ApplyOperation(c) \/ Leave(c) \/ ReadMissed(c)
      PROVE  UNCHANGED <<invs, lastDel>>
  BY <1>2 DEF StartOperation, ApplyOperation, Leave, ReadMissed, ghostVars
<1>3. ASSUME NEW c \in Call, NEW ok \in BOOLEAN,
             ReadReturns(c, ok) \/ LoaderSettles(c, ok) \/ WriteSettles(c, ok) \/ UndoSettles(c, ok)
      PROVE  UNCHANGED <<invs, lastDel>>
  BY <1>3 DEF ReadReturns, LoaderSettles, WriteSettles, UndoSettles, ghostVars
<1>4. ASSUME NEW c \in Call, NEW ok \in BOOLEAN, CallSettles(c, ok)
      PROVE  /\ UNCHANGED invs
             /\ \/ UNCHANGED lastDel
                \/ /\ pc[c] = "del" /\ op[c] = "applied"
                   /\ lastDel' = [lastDel EXCEPT ![key[c]] = stamp[c]]
  BY <1>4 DEF CallSettles
<1>5. ASSUME NEW c \in Call, Reset(c) \/ Close(c) PROVE UNCHANGED <<invs, lastDel>>
  BY <1>5 DEF Reset, Close, ghostVars
<1>6. ASSUME NEW c \in Call, NEW k \in Key, Remember(c, k) \/ \E kd \in Kind : GetOrSet(c, k, kd)
      PROVE  UNCHANGED <<invs, lastDel>>
  BY <1>6 DEF Remember, GetOrSet, ghostVars
<1>7. ASSUME NEW c \in Call, NEW k \in Key, Del(c, k) PROVE UNCHANGED lastDel
  BY <1>7 DEF Del
<1>8. ASSUME NEW k \in Key, ExpireEntry(k) PROVE UNCHANGED <<invs, lastDel>>
  BY <1>8 DEF ExpireEntry, ghostVars
<1> QED
  BY <1>1, <1>2, <1>3, <1>4, <1>5, <1>6, <1>7, <1>8 DEF Next, Resume

\* A del() keeps its key and its number.
LEMMA DelChange ==
    ASSUME TypeOK, [Next]_vars, NEW c \in Call, pc'[c] = "del"
    PROVE  \/ pc[c] = "del" /\ key'[c] = key[c] /\ stamp'[c] = stamp[c]
           \/ \E k \in Key : Del(c, k)
<1>1. CASE UNCHANGED vars
  BY <1>1 DEF vars, callVars
<1>2. ASSUME NEW d \in Call, StartOperation(d) \/ ApplyOperation(d) \/ Leave(d)
      PROVE  pc[c] = "del" /\ UNCHANGED <<key, stamp>>
  BY <1>2 DEF StartOperation, ApplyOperation, Leave, callVars, TypeOK
<1>3. ASSUME NEW d \in Call, NEW ok \in BOOLEAN,
             CallSettles(d, ok) \/ ReadReturns(d, ok) \/ LoaderSettles(d, ok)
             \/ WriteSettles(d, ok) \/ UndoSettles(d, ok)
      PROVE  pc[c] = "del" /\ UNCHANGED <<key, stamp>>
  BY <1>3 DEF CallSettles, ReadReturns, LoaderSettles, WriteSettles, UndoSettles, callVars, TypeOK
<1>4. ASSUME NEW d \in Call, ReadMissed(d)
      PROVE  pc[c] = "del" /\ UNCHANGED key /\ stamp'[c] = stamp[c]
  BY <1>4 DEF ReadMissed, TypeOK
<1>5. ASSUME NEW d \in Call, Reset(d) \/ Close(d)
      PROVE  pc[c] = "del" /\ UNCHANGED <<key, stamp>>
  BY <1>5 DEF Reset, Close, callVars, TypeOK
<1>6. ASSUME NEW d \in Call, NEW k \in Key, NEW kd \in Kind, Remember(d, k) \/ GetOrSet(d, k, kd)
      PROVE  (pc[c] = "del" /\ key'[c] = key[c] /\ stamp'[c] = stamp[c]) \/ kd = "del"
  BY <1>6 DEF Remember, GetOrSet, TypeOK
<1>7. ASSUME NEW d \in Call, NEW k \in Key, NEW kd \in Kind, GetOrSet(d, k, kd)
      PROVE  kd # "del"
  BY <1>7 DEF GetOrSet
<1>8. ASSUME NEW d \in Call, NEW k \in Key, Del(d, k), d # c
      PROVE  pc[c] = "del" /\ key'[c] = key[c] /\ stamp'[c] = stamp[c]
  BY <1>8 DEF Del, TypeOK
<1>9. ASSUME NEW k \in Key, ExpireEntry(k) PROVE pc[c] = "del" /\ UNCHANGED <<key, stamp>>
  BY <1>9 DEF ExpireEntry, callVars
<1>10. "get" \in Kind
  BY DEF Kind
<1> QED
  BY <1>1, <1>2, <1>3, <1>4, <1>5, <1>6, <1>7, <1>8, <1>9, <1>10 DEF Next, Resume

\* A load of the current generation learns of every invalidation of its key.
LEMMA StampsKept ==
    ASSUME TypeOK, GenerationsSound, LoadsSound, StampsSound, [Next]_vars
    PROVE  StampsSound'
<1>0. Nobody \notin Call
  BY CacheAssumption
<1>1. /\ version \in Nat /\ version' \in {version, version + 1}
      /\ \A c \in Call : gen[c] \in Nat /\ gen[c] <= version /\ key[c] \in Key /\ stamp[c] \in Nat
      /\ \A k \in Key : invs[k] \in Nat /\ lastDel[k] \in Nat
  BY GenChange DEF TypeOK, GenerationsSound
<1>2. ASSUME NEW c \in Call, NEW k \in Key, Del(c, k)
      PROVE  /\ key'[c] = k /\ stamp'[c] = invs[k] + 1 /\ invs'[k] = invs[k] + 1
             /\ \A j \in Key \ {k} : invs'[j] = invs[j]
             /\ UNCHANGED <<version, lastDel>>
             /\ inflight[k] \in Call => invalidated'[inflight[k]]
  <2>1. inflight[k] \in Call => invalidated'[inflight[k]]
    BY <1>0, <1>2 DEF Del, Mark, TypeOK
  <2> QED
    BY <1>2, <2>1 DEF Del, TypeOK
<1>3. \A k \in Key : invs[k] <= invs'[k] /\ invs'[k] \in Nat
  BY <1>1, <1>2, InvsChange
<1>4. ASSUME NEW c \in Call, pc'[c] = "del" PROVE stamp'[c] <= invs'[key'[c]]
  <2>1. CASE pc[c] = "del" /\ key'[c] = key[c] /\ stamp'[c] = stamp[c]
    BY <1>1, <1>3, <2>1 DEF StampsSound
  <2>2. ASSUME NEW k \in Key, Del(c, k) PROVE stamp'[c] <= invs'[key'[c]]
    BY <1>1, <1>2, <2>2
  <2> QED
    BY <1>4, <2>1, <2>2, DelChange
<1>5. ASSUME NEW k \in Key PROVE lastDel'[k] <= invs'[k]
  <2>1. CASE UNCHANGED lastDel
    BY <1>1, <1>3, <2>1 DEF StampsSound
  <2>2. ASSUME NEW c \in Call, pc[c] = "del", UNCHANGED invs,
               lastDel' = [lastDel EXCEPT ![key[c]] = stamp[c]]
        PROVE  lastDel'[k] <= invs'[k]
    BY <2>2 DEF StampsSound, TypeOK
  <2> QED
    BY <2>1, <2>2, InvsChange
<1>6. ASSUME NEW c \in Call, Loads(c)', stamp'[c] < invs'[key'[c]], gen'[c] = version'
      PROVE  invalidated'[c]
  <2>1. key'[c] = key[c] /\ gen[c] = version /\ version' = version /\ key[c] \in Key
    BY <1>1, <1>6, LoadChange
  <2>2. ~BeginsLoad(c)
    <3>1. BeginsLoad(c) => stamp'[c] = invs'[key'[c]]
      BY <2>1 DEF BeginsLoad, TypeOK
    <3> QED
      BY <1>1, <1>3, <1>6, <2>1, <3>1
  <2>3. Loads(c) /\ stamp'[c] = stamp[c] /\ (invalidated[c] => invalidated'[c])
    BY <1>6, <2>2, LoadChange
  <2>4. CASE invs'[key[c]] = invs[key[c]]
    BY <1>6, <2>1, <2>3, <2>4 DEF StampsSound
  <2>5. ASSUME NEW d \in Call, Del(d, key[c]) PROVE invalidated'[c]
    <3>1. inflight[key[c]] = c
      BY <2>1, <2>3 DEF LoadsSound
    <3> QED
      BY <1>2, <2>1, <2>5, <3>1
  <2> QED
    BY <1>2, <2>1, <2>4, <2>5, InvsChange
<1> QED
  BY <1>4, <1>5, <1>6 DEF StampsSound

\* A load that has written a stale value deletes it, or ends.
LEMMA AmendChange ==
    ASSUME TypeOK, OpsSound, [Next]_vars, NEW c \in Call, NEW k \in Key, NEW n \in Nat,
           Amends(c, k, n)
    PROVE  \/ Amends(c, k, n)'
           \/ pc[c] = "undoing" /\ ApplyOperation(c)
           \/ \E ok \in BOOLEAN : pc'[c] = "ending" /\ (WriteSettles(c, ok) \/ UndoSettles(c, ok))
<1>0. pc[c] \in {"writing", "undoing"} /\ key[c] = k /\ stamp[c] < n
  BY DEF Amends
<1>1. ASSUME pc'[c] = pc[c], op'[c] = op[c], key'[c] = key[c], stamp'[c] = stamp[c]
      PROVE  Amends(c, k, n)'
  BY <1>1 DEF Amends
<1>2. CASE UNCHANGED vars
  BY <1>1, <1>2 DEF vars, opVars, callVars
<1>3. ASSUME NEW d \in Call, StartOperation(d) PROVE Amends(c, k, n)'
  <2>1. CASE d = c
    <3>1. op'[c] \in {"running", "skipped"} /\ UNCHANGED <<pc, key, stamp>>
      BY <1>3, <2>1 DEF StartOperation, callVars, TypeOK
    <3>2. c \in In(queue)
      <4>1. queue \in Seq(Call) /\ queue # <<>> /\ Head(queue) = c
        BY <1>3, <2>1 DEF StartOperation, TypeOK
      <4>2. 1 \in DOMAIN queue /\ queue[1] = c
        BY <4>1
      <4> QED
        BY <4>2 DEF In
    <3>3. pc[c] = "undoing"
      BY <3>2 DEF OpsSound, Amends
    <3> QED
      BY <1>0, <3>1, <3>3 DEF Amends
  <2>2. CASE d # c
    BY <1>1, <1>3, <2>2 DEF StartOperation, callVars, TypeOK
  <2> QED
    BY <2>1, <2>2
<1>4. ASSUME NEW d \in Call, ApplyOperation(d), ~(pc[c] = "undoing" /\ d = c)
      PROVE  Amends(c, k, n)'
  <2>1. UNCHANGED <<pc, key, stamp>> /\ (d = c \/ op'[c] = op[c])
    BY <1>4 DEF ApplyOperation, callVars, TypeOK
  <2>2. d # c
    BY <1>4 DEF Amends, ApplyOperation
  <2> QED
    BY <1>1, <2>1, <2>2
<1>5. ASSUME NEW d \in Call, Leave(d) PROVE Amends(c, k, n)'
  BY <1>0, <1>1, <1>5 DEF Leave, LoadSettled, opVars, callVars, TypeOK
<1>6. ASSUME NEW d \in Call, NEW ok \in BOOLEAN, CallSettles(d, ok) \/ ReadReturns(d, ok)
      PROVE  Amends(c, k, n)'
  BY <1>0, <1>1, <1>6 DEF CallSettles, ReadReturns, Settles, callVars, TypeOK, Kind, Exclusive
<1>7. ASSUME NEW d \in Call, ReadMissed(d) PROVE Amends(c, k, n)'
  <2>1. d # c
    BY <1>0, <1>7 DEF ReadMissed
  <2>2. pc'[c] = pc[c] /\ op'[c] = op[c] /\ key'[c] = key[c] /\ stamp'[c] = stamp[c]
    BY <1>7, <2>1 DEF ReadMissed, Settles, TypeOK
  <2> QED
    BY <1>1, <2>2
<1>8. ASSUME NEW d \in Call, NEW ok \in BOOLEAN, LoaderSettles(d, ok) PROVE Amends(c, k, n)'
  BY <1>0, <1>1, <1>8 DEF LoaderSettles, Submit, opVars, callVars, TypeOK
<1>9. ASSUME NEW d \in Call, NEW ok \in BOOLEAN, WriteSettles(d, ok)
      PROVE  Amends(c, k, n)' \/ (d = c /\ pc'[c] = "ending")
  <2>1. CASE d = c
    BY <1>0, <1>9, <2>1 DEF WriteSettles, Submit, callVars, TypeOK, Amends
  <2>2. CASE d # c
    BY <1>0, <1>1, <1>9, <2>2 DEF WriteSettles, Submit, Settles, callVars, TypeOK
  <2> QED
    BY <2>1, <2>2
<1>10. ASSUME NEW d \in Call, NEW ok \in BOOLEAN, UndoSettles(d, ok)
      PROVE  Amends(c, k, n)' \/ (d = c /\ pc'[c] = "ending")
  BY <1>0, <1>1, <1>10 DEF UndoSettles, Settles, callVars, TypeOK
<1>11. ASSUME NEW d \in Call, Reset(d) \/ Close(d) PROVE Amends(c, k, n)'
  BY <1>0, <1>1, <1>11 DEF Reset, Close, Submit, callVars, TypeOK
<1>12. ASSUME NEW d \in Call, NEW j \in Key, Remember(d, j) PROVE Amends(c, k, n)'
  <2>1. d # c
    BY <1>0, <1>12 DEF Remember
  <2>2. pc'[c] = pc[c] /\ op'[c] = op[c] /\ key'[c] = key[c] /\ stamp'[c] = stamp[c]
    BY <1>12, <2>1 DEF Remember, Submit, opVars, TypeOK
  <2> QED
    BY <1>1, <2>2
<1>13. ASSUME NEW d \in Call, NEW j \in Key, Del(d, j) PROVE Amends(c, k, n)'
  BY <1>0, <1>1, <1>13 DEF Del, Submit, TypeOK
<1>14. ASSUME NEW d \in Call, NEW j \in Key, NEW kd \in Kind, GetOrSet(d, j, kd)
       PROVE  Amends(c, k, n)'
  BY <1>0, <1>1, <1>14 DEF GetOrSet, Submit, TypeOK
<1>15. ASSUME NEW j \in Key, ExpireEntry(j) PROVE Amends(c, k, n)'
  BY <1>1, <1>15 DEF ExpireEntry, opVars, callVars
<1> QED
  BY <1>2, <1>3, <1>4, <1>5, <1>6, <1>7, <1>8, <1>9, <1>10, <1>11, <1>12, <1>13, <1>14, <1>15
  DEF Next, Resume

\* What a deletion that has reached the store is, before the step.
LEMMA DeletionsChange ==
    ASSUME TypeOK, OpsSound, StampsSound, TeardownSound, [Next]_vars, NEW k \in Key,
           NEW n \in DeletionsOf(k)'
    PROVE  \/ n \in DeletionsOf(k) /\ n <= invs[k] /\ n \in Nat
           \/ \E d \in Call : ApplyOperation(d) /\ opKind[d] = "del" /\ key[d] = k
<1>1. \A m \in DeletionsOf(k) : m \in Nat /\ m <= invs[k]
  BY DEF DeletionsOf, StampsSound, TypeOK
<1>2. CASE n = lastDel'[k]
  <2>1. CASE UNCHANGED lastDel
    BY <1>1, <1>2, <2>1 DEF DeletionsOf
  <2>2. ASSUME NEW c \in Call, pc[c] = "del", op[c] = "applied",
               lastDel' = [lastDel EXCEPT ![key[c]] = stamp[c]]
        PROVE  n \in DeletionsOf(k)
    <3>1. n = lastDel[k] \/ (key[c] = k /\ n = stamp[c])
      BY <1>2, <2>2 DEF TypeOK
    <3> QED
      BY <2>2, <3>1 DEF DeletionsOf
  <2> QED
    BY <1>1, <2>1, <2>2, InvsChange
<1>3. ASSUME NEW d \in Call, n = stamp'[d], pc'[d] = "del", key'[d] = k, op'[d] = "applied"
      PROVE  \/ n \in DeletionsOf(k)
             \/ ApplyOperation(d) /\ opKind[d] = "del" /\ key[d] = k
  <2>1. ASSUME NEW j \in Key, Del(d, j) PROVE FALSE
    BY <1>3, <2>1 DEF Del, Submit, TypeOK
  <2>2. pc[d] = "del" /\ key[d] = k /\ stamp[d] = n
    BY <1>3, <2>1, DelChange
  <2>3. op[d] = "applied" \/ ApplyOperation(d)
    <3>1. CASE UNCHANGED <<pc, opVars, storeClosed>>
      BY <1>3, <3>1 DEF opVars
    <3>2. ASSUME NEW c \in Call, StartOperation(c) PROVE op[d] = "applied"
      BY <1>3, <3>2 DEF StartOperation, TypeOK
    <3>3. ASSUME NEW c \in Call, ApplyOperation(c) PROVE op[d] = "applied" \/ c = d
      BY <1>3, <3>3 DEF ApplyOperation, TypeOK
    <3>4. ASSUME NEW c \in Call, NEW m \in Kind, NEW l \in Location, Submits(c, l, m)
          PROVE  op[d] = "applied"
      BY <1>3, <3>4 DEF Submits, Submit, TypeOK
    <3>5. ASSUME NEW c \in Call, NEW l, Ends(c, l) \/ Moves(c, l) PROVE op[d] = "applied"
      BY <1>3, <3>5 DEF Ends, Moves, opVars, TypeOK
    <3> QED
      BY <3>1, <3>2, <3>3, <3>4, <3>5, OperationChange
  <2>4. CASE op[d] = "applied"
    BY <2>2, <2>4 DEF DeletionsOf
  <2>5. CASE ApplyOperation(d)
    BY <2>2, <2>5 DEF OpsSound, Fits, ApplyOperation, Kind
  <2> QED
    BY <2>3, <2>4, <2>5, <2>2
<1> QED
  BY <1>1, <1>2, <1>3 DEF DeletionsOf

\* A key whose stale value stays is known for good.
LEMMA UnsureGrows ==
    ASSUME [Next]_vars
    PROVE  unsure \cup abandoned \subseteq (unsure \cup abandoned)'
<1>1. ASSUME NEW c \in Call,
             StartOperation(c) \/ ApplyOperation(c) \/ Leave(c) \/ ReadMissed(c) \/ Reset(c)
             \/ Close(c)
      PROVE  UNCHANGED <<unsure, abandoned>>
  BY <1>1 DEF StartOperation, ApplyOperation, Leave, ReadMissed, Reset, Close, ghostVars
<1>2. ASSUME NEW c \in Call, NEW ok \in BOOLEAN,
             CallSettles(c, ok) \/ ReadReturns(c, ok) \/ LoaderSettles(c, ok)
      PROVE  UNCHANGED <<unsure, abandoned>>
  BY <1>2 DEF CallSettles, ReadReturns, LoaderSettles, ghostVars
<1>3. ASSUME NEW c \in Call, NEW ok \in BOOLEAN, WriteSettles(c, ok) \/ UndoSettles(c, ok)
      PROVE  unsure \subseteq unsure' /\ abandoned \subseteq abandoned'
  BY <1>3 DEF WriteSettles, UndoSettles
<1>4. ASSUME NEW c \in Call, NEW k \in Key,
             Remember(c, k) \/ Del(c, k) \/ \E kd \in Kind : GetOrSet(c, k, kd)
      PROVE  UNCHANGED <<unsure, abandoned>>
  BY <1>4 DEF Remember, Del, GetOrSet, ghostVars
<1>5. ASSUME NEW k \in Key, ExpireEntry(k) PROVE UNCHANGED <<unsure, abandoned>>
  BY <1>5 DEF ExpireEntry, ghostVars
<1>6. UNCHANGED vars => UNCHANGED <<unsure, abandoned>>
  BY DEF vars, ghostVars
<1> QED
  BY <1>1, <1>2, <1>3, <1>4, <1>5, <1>6 DEF Next, Resume

\* A stale value has a load that is going to delete it, or is given up.
LEMMA StaleKept ==
    ASSUME TypeOK, OpsSound, TeardownSound, StampsSound, StaleSound, [Next]_vars
    PROVE  StaleSound'
<1> SUFFICES ASSUME NEW k \in Key, NEW n \in DeletionsOf(k)',
                    store'[k].by = "load", store'[k].stamp < n
             PROVE  k \in (unsure \cup abandoned)' \/ \E c \in Call : Amends(c, k, n)'
  BY DEF StaleSound
<1>2. ASSUME NEW d \in Call, ApplyOperation(d) PROVE ~(opKind[d] = "del" /\ key[d] = k)
  BY <1>2, Applied, ValueTypes
<1>3. n \in DeletionsOf(k) /\ n <= invs[k] /\ n \in Nat
  BY <1>2, DeletionsChange
\* The value is written by this step.
<1>4. ASSUME NEW d \in Call, ApplyOperation(d), store'[k] # store[k]
      PROVE  Amends(d, k, n)'
  <2>1. opKind[d] = "set" /\ pc[d] # "set" /\ k = key[d] /\ store'[k] = Loaded(d)
    BY <1>4, Applied, ValueTypes
  <2>2. stamp[d] < n
    BY <2>1, ValueTypes
  <2>3. pc[d] = "writing"
    BY <1>4, <2>1 DEF OpsSound, Fits, ApplyOperation
  <2>4. op'[d] = "applied" /\ UNCHANGED <<pc, key, stamp>>
    BY <1>4 DEF ApplyOperation, callVars, TypeOK
  <2> QED
    BY <2>1, <2>2, <2>3, <2>4 DEF Amends
\* The value was in the store.
<1>5. ASSUME store'[k] = store[k]
      PROVE  k \in (unsure \cup abandoned)' \/ \E c \in Call : Amends(c, k, n)'
  <2>1. CASE k \in unsure \cup abandoned
    BY <2>1, UnsureGrows
  <2>2. ASSUME NEW c \in Call, Amends(c, k, n)
        PROVE  k \in (unsure \cup abandoned)' \/ \E d \in Call : Amends(d, k, n)'
    <3>1. key[c] = k /\ stamp[c] < n /\ stamp[c] \in Nat /\ invs[k] \in Nat
      BY <2>2 DEF Amends, TypeOK
    <3>2. ~(pc[c] = "undoing" /\ ApplyOperation(c))
      BY <1>2, <3>1 DEF OpsSound, Fits, ApplyOperation, Kind, Exclusive
    <3>3. ASSUME NEW ok \in BOOLEAN, WriteSettles(c, ok), pc'[c] = "ending"
          PROVE  k \in unsure' \cup abandoned'
      <4>1. /\ pc[c] = "writing" /\ op[c] = "applied" /\ (ok => ~MustUndo(c))
            /\ unsure' = IF ok THEN unsure ELSE unsure \cup {key[c]}
            /\ abandoned' = IF ok /\ Abandons(c) THEN abandoned \cup {key[c]} ELSE abandoned
        BY <2>2, <3>3 DEF WriteSettles, TypeOK, Amends
      <4>2. stamp[c] < invs[key[c]]
        BY <1>3, <3>1
      <4>3. invalidated[c] \/ gen[c] # version
        BY <3>1, <4>1, <4>2 DEF StampsSound, Loads
      <4>4. ok => Abandons(c)
        BY <4>1, <4>2, <4>3 DEF MustUndo, Abandons
      <4> QED
        BY <3>1, <4>1, <4>4
    <3>4. ASSUME NEW ok \in BOOLEAN, UndoSettles(c, ok) PROVE k \in unsure' \cup abandoned'
      BY <2>2, <3>1, <3>4 DEF UndoSettles, Settles, Amends
    <3> QED
      BY <1>3, <2>2, <3>2, <3>3, <3>4, AmendChange
  <2> QED
    BY <1>3, <1>5, <2>1, <2>2 DEF StaleSound
<1>6. ASSUME NEW j \in Key, store' = [store EXCEPT ![j] = NoValue] PROVE store'[k] = store[k]
  BY <1>6, ValueTypes DEF TypeOK, NoValue
<1> QED
  BY <1>4, <1>5, <1>6, StoreChange

-----------------------------------------------------------------------------
(* CacheService: the results *)

LEMMA ServiceInit == Init => ServiceInv
<1> SUFFICES ASSUME Init PROVE ServiceInv
  OBVIOUS
<1>1. TypeOK
  <2>1. (CHOOSE k \in Key : TRUE) \in Key
    BY CacheAssumption
  <2>2. NoValue \in Value
    BY DEF NoValue, Value
  <2>3. queue \in Seq(Call)
    BY DEF Init
  <2> QED
    BY <2>1, <2>2, <2>3 DEF Init, TypeOK, OpState, Kind, Location
<1>2. /\ \A c \in Call : op[c] = "none" /\ opKind[c] = "get" /\ pc[c] = "idle"
      /\ \A k \in Key : store[k].by = "none"
      /\ DOMAIN queue = {} /\ In(queue) = {} /\ storeClosed = FALSE
      /\ version = 0 /\ lastReset = 0 /\ \A c \in Call : gen[c] = 0
      /\ \A k \in Key : invs[k] = 0 /\ lastDel[k] = 0
  BY DEF Init, NoValue, In
<1>3. OpsSound /\ ExclusiveAlone /\ TeardownSound /\ GenerationsSound
  BY <1>2 DEF OpsSound, Distinct, ExclusiveAlone, Started, Exclusive, TeardownSound,
     GenerationsSound
<1>4. ResetOrder /\ ResetIsFinal /\ LoadsSound /\ Coalesced
  BY <1>2 DEF ResetOrder, Started, Writer, ResetIsFinal, LoadsSound, Loads, Coalesced
<1>5. StampsSound /\ StaleSound
  BY <1>2 DEF StampsSound, Loads, StaleSound
<1> QED
  BY <1>1, <1>3, <1>4, <1>5 DEF ServiceInv

\* The inductive invariant of the service holds.
THEOREM ServiceInvHolds == Spec => []ServiceInv
<1>1. Init => ServiceInv
  BY ServiceInit
<1>2. ServiceInv /\ [Next]_vars => ServiceInv'
  <2> SUFFICES ASSUME ServiceInv, [Next]_vars PROVE ServiceInv'
    OBVIOUS
  <2>1. TypeOK' /\ OpsSound' /\ ExclusiveAlone' /\ TeardownSound' /\ GenerationsSound'
    BY ServiceTypesKept, OpsKept, ExclusiveKept, TeardownKept, GenerationsKept DEF ServiceInv
  <2>2. ResetOrder' /\ ResetIsFinal' /\ LoadsSound' /\ Coalesced'
    BY ResetOrderKept, ResetFinalKept, LoadsKept DEF ServiceInv
  <2>3. StampsSound' /\ StaleSound'
    BY StampsKept, StaleKept DEF ServiceInv
  <2> QED
    BY <2>1, <2>2, <2>3 DEF ServiceInv
<1> QED
  BY <1>1, <1>2, PTL DEF Spec

\* Every variable of the service has its type (service.ts,
\* store-operation-scheduler.ts).
THEOREM ServiceTypesHold == Spec => []TypeOK
<1>1. ServiceInv => TypeOK
  BY DEF ServiceInv
<1> QED
  BY <1>1, ServiceInvHolds, PTL

\* close() tears the store down when no operation of the service runs, and none
\* runs afterwards (store-operation-scheduler.ts, runExclusive()).
THEOREM TeardownsRunAlone == Spec => []TeardownRunsAlone
<1>1. ServiceInv => TeardownRunsAlone
  BY DEF ServiceInv, ExclusiveAlone, TeardownSound, TeardownRunsAlone, Exclusive
<1> QED
  BY <1>1, ServiceInvHolds, PTL

\* No load of an earlier generation writes to the store after a reset()
\* (service.ts, reset() and rememberThroughStore()).
THEOREM ResetsAreFinal == Spec => []ResetIsFinal
<1>1. ServiceInv => ResetIsFinal
  BY DEF ServiceInv
<1> QED
  BY <1>1, ServiceInvHolds, PTL

\* Concurrent misses of a key share one load in each generation (service.ts,
\* remember()).
THEOREM MissesCoalesce == Spec => []Coalesced
<1>1. ServiceInv => Coalesced
  BY DEF ServiceInv
<1> QED
  BY <1>1, ServiceInvHolds, PTL

\* A value that del() should have removed is in the store only while the load
\* that wrote it is there to delete it, unless the store failed or a close()
\* kept the load from deleting it (service.ts, rememberThroughStore()).
THEOREM StaleValuesGo == Spec => []StaleIsTransient
<1>1. ServiceInv => StaleIsTransient
  <2> SUFFICES ASSUME ServiceInv, NEW k \in Key, Stale(k), k \notin unsure \cup abandoned
               PROVE  \E c \in Call : /\ key[c] = k /\ pc[c] \in {"writing", "undoing"}
                                      /\ stamp[c] < lastDel[k]
    BY DEF StaleIsTransient
  <2>1. lastDel[k] \in DeletionsOf(k)
    BY DEF DeletionsOf
  <2>2. PICK c \in Call : Amends(c, k, lastDel[k])
    BY <2>1 DEF ServiceInv, StaleSound, Stale
  <2> QED
    BY <2>2 DEF Amends
<1> QED
  BY <1>1, ServiceInvHolds, PTL

-----------------------------------------------------------------------------
(* The cache manager: what the service and the stores promise together *)

\* The teardown of a store runs alone: after every operation and every update
\* that was started before it, of whichever service (service.ts, close()).
THEOREM CacheIsSafe == Spec /\ UpdateSpec /\ DistSpec => []CacheSafe
BY ServiceTypesHold, UpdateTypesHold, DistTypesHold, TeardownsRunAlone, ClosesCover, PTL
DEF CacheSafe

\* update() is atomic in one process and across processes: both stores
\* implement an AtomicCell (memory-store.ts and redis-store.ts, update()).
THEOREM UpdatesAreAtomic == UpdateSpec /\ DistSpec => AtomicUpdates
BY MemoryImplementsCell, RedisImplementsCell DEF AtomicUpdates

\* An update whose entry was invalidated while its reducer ran neither commits
\* nor tries again (memory-store.ts and redis-store.ts, update()).
THEOREM InvalidatedUpdatesGiveUp == UpdateSpec /\ DistSpec => []InvalidatedGivenUp
BY InvalidatedUpdatesFail, StaleUpdatesGiveUp, PTL DEF InvalidatedGivenUp

\* A reset is final for the service and for the Redis it shares (service.ts and
\* redis-store.ts, reset()).
THEOREM EveryResetIsFinal == Spec /\ DistSpec => []ResetsFinal
BY ResetsAreFinal, ResetsForget, PTL DEF ResetsFinal

=============================================================================
