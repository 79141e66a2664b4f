------------------------------ MODULE SagaProofs ------------------------------
(***************************************************************************)
(* Proofs about SagaBus, for every set of sagas, every routing and any     *)
(* number of publications and dispatches.                                  *)
(***************************************************************************)
EXTENDS SagaBus, FiniteSetTheorems, SequenceTheorems, WellFoundedInduction, TLAPS

-----------------------------------------------------------------------------
(* Numbers, and tasks in order                                             *)

\* A set of numbers that is not empty has a least one.
LEMMA Least ==
  ASSUME NEW S \in SUBSET Nat, S # {}
  PROVE  \E x \in S : \A y \in S : x <= y
<1>1. PICK x \in S : \A y \in S : ~(<<y, x>> \in OpToRel(<, Nat))
  BY NatLessThanWellFounded, WFMin
<1>2. ASSUME NEW y \in S PROVE x <= y
  <2>1. ~(y < x)
    BY <1>1 DEF OpToRel
  <2> QED
    BY <2>1
<1> QED
  BY <1>2

\* A set of numbers below a bound has a greatest one.
LEMMA Greatest ==
  ASSUME NEW n \in Nat, NEW S \in SUBSET (0 .. n), S # {}
  PROVE  Max(S) \in S /\ \A y \in S : Max(S) >= y
<1> DEFINE D == {d \in 0 .. n : n - d \in S}
<1>1. D \in SUBSET Nat /\ D # {}
  <2>1. PICK x \in S : TRUE
    OBVIOUS
  <2>2. n - x \in D
    BY <2>1
  <2>3. D \subseteq Nat
    OBVIOUS
  <2> HIDE DEF D
  <2> QED
    BY <2>2, <2>3
<1>2. PICK d \in D : \A e \in D : d <= e
  BY <1>1, Least
<1>3. n - d \in S /\ \A y \in S : n - d >= y
  <2>1. ASSUME NEW y \in S PROVE n - d >= y
    <3>1. n - y \in D
      OBVIOUS
    <3> QED
      BY <3>1, <1>2
  <2> QED
    BY <2>1
<1> QED
  BY <1>3 DEF Max
\* The tasks that are scheduled together: some of a publication, each once.
TaskSet == [route : Route, run : Nat]

Picks(q, tasks) ==
  /\ q \in Seq(DOMAIN tasks)
  /\ \A j, k \in 1 .. Len(q) : q[j] = q[k] => j = k

LEMMA InOrderPicks ==
  ASSUME NEW tasks \in Seq(TaskSet), NEW chosen \in SUBSET DOMAIN tasks,
         NEW q \in InOrder(chosen)
  PROVE  Picks(q, tasks) /\ ToSet(q) = chosen
<1>1. IsFiniteSet(DOMAIN tasks)
  <2>1. DOMAIN tasks = 1 .. Len(tasks) /\ Len(tasks) \in Nat
    OBVIOUS
  <2>2. IsFiniteSet(1 .. Len(tasks))
    BY <2>1, FS_Interval
  <2> QED
    BY <2>1, <2>2
<1>2. Cardinality(chosen) \in Nat
  BY <1>1, FS_Subset, FS_CardinalityType
<1>3. q \in [1 .. Cardinality(chosen) -> chosen] /\ ToSet(q) = chosen
      /\ \A j, k \in DOMAIN q : j < k => q[j] < q[k]
  BY DEF InOrder
<1>4. q \in Seq(DOMAIN tasks) /\ Len(q) = Cardinality(chosen)
  BY <1>2, <1>3
<1>5. ASSUME NEW j \in 1 .. Len(q), NEW k \in 1 .. Len(q), q[j] = q[k]
      PROVE  j = k
  <2>1. q[j] \in Nat
    BY <1>4
  <2>2. ~(j < k) /\ ~(k < j)
    BY <1>2, <1>3, <1>4, <1>5, <2>1
  <2> QED
    BY <2>2
<1> QED
  BY <1>3, <1>4, <1>5 DEF Picks

LEMMA OnePicks ==
  ASSUME NEW tasks \in Seq(TaskSet), NEW i \in DOMAIN tasks
  PROVE  Picks(<<i>>, tasks) /\ ToSet(<<i>>) = {i} /\ Len(<<i>>) = 1
<1>1. Len(<<i>>) = 1 /\ <<i>>[1] = i /\ DOMAIN <<i>> = 1 .. 1
  OBVIOUS
<1> QED
  BY <1>1 DEF Picks, ToSet

\* The chain of a token once some tasks have been scheduled: the last of them
\* that is the token's, or what it was.
LEMMA LastFacts ==
  ASSUME SagaTypeOK, NEW tasks \in Seq(TaskSet), NEW q, Picks(q, tasks),
         NEW s \in Saga, NEW k \in 0 .. Len(q)
  PROVE  /\ LastOf(tasks, q, s, k) \in 0 .. Len(runs) + k
         /\ \/ /\ \A j \in 1 .. k : tasks[q[j]].route.token # s
               /\ LastOf(tasks, q, s, k) = chains[s]
            \/ \E m \in 1 .. k :
                 /\ tasks[q[m]].route.token = s
                 /\ LastOf(tasks, q, s, k) = Len(runs) + m
                 /\ \A j \in 1 .. k : tasks[q[j]].route.token = s => j <= m
<1> DEFINE joined == {j \in 1 .. k : tasks[q[j]].route.token = s}
<1>0. Len(runs) \in Nat /\ Len(q) \in Nat /\ k \in Nat /\ chains[s] \in 0 .. Len(runs)
  BY DEF SagaTypeOK, LinksOK, Picks
<1>1. LastOf(tasks, q, s, k) = IF joined = {} THEN chains[s] ELSE Len(runs) + Max(joined)
  BY DEF LastOf
<1>2. CASE joined = {}
  <2>1. LastOf(tasks, q, s, k) = chains[s]
    BY <1>1, <1>2
  <2>2. \A j \in 1 .. k : tasks[q[j]].route.token # s
    BY <1>2
  <2> QED
    BY <1>0, <2>1, <2>2
<1>3. CASE joined # {}
  <2>1. joined \in SUBSET (0 .. k)
    BY <1>0
  <2>2. Max(joined) \in joined /\ \A y \in joined : Max(joined) >= y
    <3> HIDE DEF joined
    <3> QED
      BY <2>1, <1>3, <1>0, Greatest
  <2>3. LastOf(tasks, q, s, k) = Len(runs) + Max(joined)
    BY <1>1, <1>3
  <2>4. Max(joined) \in 1 .. k /\ tasks[q[Max(joined)]].route.token = s
    BY <2>2
  <2>5. \A j \in 1 .. k : tasks[q[j]].route.token = s => j <= Max(joined)
    BY <2>2, <2>4, <1>0
  <2> DEFINE m == Max(joined)
  <2>6. m \in 1 .. k /\ LastOf(tasks, q, s, k) = Len(runs) + m
        /\ tasks[q[m]].route.token = s
        /\ \A j \in 1 .. k : tasks[q[j]].route.token = s => j <= m
    BY <2>3, <2>4, <2>5
  <2> HIDE DEF m, joined
  <2>7. Len(runs) + m \in 0 .. Len(runs) + k
    BY <2>6, <1>0
  <2> QED
    BY <2>6, <2>7
<1> QED
  BY <1>2, <1>3

\* The execution of a task as dispatchWithOrdering() creates it.
LEMMA ExecutionFacts ==
  ASSUME SagaTypeOK, NEW p \in DOMAIN pubs, NEW tasks \in Seq(TaskSet),
         NEW q, Picks(q, tasks), NEW k \in 1 .. Len(q)
  PROVE  /\ Execution(p, tasks, q, k) \in RunSet
         /\ Execution(p, tasks, q, k).prev \in 0 .. Len(runs) + k - 1
<1> DEFINE route == tasks[q[k]].route
<1> DEFINE ctx == pubs[p].ctx
<1> DEFINE new == [routes |-> Append(ctx.routes, route), root |-> ctx.root,
                   scope |-> IF ctx.scope = 0 THEN Len(runs) + k ELSE ctx.scope]
<1> DEFINE prev == LastOf(tasks, q, route.token, k - 1)
<1>0. Len(runs) \in Nat /\ Len(q) \in Nat /\ k \in Nat /\ k - 1 \in 0 .. Len(q)
  BY DEF SagaTypeOK, Picks
<1>1. q[k] \in DOMAIN tasks
  BY DEF Picks
<1>2. tasks[q[k]] \in TaskSet
  BY <1>1
<1>3. route \in Route /\ route.token \in Saga
  BY <1>2 DEF TaskSet, Route
<1>4. ctx \in Context
  <2>1. pubs[p] \in PubSet
    BY DEF SagaTypeOK
  <2> QED
    BY <2>1 DEF PubSet
<1>5. new \in Context
  <2>1. Append(ctx.routes, route) \in Seq(Route)
    BY <1>3, <1>4 DEF Context
  <2> QED
    BY <1>0, <1>4, <2>1 DEF Context
<1>6. prev \in 0 .. Len(runs) + k - 1
  <2>1. prev \in 0 .. Len(runs) + (k - 1)
    BY <1>0, <1>3, LastFacts
  <2> QED
    BY <2>1, <1>0
<1>7. p \in Nat
  BY DEF SagaTypeOK
<1>8. Execution(p, tasks, q, k) =
        [event |-> p, route |-> route, prev |-> prev, ctx |-> new, owns |-> ctx.scope = 0,
         nested |-> 0, queue |-> <<>>, pc |-> "queued"]
  BY DEF Execution
<1>9. (ctx.scope = 0) \in BOOLEAN /\ <<>> \in Seq(Nat) /\ prev \in Nat /\ "queued" \in RunPc
  BY <1>6, <1>0 DEF RunPc
<1> HIDE DEF route, new, prev, ctx
<1> QED
  BY <1>3, <1>5, <1>6, <1>7, <1>8, <1>9 DEF RunSet

\* What scheduling adds to the executions and to the numbers of the tasks.
LEMMA ScheduleFacts ==
  ASSUME SagaTypeOK, NEW p \in DOMAIN pubs, NEW tasks \in Seq(TaskSet),
         \A i \in DOMAIN tasks : tasks[i].run \in 0 .. Len(runs),
         NEW q, Picks(q, tasks)
  PROVE  /\ Scheduled(p, tasks, q) \in Seq(RunSet)
         /\ Len(Scheduled(p, tasks, q)) = Len(runs) + Len(q)
         /\ \A r \in 1 .. Len(runs) : Scheduled(p, tasks, q)[r] = runs[r]
         /\ \A k \in 1 .. Len(q) :
              Scheduled(p, tasks, q)[Len(runs) + k] = Execution(p, tasks, q, k)
         /\ Numbered(tasks, q) \in Seq(TaskSet) /\ Len(Numbered(tasks, q)) = Len(tasks)
         /\ \A i \in DOMAIN tasks :
              /\ Numbered(tasks, q)[i].run \in 0 .. Len(runs) + Len(q)
              /\ Numbered(tasks, q)[i].route = tasks[i].route
              /\ i \notin ToSet(q) => Numbered(tasks, q)[i] = tasks[i]
              /\ i \in ToSet(q) => \E k \in 1 .. Len(q) :
                   q[k] = i /\ Numbered(tasks, q)[i].run = Len(runs) + k
         /\ \A k \in 1 .. Len(q) :
              q[k] \in DOMAIN tasks /\ Numbered(tasks, q)[q[k]].run = Len(runs) + k
         /\ Chained(tasks, q) \in [Saga -> 0 .. Len(runs) + Len(q)]
<1> DEFINE more == [k \in DOMAIN q |-> Execution(p, tasks, q, k)]
<1>0. Len(runs) \in Nat /\ Len(q) \in Nat /\ Len(tasks) \in Nat
      /\ runs \in Seq(RunSet) /\ q \in Seq(DOMAIN tasks)
      /\ DOMAIN q = 1 .. Len(q) /\ DOMAIN tasks = 1 .. Len(tasks)
  BY DEF SagaTypeOK, Picks
<1>1. more \in Seq(RunSet) /\ Len(more) = Len(q)
      /\ \A k \in 1 .. Len(q) : more[k] = Execution(p, tasks, q, k)
  <2>1. \A k \in 1 .. Len(q) : Execution(p, tasks, q, k) \in RunSet
    BY ExecutionFacts
  <2>2. more \in [1 .. Len(q) -> RunSet]
    BY <2>1, <1>0
  <2> QED
    BY <2>2, <1>0
<1>2. Scheduled(p, tasks, q) = runs \o more
  BY DEF Scheduled
<1> HIDE DEF more
<1>3. /\ runs \o more \in Seq(RunSet) /\ Len(runs \o more) = Len(runs) + Len(q)
      /\ \A r \in 1 .. Len(runs) : (runs \o more)[r] = runs[r]
      /\ \A k \in 1 .. Len(q) : (runs \o more)[Len(runs) + k] = more[k]
  <2>1. /\ runs \o more \in Seq(RunSet) /\ Len(runs \o more) = Len(runs) + Len(more)
        /\ \A j \in 1 .. Len(runs) + Len(more) :
             (runs \o more)[j] = IF j <= Len(runs) THEN runs[j] ELSE more[j - Len(runs)]
    BY <1>0, <1>1, ConcatProperties
  <2>2. ASSUME NEW k \in 1 .. Len(q) PROVE (runs \o more)[Len(runs) + k] = more[k]
    <3>1. Len(runs) + k \in 1 .. Len(runs) + Len(more) /\ ~(Len(runs) + k <= Len(runs))
          /\ (Len(runs) + k) - Len(runs) = k
      BY <1>0, <1>1
    <3> QED
      BY <3>1, <2>1
  <2>3. ASSUME NEW r \in 1 .. Len(runs) PROVE (runs \o more)[r] = runs[r]
    BY <2>1, <1>0, <1>1
  <2> QED
    BY <2>1, <2>2, <2>3, <1>1
<1>4. ASSUME NEW i \in DOMAIN tasks
      PROVE  /\ Numbered(tasks, q)[i] \in TaskSet
             /\ Numbered(tasks, q)[i].run \in 0 .. Len(runs) + Len(q)
             /\ Numbered(tasks, q)[i].route = tasks[i].route
             /\ i \notin ToSet(q) => Numbered(tasks, q)[i] = tasks[i]
             /\ i \in ToSet(q) => \E k \in 1 .. Len(q) :
                  q[k] = i /\ Numbered(tasks, q)[i].run = Len(runs) + k
  <2>1. tasks[i] \in TaskSet /\ tasks[i].run \in 0 .. Len(runs)
    OBVIOUS
  <2>2. CASE i \notin ToSet(q)
    <3>1. Numbered(tasks, q)[i] = tasks[i]
      BY <2>2 DEF Numbered
    <3> QED
      BY <3>1, <2>1, <2>2, <1>0
  <2>3. CASE i \in ToSet(q)
    <3> DEFINE k == CHOOSE k \in DOMAIN q : q[k] = i
    <3>1. \E j \in DOMAIN q : q[j] = i
      BY <2>3 DEF ToSet
    <3>2. k \in DOMAIN q /\ q[k] = i
      BY <3>1
    <3>3. Numbered(tasks, q)[i] = [tasks[i] EXCEPT !.run = Len(runs) + k]
      BY <2>3 DEF Numbered
    <3> DEFINE n == Len(runs) + k
    <3> HIDE DEF k
    <3>5. n \in Nat /\ n \in 0 .. Len(runs) + Len(q)
      BY <3>2, <1>0
    <3> HIDE DEF n
    <3>4. Numbered(tasks, q)[i] \in TaskSet /\ Numbered(tasks, q)[i].run = n
          /\ Numbered(tasks, q)[i].route = tasks[i].route
      <4> DEFINE t == tasks[i]
      <4>1. t \in TaskSet /\ Numbered(tasks, q)[i] = [t EXCEPT !.run = n]
        BY <3>3, <2>1 DEF n
      <4> HIDE DEF t
      <4>2. Numbered(tasks, q)[i] \in TaskSet /\ Numbered(tasks, q)[i].run = n
            /\ Numbered(tasks, q)[i].route = t.route
        BY <4>1, <3>5 DEF TaskSet
      <4> QED
        BY <4>2 DEF t
    <3> QED
      BY <3>2, <3>4, <3>5, <2>3, <1>0 DEF n
  <2> QED
    BY <2>2, <2>3
<1>5. Numbered(tasks, q) \in Seq(TaskSet) /\ Len(Numbered(tasks, q)) = Len(tasks)
  <2>1. DOMAIN Numbered(tasks, q) = 1 .. Len(tasks)
    BY <1>0 DEF Numbered
  <2>2. Numbered(tasks, q) \in [1 .. Len(tasks) -> TaskSet]
    <3>1. Numbered(tasks, q) = [i \in 1 .. Len(tasks) |-> Numbered(tasks, q)[i]]
      BY <1>0 DEF Numbered
    <3> QED
      BY <1>4, <1>0, <3>1
  <2> DEFINE new == Numbered(tasks, q)
  <2>3. new \in [1 .. Len(tasks) -> TaskSet]
    BY <2>2
  <2> HIDE DEF new
  <2>4. \A S : \A n \in Nat : \A f \in [1 .. n -> S] : f \in Seq(S) /\ Len(f) = n
    OBVIOUS
  <2>5. Len(tasks) \in Nat
    BY <1>0
  <2>6. new \in Seq(TaskSet) /\ Len(new) = Len(tasks)
    BY <2>3, <2>4, <2>5
  <2> QED
    BY <2>6 DEF new
<1>6. ASSUME NEW k \in 1 .. Len(q)
      PROVE  q[k] \in DOMAIN tasks /\ Numbered(tasks, q)[q[k]].run = Len(runs) + k
  <2>1. q[k] \in DOMAIN tasks /\ q[k] \in ToSet(q)
    BY <1>0 DEF ToSet
  <2>2. PICK j \in 1 .. Len(q) :
          q[j] = q[k] /\ Numbered(tasks, q)[q[k]].run = Len(runs) + j
    BY <2>1, <1>4
  <2>3. j = k
    BY <2>2 DEF Picks
  <2> QED
    BY <2>1, <2>2, <2>3
<1>7. Chained(tasks, q) \in [Saga -> 0 .. Len(runs) + Len(q)]
  <2>1. \A s \in Saga : LastOf(tasks, q, s, Len(q)) \in 0 .. Len(runs) + Len(q)
    BY <1>0, LastFacts
  <2> QED
    BY <2>1 DEF Chained
<1> QED
  BY <1>1, <1>2, <1>3, <1>4, <1>5, <1>6, <1>7

-----------------------------------------------------------------------------
(* Steps, seen field by field                                              *)

\* Publication p comes to be as given; the others are what they were.
PubBecomes(p, pc, delegated, tasks) ==
  /\ pubs' \in Seq(PubSet) /\ Len(pubs') = Len(pubs)
  /\ \A o \in DOMAIN pubs :
       /\ pubs'[o].direct = pubs[o].direct /\ pubs'[o].ctx = pubs[o].ctx
       /\ pubs'[o].reaction = pubs[o].reaction
       /\ o # p => pubs'[o] = pubs[o]
  /\ pubs'[p].pc = pc /\ pubs'[p].delegated = delegated /\ pubs'[p].tasks = tasks

\* What never changes of a publication and of an execution.
PubsLast ==
  \A p \in DOMAIN pubs :
    pubs'[p].direct = pubs[p].direct /\ pubs'[p].ctx = pubs[p].ctx

RunsLast ==
  \A r \in DOMAIN runs :
    /\ runs'[r].event = runs[r].event /\ runs'[r].route = runs[r].route
    /\ runs'[r].prev = runs[r].prev /\ runs'[r].ctx = runs[r].ctx
    /\ runs'[r].owns = runs[r].owns

\* Execution r comes to be as given; the others are what they were.
RunBecomes(r, pc, nested, queue) ==
  /\ runs' \in Seq(RunSet) /\ Len(runs') = Len(runs) /\ RunsLast
  /\ \A u \in DOMAIN runs : u # r => runs'[u] = runs[u]
  /\ runs'[r].pc = pc /\ runs'[r].nested = nested /\ runs'[r].queue = queue

LEMMA PubBecomesFacts ==
  ASSUME pubs \in Seq(PubSet), NEW p \in DOMAIN pubs, NEW pc \in PubPc,
         NEW tasks \in Seq(TaskSet)
  PROVE  /\ pubs' = [pubs EXCEPT ![p].pc = pc]
              => PubBecomes(p, pc, pubs[p].delegated, pubs[p].tasks)
         /\ pubs' = [pubs EXCEPT ![p].delegated = TRUE, ![p].pc = pc]
              => PubBecomes(p, pc, TRUE, pubs[p].tasks)
         /\ pubs' = [pubs EXCEPT ![p].delegated = TRUE]
              => PubBecomes(p, pubs[p].pc, TRUE, pubs[p].tasks)
         /\ pubs' = [pubs EXCEPT ![p].tasks = tasks, ![p].pc = pc]
              => PubBecomes(p, pc, pubs[p].delegated, tasks)
         /\ pubs' = [pubs EXCEPT ![p].tasks = tasks]
              => PubBecomes(p, pubs[p].pc, pubs[p].delegated, tasks)
<1>1. pubs[p] \in PubSet
  OBVIOUS
<1>2. ASSUME NEW new \in PubSet, new.direct = pubs[p].direct, new.ctx = pubs[p].ctx,
             new.reaction = pubs[p].reaction, pubs' = [pubs EXCEPT ![p] = new]
      PROVE  PubBecomes(p, new.pc, new.delegated, new.tasks)
  <2>1. /\ pubs' \in Seq(PubSet) /\ Len(pubs') = Len(pubs) /\ DOMAIN pubs' = DOMAIN pubs
        /\ \A o \in DOMAIN pubs : pubs'[o] = IF o = p THEN new ELSE pubs[o]
    BY <1>2
  <2> QED
    BY <2>1, <1>2 DEF PubBecomes
<1>3. ASSUME pubs' = [pubs EXCEPT ![p].pc = pc]
      PROVE  PubBecomes(p, pc, pubs[p].delegated, pubs[p].tasks)
  <2> DEFINE new == [pubs[p] EXCEPT !.pc = pc]
  <2>1. /\ new \in PubSet /\ new.direct = pubs[p].direct /\ new.ctx = pubs[p].ctx
        /\ new.reaction = pubs[p].reaction /\ new.pc = pc
        /\ new.delegated = pubs[p].delegated /\ new.tasks = pubs[p].tasks
    BY <1>1 DEF PubSet
  <2>2. pubs' = [pubs EXCEPT ![p] = new]
    BY <1>3
  <2> HIDE DEF new
  <2>3. PubBecomes(p, new.pc, new.delegated, new.tasks)
    BY <2>1, <2>2, <1>2
  <2> QED
    BY <2>1, <2>3
<1>4. ASSUME pubs' = [pubs EXCEPT ![p].delegated = TRUE, ![p].pc = pc]
      PROVE  PubBecomes(p, pc, TRUE, pubs[p].tasks)
  <2> DEFINE new == [pubs[p] EXCEPT !.delegated = TRUE, !.pc = pc]
  <2>1. /\ new \in PubSet /\ new.direct = pubs[p].direct /\ new.ctx = pubs[p].ctx
        /\ new.reaction = pubs[p].reaction /\ new.pc = pc
        /\ new.delegated = TRUE /\ new.tasks = pubs[p].tasks
    BY <1>1 DEF PubSet
  <2>2. pubs' = [pubs EXCEPT ![p] = new]
    BY <1>4, <1>1 DEF PubSet
  <2> HIDE DEF new
  <2>3. PubBecomes(p, new.pc, new.delegated, new.tasks)
    BY <2>1, <2>2, <1>2
  <2> QED
    BY <2>1, <2>3
<1>5. ASSUME pubs' = [pubs EXCEPT ![p].delegated = TRUE]
      PROVE  PubBecomes(p, pubs[p].pc, TRUE, pubs[p].tasks)
  <2> DEFINE new == [pubs[p] EXCEPT !.delegated = TRUE]
  <2>1. /\ new \in PubSet /\ new.direct = pubs[p].direct /\ new.ctx = pubs[p].ctx
        /\ new.reaction = pubs[p].reaction /\ new.pc = pubs[p].pc
        /\ new.delegated = TRUE /\ new.tasks = pubs[p].tasks
    BY <1>1 DEF PubSet
  <2>2. pubs' = [pubs EXCEPT ![p] = new]
    BY <1>5
  <2> HIDE DEF new
  <2>3. PubBecomes(p, new.pc, new.delegated, new.tasks)
    BY <2>1, <2>2, <1>2
  <2> QED
    BY <2>1, <2>3
<1>6. ASSUME pubs' = [pubs EXCEPT ![p].tasks = tasks, ![p].pc = pc]
      PROVE  PubBecomes(p, pc, pubs[p].delegated, tasks)
  <2> DEFINE new == [pubs[p] EXCEPT !.tasks = tasks, !.pc = pc]
  <2>1. /\ new \in PubSet /\ new.direct = pubs[p].direct /\ new.ctx = pubs[p].ctx
        /\ new.reaction = pubs[p].reaction /\ new.pc = pc
        /\ new.delegated = pubs[p].delegated /\ new.tasks = tasks
    BY <1>1 DEF PubSet, TaskSet
  <2>2. pubs' = [pubs EXCEPT ![p] = new]
    BY <1>6, <1>1 DEF PubSet
  <2> HIDE DEF new
  <2>3. PubBecomes(p, new.pc, new.delegated, new.tasks)
    BY <2>1, <2>2, <1>2
  <2> QED
    BY <2>1, <2>3
<1>7. ASSUME pubs' = [pubs EXCEPT ![p].tasks = tasks]
      PROVE  PubBecomes(p, pubs[p].pc, pubs[p].delegated, tasks)
  <2> DEFINE new == [pubs[p] EXCEPT !.tasks = tasks]
  <2>1. /\ new \in PubSet /\ new.direct = pubs[p].direct /\ new.ctx = pubs[p].ctx
        /\ new.reaction = pubs[p].reaction /\ new.pc = pubs[p].pc
        /\ new.delegated = pubs[p].delegated /\ new.tasks = tasks
    BY <1>1 DEF PubSet, TaskSet
  <2>2. pubs' = [pubs EXCEPT ![p] = new]
    BY <1>7
  <2> HIDE DEF new
  <2>3. PubBecomes(p, new.pc, new.delegated, new.tasks)
    BY <2>1, <2>2, <1>2
  <2> QED
    BY <2>1, <2>3
<1> QED
  BY <1>3, <1>4, <1>5, <1>6, <1>7

LEMMA RunBecomesFacts ==
  ASSUME runs \in Seq(RunSet), NEW r \in DOMAIN runs, NEW pc \in RunPc, NEW n \in Nat
  PROVE  /\ runs' = [runs EXCEPT ![r].pc = pc]
              => RunBecomes(r, pc, runs[r].nested, runs[r].queue)
         /\ runs' = [runs EXCEPT ![r].pc = pc, ![r].queue = <<>>]
              => RunBecomes(r, pc, runs[r].nested, <<>>)
         /\ runs[r].queue # <<>> /\ runs' = [runs EXCEPT ![r].pc = pc, ![r].queue = Tail(@)]
              => RunBecomes(r, pc, runs[r].nested, Tail(runs[r].queue))
         /\ runs' = [runs EXCEPT ![r].pc = pc, ![r].nested = n]
              => RunBecomes(r, pc, n, runs[r].queue)
<1>1. runs[r] \in RunSet /\ runs[r].queue \in Seq(Nat)
  <2>1. runs[r] \in RunSet
    OBVIOUS
  <2> QED
    BY <2>1 DEF RunSet
<1>2. ASSUME NEW new \in RunSet, new.event = runs[r].event, new.route = runs[r].route,
             new.prev = runs[r].prev, new.ctx = runs[r].ctx, new.owns = runs[r].owns,
             runs' = [runs EXCEPT ![r] = new]
      PROVE  RunBecomes(r, new.pc, new.nested, new.queue)
  <2>1. /\ runs' \in Seq(RunSet) /\ Len(runs') = Len(runs) /\ DOMAIN runs' = DOMAIN runs
        /\ \A u \in DOMAIN runs : runs'[u] = IF u = r THEN new ELSE runs[u]
    BY <1>2
  <2> QED
    BY <2>1, <1>2 DEF RunBecomes, RunsLast
<1>3. ASSUME NEW nn \in Nat, NEW qq \in Seq(Nat),
             runs' = [runs EXCEPT ![r] = [runs[r] EXCEPT !.pc = pc, !.nested = nn, !.queue = qq]]
      PROVE  RunBecomes(r, pc, nn, qq)
  <2> DEFINE new == [runs[r] EXCEPT !.pc = pc, !.nested = nn, !.queue = qq]
  <2>1. /\ new \in RunSet /\ new.event = runs[r].event /\ new.route = runs[r].route
        /\ new.prev = runs[r].prev /\ new.ctx = runs[r].ctx /\ new.owns = runs[r].owns
        /\ new.pc = pc /\ new.nested = nn /\ new.queue = qq
    BY <1>1 DEF RunSet
  <2>2. runs' = [runs EXCEPT ![r] = new]
    BY <1>3
  <2> HIDE DEF new
  <2>3. RunBecomes(r, new.pc, new.nested, new.queue)
    BY <2>1, <2>2, <1>2
  <2> QED
    BY <2>1, <2>3
<1>4. ASSUME runs' = [runs EXCEPT ![r].pc = pc]
      PROVE  RunBecomes(r, pc, runs[r].nested, runs[r].queue)
  <2>1. [runs[r] EXCEPT !.pc = pc]
          = [runs[r] EXCEPT !.pc = pc, !.nested = runs[r].nested, !.queue = runs[r].queue]
    BY <1>1 DEF RunSet
  <2>2. runs[r].nested \in Nat
    BY <1>1 DEF RunSet
  <2> QED
    BY <2>1, <2>2, <1>1, <1>3, <1>4
<1>5. ASSUME runs' = [runs EXCEPT ![r].pc = pc, ![r].queue = <<>>]
      PROVE  RunBecomes(r, pc, runs[r].nested, <<>>)
  <2>1. [[runs[r] EXCEPT !.pc = pc] EXCEPT !.queue = <<>>]
          = [runs[r] EXCEPT !.pc = pc, !.nested = runs[r].nested, !.queue = <<>>]
    BY <1>1 DEF RunSet
  <2>2. runs[r].nested \in Nat /\ <<>> \in Seq(Nat)
    BY <1>1 DEF RunSet
  <2>3. runs' = [runs EXCEPT ![r] = [[runs[r] EXCEPT !.pc = pc] EXCEPT !.queue = <<>>]]
    BY <1>5, <1>1
  <2> QED
    BY <2>1, <2>2, <2>3, <1>3
<1>6. ASSUME runs[r].queue # <<>>,
             runs' = [runs EXCEPT ![r].pc = pc, ![r].queue = Tail(@)]
      PROVE  RunBecomes(r, pc, runs[r].nested, Tail(runs[r].queue))
  <2> DEFINE tail == Tail(runs[r].queue)
  <2>2. runs[r].nested \in Nat /\ tail \in Seq(Nat)
    BY <1>1, <1>6 DEF RunSet
  <2>3. runs' = [runs EXCEPT ![r] = [[runs[r] EXCEPT !.pc = pc] EXCEPT !.queue = tail]]
    BY <1>6, <1>1 DEF RunSet
  <2> HIDE DEF tail
  <2>1. [[runs[r] EXCEPT !.pc = pc] EXCEPT !.queue = tail]
          = [runs[r] EXCEPT !.pc = pc, !.nested = runs[r].nested, !.queue = tail]
    BY <1>1 DEF RunSet
  <2>4. RunBecomes(r, pc, runs[r].nested, tail)
    BY <2>1, <2>2, <2>3, <1>3
  <2> QED
    BY <2>4 DEF tail
<1>7. ASSUME runs' = [runs EXCEPT ![r].pc = pc, ![r].nested = n]
      PROVE  RunBecomes(r, pc, n, runs[r].queue)
  <2>1. [[runs[r] EXCEPT !.pc = pc] EXCEPT !.nested = n]
          = [runs[r] EXCEPT !.pc = pc, !.nested = n, !.queue = runs[r].queue]
    BY <1>1 DEF RunSet
  <2>3. runs' = [runs EXCEPT ![r] = [[runs[r] EXCEPT !.pc = pc] EXCEPT !.nested = n]]
    BY <1>7, <1>1 DEF RunSet
  <2> QED
    BY <2>1, <2>3, <1>1, <1>3
<1> QED
  BY <1>4, <1>5, <1>6, <1>7

\* What the end of a publication or of a service forgets.
LEMMA ClearedFacts ==
  ASSUME NEW ch \in [Saga -> Nat], NEW gone, NEW all
  PROVE  /\ Cleared(ch, gone) \in [Saga -> Nat]
         /\ \A s \in Saga : Cleared(ch, gone)[s] \in {0, ch[s]}
         /\ "sagas" \in all \ gone => Cleared(ch, gone) = ch
  BY DEF Cleared

LEMMA ForgetFacts ==
  ASSUME NEW ps, NEW ch \in [Saga -> Nat], Forget(ps, ch)
  PROVE  /\ chains' \in [Saga -> Nat] /\ \A s \in Saga : chains'[s] \in {0, ch[s]}
         /\ kept' \subseteq kept /\ ("sagas" \in kept' => chains' = ch)
  BY ClearedFacts DEF Forget

\* A publication or dispatch is admitted, in the context given.
Admitted(direct, ctx) ==
  /\ pubs' \in Seq(PubSet) /\ Len(pubs') = Len(pubs) + 1
  /\ \A o \in DOMAIN pubs :
       /\ pubs'[o].direct = pubs[o].direct /\ pubs'[o].ctx = pubs[o].ctx
       /\ pubs'[o].tasks = pubs[o].tasks /\ pubs'[o].delegated = pubs[o].delegated
       /\ pubs'[o].pc = pubs[o].pc /\ pubs'[o].reaction \in 0 .. Len(pubs) + 1
  /\ pubs'[NextPub].direct = direct /\ pubs'[NextPub].ctx = ctx
  /\ pubs'[NextPub].tasks = <<>> /\ pubs'[NextPub].delegated = FALSE
  /\ pubs'[NextPub].reaction = 0
  /\ pubs'[NextPub].pc = IF direct THEN "enter" ELSE "handlers"
  /\ IF direct THEN sagaState = "ready" ELSE eventState # "stopped"
  /\ UNCHANGED <<chains, kept>> /\ UNCHANGED stopVars

RootContext(direct) == [routes |-> <<>>, scope |-> 0, root |-> IF direct THEN 0 ELSE NextPub]

AdmittedOutside(direct) ==
  Admitted(direct, RootContext(direct)) /\ UNCHANGED runs /\ callers' \in Nat

AdmittedNested(r) ==
  /\ Admitted(FALSE, PublishContext(runs[r].ctx))
  /\ Running(r) /\ runs[r].pc = "queued"
  /\ RunBecomes(r, "nested", NextPub, runs[r].queue)
  /\ UNCHANGED callers

LEMMA AppendPub ==
  ASSUME SagaTypeOK, NEW t \in Topic, NEW ctx \in Context, NEW d \in BOOLEAN,
         IF d THEN sagaState = "ready" ELSE eventState # "stopped",
         UNCHANGED <<chains, kept>>, UNCHANGED stopVars
  PROVE  /\ pubs' = Append(pubs, Pub(t, ctx, d)) => Admitted(d, ctx)
         /\ \A p \in DOMAIN pubs :
              pubs' = Append([pubs EXCEPT ![p].reaction = NextPub], Pub(t, ctx, d))
                => Admitted(d, ctx)
<1> DEFINE new == Pub(t, ctx, d)
<1>1. /\ new \in PubSet /\ new.direct = d /\ new.ctx = ctx /\ new.tasks = <<>>
      /\ new.delegated = FALSE /\ new.reaction = 0
      /\ new.pc = IF d THEN "enter" ELSE "handlers"
  <2>1. <<>> \in Seq([route : Route, run : Nat])
    OBVIOUS
  <2> QED
    BY <2>1 DEF Pub, PubSet, PubPc
<1>2. pubs \in Seq(PubSet) /\ Len(pubs) \in Nat
  BY DEF SagaTypeOK
<1> HIDE DEF new
<1>3. ASSUME NEW old \in Seq(PubSet), Len(old) = Len(pubs), pubs' = Append(old, new),
             \A o \in DOMAIN pubs :
               /\ old[o].direct = pubs[o].direct /\ old[o].ctx = pubs[o].ctx
               /\ old[o].tasks = pubs[o].tasks /\ old[o].delegated = pubs[o].delegated
               /\ old[o].pc = pubs[o].pc /\ old[o].reaction \in 0 .. Len(pubs) + 1
      PROVE  Admitted(d, ctx)
  <2>1. /\ pubs' \in Seq(PubSet) /\ Len(pubs') = Len(pubs) + 1
        /\ pubs'[Len(pubs) + 1] = new
        /\ \A o \in 1 .. Len(pubs) : pubs'[o] = old[o]
    BY <1>1, <1>2, <1>3
  <2>2. DOMAIN pubs = 1 .. Len(pubs)
    BY <1>2
  <2> QED
    BY <2>1, <2>2, <1>1, <1>3 DEF Admitted, NextPub
<1>4. \A o \in DOMAIN pubs : pubs[o].reaction \in 0 .. Len(pubs) + 1
  BY <1>2 DEF SagaTypeOK, LinksOK
<1>5. ASSUME pubs' = Append(pubs, new) PROVE Admitted(d, ctx)
  BY <1>2, <1>3, <1>4, <1>5
<1>6. ASSUME NEW p \in DOMAIN pubs,
             pubs' = Append([pubs EXCEPT ![p].reaction = NextPub], new)
      PROVE  Admitted(d, ctx)
  <2> DEFINE old == [pubs EXCEPT ![p].reaction = NextPub]
  <2>1. pubs[p] \in PubSet /\ NextPub \in 0 .. Len(pubs) + 1
    BY <1>2 DEF NextPub
  <2>2. /\ old \in Seq(PubSet) /\ Len(old) = Len(pubs)
        /\ \A o \in DOMAIN pubs :
             /\ old[o].direct = pubs[o].direct /\ old[o].ctx = pubs[o].ctx
             /\ old[o].tasks = pubs[o].tasks /\ old[o].delegated = pubs[o].delegated
             /\ old[o].pc = pubs[o].pc /\ old[o].reaction \in 0 .. Len(pubs) + 1
    <3> DEFINE q == [pubs[p] EXCEPT !.reaction = NextPub]
    <3>1. /\ q \in PubSet /\ q.direct = pubs[p].direct /\ q.ctx = pubs[p].ctx
          /\ q.tasks = pubs[p].tasks /\ q.delegated = pubs[p].delegated
          /\ q.pc = pubs[p].pc /\ q.reaction = NextPub
      BY <2>1 DEF PubSet
    <3>2. old = [pubs EXCEPT ![p] = q]
      OBVIOUS
    <3> HIDE DEF q, old
    <3>3. /\ old \in Seq(PubSet) /\ Len(old) = Len(pubs)
          /\ \A o \in DOMAIN pubs : old[o] = IF o = p THEN q ELSE pubs[o]
      BY <3>1, <3>2, <1>2
    <3> QED
      BY <3>1, <3>3, <1>4, <2>1
  <2> HIDE DEF old
  <2> QED
    BY <2>2, <1>3, <1>6 DEF old
<1> QED
  BY <1>5, <1>6 DEF new

LEMMA AdmitFromOutside ==
  ASSUME SagaTypeOK, NEW t \in Topic
  PROVE  /\ t \in Published /\ PublishFromOutside(t) => AdmittedOutside(FALSE)
         /\ t \in Dispatched /\ DispatchFromOutside(t) => AdmittedOutside(TRUE)
         /\ \A p \in DOMAIN pubs : PublishFromSubscriber(p, t) => AdmittedOutside(FALSE)
<1>0. Len(pubs) \in Nat /\ callers \in Nat
  BY DEF SagaTypeOK
<1>1. /\ PublishContext(NoContext) = RootContext(FALSE) /\ NoContext = RootContext(TRUE)
      /\ RootContext(FALSE) \in Context /\ RootContext(TRUE) \in Context
  <2>1. <<>> \in Seq(Route)
    OBVIOUS
  <2> QED
    BY <2>1, <1>0 DEF PublishContext, NoContext, RootContext, NextPub, Context
<1>2. ASSUME PublishFromOutside(t) PROVE AdmittedOutside(FALSE)
  <2>1. eventState # "stopped" /\ UNCHANGED <<chains, kept>> /\ UNCHANGED stopVars
    BY <1>2 DEF PublishFromOutside, AdmitContext, AcceptsContext
  <2>2. pubs' = Append(pubs, Pub(t, RootContext(FALSE), FALSE)) /\ UNCHANGED runs
        /\ callers' = callers + 1
    BY <1>2, <1>1 DEF PublishFromOutside
  <2>3. Admitted(FALSE, RootContext(FALSE))
    BY <2>1, <2>2, <1>1, AppendPub
  <2>4. callers' \in Nat
    BY <2>2, <1>0
  <2> QED
    BY <2>2, <2>3, <2>4 DEF AdmittedOutside
<1>3. ASSUME DispatchFromOutside(t) PROVE AdmittedOutside(TRUE)
  <2>1. sagaState = "ready" /\ UNCHANGED <<chains, kept>> /\ UNCHANGED stopVars
    BY <1>3 DEF DispatchFromOutside
  <2>2. pubs' = Append(pubs, Pub(t, RootContext(TRUE), TRUE)) /\ UNCHANGED runs
        /\ callers' = callers + 1
    BY <1>3, <1>1 DEF DispatchFromOutside
  <2>3. Admitted(TRUE, RootContext(TRUE))
    BY <2>1, <2>2, <1>1, AppendPub
  <2>4. callers' \in Nat
    BY <2>2, <1>0
  <2> QED
    BY <2>2, <2>3, <2>4 DEF AdmittedOutside
<1>4. ASSUME NEW p \in DOMAIN pubs, PublishFromSubscriber(p, t) PROVE AdmittedOutside(FALSE)
  <2>1. eventState # "stopped" /\ UNCHANGED <<chains, kept>> /\ UNCHANGED stopVars
    BY <1>4 DEF PublishFromSubscriber, AdmitContext, AcceptsContext
  <2>2. pubs' = Append([pubs EXCEPT ![p].reaction = NextPub], Pub(t, RootContext(FALSE), FALSE))
        /\ UNCHANGED <<runs, callers>>
    BY <1>4, <1>1 DEF PublishFromSubscriber
  <2>3. Admitted(FALSE, RootContext(FALSE))
    BY <2>1, <2>2, <1>1, AppendPub
  <2> QED
    BY <2>2, <2>3, <1>0 DEF AdmittedOutside
<1> QED
  BY <1>2, <1>3, <1>4

LEMMA AdmitFromSaga ==
  ASSUME SagaTypeOK, NEW r \in DOMAIN runs, NEW t \in Topic, PublishFromSaga(r, t)
  PROVE  AdmittedNested(r)
<1>0. Len(pubs) \in Nat /\ NextPub \in Nat /\ runs \in Seq(RunSet)
  BY DEF SagaTypeOK, NextPub
<1>1. PublishContext(runs[r].ctx) \in Context
  <2>1. runs[r] \in RunSet
    BY <1>0
  <2>2. runs[r].ctx \in Context
    BY <2>1 DEF RunSet
  <2> QED
    BY <2>2, <1>0 DEF PublishContext, Context
<1>2. eventState # "stopped" /\ UNCHANGED <<chains, kept>> /\ UNCHANGED stopVars
  BY DEF PublishFromSaga, AdmitContext, AcceptsContext
<1>3. pubs' = Append(pubs, Pub(t, PublishContext(runs[r].ctx), FALSE))
  BY DEF PublishFromSaga
<1>4. Admitted(FALSE, PublishContext(runs[r].ctx))
  BY <1>1, <1>2, <1>3, AppendPub
<1>5. RunBecomes(r, "nested", NextPub, runs[r].queue)
  <2>1. runs' = [runs EXCEPT ![r].pc = "nested", ![r].nested = NextPub]
    BY DEF PublishFromSaga
  <2>2. "nested" \in RunPc
    BY DEF RunPc
  <2> QED
    BY <2>1, <2>2, <1>0, RunBecomesFacts
<1> QED
  BY <1>4, <1>5 DEF AdmittedNested, PublishFromSaga

\* What is forgotten of the chains and the graphs, if anything.
Forgets(ch) ==
  /\ chains' \in [Saga -> Nat] /\ \A s \in Saga : chains'[s] \in {0, ch[s]}
  /\ kept' \subseteq kept /\ ("sagas" \in kept' => chains' = ch)

Elsewhere == UNCHANGED callers /\ UNCHANGED stopVars

\* A publication moves on: it fails, or its sagas are over, or it is handed to
\* the delegated event bus.
PubMoves(p) ==
  /\ UNCHANGED runs /\ Forgets(chains) /\ Elsewhere
  /\ \/ /\ pubs[p].pc \in {"handlers", "enter", "sagas"}
        /\ PubBecomes(p, "failed", pubs[p].delegated, pubs[p].tasks)
     \/ /\ pubs[p].pc = "sagas" /\ Outcomes(p) \subseteq {"done"}
        /\ PubBecomes(p, IF pubs[p].direct THEN "ok" ELSE "after",
                      pubs[p].delegated, pubs[p].tasks)
     \/ pubs[p].pc = "after" /\ PubBecomes(p, "ok", TRUE, pubs[p].tasks)

LEMMA SettleFacts ==
  ASSUME SagaTypeOK, NEW p \in DOMAIN pubs, NEW pc \in PubPc, SettlePub(p, pc)
  PROVE  PubBecomes(p, pc, pubs[p].delegated, pubs[p].tasks) /\ Forgets(chains)
<1>1. pubs' = [pubs EXCEPT ![p].pc = pc] /\ Forget([pubs EXCEPT ![p].pc = pc], chains)
  BY DEF SettlePub
<1>2. <<>> \in Seq(TaskSet) /\ pubs \in Seq(PubSet) /\ chains \in [Saga -> Nat]
  BY DEF SagaTypeOK
<1>3. PubBecomes(p, pc, pubs[p].delegated, pubs[p].tasks)
  BY <1>1, <1>2, PubBecomesFacts
<1>4. Forgets(chains)
  <2> DEFINE ps == [pubs EXCEPT ![p].pc = pc]
  <2>1. Forget(ps, chains)
    BY <1>1
  <2> HIDE DEF ps
  <2> QED
    BY <2>1, <1>2, ForgetFacts DEF Forgets
<1> QED
  BY <1>3, <1>4

LEMMA NothingForgotten ==
  ASSUME SagaTypeOK, UNCHANGED <<chains, kept>>
  PROVE  Forgets(chains)
  BY DEF SagaTypeOK, Forgets

LEMMA EnterFailedMoves ==
  ASSUME SagaTypeOK, NEW p \in DOMAIN pubs, pubs[p].pc \in {"handlers", "enter"},
         SettlePub(p, "failed"), UNCHANGED runs, Elsewhere
  PROVE  PubMoves(p)
<1>1. "failed" \in PubPc
  BY DEF PubPc
<1> QED
  BY <1>1, SettleFacts DEF PubMoves

LEMMA SagasEndMoves ==
  ASSUME SagaTypeOK, NEW p \in DOMAIN pubs, SagasEnd(p)
  PROVE  PubMoves(p)
<1>1. pubs[p].pc = "sagas" /\ PubReady(p) /\ UNCHANGED runs /\ Elsewhere
  BY DEF SagasEnd, Elsewhere
<1>2. "failed" \in Outcomes(p) \/ Outcomes(p) \subseteq {"done"}
  BY <1>1 DEF PubReady
<1>3. {"failed", "ok", "after"} \subseteq PubPc
  BY DEF PubPc
<1>4. CASE "failed" \in Outcomes(p)
  <2>1. SettlePub(p, "failed")
    BY <1>4 DEF SagasEnd
  <2> QED
    BY <2>1, <1>1, <1>3, SettleFacts DEF PubMoves
<1>5. CASE "failed" \notin Outcomes(p)
  <2>1. CASE pubs[p].direct
    <3>1. SettlePub(p, "ok")
      BY <1>5, <2>1 DEF SagasEnd
    <3> QED
      BY <3>1, <2>1, <1>1, <1>2, <1>3, <1>5, SettleFacts DEF PubMoves
  <2>2. CASE ~pubs[p].direct
    <3>1. pubs' = [pubs EXCEPT ![p].pc = "after"] /\ UNCHANGED <<chains, kept>>
      BY <1>5, <2>2 DEF SagasEnd
    <3>2. <<>> \in Seq(TaskSet) /\ pubs \in Seq(PubSet)
      BY DEF SagaTypeOK
    <3>3. PubBecomes(p, "after", pubs[p].delegated, pubs[p].tasks)
      BY <3>1, <3>2, <1>3, PubBecomesFacts
    <3> QED
      BY <3>1, <3>3, <2>2, <1>1, <1>2, <1>5, NothingForgotten DEF PubMoves
  <2> QED
    BY <2>1, <2>2
<1> QED
  BY <1>4, <1>5

LEMMA DelegateMoves ==
  ASSUME SagaTypeOK, NEW p \in DOMAIN pubs, Delegate(p)
  PROVE  PubMoves(p)
<1>1. pubs' = [pubs EXCEPT ![p].delegated = TRUE, ![p].pc = "ok"]
      /\ Forget([pubs EXCEPT ![p].delegated = TRUE, ![p].pc = "ok"], chains)
  BY DEF Delegate
<1>2. <<>> \in Seq(TaskSet) /\ pubs \in Seq(PubSet) /\ chains \in [Saga -> Nat] /\ "ok" \in PubPc
  BY DEF SagaTypeOK, PubPc
<1>3. PubBecomes(p, "ok", TRUE, pubs[p].tasks)
  BY <1>1, <1>2, PubBecomesFacts
<1>4. Forgets(chains)
  <2> DEFINE ps == [pubs EXCEPT ![p].delegated = TRUE, ![p].pc = "ok"]
  <2>1. Forget(ps, chains)
    BY <1>1
  <2> HIDE DEF ps
  <2> QED
    BY <2>1, <1>2, ForgetFacts DEF Forgets
<1> QED
  BY <1>3, <1>4 DEF PubMoves, Delegate, Elsewhere

\* Tasks of a publication are scheduled.
SchedulesTasks(p, tasks, q, pc) ==
  /\ tasks \in Seq(TaskSet) /\ \A i \in DOMAIN tasks : tasks[i].run \in 0 .. Len(runs)
  /\ Picks(q, tasks)
  /\ PubBecomes(p, pc, pubs[p].delegated, Numbered(tasks, q))
  /\ runs' \in Seq(RunSet) /\ Len(runs') = Len(runs) + Len(q) /\ RunsLast
  /\ \A r \in DOMAIN runs : runs'[r].pc = runs[r].pc /\ runs'[r].nested = runs[r].nested
  /\ \A k \in 1 .. Len(q) : runs'[Len(runs) + k] = Execution(p, tasks, q, k)
  /\ Forgets(Chained(tasks, q)) /\ Elsewhere

RunsKept == \A r \in DOMAIN runs : runs'[r] = runs[r]

\* runDispatch() schedules all sagas of the event, ...
NewTasks(p) == [i \in DOMAIN RoutesOf[pubs[p].topic] |->
                  [route |-> RoutesOf[pubs[p].topic][i], run |-> 0]]

EntersPlainly(p) ==
  \E q : /\ pubs[p].pc \in {"handlers", "enter"}
         /\ SchedulesTasks(p, NewTasks(p), q, "sagas") /\ RunsKept
         /\ ToSet(q) = DOMAIN NewTasks(p)

\* ... or the re-entrant ones, and leaves the rest to the continuation, ...
EntersAgain(p) ==
  LET s == pubs[p].ctx.scope
  IN  \E q : /\ pubs[p].pc \in {"handlers", "enter"} /\ pubs[p].ctx.routes # <<>>
             /\ SchedulesTasks(p, NewTasks(p), q, "ok")
             /\ \A r \in DOMAIN runs :
                  runs'[r].queue = IF r = s THEN Append(runs[r].queue, p) ELSE runs[r].queue

\* ... which schedules them one by one.
StartsTask(r) ==
  LET p == runs[r].queue[1]
  IN  \E i \in DOMAIN pubs[p].tasks :
        /\ runs[r].pc = "tasks" /\ pubs[p].tasks[i].run = 0
        /\ SchedulesTasks(p, pubs[p].tasks, <<i>>, pubs[p].pc) /\ RunsKept

LEMMA NewTasksFacts ==
  ASSUME SagaTypeOK, NEW p \in DOMAIN pubs
  PROVE  /\ NewTasks(p) \in Seq(TaskSet)
         /\ DOMAIN NewTasks(p) = DOMAIN RoutesOf[pubs[p].topic]
         /\ \A i \in DOMAIN NewTasks(p) : NewTasks(p)[i].run = 0
<1>1. pubs[p].topic \in Topic
  <2>1. pubs[p] \in PubSet
    BY DEF SagaTypeOK
  <2> QED
    BY <2>1 DEF PubSet
<1> DEFINE routes == RoutesOf[pubs[p].topic]
<1>2. routes \in Seq(Route)
  BY <1>1, SagaAssumption
<1> HIDE DEF routes
<1>3. [i \in DOMAIN routes |-> [route |-> routes[i], run |-> 0]] \in [1 .. Len(routes) -> TaskSet]
  BY <1>2 DEF TaskSet
<1>4. [i \in DOMAIN routes |-> [route |-> routes[i], run |-> 0]] \in Seq(TaskSet)
  BY <1>2, <1>3
<1> QED
  BY <1>4 DEF NewTasks, routes

\* The executions that are there already stay as they are.
LEMMA RunsGrow ==
  ASSUME SagaTypeOK, NEW p \in DOMAIN pubs, NEW tasks \in Seq(TaskSet),
         \A i \in DOMAIN tasks : tasks[i].run \in 0 .. Len(runs),
         NEW q, Picks(q, tasks), runs' = Scheduled(p, tasks, q)
  PROVE  /\ runs' \in Seq(RunSet) /\ Len(runs') = Len(runs) + Len(q)
         /\ RunsLast /\ RunsKept
         /\ \A k \in 1 .. Len(q) : runs'[Len(runs) + k] = Execution(p, tasks, q, k)
<1>1. DOMAIN runs = 1 .. Len(runs)
  BY DEF SagaTypeOK
<1> QED
  BY <1>1, ScheduleFacts DEF RunsLast, RunsKept

-----------------------------------------------------------------------------
(* Contexts                                                                *)

\* The context of a publication: that of a call from outside, or that of the
\* execution which published it.  Its scope is drained by an execution that
\* owns it; its root is the publication that opened it.
PubContextOK(p) ==
  LET ctx == pubs[p].ctx
  IN  /\ pubs[p].direct => ctx.scope = 0 /\ ctx.root = 0
      /\ ~pubs[p].direct => ctx.root # 0
      /\ ctx.root \in 0 .. p
      /\ ctx.scope = 0 => ctx.routes = <<>> /\ ctx.root \in {0, p}
      /\ ctx.scope # 0 =>
           /\ ctx.scope \in DOMAIN runs /\ runs[ctx.scope].owns
           /\ runs[ctx.scope].ctx.root # 0 => ctx.root = runs[ctx.scope].ctx.root
           /\ pubs[ctx.root].ctx.scope = 0 => runs[ctx.scope].ctx.root = ctx.root

\* That of an execution: the one of its event, or a scope of its own.
RunContextOK(r) ==
  LET ctx == pubs[runs[r].event].ctx
  IN  /\ runs[r].ctx.root = ctx.root
      /\ runs[r].owns = (ctx.scope = 0)
      /\ runs[r].ctx.scope = IF ctx.scope = 0 THEN r ELSE ctx.scope

\* An execution that is in its queue has something in it, and owns it.
DrainsOK(r) ==
  /\ runs[r].pc \in {"tasks", "delegate"} => runs[r].queue # <<>>
  /\ runs[r].pc \in {"drain", "tasks", "delegate"} => runs[r].owns

BaseOK ==
  /\ SagaTypeOK
  /\ \A p \in DOMAIN pubs : PubContextOK(p)
  /\ \A r \in DOMAIN runs : RunContextOK(r) /\ DrainsOK(r)

LEMMA EnterSagasKinds ==
  ASSUME BaseOK, NEW p \in DOMAIN pubs, EnterSagas(p)
  PROVE  PubMoves(p) \/ EntersPlainly(p) \/ EntersAgain(p)
<1> DEFINE ctx == pubs[p].ctx
<1> DEFINE routes == RoutesOf[pubs[p].topic]
<1> DEFINE tasks == [i \in DOMAIN routes |-> [route |-> routes[i], run |-> 0]]
<1> DEFINE again == {i \in DOMAIN routes : Reentrant(ctx, routes[i])}
<1> DEFINE ps(q, pc) == [pubs EXCEPT ![p].tasks = Numbered(tasks, q), ![p].pc = pc]
<1>0. /\ pubs[p].pc \in {"handlers", "enter"} /\ Elsewhere
      /\ \/ SettlePub(p, "failed") /\ UNCHANGED runs
         \/ \E q \in InOrder(DOMAIN routes) :
              /\ pubs' = ps(q, "sagas") /\ runs' = Scheduled(p, tasks, q)
              /\ chains' = Chained(tasks, q) /\ UNCHANGED kept
         \/ /\ again # {}
            /\ \E q \in InOrder(again) :
                 /\ pubs' = ps(q, "ok") /\ Forget(ps(q, "ok"), Chained(tasks, q))
                 /\ runs' = [Scheduled(p, tasks, q) EXCEPT ![ctx.scope].queue = Append(@, p)]
  BY DEF EnterSagas, Elsewhere
<1>1. SagaTypeOK /\ pubs \in Seq(PubSet) /\ Len(runs) \in Nat /\ DOMAIN runs = 1 .. Len(runs)
  BY DEF BaseOK, SagaTypeOK
<1>2. /\ tasks \in Seq(TaskSet) /\ DOMAIN tasks = DOMAIN routes
      /\ \A i \in DOMAIN tasks : tasks[i].run \in 0 .. Len(runs)
      /\ tasks = NewTasks(p)
  <2>1. tasks = NewTasks(p)
    BY DEF NewTasks
  <2> HIDE DEF tasks, routes
  <2>2. tasks \in Seq(TaskSet) /\ DOMAIN tasks = DOMAIN routes
        /\ \A i \in DOMAIN tasks : tasks[i].run = 0
    BY <1>1, <2>1, NewTasksFacts DEF routes
  <2> QED
    BY <2>1, <2>2, <1>1
<1> HIDE DEF tasks, again
<1>3. CASE SettlePub(p, "failed") /\ UNCHANGED runs
  BY <1>0, <1>1, <1>3, EnterFailedMoves
<1>4. ASSUME NEW q \in InOrder(DOMAIN routes), pubs' = ps(q, "sagas"),
             runs' = Scheduled(p, tasks, q), chains' = Chained(tasks, q), UNCHANGED kept
      PROVE  EntersPlainly(p)
  <2>1. Picks(q, tasks) /\ ToSet(q) = DOMAIN tasks
    BY <1>2, InOrderPicks
  <2>2. Numbered(tasks, q) \in Seq(TaskSet) /\ Chained(tasks, q) \in [Saga -> 0 .. Len(runs) + Len(q)]
    BY <1>1, <1>2, <2>1, ScheduleFacts
  <2>3. PubBecomes(p, "sagas", pubs[p].delegated, Numbered(tasks, q))
    <3>1. "sagas" \in PubPc
      BY DEF PubPc
    <3>2. pubs' = [pubs EXCEPT ![p].tasks = Numbered(tasks, q), ![p].pc = "sagas"]
      BY <1>4
    <3> QED
      BY <3>1, <3>2, <2>2, <1>1, PubBecomesFacts
  <2>4. /\ runs' \in Seq(RunSet) /\ Len(runs') = Len(runs) + Len(q)
        /\ RunsLast /\ RunsKept
        /\ \A k \in 1 .. Len(q) : runs'[Len(runs) + k] = Execution(p, tasks, q, k)
    BY <1>1, <1>2, <1>4, <2>1, RunsGrow
  <2>5. Forgets(Chained(tasks, q))
    <3>1. Chained(tasks, q) \in [Saga -> Nat]
      <4>1. Len(q) \in Nat
        BY <2>1 DEF Picks
      <4>2. (0 .. Len(runs) + Len(q)) \subseteq Nat
        BY <4>1, <1>1
      <4> QED
        BY <2>2, <4>2
    <3> QED
      BY <3>1, <1>4 DEF Forgets
  <2>6. SchedulesTasks(p, tasks, q, "sagas")
    BY <2>1, <2>3, <2>4, <2>5, <1>0, <1>2 DEF SchedulesTasks, RunsKept
  <2>7. SchedulesTasks(p, NewTasks(p), q, "sagas") /\ ToSet(q) = DOMAIN NewTasks(p)
    BY <2>1, <2>6, <1>2
  <2>8. pubs[p].pc \in {"handlers", "enter"}
    BY <1>0
  <2> HIDE DEF ps, routes, ctx
  <2> QED
    BY <2>4, <2>7, <2>8 DEF EntersPlainly
<1>5. ASSUME again # {}, NEW q \in InOrder(again), pubs' = ps(q, "ok"),
             Forget(ps(q, "ok"), Chained(tasks, q)),
             runs' = [Scheduled(p, tasks, q) EXCEPT ![ctx.scope].queue = Append(@, p)]
      PROVE  EntersAgain(p)
  <2>0. again \in SUBSET DOMAIN tasks
    BY <1>2 DEF again
  <2>1. Picks(q, tasks)
    BY <1>2, <2>0, InOrderPicks
  <2>2. Numbered(tasks, q) \in Seq(TaskSet) /\ Chained(tasks, q) \in [Saga -> 0 .. Len(runs) + Len(q)]
    BY <1>1, <1>2, <2>1, ScheduleFacts
  <2>3. PubBecomes(p, "ok", pubs[p].delegated, Numbered(tasks, q))
    <3>1. "ok" \in PubPc
      BY DEF PubPc
    <3>2. pubs' = [pubs EXCEPT ![p].tasks = Numbered(tasks, q), ![p].pc = "ok"]
      BY <1>5
    <3> QED
      BY <3>1, <3>2, <2>2, <1>1, PubBecomesFacts
  <2>4. ctx.routes # <<>> /\ ctx.scope \in DOMAIN runs
    <3>1. PICK i \in DOMAIN routes : Reentrant(ctx, routes[i])
      BY <1>5 DEF again
    <3>2. DOMAIN ctx.routes # {}
      BY <3>1 DEF Reentrant
    <3>3. ctx.routes # <<>>
      BY <3>2
    <3> QED
      BY <3>3 DEF BaseOK, PubContextOK
  <2>5. /\ runs' \in Seq(RunSet) /\ Len(runs') = Len(runs) + Len(q) /\ RunsLast
        /\ \A r \in DOMAIN runs : runs'[r].pc = runs[r].pc /\ runs'[r].nested = runs[r].nested
        /\ \A r \in DOMAIN runs : runs'[r].queue =
             IF r = ctx.scope THEN Append(runs[r].queue, p) ELSE runs[r].queue
        /\ \A k \in 1 .. Len(q) : runs'[Len(runs) + k] = Execution(p, tasks, q, k)
    <3> DEFINE rs == Scheduled(p, tasks, q)
    <3> DEFINE s == ctx.scope
    <3>1. /\ rs \in Seq(RunSet) /\ Len(rs) = Len(runs) + Len(q) /\ Len(q) \in Nat
          /\ \A r \in 1 .. Len(runs) : rs[r] = runs[r]
          /\ \A k \in 1 .. Len(q) : rs[Len(runs) + k] = Execution(p, tasks, q, k)
      <4>1. Len(q) \in Nat
        BY <2>1 DEF Picks
      <4>2. rs \in Seq(RunSet) /\ Len(rs) = Len(runs) + Len(q)
        BY <1>1, <1>2, <2>1, ScheduleFacts
      <4>3. \A r \in 1 .. Len(runs) : rs[r] = runs[r]
        BY <1>1, <1>2, <2>1, ScheduleFacts
      <4>4. \A k \in 1 .. Len(q) : rs[Len(runs) + k] = Execution(p, tasks, q, k)
        BY <1>1, <1>2, <2>1, ScheduleFacts
      <4> QED
        BY <4>1, <4>2, <4>3, <4>4
    <3>2. s \in DOMAIN runs /\ s \in 1 .. Len(rs)
      BY <2>4, <3>1, <1>1
    <3>3. runs' = [rs EXCEPT ![s].queue = Append(@, p)]
      BY <1>5
    <3> HIDE DEF rs, s
    <3> DEFINE new == [rs[s] EXCEPT !.queue = Append(rs[s].queue, p)]
    <3>4. /\ new \in RunSet /\ new.event = rs[s].event /\ new.route = rs[s].route
          /\ new.prev = rs[s].prev /\ new.ctx = rs[s].ctx /\ new.owns = rs[s].owns
          /\ new.pc = rs[s].pc /\ new.nested = rs[s].nested
          /\ new.queue = Append(rs[s].queue, p)
      <4>1. rs[s] \in RunSet
        BY <3>1, <3>2
      <4>2. p \in Nat
        BY <1>1
      <4>3. Append(rs[s].queue, p) \in Seq(Nat)
        BY <4>1, <4>2 DEF RunSet
      <4> QED
        BY <4>1, <4>3 DEF RunSet
    <3>5. runs' = [rs EXCEPT ![s] = new]
      BY <3>3
    <3> HIDE DEF new
    <3>6. /\ runs' \in Seq(RunSet) /\ Len(runs') = Len(rs)
          /\ \A r \in 1 .. Len(rs) : runs'[r] = IF r = s THEN new ELSE rs[r]
      BY <3>1, <3>2, <3>4, <3>5
    <3>7. \A r \in 1 .. Len(runs) : r \in 1 .. Len(rs) /\ rs[r] = runs[r]
      BY <3>1, <1>1
    <3>8. ASSUME NEW k \in 1 .. Len(q)
          PROVE  runs'[Len(runs) + k] = Execution(p, tasks, q, k)
      <4>1. Len(runs) + k \in 1 .. Len(rs) /\ Len(runs) + k # s
        BY <3>1, <3>2, <1>1
      <4> QED
        BY <4>1, <3>1, <3>6
    <3>9. runs' \in Seq(RunSet) /\ Len(runs') = Len(runs) + Len(q)
      BY <3>1, <3>6
    <3>10. ASSUME NEW r \in DOMAIN runs
           PROVE  /\ runs'[r].event = runs[r].event /\ runs'[r].route = runs[r].route
                  /\ runs'[r].prev = runs[r].prev /\ runs'[r].ctx = runs[r].ctx
                  /\ runs'[r].owns = runs[r].owns
                  /\ runs'[r].pc = runs[r].pc /\ runs'[r].nested = runs[r].nested
                  /\ runs'[r].queue = IF r = s THEN Append(runs[r].queue, p) ELSE runs[r].queue
      <4>1. r \in 1 .. Len(rs) /\ rs[r] = runs[r] /\ runs'[r] = IF r = s THEN new ELSE rs[r]
        BY <3>6, <3>7, <1>1
      <4> QED
        BY <4>1, <3>4
    <3> QED
      BY <3>8, <3>9, <3>10 DEF RunsLast, s
  <2>6. Forgets(Chained(tasks, q))
    <3> DEFINE pq == ps(q, "ok")
    <3>1. Chained(tasks, q) \in [Saga -> Nat]
      <4>1. Len(q) \in Nat
        BY <2>1 DEF Picks
      <4>2. (0 .. Len(runs) + Len(q)) \subseteq Nat
        BY <4>1, <1>1
      <4> QED
        BY <2>2, <4>2
    <3>2. Forget(pq, Chained(tasks, q))
      BY <1>5
    <3> HIDE DEF pq
    <3> QED
      BY <3>1, <3>2, ForgetFacts DEF Forgets
  <2>7. SchedulesTasks(p, tasks, q, "ok")
    BY <2>1, <2>3, <2>5, <2>6, <1>0, <1>2 DEF SchedulesTasks
  <2>8. SchedulesTasks(p, NewTasks(p), q, "ok")
    BY <2>7, <1>2
  <2>9. pubs[p].pc \in {"handlers", "enter"}
    BY <1>0
  <2> QED
    BY <2>4, <2>5, <2>8, <2>9 DEF EntersAgain
<1> QED
  BY <1>0, <1>3, <1>4, <1>5

LEMMA StartTaskKind ==
  ASSUME BaseOK, NEW r \in DOMAIN runs, StartTask(r)
  PROVE  StartsTask(r) /\ runs[r].queue[1] \in DOMAIN pubs
<1> DEFINE p == runs[r].queue[1]
<1> DEFINE tasks == pubs[p].tasks
<1>0. PICK i \in DOMAIN tasks :
        /\ tasks[i].run = 0
        /\ runs' = Scheduled(p, tasks, <<i>>) /\ chains' = Chained(tasks, <<i>>)
        /\ pubs' = [pubs EXCEPT ![p].tasks = Numbered(tasks, <<i>>)]
  BY DEF StartTask, TaskReady
<1>1. runs[r].pc = "tasks" /\ UNCHANGED kept /\ Elsewhere
  BY DEF StartTask, Elsewhere
<1>2. SagaTypeOK /\ pubs \in Seq(PubSet) /\ Len(runs) \in Nat /\ DOMAIN runs = 1 .. Len(runs)
  BY DEF BaseOK, SagaTypeOK
<1>3. p \in DOMAIN pubs
  <2>1. runs[r].queue # <<>> /\ runs[r] \in RunSet
    BY <1>1, <1>2 DEF BaseOK, DrainsOK, SagaTypeOK
  <2>2. 1 \in DOMAIN runs[r].queue
    BY <2>1 DEF RunSet
  <2> QED
    BY <2>2 DEF BaseOK, SagaTypeOK, LinksOK
<1>4. tasks \in Seq(TaskSet) /\ \A j \in DOMAIN tasks : tasks[j].run \in 0 .. Len(runs)
  <2>1. pubs[p] \in PubSet
    BY <1>2, <1>3
  <2>2. tasks \in Seq(TaskSet)
    BY <2>1 DEF PubSet, TaskSet
  <2> QED
    BY <2>2, <1>2, <1>3 DEF SagaTypeOK, LinksOK
<1> HIDE DEF p
<1>5. Picks(<<i>>, tasks) /\ Len(<<i>>) = 1
  BY <1>4, OnePicks
<1> DEFINE q == <<i>>
<1>6. Picks(q, tasks) /\ Len(q) = 1
  BY <1>5
<1>7. runs' = Scheduled(p, tasks, q) /\ chains' = Chained(tasks, q)
      /\ pubs' = [pubs EXCEPT ![p].tasks = Numbered(tasks, q)]
  BY <1>0
<1> HIDE DEF q
<1>8. Numbered(tasks, q) \in Seq(TaskSet) /\ Chained(tasks, q) \in [Saga -> 0 .. Len(runs) + Len(q)]
  BY <1>2, <1>3, <1>4, <1>6, ScheduleFacts
<1>9. PubBecomes(p, pubs[p].pc, pubs[p].delegated, Numbered(tasks, q))
  <2>1. "ok" \in PubPc
    BY DEF PubPc
  <2> QED
    BY <2>1, <1>2, <1>3, <1>7, <1>8, PubBecomesFacts
<1>10. /\ runs' \in Seq(RunSet) /\ Len(runs') = Len(runs) + Len(q)
       /\ RunsLast /\ RunsKept
       /\ \A k \in 1 .. Len(q) : runs'[Len(runs) + k] = Execution(p, tasks, q, k)
  BY <1>2, <1>3, <1>4, <1>6, <1>7, RunsGrow
<1>11. Forgets(Chained(tasks, q))
  <2>1. Chained(tasks, q) \in [Saga -> Nat]
    <3>1. (0 .. Len(runs) + Len(q)) \subseteq Nat
      BY <1>6, <1>2
    <3> QED
      BY <1>8, <3>1
  <2> QED
    BY <2>1, <1>1, <1>7 DEF Forgets
<1>12. SchedulesTasks(p, tasks, q, pubs[p].pc)
  BY <1>1, <1>4, <1>6, <1>9, <1>10, <1>11 DEF SchedulesTasks, RunsKept
<1>13. \E j \in DOMAIN pubs[p].tasks :
         /\ runs[r].pc = "tasks" /\ pubs[p].tasks[j].run = 0
         /\ SchedulesTasks(p, pubs[p].tasks, <<j>>, pubs[p].pc) /\ RunsKept
  BY <1>0, <1>1, <1>10, <1>12 DEF q
<1> QED
  BY <1>3, <1>13 DEF StartsTask, p

-----------------------------------------------------------------------------
(* Executions                                                              *)

\* All tasks of a publication have been carried out.
AllDone(p) ==
  \A i \in DOMAIN pubs[p].tasks :
    pubs[p].tasks[i].run # 0 /\ runs[pubs[p].tasks[i].run].pc = "done"

EndsRun(r, pc) == RunBecomes(r, pc, runs[r].nested, <<>>) /\ chains' = Unlinked(r)

GoesOn(r, pc) == RunBecomes(r, pc, runs[r].nested, runs[r].queue) /\ UNCHANGED chains

\* An execution moves on: its handle() is over or hangs, it looks into its
\* queue, or the continuation it runs is over.
RunMoves(r) ==
  /\ UNCHANGED <<pubs, kept>> /\ Elsewhere
  /\ \/ Running(r) /\ \/ EndsRun(r, "failed")
                      \/ ~runs[r].owns /\ EndsRun(r, "done")
                      \/ runs[r].owns /\ GoesOn(r, "drain")
                      \/ GoesOn(r, "hung")
     \/ runs[r].pc = "drain" /\ \/ runs[r].queue = <<>> /\ EndsRun(r, "done")
                                \/ runs[r].queue # <<>> /\ GoesOn(r, "tasks")
     \/ runs[r].pc = "tasks" /\ \/ EndsRun(r, "failed")
                                \/ AllDone(runs[r].queue[1]) /\ GoesOn(r, "delegate")

Delegates(r) ==
  LET p == runs[r].queue[1]
  IN  /\ UNCHANGED <<chains, kept>> /\ Elsewhere
      /\ p \in DOMAIN pubs /\ runs[r].pc = "delegate" /\ runs[r].queue # <<>>
      /\ PubBecomes(p, pubs[p].pc, TRUE, pubs[p].tasks)
      /\ RunBecomes(r, "drain", runs[r].nested, Tail(runs[r].queue))

LEMMA RunKinds ==
  ASSUME BaseOK, NEW r \in DOMAIN runs
  PROVE  /\ HandleEnds(r) \/ HandleHangs(r) \/ TakeContinuation(r) \/ TasksEnd(r) => RunMoves(r)
         /\ DelegateContinuation(r) => Delegates(r)
<1>1. runs \in Seq(RunSet) /\ pubs \in Seq(PubSet) /\ 0 \in Nat /\ RunPc \subseteq RunPc
  BY DEF BaseOK, SagaTypeOK
<1>2. {"queued", "nested", "hung", "drain", "tasks", "delegate", "done", "failed"} = RunPc
  BY DEF RunPc
<1>3. ASSUME NEW pc \in RunPc, EndRun(r, pc) PROVE EndsRun(r, pc)
  BY <1>1, <1>3, RunBecomesFacts DEF EndRun, EndsRun
<1>4. ASSUME NEW pc \in RunPc, runs' = [runs EXCEPT ![r].pc = pc], UNCHANGED chains
      PROVE  GoesOn(r, pc)
  BY <1>1, <1>4, RunBecomesFacts DEF GoesOn
<1>5. ASSUME HandleEnds(r) PROVE RunMoves(r)
  <2>1. UNCHANGED <<pubs, kept>> /\ Elsewhere /\ Running(r)
        /\ (AfterHandle(r) = "done" <=> ~runs[r].owns)
        /\ (AfterHandle(r) = "drain" <=> runs[r].owns)
    BY <1>5 DEF HandleEnds, Elsewhere, AfterHandle
  <2>2. \/ EndRun(r, "failed")
        \/ ~runs[r].owns /\ EndRun(r, "done")
        \/ runs[r].owns /\ runs' = [runs EXCEPT ![r].pc = "drain"] /\ UNCHANGED chains
    BY <1>5, <2>1 DEF HandleEnds
  <2> QED
    BY <2>1, <2>2, <1>2, <1>3, <1>4 DEF RunMoves
<1>6. ASSUME HandleHangs(r) PROVE RunMoves(r)
  <2>1. UNCHANGED <<pubs, kept>> /\ Elsewhere /\ Running(r) /\ UNCHANGED chains
        /\ runs' = [runs EXCEPT ![r].pc = "hung"]
    BY <1>6 DEF HandleHangs, Elsewhere
  <2> QED
    BY <2>1, <1>2, <1>4 DEF RunMoves
<1>7. ASSUME TakeContinuation(r) PROVE RunMoves(r)
  <2>1. UNCHANGED <<pubs, kept>> /\ Elsewhere /\ runs[r].pc = "drain"
    BY <1>7 DEF TakeContinuation, Elsewhere
  <2>2. \/ runs[r].queue = <<>> /\ EndRun(r, "done")
        \/ runs[r].queue # <<>> /\ runs' = [runs EXCEPT ![r].pc = "tasks"] /\ UNCHANGED chains
    BY <1>7 DEF TakeContinuation
  <2> QED
    BY <2>1, <2>2, <1>2, <1>3, <1>4 DEF RunMoves
<1>8. ASSUME TasksEnd(r) PROVE RunMoves(r)
  <2> DEFINE tasks == pubs[runs[r].queue[1]].tasks
  <2>1. UNCHANGED <<pubs, kept>> /\ Elsewhere /\ runs[r].pc = "tasks" /\ TasksOver(tasks)
    BY <1>8 DEF TasksEnd, Elsewhere
  <2>2. \/ EndRun(r, "failed")
        \/ /\ \A i \in DOMAIN tasks : runs[tasks[i].run].pc = "done"
           /\ runs' = [runs EXCEPT ![r].pc = "delegate"] /\ UNCHANGED chains
    BY <1>8 DEF TasksEnd
  <2>3. (\A i \in DOMAIN tasks : runs[tasks[i].run].pc = "done") => AllDone(runs[r].queue[1])
    BY <2>1 DEF TasksOver, AllDone
  <2> HIDE DEF tasks
  <2> QED
    BY <2>1, <2>2, <2>3, <1>2, <1>3, <1>4 DEF RunMoves
<1>9. ASSUME DelegateContinuation(r) PROVE Delegates(r)
  <2> DEFINE p == runs[r].queue[1]
  <2>1. /\ UNCHANGED <<chains, kept>> /\ Elsewhere /\ runs[r].pc = "delegate"
        /\ pubs' = [pubs EXCEPT ![p].delegated = TRUE]
        /\ runs' = [runs EXCEPT ![r].pc = "drain", ![r].queue = Tail(@)]
    BY <1>9 DEF DelegateContinuation, Elsewhere
  <2>2. runs[r].queue # <<>> /\ runs[r] \in RunSet
    BY <2>1, <1>1 DEF BaseOK, DrainsOK
  <2>3. p \in DOMAIN pubs
    <3>1. 1 \in DOMAIN runs[r].queue
      BY <2>2 DEF RunSet
    <3> QED
      BY <3>1 DEF BaseOK, SagaTypeOK, LinksOK
  <2>4. RunBecomes(r, "drain", runs[r].nested, Tail(runs[r].queue))
    BY <2>1, <2>2, <1>1, <1>2, RunBecomesFacts
  <2>5. PubBecomes(p, pubs[p].pc, TRUE, pubs[p].tasks)
    <3>1. <<>> \in Seq(TaskSet) /\ "ok" \in PubPc
      BY DEF PubPc
    <3> HIDE DEF p
    <3> QED
      BY <3>1, <2>1, <2>3, <1>1, PubBecomesFacts
  <2> QED
    BY <2>1, <2>2, <2>3, <2>4, <2>5 DEF Delegates
<1> QED
  BY <1>5, <1>6, <1>7, <1>8, <1>9

-----------------------------------------------------------------------------
(* Shutdown                                                                *)

\* A step of the shutdown: the services change, the work does not.
ShutdownSteps ==
  /\ UNCHANGED <<pubs, runs, callers>> /\ Forgets(chains)
  /\ BeginShutdown \/ DeadlinePasses \/ StopEvents \/ StopSagas

LEMMA ShutdownKind ==
  ASSUME SagaTypeOK, BeginShutdown \/ DeadlinePasses \/ StopEvents \/ StopSagas
  PROVE  ShutdownSteps
<1>1. chains \in [Saga -> Nat]
  BY DEF SagaTypeOK
<1>2. CASE BeginShutdown
  BY <1>2, NothingForgotten DEF BeginShutdown, ShutdownSteps
<1>3. CASE DeadlinePasses
  BY <1>3, NothingForgotten DEF DeadlinePasses, ShutdownSteps
<1>4. CASE StopEvents
  BY <1>1, <1>4 DEF StopEvents, ShutdownSteps, Forgets
<1>5. CASE StopSagas
  <2> DEFINE gone == Forgettable(pubs, eventState, "stopped")
  <2>1. kept' = kept \ gone /\ chains' = Cleared(chains, gone) /\ UNCHANGED <<pubs, runs, callers>>
    BY <1>5 DEF StopSagas
  <2> HIDE DEF gone
  <2> QED
    BY <2>1, <1>1, <1>5, ClearedFacts DEF ShutdownSteps, Forgets
<1> QED
  BY <1>2, <1>3, <1>4, <1>5

\* Every step is of one of these kinds.
SagaKinds ==
  \/ \E d \in BOOLEAN : AdmittedOutside(d)
  \/ \E r \in DOMAIN runs : AdmittedNested(r)
  \/ \E p \in DOMAIN pubs : PubMoves(p) \/ EntersPlainly(p) \/ EntersAgain(p)
  \/ \E r \in DOMAIN runs :
       \/ StartsTask(r) /\ runs[r].queue[1] \in DOMAIN pubs
       \/ RunMoves(r) \/ Delegates(r)
  \/ ShutdownSteps

LEMMA StepKinds ==
  ASSUME BaseOK, SagaNext
  PROVE  SagaKinds
<1>0. SagaTypeOK /\ Published \subseteq Topic /\ Dispatched \subseteq Topic
  BY SagaAssumption DEF BaseOK
<1>1. ASSUME NEW t \in Published, PublishFromOutside(t) PROVE SagaKinds
  BY <1>0, <1>1, AdmitFromOutside DEF SagaKinds
<1>2. ASSUME NEW t \in Dispatched, DispatchFromOutside(t) PROVE SagaKinds
  BY <1>0, <1>2, AdmitFromOutside DEF SagaKinds
<1>3. ASSUME NEW r \in DOMAIN runs, NEW t \in Topic, PublishFromSaga(r, t) PROVE SagaKinds
  BY <1>0, <1>3, AdmitFromSaga DEF SagaKinds
<1>4. ASSUME NEW p \in DOMAIN pubs, NEW t \in Topic, PublishFromSubscriber(p, t) PROVE SagaKinds
  BY <1>0, <1>4, AdmitFromOutside DEF SagaKinds
<1>5. ASSUME NEW r \in DOMAIN runs,
             HandleEnds(r) \/ HandleHangs(r) \/ TakeContinuation(r) \/ TasksEnd(r)
               \/ DelegateContinuation(r)
      PROVE  SagaKinds
  BY <1>5, RunKinds DEF SagaKinds
<1>6. ASSUME NEW r \in DOMAIN runs, StartTask(r) PROVE SagaKinds
  BY <1>6, StartTaskKind DEF SagaKinds
<1>7. ASSUME NEW p \in DOMAIN pubs, EnterSagas(p) \/ SagasEnd(p) \/ Delegate(p) PROVE SagaKinds
  BY <1>0, <1>7, EnterSagasKinds, SagasEndMoves, DelegateMoves DEF SagaKinds
<1>8. ASSUME BeginShutdown \/ DeadlinePasses \/ StopEvents \/ StopSagas PROVE SagaKinds
  BY <1>0, <1>8, ShutdownKind DEF SagaKinds
<1> QED
  BY <1>1, <1>2, <1>3, <1>4, <1>5, <1>6, <1>7, <1>8 DEF SagaNext, SagaProgress

-----------------------------------------------------------------------------
(* Types and contexts are kept                                             *)

\* Old publications and executions keep their contexts.
LEMMA OldContexts ==
  ASSUME BaseOK, PubsLast, RunsLast,
         DOMAIN pubs \subseteq DOMAIN pubs', DOMAIN runs \subseteq DOMAIN runs'
  PROVE  /\ \A p \in DOMAIN pubs : PubContextOK(p)'
         /\ \A r \in DOMAIN runs : RunContextOK(r)'
<1>0. DOMAIN pubs = 1 .. Len(pubs) /\ Len(pubs) \in Nat
  BY DEF BaseOK, SagaTypeOK
<1>1. ASSUME NEW p \in DOMAIN pubs PROVE PubContextOK(p)'
  <2> DEFINE ctx == pubs[p].ctx
  <2>1. pubs'[p].ctx = ctx /\ pubs'[p].direct = pubs[p].direct
    BY DEF PubsLast
  <2>2. PubContextOK(p)
    BY DEF BaseOK
  <2>3. ctx.scope # 0 =>
          /\ ctx.scope \in DOMAIN runs' /\ runs'[ctx.scope].owns
          /\ runs'[ctx.scope].ctx.root # 0 => ctx.root = runs'[ctx.scope].ctx.root
          /\ pubs'[ctx.root].ctx.scope = 0 => runs'[ctx.scope].ctx.root = ctx.root
    <3> SUFFICES ASSUME ctx.scope # 0 PROVE
          /\ ctx.scope \in DOMAIN runs' /\ runs'[ctx.scope].owns
          /\ runs'[ctx.scope].ctx.root # 0 => ctx.root = runs'[ctx.scope].ctx.root
          /\ pubs'[ctx.root].ctx.scope = 0 => runs'[ctx.scope].ctx.root = ctx.root
      OBVIOUS
    <3>1. ctx.root # 0 /\ ctx.root \in 0 .. p
      BY <2>2 DEF PubContextOK
    <3>2. ctx.root \in DOMAIN pubs
      BY <3>1, <1>0
    <3>3. pubs'[ctx.root].ctx = pubs[ctx.root].ctx
      BY <3>2 DEF PubsLast
    <3>4. ctx.scope \in DOMAIN runs
      BY <2>2 DEF PubContextOK
    <3>5. runs'[ctx.scope].owns = runs[ctx.scope].owns
          /\ runs'[ctx.scope].ctx = runs[ctx.scope].ctx
      BY <3>4 DEF RunsLast
    <3> QED
      BY <2>2, <3>3, <3>4, <3>5 DEF PubContextOK
  <2> QED
    BY <2>1, <2>2, <2>3 DEF PubContextOK
<1>2. ASSUME NEW r \in DOMAIN runs PROVE RunContextOK(r)'
  <2>1. runs[r].event \in DOMAIN pubs /\ RunContextOK(r)
    BY DEF BaseOK, SagaTypeOK, LinksOK
  <2>2. pubs'[runs[r].event].ctx = pubs[runs[r].event].ctx
    BY <2>1 DEF PubsLast
  <2>3. runs'[r].event = runs[r].event /\ runs'[r].ctx = runs[r].ctx /\ runs'[r].owns = runs[r].owns
    BY DEF RunsLast
  <2> QED
    BY <2>1, <2>2, <2>3 DEF RunContextOK
<1> QED
  BY <1>1, <1>2

\* What is not of publications and executions has its type.
LEMMA OtherTypes ==
  ASSUME SagaTypeOK, UNCHANGED stopVars, kept' \subseteq kept, callers' \in Nat
  PROVE  /\ {eventState', sagaState'} \subseteq {"ready", "stopping", "stopped"}
         /\ kept' \subseteq {"events", "sagas"} /\ callers' \in Nat
         /\ hook' \in {"none", "events", "sagas", "over"}
         /\ late' \in BOOLEAN /\ timedOut' \in BOOLEAN
  BY DEF SagaTypeOK, stopVars

LEMMA ForgottenChains ==
  ASSUME NEW n \in Nat, NEW ch \in [Saga -> 0 .. n], Forgets(ch)
  PROVE  chains' \in [Saga -> Nat] /\ \A s \in Saga : chains'[s] \in 0 .. n
<1>1. ASSUME NEW s \in Saga PROVE chains'[s] \in 0 .. n
  <2>1. ch[s] \in 0 .. n /\ chains'[s] \in {0, ch[s]}
    BY DEF Forgets
  <2> QED
    BY <2>1
<1> QED
  BY <1>1 DEF Forgets

LEMMA PubMovesBase ==
  ASSUME BaseOK, NEW p \in DOMAIN pubs, PubMoves(p)
  PROVE  BaseOK'
<1>0. /\ SagaTypeOK /\ LinksOK /\ UNCHANGED runs /\ Forgets(chains) /\ Elsewhere
      /\ Len(runs) \in Nat /\ Len(pubs) \in Nat
      /\ DOMAIN pubs = 1 .. Len(pubs)
  BY DEF BaseOK, SagaTypeOK, PubMoves
<1>1. PICK pc, d : PubBecomes(p, pc, d, pubs[p].tasks)
  BY DEF PubMoves
<1>2. /\ pubs' \in Seq(PubSet) /\ Len(pubs') = Len(pubs) /\ DOMAIN pubs' = DOMAIN pubs /\ PubsLast
      /\ \A o \in DOMAIN pubs : pubs'[o].tasks = pubs[o].tasks /\ pubs'[o].reaction = pubs[o].reaction
  BY <1>0, <1>1 DEF PubBecomes, PubsLast
<1>3. chains' \in [Saga -> Nat] /\ \A s \in Saga : chains'[s] \in 0 .. Len(runs)
  <2>1. chains \in [Saga -> 0 .. Len(runs)]
    BY <1>0 DEF SagaTypeOK, LinksOK
  <2> QED
    BY <2>1, <1>0, ForgottenChains
<1>4. LinksOK'
  BY <1>0, <1>2, <1>3 DEF LinksOK
<1>5. SagaTypeOK'
  <2>1. kept' \subseteq kept /\ callers' \in Nat /\ UNCHANGED stopVars
    BY <1>0 DEF Forgets, Elsewhere, SagaTypeOK
  <2>2. /\ {eventState', sagaState'} \subseteq {"ready", "stopping", "stopped"}
        /\ kept' \subseteq {"events", "sagas"} /\ callers' \in Nat
        /\ hook' \in {"none", "events", "sagas", "over"}
        /\ late' \in BOOLEAN /\ timedOut' \in BOOLEAN
    BY <1>0, <2>1, OtherTypes
  <2> QED
    BY <1>0, <1>2, <1>3, <1>4, <2>2 DEF SagaTypeOK
<1>6. RunsLast
  BY <1>0 DEF RunsLast
<1>7. \A r \in DOMAIN runs : DrainsOK(r)'
  BY <1>0 DEF BaseOK, DrainsOK
<1> QED
  BY <1>0, <1>2, <1>5, <1>6, <1>7, OldContexts DEF BaseOK

LEMMA ShutdownBase ==
  ASSUME BaseOK, ShutdownSteps
  PROVE  BaseOK'
<1>0. SagaTypeOK /\ LinksOK /\ UNCHANGED <<pubs, runs, callers>> /\ Forgets(chains) /\ Len(runs) \in Nat
  BY DEF BaseOK, SagaTypeOK, ShutdownSteps
<1>3. chains' \in [Saga -> Nat] /\ \A s \in Saga : chains'[s] \in 0 .. Len(runs)
  <2>1. chains \in [Saga -> 0 .. Len(runs)]
    BY <1>0 DEF SagaTypeOK, LinksOK
  <2> QED
    BY <2>1, <1>0, ForgottenChains
<1>4. LinksOK'
  BY <1>0, <1>3 DEF LinksOK
<1>5. /\ {eventState', sagaState'} \subseteq {"ready", "stopping", "stopped"}
      /\ kept' \subseteq {"events", "sagas"} /\ callers' \in Nat
      /\ hook' \in {"none", "events", "sagas", "over"}
      /\ late' \in BOOLEAN /\ timedOut' \in BOOLEAN
  <2>1. kept' \subseteq kept
    BY <1>0 DEF Forgets
  <2>2. timedOut' \in BOOLEAN
    BY <1>0 DEF ShutdownSteps, BeginShutdown, DeadlinePasses, StopEvents, StopSagas, SagaTypeOK
  <2> QED
    BY <1>0, <2>1, <2>2
       DEF ShutdownSteps, BeginShutdown, DeadlinePasses, StopEvents, StopSagas, SagaTypeOK
<1>6. SagaTypeOK'
  BY <1>0, <1>3, <1>4, <1>5 DEF SagaTypeOK
<1>7. PubsLast /\ RunsLast
  BY <1>0 DEF PubsLast, RunsLast
<1>8. \A r \in DOMAIN runs : DrainsOK(r)'
  BY <1>0 DEF BaseOK, DrainsOK
<1> QED
  BY <1>0, <1>6, <1>7, <1>8, OldContexts DEF BaseOK

\* What an execution that ends leaves in the chain of its token.
LEMMA UnlinkedFacts ==
  ASSUME SagaTypeOK, NEW r \in DOMAIN runs
  PROVE  /\ runs[r].route.token \in Saga
         /\ Unlinked(r) \in [Saga -> 0 .. Len(runs)]
         /\ \A s \in Saga :
              Unlinked(r)[s] = IF s = runs[r].route.token /\ chains[s] = r THEN 0 ELSE chains[s]
<1>1. runs[r].route.token \in Saga
  <2>1. runs[r] \in RunSet
    BY DEF SagaTypeOK
  <2> QED
    BY <2>1 DEF RunSet, Route
<1>2. chains \in [Saga -> 0 .. Len(runs)] /\ 0 \in 0 .. Len(runs)
  BY DEF SagaTypeOK, LinksOK
<1> QED
  BY <1>1, <1>2 DEF Unlinked

\* An execution that moves on.
LEMMA RunMovesFields ==
  ASSUME BaseOK, NEW r \in DOMAIN runs, RunMoves(r)
  PROVE  \E pc \in RunPc, queue \in {<<>>, runs[r].queue} :
           /\ RunBecomes(r, pc, runs[r].nested, queue)
           /\ pc \notin {"queued", "nested"}
           /\ pc = "hung" \/ runs[r].pc \in {"queued", "nested"} => Running(r)
           /\ pc = "delegate" => runs[r].pc = "tasks" /\ AllDone(runs[r].queue[1])
           /\ pc = "done" => ~runs[r].owns \/ (runs[r].pc = "drain" /\ runs[r].queue = <<>>)
           /\ pc \in {"tasks", "delegate"} => queue # <<>>
           /\ pc \in {"drain", "tasks", "delegate"} => runs[r].owns
           /\ \/ UNCHANGED chains
              \/ pc \in {"done", "failed"} /\ chains' = Unlinked(r)
           /\ pc \in {"done", "failed"} => queue = <<>>
           /\ queue = runs[r].queue \/ pc \in {"done", "failed"}
<1> DEFINE Fields(pc, queue) ==
      /\ RunBecomes(r, pc, runs[r].nested, queue)
      /\ pc \notin {"queued", "nested"}
      /\ pc = "hung" \/ runs[r].pc \in {"queued", "nested"} => Running(r)
      /\ pc = "delegate" => runs[r].pc = "tasks" /\ AllDone(runs[r].queue[1])
      /\ pc = "done" => ~runs[r].owns \/ (runs[r].pc = "drain" /\ runs[r].queue = <<>>)
      /\ pc \in {"tasks", "delegate"} => queue # <<>>
      /\ pc \in {"drain", "tasks", "delegate"} => runs[r].owns
      /\ \/ UNCHANGED chains
         \/ pc \in {"done", "failed"} /\ chains' = Unlinked(r)
      /\ pc \in {"done", "failed"} => queue = <<>>
      /\ queue = runs[r].queue \/ pc \in {"done", "failed"}
<1>1. DrainsOK(r)
  BY DEF BaseOK
<1>6. runs[r].pc \in {"queued", "nested"} => Running(r)
  BY DEF RunMoves
<1>2. ASSUME NEW pc \in {"done", "failed"}, EndsRun(r, pc),
             pc = "done" => ~runs[r].owns \/ (runs[r].pc = "drain" /\ runs[r].queue = <<>>)
      PROVE  \E c \in RunPc, queue \in {<<>>, runs[r].queue} : Fields(c, queue)
  <2>0. RunBecomes(r, pc, runs[r].nested, <<>>) /\ chains' = Unlinked(r)
    BY <1>2 DEF EndsRun
  <2>1. Fields(pc, <<>>)
    BY <2>0, <1>2, <1>6
  <2>2. pc \in RunPc
    BY DEF RunPc
  <2> QED
    BY <2>1, <2>2
<1>3. ASSUME NEW pc \in {"drain", "hung", "tasks", "delegate"}, GoesOn(r, pc),
             pc \in {"tasks", "delegate"} => runs[r].queue # <<>>,
             pc # "hung" => runs[r].owns,
             pc = "hung" => Running(r),
             pc = "delegate" => runs[r].pc = "tasks" /\ AllDone(runs[r].queue[1])
      PROVE  \E c \in RunPc, queue \in {<<>>, runs[r].queue} : Fields(c, queue)
  <2>1. Fields(pc, runs[r].queue)
    BY <1>3, <1>6 DEF GoesOn
  <2>2. pc \in RunPc
    BY DEF RunPc
  <2> QED
    BY <2>1, <2>2
<1>4. \/ \E pc \in {"done", "failed"} :
           /\ EndsRun(r, pc)
           /\ pc = "done" => ~runs[r].owns \/ (runs[r].pc = "drain" /\ runs[r].queue = <<>>)
      \/ \E pc \in {"drain", "hung", "tasks", "delegate"} :
           /\ GoesOn(r, pc)
           /\ pc \in {"tasks", "delegate"} => runs[r].queue # <<>>
           /\ pc # "hung" => runs[r].owns
           /\ pc = "hung" => Running(r)
           /\ pc = "delegate" => runs[r].pc = "tasks" /\ AllDone(runs[r].queue[1])
  BY <1>1 DEF RunMoves, DrainsOK
<1> HIDE DEF Fields
<1>5. \E c \in RunPc, queue \in {<<>>, runs[r].queue} : Fields(c, queue)
  BY <1>2, <1>3, <1>4
<1> QED
  BY <1>5 DEF Fields

LEMMA RunMovesBase ==
  ASSUME BaseOK, NEW r \in DOMAIN runs, RunMoves(r)
  PROVE  BaseOK'
<1>0. /\ SagaTypeOK /\ LinksOK /\ UNCHANGED <<pubs, kept>> /\ Elsewhere
      /\ Len(runs) \in Nat /\ DOMAIN runs = 1 .. Len(runs)
  BY DEF BaseOK, SagaTypeOK, RunMoves
<1>1. PICK pc \in RunPc, queue \in {<<>>, runs[r].queue} :
        /\ RunBecomes(r, pc, runs[r].nested, queue)
        /\ pc \in {"tasks", "delegate"} => queue # <<>>
        /\ pc \in {"drain", "tasks", "delegate"} => runs[r].owns
        /\ UNCHANGED chains \/ chains' = Unlinked(r)
  BY RunMovesFields
<1>2. /\ runs' \in Seq(RunSet) /\ Len(runs') = Len(runs) /\ DOMAIN runs' = DOMAIN runs /\ RunsLast
      /\ \A u \in DOMAIN runs : u # r => runs'[u] = runs[u]
      /\ runs'[r].pc = pc /\ runs'[r].nested = runs[r].nested /\ runs'[r].queue = queue
  BY <1>0, <1>1 DEF RunBecomes
<1>3. chains' \in [Saga -> Nat] /\ \A s \in Saga : chains'[s] \in 0 .. Len(runs)
  <2>1. Unlinked(r) \in [Saga -> 0 .. Len(runs)]
    BY <1>0, UnlinkedFacts
  <2>2. chains \in [Saga -> 0 .. Len(runs)]
    BY <1>0 DEF SagaTypeOK, LinksOK
  <2>3. chains' \in [Saga -> 0 .. Len(runs)]
    BY <1>1, <2>1, <2>2
  <2>4. (0 .. Len(runs)) \subseteq Nat
    BY <1>0
  <2> QED
    BY <2>3, <2>4
<1>4. LinksOK'
  <2>1. ASSUME NEW u \in DOMAIN runs
        PROVE  /\ runs'[u].event \in DOMAIN pubs /\ runs'[u].prev \in 0 .. u - 1
               /\ runs'[u].nested \in 0 .. Len(pubs)
               /\ \A i \in DOMAIN runs'[u].queue : runs'[u].queue[i] \in DOMAIN pubs
    <3>1. /\ runs[u].event \in DOMAIN pubs /\ runs[u].prev \in 0 .. u - 1
          /\ runs[u].nested \in 0 .. Len(pubs)
          /\ \A i \in DOMAIN runs[u].queue : runs[u].queue[i] \in DOMAIN pubs
      BY <1>0 DEF LinksOK
    <3>2. runs'[u].event = runs[u].event /\ runs'[u].prev = runs[u].prev
      BY <1>2 DEF RunsLast
    <3>3. runs'[u].nested = runs[u].nested
      BY <1>2
    <3>4. runs'[u].queue = runs[u].queue \/ runs'[u].queue = <<>>
      BY <1>2
    <3>5. DOMAIN <<>> = {}
      OBVIOUS
    <3> QED
      BY <3>1, <3>2, <3>3, <3>4, <3>5
  <2> QED
    BY <1>0, <1>2, <1>3, <2>1 DEF LinksOK
<1>5. SagaTypeOK'
  <2>1. kept' \subseteq kept /\ callers' \in Nat /\ UNCHANGED stopVars
    BY <1>0 DEF Elsewhere, SagaTypeOK
  <2>2. /\ {eventState', sagaState'} \subseteq {"ready", "stopping", "stopped"}
        /\ kept' \subseteq {"events", "sagas"} /\ callers' \in Nat
        /\ hook' \in {"none", "events", "sagas", "over"}
        /\ late' \in BOOLEAN /\ timedOut' \in BOOLEAN
    BY <1>0, <2>1, OtherTypes
  <2> QED
    BY <1>0, <1>2, <1>3, <1>4, <2>2 DEF SagaTypeOK
<1>6. PubsLast
  BY <1>0 DEF PubsLast
<1>7. ASSUME NEW u \in DOMAIN runs PROVE DrainsOK(u)'
  <2>1. runs'[u].owns = runs[u].owns
    BY <1>2 DEF RunsLast
  <2> QED
    BY <1>1, <1>2, <2>1 DEF BaseOK, DrainsOK
<1> QED
  BY <1>0, <1>2, <1>5, <1>6, <1>7, OldContexts DEF BaseOK

LEMMA DelegatesBase ==
  ASSUME BaseOK, NEW r \in DOMAIN runs, Delegates(r)
  PROVE  BaseOK'
<1> DEFINE p == runs[r].queue[1]
<1> DEFINE tail == Tail(runs[r].queue)
<1>0. /\ SagaTypeOK /\ LinksOK /\ UNCHANGED <<chains, kept>> /\ Elsewhere
      /\ Len(runs) \in Nat /\ DOMAIN runs = 1 .. Len(runs)
      /\ Len(pubs) \in Nat /\ DOMAIN pubs = 1 .. Len(pubs)
      /\ p \in DOMAIN pubs /\ runs[r].queue # <<>> /\ runs[r].pc = "delegate"
  BY DEF BaseOK, SagaTypeOK, Delegates
<1>1. /\ PubBecomes(p, pubs[p].pc, TRUE, pubs[p].tasks)
      /\ RunBecomes(r, "drain", runs[r].nested, tail)
  BY DEF Delegates
<1>2. \A i \in DOMAIN tail : tail[i] \in DOMAIN pubs
  <2>1. runs[r] \in RunSet
    BY <1>0 DEF SagaTypeOK
  <2>2. runs[r].queue \in Seq(Nat)
    BY <2>1 DEF RunSet
  <2>3. \A i \in DOMAIN tail : i + 1 \in DOMAIN runs[r].queue /\ tail[i] = runs[r].queue[i + 1]
    BY <2>2, <1>0
  <2>4. \A i \in DOMAIN runs[r].queue : runs[r].queue[i] \in DOMAIN pubs
    BY <1>0 DEF LinksOK
  <2> QED
    BY <2>3, <2>4
<1> HIDE DEF p, tail
<1>3. /\ runs' \in Seq(RunSet) /\ Len(runs') = Len(runs) /\ DOMAIN runs' = DOMAIN runs /\ RunsLast
      /\ \A u \in DOMAIN runs : u # r => runs'[u] = runs[u]
      /\ runs'[r].pc = "drain" /\ runs'[r].nested = runs[r].nested /\ runs'[r].queue = tail
  BY <1>0, <1>1 DEF RunBecomes
<1>4. /\ pubs' \in Seq(PubSet) /\ Len(pubs') = Len(pubs) /\ DOMAIN pubs' = DOMAIN pubs /\ PubsLast
      /\ \A o \in DOMAIN pubs : pubs'[o].tasks = pubs[o].tasks /\ pubs'[o].reaction = pubs[o].reaction
  BY <1>0, <1>1 DEF PubBecomes, PubsLast
<1>5. LinksOK'
  <2>1. ASSUME NEW u \in DOMAIN runs
        PROVE  /\ runs'[u].event \in DOMAIN pubs /\ runs'[u].prev \in 0 .. u - 1
               /\ runs'[u].nested \in 0 .. Len(pubs)
               /\ \A i \in DOMAIN runs'[u].queue : runs'[u].queue[i] \in DOMAIN pubs
    <3>1. runs'[u].event = runs[u].event /\ runs'[u].prev = runs[u].prev
          /\ runs'[u].nested = runs[u].nested
      BY <1>3 DEF RunsLast
    <3>2. runs'[u].queue = runs[u].queue \/ runs'[u].queue = tail
      BY <1>3
    <3> QED
      BY <1>0, <1>2, <3>1, <3>2 DEF LinksOK
  <2> QED
    BY <1>0, <1>3, <1>4, <2>1 DEF LinksOK
<1>6. SagaTypeOK'
  <2>1. kept' \subseteq kept /\ callers' \in Nat /\ UNCHANGED stopVars
    BY <1>0 DEF Elsewhere, SagaTypeOK
  <2>2. /\ {eventState', sagaState'} \subseteq {"ready", "stopping", "stopped"}
        /\ kept' \subseteq {"events", "sagas"} /\ callers' \in Nat
        /\ hook' \in {"none", "events", "sagas", "over"}
        /\ late' \in BOOLEAN /\ timedOut' \in BOOLEAN
    BY <1>0, <2>1, OtherTypes
  <2> QED
    BY <1>0, <1>3, <1>4, <1>5, <2>2 DEF SagaTypeOK
<1>7. ASSUME NEW u \in DOMAIN runs PROVE DrainsOK(u)'
  <2>1. runs'[u].owns = runs[u].owns
    BY <1>3 DEF RunsLast
  <2> QED
    BY <1>0, <1>3, <2>1 DEF BaseOK, DrainsOK
<1> QED
  BY <1>3, <1>4, <1>6, <1>7, OldContexts DEF BaseOK

\* Where the context of an execution leads: its scope is owned, and below its
\* root.
LEMMA ScopeFacts ==
  ASSUME BaseOK, NEW r \in DOMAIN runs
  PROVE  LET s == runs[r].ctx.scope
         IN  /\ s \in DOMAIN runs /\ s # 0 /\ runs[s].owns /\ runs[s].ctx.scope = s
             /\ runs[r].owns <=> s = r
             /\ runs[s].ctx.root # 0 => runs[r].ctx.root = runs[s].ctx.root
             /\ runs[r].ctx.root \in 0 .. Len(pubs)
             /\ runs[r].ctx.root # 0 /\ pubs[runs[r].ctx.root].ctx.scope = 0
                  => runs[s].ctx.root = runs[r].ctx.root
<1> DEFINE e == runs[r].event
<1> DEFINE s == runs[r].ctx.scope
<1>0. /\ e \in DOMAIN pubs /\ RunContextOK(r) /\ PubContextOK(e)
      /\ Len(runs) \in Nat /\ DOMAIN runs = 1 .. Len(runs)
      /\ Len(pubs) \in Nat /\ DOMAIN pubs = 1 .. Len(pubs)
  BY DEF BaseOK, SagaTypeOK, LinksOK
<1>3. runs[r].ctx.root \in 0 .. Len(pubs)
  <2>1. runs[r].ctx.root = pubs[e].ctx.root
    BY <1>0 DEF RunContextOK
  <2>2. pubs[e].ctx.root \in 0 .. e
    BY <1>0 DEF PubContextOK
  <2> HIDE DEF e
  <2> QED
    BY <1>0, <2>1, <2>2
<1>1. CASE pubs[e].ctx.scope = 0
  <2>1. s = r /\ runs[r].owns
    BY <1>0, <1>1 DEF RunContextOK
  <2>2. r # 0 /\ runs[r].ctx.root \in 0 .. Len(pubs)
    BY <1>0, <1>3
  <2> QED
    BY <2>1, <2>2
<1>2. CASE pubs[e].ctx.scope # 0
  <2>1. s = pubs[e].ctx.scope /\ s \in DOMAIN runs /\ runs[s].owns /\ ~runs[r].owns
    BY <1>0, <1>2 DEF RunContextOK, PubContextOK
  <2>2. RunContextOK(s)
    BY <2>1 DEF BaseOK
  <2>3. runs[s].ctx.scope = s
    BY <2>1, <2>2 DEF RunContextOK
  <2>4. s # r /\ s # 0
    BY <2>1, <1>0
  <2>5. runs[r].ctx.root = pubs[e].ctx.root
    BY <1>0 DEF RunContextOK
  <2>7. /\ runs[s].ctx.root # 0 => runs[r].ctx.root = runs[s].ctx.root
        /\ pubs[runs[r].ctx.root].ctx.scope = 0 => runs[s].ctx.root = runs[r].ctx.root
    BY <1>0, <1>2, <2>1, <2>5 DEF PubContextOK
  <2> QED
    BY <2>1, <2>3, <2>4, <1>3, <2>7
<1> QED
  BY <1>1, <1>2

LEMMA NestedContext ==
  ASSUME BaseOK, NEW r \in DOMAIN runs, AdmittedNested(r), NEW n, n = NextPub
  PROVE  PubContextOK(n)'
<1> DEFINE s == runs[r].ctx.scope
<1> DEFINE root == runs[r].ctx.root
<1>0. /\ n \in Nat /\ Len(pubs) \in Nat /\ n = Len(pubs) + 1 /\ DOMAIN pubs = 1 .. Len(pubs)
      /\ DOMAIN runs = 1 .. Len(runs)
  BY DEF BaseOK, SagaTypeOK, NextPub
<1>1. /\ pubs'[n].direct = FALSE /\ pubs'[n].ctx = PublishContext(runs[r].ctx)
      /\ \A o \in DOMAIN pubs : pubs'[o].ctx = pubs[o].ctx
  BY DEF AdmittedNested, Admitted
<1>2. Len(runs') = Len(runs) /\ DOMAIN runs' = DOMAIN runs /\ RunsLast
  BY <1>0 DEF AdmittedNested, RunBecomes
<1>3. runs[r].ctx \in Context
  <2>1. runs[r] \in RunSet
    BY DEF BaseOK, SagaTypeOK
  <2> QED
    BY <2>1 DEF RunSet
<1>4. pubs'[n].ctx.scope = s /\ pubs'[n].ctx.root = IF root = 0 THEN n ELSE root
  BY <1>1, <1>3 DEF PublishContext, Context
<1>5. /\ s \in DOMAIN runs /\ s # 0 /\ runs[s].owns
      /\ runs[s].ctx.root # 0 => root = runs[s].ctx.root
      /\ root \in 0 .. Len(pubs)
      /\ root # 0 /\ pubs[root].ctx.scope = 0 => runs[s].ctx.root = root
  BY ScopeFacts
<1>6. runs'[s].owns /\ runs'[s].ctx.root = runs[s].ctx.root /\ s \in DOMAIN runs'
  BY <1>2, <1>5 DEF RunsLast
<1> HIDE DEF s, root
<1>8. pubs'[n].ctx.root # 0 /\ pubs'[n].ctx.root \in 0 .. n
  BY <1>0, <1>4, <1>5
<1>9. ASSUME pubs'[pubs'[n].ctx.root].ctx.scope = 0
      PROVE  runs'[s].ctx.root = pubs'[n].ctx.root
  <2>1. CASE root = 0
    BY <1>4, <1>5, <1>9, <2>1
  <2>2. CASE root # 0
    <3>1. root \in DOMAIN pubs
      BY <1>0, <1>5, <2>2
    <3> QED
      BY <1>1, <1>4, <1>5, <1>6, <1>9, <2>2, <3>1
  <2> QED
    BY <2>1, <2>2
<1>10. runs'[s].ctx.root # 0 => pubs'[n].ctx.root = runs'[s].ctx.root
  BY <1>4, <1>5, <1>6
<1>11. /\ ~pubs'[n].direct /\ pubs'[n].ctx.root # 0 /\ pubs'[n].ctx.root \in 0 .. n
       /\ pubs'[n].ctx.scope # 0 /\ pubs'[n].ctx.scope \in DOMAIN runs'
       /\ runs'[pubs'[n].ctx.scope].owns
       /\ runs'[pubs'[n].ctx.scope].ctx.root # 0
            => pubs'[n].ctx.root = runs'[pubs'[n].ctx.scope].ctx.root
       /\ pubs'[pubs'[n].ctx.root].ctx.scope = 0
            => runs'[pubs'[n].ctx.scope].ctx.root = pubs'[n].ctx.root
  BY <1>1, <1>4, <1>5, <1>6, <1>8, <1>9, <1>10
<1> QED
  BY <1>11 DEF PubContextOK

LEMMA AdmittedBase ==
  ASSUME BaseOK, NEW d \in BOOLEAN, NEW ctx, Admitted(d, ctx), callers' \in Nat,
         \A n : n = NextPub => PubContextOK(n)',
         runs' \in Seq(RunSet), Len(runs') = Len(runs), RunsLast,
         \A u \in DOMAIN runs : /\ runs'[u].nested \in 0 .. Len(pubs) + 1
                                /\ runs'[u].queue = runs[u].queue
                                /\ runs'[u].pc \in {runs[u].pc, "nested"}
  PROVE  BaseOK'
<1>0. /\ SagaTypeOK /\ LinksOK /\ UNCHANGED <<chains, kept>> /\ UNCHANGED stopVars
      /\ Len(runs) \in Nat /\ DOMAIN runs = 1 .. Len(runs) /\ DOMAIN runs' = DOMAIN runs
      /\ Len(pubs) \in Nat /\ DOMAIN pubs = 1 .. Len(pubs) /\ NextPub = Len(pubs) + 1
  BY DEF BaseOK, SagaTypeOK, Admitted, NextPub
<1>1. /\ pubs' \in Seq(PubSet) /\ Len(pubs') = Len(pubs) + 1
      /\ DOMAIN pubs' = 1 .. Len(pubs) + 1 /\ DOMAIN pubs \subseteq DOMAIN pubs'
      /\ PubsLast
      /\ \A o \in DOMAIN pubs : /\ pubs'[o].tasks = pubs[o].tasks
                                /\ pubs'[o].reaction \in 0 .. Len(pubs) + 1
      /\ pubs'[NextPub].tasks = <<>> /\ pubs'[NextPub].reaction = 0
  BY <1>0 DEF Admitted, PubsLast
<1>2. LinksOK'
  <2>1. ASSUME NEW o \in DOMAIN pubs'
        PROVE  /\ pubs'[o].reaction \in 0 .. Len(pubs')
               /\ \A i \in DOMAIN pubs'[o].tasks : pubs'[o].tasks[i].run \in 0 .. Len(runs')
    <3>1. CASE o \in DOMAIN pubs
      BY <1>0, <1>1, <3>1 DEF LinksOK
    <3>2. CASE o = NextPub
      <4>1. DOMAIN pubs'[o].tasks = {}
        BY <1>1, <3>2
      <4> QED
        BY <1>0, <1>1, <3>2, <4>1
    <3> QED
      BY <1>0, <1>1, <3>1, <3>2
  <2>2. ASSUME NEW u \in DOMAIN runs'
        PROVE  /\ runs'[u].event \in DOMAIN pubs' /\ runs'[u].prev \in 0 .. u - 1
               /\ runs'[u].nested \in 0 .. Len(pubs')
               /\ \A i \in DOMAIN runs'[u].queue : runs'[u].queue[i] \in DOMAIN pubs'
    BY <1>0, <1>1 DEF LinksOK, RunsLast
  <2> QED
    BY <1>0, <2>1, <2>2 DEF LinksOK
<1>3. SagaTypeOK'
  <2>1. /\ {eventState', sagaState'} \subseteq {"ready", "stopping", "stopped"}
        /\ kept' \subseteq {"events", "sagas"} /\ callers' \in Nat
        /\ hook' \in {"none", "events", "sagas", "over"}
        /\ late' \in BOOLEAN /\ timedOut' \in BOOLEAN
    BY <1>0, OtherTypes
  <2> QED
    BY <1>0, <1>1, <1>2, <2>1 DEF SagaTypeOK
<1>4. /\ \A p \in DOMAIN pubs : PubContextOK(p)'
      /\ \A r \in DOMAIN runs : RunContextOK(r)'
  BY <1>0, <1>1, OldContexts
<1>5. ASSUME NEW u \in DOMAIN runs PROVE DrainsOK(u)'
  BY <1>0 DEF BaseOK, DrainsOK, RunsLast
<1>6. ASSUME NEW o \in DOMAIN pubs' PROVE PubContextOK(o)'
  <2>1. o \in DOMAIN pubs \/ o = NextPub
    BY <1>0, <1>1
  <2> QED
    BY <2>1, <1>4
<1> QED
  BY <1>0, <1>3, <1>4, <1>5, <1>6 DEF BaseOK

LEMMA OutsideBase ==
  ASSUME BaseOK, NEW d \in BOOLEAN, AdmittedOutside(d)
  PROVE  BaseOK'
<1>0. SagaTypeOK /\ LinksOK /\ UNCHANGED runs /\ Len(pubs) \in Nat /\ runs \in Seq(RunSet)
  BY DEF BaseOK, SagaTypeOK, AdmittedOutside
<1>1. ASSUME NEW n, n = NextPub PROVE PubContextOK(n)'
  <2>1. pubs'[n].direct = d /\ pubs'[n].ctx = RootContext(d)
    BY <1>1 DEF AdmittedOutside, Admitted
  <2>2. /\ pubs'[n].ctx.scope = 0 /\ pubs'[n].ctx.routes = <<>>
        /\ pubs'[n].ctx.root = IF d THEN 0 ELSE n
    BY <1>1, <2>1 DEF RootContext
  <2>3. n # 0 /\ 0 \in 0 .. n /\ n \in 0 .. n
    BY <1>0, <1>1 DEF NextPub
  <2> QED
    BY <2>1, <2>2, <2>3 DEF PubContextOK
<1>2. \A u \in DOMAIN runs : runs[u].nested \in 0 .. Len(pubs) + 1
  <2>1. \A u \in DOMAIN runs : runs[u].nested \in 0 .. Len(pubs)
    BY <1>0 DEF LinksOK
  <2> QED
    BY <1>0, <2>1
<1> QED
  BY <1>0, <1>1, <1>2, AdmittedBase DEF AdmittedOutside, RunsLast

LEMMA NestedBase ==
  ASSUME BaseOK, NEW r \in DOMAIN runs, AdmittedNested(r)
  PROVE  BaseOK'
<1>0. /\ SagaTypeOK /\ LinksOK /\ Len(pubs) \in Nat /\ callers' \in Nat
      /\ Admitted(FALSE, PublishContext(runs[r].ctx))
  <2>1. SagaTypeOK /\ LinksOK /\ Len(pubs) \in Nat /\ callers \in Nat
    BY DEF BaseOK, SagaTypeOK
  <2>2. Admitted(FALSE, PublishContext(runs[r].ctx)) /\ callers' = callers
    BY DEF AdmittedNested
  <2> QED
    BY <2>1, <2>2
<1>1. /\ runs' \in Seq(RunSet) /\ Len(runs') = Len(runs) /\ RunsLast
      /\ \A u \in DOMAIN runs : u # r => runs'[u] = runs[u]
      /\ runs'[r].pc = "nested" /\ runs'[r].nested = NextPub /\ runs'[r].queue = runs[r].queue
  BY DEF AdmittedNested, RunBecomes
<1>2. \A u \in DOMAIN runs : /\ runs'[u].nested \in 0 .. Len(pubs) + 1
                             /\ runs'[u].queue = runs[u].queue
                             /\ runs'[u].pc \in {runs[u].pc, "nested"}
  <2>1. \A u \in DOMAIN runs : runs[u].nested \in 0 .. Len(pubs)
    BY <1>0 DEF LinksOK
  <2> QED
    BY <1>0, <1>1, <2>1 DEF NextPub
<1> QED
  BY <1>0, <1>1, <1>2, NestedContext, AdmittedBase

\* Scheduling keeps types and contexts, whatever it does to one queue.
LEMMA SchedulesBase ==
  ASSUME BaseOK, NEW p \in DOMAIN pubs, NEW tasks, NEW q, NEW pc,
         SchedulesTasks(p, tasks, q, pc),
         \A r \in DOMAIN runs : runs'[r].queue \in {runs[r].queue, Append(runs[r].queue, p)}
  PROVE  BaseOK'
<1>0. /\ SagaTypeOK /\ LinksOK /\ Elsewhere
      /\ Len(runs) \in Nat /\ DOMAIN runs = 1 .. Len(runs)
      /\ Len(pubs) \in Nat /\ DOMAIN pubs = 1 .. Len(pubs)
      /\ \A r \in DOMAIN runs : runs[r].queue \in Seq(Nat)
  <2>1. \A r \in DOMAIN runs : runs[r] \in RunSet
    BY DEF BaseOK, SagaTypeOK
  <2> QED
    BY <2>1 DEF BaseOK, SagaTypeOK, SchedulesTasks, RunSet
<1>1. /\ tasks \in Seq(TaskSet) /\ \A i \in DOMAIN tasks : tasks[i].run \in 0 .. Len(runs)
      /\ Picks(q, tasks) /\ Len(q) \in Nat
      /\ runs' \in Seq(RunSet) /\ Len(runs') = Len(runs) + Len(q) /\ RunsLast
      /\ \A r \in DOMAIN runs : runs'[r].pc = runs[r].pc /\ runs'[r].nested = runs[r].nested
      /\ \A k \in 1 .. Len(q) : runs'[Len(runs) + k] = Execution(p, tasks, q, k)
      /\ Forgets(Chained(tasks, q))
      /\ PubBecomes(p, pc, pubs[p].delegated, Numbered(tasks, q))
  <2>1. Picks(q, tasks)
    BY DEF SchedulesTasks
  <2>2. Len(q) \in Nat
    BY <2>1 DEF Picks
  <2> QED
    BY <2>1, <2>2 DEF SchedulesTasks
<1>2. /\ pubs' \in Seq(PubSet) /\ Len(pubs') = Len(pubs) /\ DOMAIN pubs' = DOMAIN pubs /\ PubsLast
      /\ \A o \in DOMAIN pubs : pubs'[o].reaction = pubs[o].reaction
      /\ \A o \in DOMAIN pubs : o # p => pubs'[o] = pubs[o]
      /\ pubs'[p].tasks = Numbered(tasks, q)
  BY <1>0, <1>1 DEF PubBecomes, PubsLast
<1>3. DOMAIN runs' = 1 .. Len(runs) + Len(q) /\ DOMAIN runs \subseteq DOMAIN runs'
  BY <1>0, <1>1
<1>4. \A r \in DOMAIN runs' : r \in DOMAIN runs \/ \E k \in 1 .. Len(q) : r = Len(runs) + k
  <2>1. ASSUME NEW r \in DOMAIN runs', r \notin DOMAIN runs
        PROVE  r - Len(runs) \in 1 .. Len(q) /\ r = Len(runs) + (r - Len(runs))
    BY <1>0, <1>1, <1>3, <2>1
  <2> QED
    BY <2>1
<1>5. ASSUME NEW k \in 1 .. Len(q), NEW u, u = Len(runs) + k
      PROVE  /\ runs'[u].event = p /\ runs'[u].prev \in 0 .. u - 1
             /\ runs'[u].nested = 0 /\ runs'[u].queue = <<>> /\ runs'[u].pc = "queued"
             /\ runs'[u].owns = (pubs[p].ctx.scope = 0)
             /\ runs'[u].ctx.root = pubs[p].ctx.root
             /\ runs'[u].ctx.scope = IF pubs[p].ctx.scope = 0 THEN u ELSE pubs[p].ctx.scope
  <2>1. runs'[u] = Execution(p, tasks, q, k)
    BY <1>1, <1>5
  <2>2. Execution(p, tasks, q, k).prev \in 0 .. Len(runs) + k - 1
    BY <1>0, <1>1, ExecutionFacts
  <2> QED
    BY <2>1, <2>2, <1>5 DEF Execution
<1>6. LinksOK'
  <2>1. ASSUME NEW o \in DOMAIN pubs
        PROVE  /\ pubs'[o].reaction \in 0 .. Len(pubs)
               /\ \A i \in DOMAIN pubs'[o].tasks : pubs'[o].tasks[i].run \in 0 .. Len(runs) + Len(q)
    <3>1. CASE o # p
      <4>1. \A i \in DOMAIN pubs[o].tasks : pubs[o].tasks[i].run \in 0 .. Len(runs)
        BY <1>0 DEF LinksOK
      <4>2. (0 .. Len(runs)) \subseteq 0 .. Len(runs) + Len(q)
        BY <1>0, <1>1
      <4> QED
        BY <1>0, <1>2, <3>1, <4>1, <4>2 DEF LinksOK
    <3>2. CASE o = p
      <4>1. /\ Numbered(tasks, q) \in Seq(TaskSet) /\ Len(Numbered(tasks, q)) = Len(tasks)
            /\ \A i \in DOMAIN tasks : Numbered(tasks, q)[i].run \in 0 .. Len(runs) + Len(q)
        BY <1>0, <1>1, ScheduleFacts
      <4>2. DOMAIN Numbered(tasks, q) = DOMAIN tasks
        BY <4>1, <1>1
      <4> QED
        BY <1>0, <1>2, <3>2, <4>1, <4>2 DEF LinksOK
    <3> QED
      BY <3>1, <3>2
  <2>2. ASSUME NEW u \in DOMAIN runs'
        PROVE  /\ runs'[u].event \in DOMAIN pubs /\ runs'[u].prev \in 0 .. u - 1
               /\ runs'[u].nested \in 0 .. Len(pubs)
               /\ \A i \in DOMAIN runs'[u].queue : runs'[u].queue[i] \in DOMAIN pubs
    <3>1. CASE u \in DOMAIN runs
      <4>1. /\ runs[u].event \in DOMAIN pubs /\ runs[u].prev \in 0 .. u - 1
            /\ runs[u].nested \in 0 .. Len(pubs)
            /\ \A i \in DOMAIN runs[u].queue : runs[u].queue[i] \in DOMAIN pubs
        BY <1>0, <3>1 DEF LinksOK
      <4>2. runs'[u].event = runs[u].event /\ runs'[u].prev = runs[u].prev
            /\ runs'[u].nested = runs[u].nested
        BY <1>1, <3>1 DEF RunsLast
      <4>3. \A i \in DOMAIN runs'[u].queue : runs'[u].queue[i] \in DOMAIN pubs
        <5>1. CASE runs'[u].queue = runs[u].queue
          BY <4>1, <5>1
        <5>2. CASE runs'[u].queue = Append(runs[u].queue, p)
          <6>1. \A i \in DOMAIN Append(runs[u].queue, p) :
                  Append(runs[u].queue, p)[i] = p
                    \/ (i \in DOMAIN runs[u].queue /\ Append(runs[u].queue, p)[i] = runs[u].queue[i])
            BY <1>0, <3>1
          <6> QED
            BY <4>1, <5>2, <6>1
        <5> QED
          BY <3>1, <5>1, <5>2
      <4> QED
        BY <4>1, <4>2, <4>3
    <3>2. CASE \E k \in 1 .. Len(q) : u = Len(runs) + k
      <4>1. DOMAIN <<>> = {}
        OBVIOUS
      <4> QED
        BY <1>0, <1>5, <3>2, <4>1
    <3> QED
      BY <3>1, <3>2, <1>4
  <2>3. chains' \in [Saga -> Nat] /\ \A s \in Saga : chains'[s] \in 0 .. Len(runs) + Len(q)
    <3>1. Chained(tasks, q) \in [Saga -> 0 .. Len(runs) + Len(q)]
      BY <1>0, <1>1, ScheduleFacts
    <3>2. Len(runs) + Len(q) \in Nat
      BY <1>0, <1>1
    <3> QED
      BY <3>1, <3>2, <1>1, ForgottenChains
  <2> QED
    BY <1>1, <1>2, <2>1, <2>2, <2>3 DEF LinksOK
<1>7. SagaTypeOK'
  <2>1. kept' \subseteq kept /\ callers' \in Nat /\ UNCHANGED stopVars /\ chains' \in [Saga -> Nat]
    BY <1>0, <1>1 DEF Elsewhere, SagaTypeOK, Forgets
  <2>2. /\ {eventState', sagaState'} \subseteq {"ready", "stopping", "stopped"}
        /\ kept' \subseteq {"events", "sagas"} /\ callers' \in Nat
        /\ hook' \in {"none", "events", "sagas", "over"}
        /\ late' \in BOOLEAN /\ timedOut' \in BOOLEAN
    BY <1>0, <2>1, OtherTypes
  <2> QED
    BY <1>0, <1>1, <1>2, <1>6, <2>1, <2>2 DEF SagaTypeOK
<1>8. /\ \A o \in DOMAIN pubs : PubContextOK(o)'
      /\ \A r \in DOMAIN runs : RunContextOK(r)'
  BY <1>1, <1>2, <1>3, OldContexts
<1>9. ASSUME NEW u \in DOMAIN runs' PROVE RunContextOK(u)' /\ DrainsOK(u)'
  <2>1. CASE u \in DOMAIN runs
    <3>1. runs'[u].owns = runs[u].owns
      BY <1>1, <2>1 DEF RunsLast
    <3>2. runs[u].queue # <<>> => runs'[u].queue # <<>>
      BY <1>0, <2>1
    <3> QED
      BY <1>1, <1>8, <2>1, <3>1, <3>2 DEF BaseOK, DrainsOK
  <2>2. CASE \E k \in 1 .. Len(q) : u = Len(runs) + k
    <3>1. pubs'[p].ctx = pubs[p].ctx
      BY <1>2 DEF PubsLast
    <3> QED
      BY <1>5, <2>2, <3>1 DEF RunContextOK, DrainsOK
  <2> QED
    BY <2>1, <2>2, <1>4
<1> QED
  BY <1>2, <1>7, <1>8, <1>9 DEF BaseOK

LEMMA BaseStep ==
  ASSUME BaseOK, SagaNext
  PROVE  BaseOK'
<1>1. ASSUME NEW p \in DOMAIN pubs, EntersPlainly(p) PROVE BaseOK'
  BY <1>1, SchedulesBase DEF EntersPlainly, RunsKept
<1>2. ASSUME NEW p \in DOMAIN pubs, EntersAgain(p) PROVE BaseOK'
  BY <1>2, SchedulesBase DEF EntersAgain
<1>3. ASSUME NEW r \in DOMAIN runs, StartsTask(r), runs[r].queue[1] \in DOMAIN pubs PROVE BaseOK'
  BY <1>3, SchedulesBase DEF StartsTask, RunsKept
<1> QED
  BY <1>1, <1>2, <1>3, StepKinds, OutsideBase, NestedBase, PubMovesBase, RunMovesBase,
     DelegatesBase, ShutdownBase DEF SagaKinds

LEMMA BaseInit == SagaInit => BaseOK
<1> SUFFICES ASSUME SagaInit PROVE BaseOK
  OBVIOUS
<1>1. /\ pubs = <<>> /\ runs = <<>> /\ DOMAIN pubs = {} /\ DOMAIN runs = {} /\ Len(runs) = 0
      /\ pubs \in Seq(PubSet) /\ runs \in Seq(RunSet)
  BY DEF SagaInit
<1>2. chains \in [Saga -> Nat] /\ \A s \in Saga : chains[s] \in 0 .. Len(runs)
  BY <1>1 DEF SagaInit
<1>3. LinksOK
  BY <1>1, <1>2 DEF LinksOK
<1>4. SagaTypeOK
  BY <1>1, <1>2, <1>3 DEF SagaInit, SagaTypeOK
<1> QED
  BY <1>1, <1>4 DEF BaseOK

LEMMA BaseStutters ==
  ASSUME BaseOK, UNCHANGED sagaVars
  PROVE  BaseOK'
<1>1. /\ UNCHANGED <<pubs, runs, chains, eventState, sagaState, kept, callers, hook, late>>
      /\ UNCHANGED timedOut
  BY DEF sagaVars
<1>2. LinksOK' /\ SagaTypeOK'
  BY <1>1 DEF BaseOK, SagaTypeOK, LinksOK
<1>3. PubsLast /\ RunsLast
  BY <1>1 DEF PubsLast, RunsLast
<1>4. \A r \in DOMAIN runs : DrainsOK(r)'
  BY <1>1 DEF BaseOK, DrainsOK
<1> QED
  BY <1>1, <1>2, <1>3, <1>4, OldContexts DEF BaseOK

LEMMA BaseHolds == SagaSpec => []BaseOK
<1>1. BaseOK /\ [SagaNext]_sagaVars => BaseOK'
  BY BaseStep, BaseStutters
<1> QED
  BY <1>1, BaseInit, PTL DEF SagaSpec

\* The shape of the state: what publications, executions and chains refer to
\* exists, and an execution waits for earlier ones only
\* (saga-bus.ts, dispatchWithOrdering()).
THEOREM SagaTypeCorrect == SagaSpec => []SagaTypeOK
<1>1. BaseOK => SagaTypeOK
  BY DEF BaseOK
<1> QED
  BY <1>1, BaseHolds, PTL

-----------------------------------------------------------------------------
(* The order of a token's executions                                       *)

Token(r) == runs[r].route.token

\* The chain of a token ends in its last execution, or all have been handled.
ChainsOK ==
  \A s \in Saga :
    /\ chains[s] = 0 => \A r \in DOMAIN runs : Token(r) = s => Handled(runs[r])
    /\ chains[s] # 0 => /\ Token(chains[s]) = s
                        /\ \A r \in DOMAIN runs : Token(r) = s => r <= chains[s]

\* An execution is chained behind the one before it, unless all before it have
\* been handled.
PrevOK ==
  \A r \in DOMAIN runs :
    /\ runs[r].prev # 0 => Token(runs[r].prev) = Token(r)
    /\ \A a \in DOMAIN runs : a < r /\ Token(a) = Token(r) =>
         IF runs[r].prev = 0 THEN Handled(runs[a]) ELSE a <= runs[r].prev

Started(r) == runs[r].pc # "queued"

TurnOK ==
  \A r \in DOMAIN runs : Started(r) /\ runs[r].prev # 0 => Handled(runs[runs[r].prev])

StartedOK ==
  \A a, b \in DOMAIN runs :
    a < b /\ Token(a) = Token(b) /\ Started(b) => Handled(runs[a])

OrderOK == TurnOK /\ ("sagas" \in kept => ChainsOK /\ PrevOK /\ StartedOK)

\* Executions move on in their turn.
LEMMA OrderKept ==
  ASSUME BaseOK, OrderOK, Len(runs') = Len(runs), DOMAIN runs' = DOMAIN runs, RunsLast,
         \A r \in DOMAIN runs : Handled(runs[r]) => Handled(runs'[r]),
         \A r \in DOMAIN runs : ~Started(r) /\ runs'[r].pc # "queued" =>
           runs[r].prev = 0 \/ Handled(runs[runs[r].prev]),
         "sagas" \in kept' =>
           /\ "sagas" \in kept
           /\ \A s \in Saga :
                \/ chains'[s] = chains[s]
                \/ chains'[s] = 0 /\ chains[s] # 0 /\ Handled(runs'[chains[s]])
  PROVE  OrderOK'
<1>0. /\ LinksOK /\ TurnOK /\ Len(runs) \in Nat /\ DOMAIN runs = 1 .. Len(runs)
      /\ \A r \in DOMAIN runs : runs[r].prev \in 0 .. r - 1
      /\ \A s \in Saga : chains[s] \in 0 .. Len(runs)
  BY DEF BaseOK, SagaTypeOK, LinksOK, OrderOK
<1>1. \A r \in DOMAIN runs : Token(r)' = Token(r) /\ runs'[r].prev = runs[r].prev
  BY DEF RunsLast, Token
<1>2. \A r \in DOMAIN runs : runs[r].prev # 0 => runs[r].prev \in DOMAIN runs
  BY <1>0
<1>3. TurnOK'
  BY <1>0, <1>1, <1>2 DEF TurnOK, Started
<1>4. ASSUME "sagas" \in kept' PROVE ChainsOK' /\ PrevOK' /\ StartedOK'
  <2>1. ChainsOK /\ PrevOK /\ StartedOK
    BY <1>4 DEF OrderOK
  <2>2. StartedOK'
    <3> SUFFICES ASSUME NEW a \in DOMAIN runs, NEW b \in DOMAIN runs, a < b,
                        Token(a) = Token(b), runs'[b].pc # "queued"
                 PROVE  Handled(runs[a])
      BY <1>1 DEF StartedOK, Started
    <3>1. CASE Started(b)
      BY <3>1, <2>1 DEF StartedOK
    <3>2. CASE ~Started(b) /\ runs[b].prev = 0
      BY <3>2, <2>1 DEF PrevOK
    <3>3. CASE runs[b].prev # 0 /\ Handled(runs[runs[b].prev])
      <4> DEFINE c == runs[b].prev
      <4>1. c \in DOMAIN runs /\ Token(c) = Token(b) /\ a <= c
        BY <1>2, <2>1, <3>3 DEF PrevOK
      <4>2. Started(c)
        BY <3>3 DEF Handled, Started
      <4>3. CASE a = c
        BY <3>3, <4>3
      <4>4. CASE a < c
        BY <4>1, <4>2, <4>4, <2>1 DEF StartedOK
      <4> QED
        BY <4>1, <4>3, <4>4, <1>0
    <3> QED
      BY <3>1, <3>2, <3>3
  <2>3. PrevOK'
    BY <1>1, <1>2, <2>1 DEF PrevOK
  <2>4. ASSUME NEW s \in Saga
        PROVE  /\ chains'[s] = 0 => \A r \in DOMAIN runs : Token(r)' = s => Handled(runs'[r])
               /\ chains'[s] # 0 => /\ runs'[chains'[s]].route.token = s
                                    /\ \A r \in DOMAIN runs : Token(r)' = s => r <= chains'[s]
    <3> DEFINE c == chains[s]
    <3>0. c # 0 => c \in DOMAIN runs
      BY <1>0
    <3>1. CASE chains'[s] = c
      <4>1. CASE c = 0
        BY <3>1, <4>1, <1>1, <2>1 DEF ChainsOK
      <4>2. CASE c # 0
        <5>1. Token(c) = s /\ \A r \in DOMAIN runs : Token(r) = s => r <= c
          BY <4>2, <2>1 DEF ChainsOK
        <5>3. runs'[c].route = runs[c].route
          BY <3>0, <4>2 DEF RunsLast
        <5>4. runs'[chains'[s]].route.token = s
          BY <5>1, <5>3, <3>1 DEF Token
        <5> QED
          BY <3>1, <4>2, <5>1, <5>4, <1>1
      <4> QED
        BY <4>1, <4>2
    <3>2. CASE chains'[s] = 0 /\ c # 0 /\ Handled(runs'[c])
      <4>1. ASSUME NEW r \in DOMAIN runs, Token(r)' = s PROVE Handled(runs'[r])
        <5>1. c \in DOMAIN runs /\ Token(c) = s /\ Token(r) = s /\ r <= c
          BY <3>0, <3>2, <4>1, <1>1, <2>1 DEF ChainsOK
        <5>2. runs'[c].pc # "queued"
          BY <3>2 DEF Handled
        <5>3. CASE r = c
          BY <3>2, <5>3
        <5>4. CASE r < c
          BY <5>1, <5>2, <5>4, <1>1, <2>2 DEF StartedOK, Started
        <5> QED
          BY <5>1, <5>3, <5>4, <1>0
      <4> QED
        BY <3>2, <4>1
    <3> QED
      BY <3>1, <3>2, <1>4
  <2>5. ChainsOK'
    BY <2>4 DEF ChainsOK, Token
  <2> QED
    BY <2>2, <2>3, <2>5
<1> QED
  BY <1>3, <1>4 DEF OrderOK

\* Executions join the chains of their tokens.
LEMMA OrderScheduled ==
  ASSUME BaseOK, OrderOK, NEW p \in DOMAIN pubs, NEW tasks, NEW q, NEW pc,
         SchedulesTasks(p, tasks, q, pc)
  PROVE  OrderOK'
<1> DEFINE old == Len(runs)
<1>0. /\ SagaTypeOK /\ LinksOK /\ TurnOK
      /\ old \in Nat /\ DOMAIN runs = 1 .. old
      /\ \A r \in DOMAIN runs : runs[r].prev \in 0 .. r - 1
      /\ \A s \in Saga : chains[s] \in 0 .. old
      /\ \A r \in DOMAIN runs : runs[r] \in RunSet
  BY DEF BaseOK, SagaTypeOK, LinksOK, OrderOK
<1>1. /\ tasks \in Seq(TaskSet) /\ Picks(q, tasks) /\ q \in Seq(DOMAIN tasks) /\ Len(q) \in Nat
      /\ runs' \in Seq(RunSet) /\ Len(runs') = old + Len(q) /\ RunsLast
      /\ \A r \in DOMAIN runs : runs'[r].pc = runs[r].pc
      /\ \A k \in 1 .. Len(q) : runs'[old + k] = Execution(p, tasks, q, k)
      /\ Forgets(Chained(tasks, q))
  <2>1. Picks(q, tasks)
    BY DEF SchedulesTasks
  <2>2. q \in Seq(DOMAIN tasks) /\ Len(q) \in Nat
    BY <2>1 DEF Picks
  <2> QED
    BY <2>1, <2>2 DEF SchedulesTasks
<1>2. DOMAIN runs' = 1 .. old + Len(q)
  BY <1>0, <1>1
<1> DEFINE tok(k) == tasks[q[k]].route.token
<1> DEFINE T(u) == runs'[u].route.token
<1>3. ASSUME NEW k \in 1 .. Len(q)
      PROVE  /\ T(old + k) = tok(k) /\ tok(k) \in Saga /\ runs'[old + k].pc = "queued"
             /\ runs'[old + k].prev = LastOf(tasks, q, tok(k), k - 1)
  <2>1. runs'[old + k] = Execution(p, tasks, q, k)
    BY <1>1, <1>3
  <2>2. q[k] \in DOMAIN tasks
    BY <1>1
  <2>3. tasks[q[k]] \in TaskSet
    BY <1>1, <2>2
  <2>4. tasks[q[k]].route.token \in Saga
    BY <2>3 DEF TaskSet, Route
  <2> QED
    BY <1>3, <2>1, <2>4 DEF Execution
<1>4. ASSUME NEW r \in DOMAIN runs
      PROVE  /\ T(r) = Token(r) /\ runs'[r].prev = runs[r].prev /\ r \in DOMAIN runs'
             /\ runs'[r].pc = runs[r].pc /\ Handled(runs'[r]) = Handled(runs[r]) /\ r <= old
  BY <1>0, <1>1, <1>2 DEF RunsLast, Token, Handled
<1>5. ASSUME NEW u \in DOMAIN runs', u \notin DOMAIN runs
      PROVE  u - old \in 1 .. Len(q) /\ u = old + (u - old)
  BY <1>0, <1>1, <1>2, <1>5
<1>t. \A u : Token(u)' = T(u)
  BY DEF Token
<1> HIDE DEF old, tok, T
<1>6. TurnOK'
  <2> SUFFICES ASSUME NEW u \in DOMAIN runs', runs'[u].pc # "queued", runs'[u].prev # 0
               PROVE  Handled(runs'[runs'[u].prev])
    BY DEF TurnOK, Started
  <2>1. u \in DOMAIN runs
    BY <1>3, <1>5
  <2>2. runs[u].prev # 0 /\ runs[u].prev \in DOMAIN runs /\ Started(u)
    BY <1>0, <1>4, <2>1 DEF Started
  <2> QED
    BY <1>0, <1>4, <2>1, <2>2 DEF TurnOK
<1>7. ASSUME "sagas" \in kept' PROVE ChainsOK' /\ PrevOK' /\ StartedOK'
  <2>1. ChainsOK /\ PrevOK /\ StartedOK /\ chains' = Chained(tasks, q)
    BY <1>1, <1>7 DEF OrderOK, Forgets
  <2>2. StartedOK'
    <3> SUFFICES ASSUME NEW a \in DOMAIN runs', NEW b \in DOMAIN runs', a < b,
                        T(a) = T(b), runs'[b].pc # "queued"
                 PROVE  Handled(runs'[a])
      BY DEF StartedOK, Started, Token, T
    <3>1. b \in DOMAIN runs
      BY <1>3, <1>5
    <3>2. a \in DOMAIN runs
      BY <1>0, <1>2, <3>1
    <3> QED
      BY <1>4, <2>1, <3>1, <3>2 DEF StartedOK, Started
  <2>3. ASSUME NEW s \in Saga, NEW k \in 0 .. Len(q),
               NEW c, c = LastOf(tasks, q, s, k)
        PROVE  /\ c = 0 => \A a \in DOMAIN runs' : a <= old + k /\ T(a) = s => Handled(runs'[a])
               /\ c # 0 => /\ c \in DOMAIN runs' /\ T(c) = s
                           /\ \A a \in DOMAIN runs' : a <= old + k /\ T(a) = s => a <= c
    <3>1. \A j \in 1 .. k : j \in 1 .. Len(q) /\ T(old + j) = tok(j)
      <4>1. \A j \in 1 .. k : j \in 1 .. Len(q)
        BY <1>1
      <4> QED
        BY <1>3, <4>1
    <3>2. ASSUME NEW a \in DOMAIN runs', a \notin DOMAIN runs, a <= old + k
          PROVE  a - old \in 1 .. k /\ a = old + (a - old)
      BY <1>5, <3>2, <1>0, <1>1
    <3>3. CASE /\ \A j \in 1 .. k : tok(j) # s
               /\ c = chains[s]
      <4>1. ASSUME NEW a \in DOMAIN runs', a <= old + k, T(a) = s
            PROVE  a \in DOMAIN runs /\ Token(a) = s
        <5>1. a \in DOMAIN runs
          BY <3>1, <3>2, <3>3, <4>1
        <5> QED
          BY <5>1, <4>1, <1>4
      <4>2. chains[s] # 0 => chains[s] \in DOMAIN runs
        BY <1>0
      <4>3. /\ chains[s] = 0 => \A r \in DOMAIN runs : Token(r) = s => Handled(runs[r])
            /\ chains[s] # 0 => /\ Token(chains[s]) = s
                                /\ \A r \in DOMAIN runs : Token(r) = s => r <= chains[s]
        BY <2>1 DEF ChainsOK
      <4>4. chains[s] # 0 => c \in DOMAIN runs' /\ T(c) = s
        BY <1>4, <3>3, <4>2, <4>3
      <4> QED
        BY <1>4, <3>3, <4>1, <4>3, <4>4
    <3>4. ASSUME NEW m \in 1 .. k, tok(m) = s, c = old + m,
                 \A j \in 1 .. k : tok(j) = s => j <= m
          PROVE  /\ c # 0 /\ c \in DOMAIN runs' /\ T(c) = s
                 /\ \A a \in DOMAIN runs' : a <= old + k /\ T(a) = s => a <= c
      <4>1. c # 0 /\ c \in DOMAIN runs' /\ T(c) = s
        <5>1. m \in 1 .. Len(q) /\ T(old + m) = tok(m)
          BY <3>1
        <5>2. T(c) = tok(m)
          BY <1>3, <5>1, <3>4
        <5> QED
          BY <5>1, <5>2, <3>4, <1>0, <1>1, <1>2
      <4>2. ASSUME NEW a \in DOMAIN runs', a <= old + k, T(a) = s PROVE a <= c
        <5>1. CASE a \in DOMAIN runs
          BY <5>1, <3>4, <1>0
        <5>2. CASE a \notin DOMAIN runs
          <6> DEFINE j == a - old
          <6>1. j \in 1 .. k /\ a = old + j
            BY <3>2, <4>2, <5>2
          <6> HIDE DEF j
          <6>2. tok(j) = s
            BY <1>3, <3>1, <4>2, <6>1
          <6>3. j <= m
            BY <3>4, <6>1, <6>2
          <6> QED
            BY <6>1, <6>3, <3>4, <1>0
        <5> QED
          BY <5>1, <5>2
      <4> QED
        BY <4>1, <4>2
    <3>5. \/ /\ \A j \in 1 .. k : tok(j) # s
             /\ c = chains[s]
          \/ \E m \in 1 .. k : /\ tok(m) = s /\ c = old + m
                               /\ \A j \in 1 .. k : tok(j) = s => j <= m
      <4>1. SagaTypeOK /\ tasks \in Seq(TaskSet) /\ Picks(q, tasks) /\ k \in 0 .. Len(q)
        BY <1>0, <1>1
      <4>2. \/ /\ \A j \in 1 .. k : tasks[q[j]].route.token # s
               /\ c = chains[s]
            \/ \E m \in 1 .. k : /\ tasks[q[m]].route.token = s /\ c = Len(runs) + m
                                 /\ \A j \in 1 .. k : tasks[q[j]].route.token = s => j <= m
        BY <4>1, <2>3, LastFacts
      <4> QED
        BY <4>2 DEF tok, old
    <3> QED
      BY <3>3, <3>4, <3>5
  <2>4. ChainsOK'
    <3>1. ASSUME NEW s \in Saga
          PROVE  /\ chains'[s] = 0 => \A r \in DOMAIN runs' : T(r) = s => Handled(runs'[r])
                 /\ chains'[s] # 0 =>
                      /\ T(chains'[s]) = s
                      /\ \A r \in DOMAIN runs' : T(r) = s => r <= chains'[s]
      <4> DEFINE c == LastOf(tasks, q, s, Len(q))
      <4>1. chains'[s] = c
        BY <2>1 DEF Chained
      <4>2. \A r \in DOMAIN runs' : r <= old + Len(q)
        BY <1>0, <1>1, <1>2
      <4>3. Len(q) \in 0 .. Len(q)
        BY <1>1
      <4> HIDE DEF c
      <4>4. /\ c = 0 => \A a \in DOMAIN runs' : a <= old + Len(q) /\ T(a) = s => Handled(runs'[a])
            /\ c # 0 => /\ c \in DOMAIN runs' /\ T(c) = s
                        /\ \A a \in DOMAIN runs' : a <= old + Len(q) /\ T(a) = s => a <= c
        BY <2>3, <4>3 DEF c
      <4>5. c # 0 => T(chains'[s]) = s
        BY <4>1, <4>4
      <4> QED
        BY <4>1, <4>2, <4>4, <4>5
    <3> QED
      BY <3>1 DEF ChainsOK, Token, T
  <2>5. PrevOK'
    <3>1. ASSUME NEW r \in DOMAIN runs', NEW c, c = runs'[r].prev
          PROVE  /\ c # 0 => c \in DOMAIN runs' /\ T(c) = T(r)
                 /\ \A a \in DOMAIN runs' : a < r /\ T(a) = T(r) =>
                      IF c = 0 THEN Handled(runs'[a]) ELSE a <= c
      <4>1. CASE r \in DOMAIN runs
        <5>1. c = runs[r].prev /\ (c # 0 => c \in DOMAIN runs)
          BY <1>0, <1>4, <3>1, <4>1
        <5>2. \A a \in DOMAIN runs' : a < r => a \in DOMAIN runs
          BY <1>0, <1>2, <4>1
        <5> QED
          BY <1>4, <2>1, <4>1, <5>1, <5>2 DEF PrevOK
      <4>2. CASE r \notin DOMAIN runs
        <5> DEFINE k == r - old
        <5>1. k \in 1 .. Len(q) /\ r = old + k
          BY <1>5, <4>2
        <5> HIDE DEF k
        <5>2. T(r) = tok(k) /\ tok(k) \in Saga /\ c = LastOf(tasks, q, tok(k), k - 1)
          BY <1>3, <3>1, <5>1
        <5>3. k - 1 \in 0 .. Len(q) /\ \A a \in DOMAIN runs' : a < r => a <= old + (k - 1)
          BY <1>0, <1>1, <1>2, <5>1
        <5> QED
          BY <2>3, <5>2, <5>3
      <4> QED
        BY <4>1, <4>2
    <3>2. ASSUME NEW r \in DOMAIN runs'
          PROVE  /\ runs'[r].prev # 0 => T(runs'[r].prev) = T(r)
                 /\ \A a \in DOMAIN runs' : a < r /\ T(a) = T(r) =>
                      IF runs'[r].prev = 0 THEN Handled(runs'[a]) ELSE a <= runs'[r].prev
      BY <3>1
    <3> QED
      BY <3>2 DEF PrevOK, Token, T
  <2> QED
    BY <2>2, <2>4, <2>5
<1> QED
  BY <1>6, <1>7 DEF OrderOK

LEMMA OrderStep ==
  ASSUME BaseOK, OrderOK, SagaNext
  PROVE  OrderOK'
<1>0. /\ chains \in [Saga -> Nat] /\ runs \in Seq(RunSet) /\ DOMAIN runs = 1 .. Len(runs)
      /\ \A s \in Saga : chains[s] # 0 => chains[s] \in DOMAIN runs
  BY DEF BaseOK, SagaTypeOK, LinksOK
<1>1. ASSUME UNCHANGED runs, "sagas" \in kept' => "sagas" \in kept /\ chains' = chains
      PROVE  OrderOK'
  BY <1>1, OrderKept DEF RunsLast, Started
<1>2. ASSUME NEW d \in BOOLEAN, AdmittedOutside(d) PROVE OrderOK'
  BY <1>1, <1>2 DEF AdmittedOutside, Admitted
<1>3. ASSUME NEW r \in DOMAIN runs, AdmittedNested(r) PROVE OrderOK'
  <2>1. /\ RunBecomes(r, "nested", NextPub, runs[r].queue) /\ UNCHANGED <<chains, kept>>
        /\ Running(r) /\ runs[r].pc = "queued"
    BY <1>3 DEF AdmittedNested, Admitted
  <2>2. runs[r].prev = 0 \/ Handled(runs[runs[r].prev])
    BY <2>1 DEF Running
  <2>3. ~Handled(runs[r]) /\ ~Started(r)
    BY <2>1 DEF Handled, Started
  <2>4. DOMAIN runs' = DOMAIN runs /\ Len(runs') = Len(runs) /\ RunsLast
    BY <2>1, <1>0 DEF RunBecomes
  <2>5. \A u \in DOMAIN runs : u # r => runs'[u] = runs[u]
    BY <2>1 DEF RunBecomes
  <2> QED
    BY <2>1, <2>2, <2>3, <2>4, <2>5, OrderKept DEF Started
<1>4. ASSUME NEW p \in DOMAIN pubs, PubMoves(p) PROVE OrderOK'
  BY <1>1, <1>4 DEF PubMoves, Forgets
<1>5. ASSUME ShutdownSteps PROVE OrderOK'
  BY <1>1, <1>5 DEF ShutdownSteps, Forgets
<1>6. ASSUME NEW r \in DOMAIN runs, RunMoves(r) PROVE OrderOK'
  <2>1. PICK pc \in RunPc, queue \in {<<>>, runs[r].queue} :
          /\ RunBecomes(r, pc, runs[r].nested, queue)
          /\ pc \notin {"queued", "nested"}
          /\ pc = "hung" \/ runs[r].pc \in {"queued", "nested"} => Running(r)
          /\ \/ UNCHANGED chains
             \/ pc \in {"done", "failed"} /\ chains' = Unlinked(r)
    BY <1>6, RunMovesFields
  <2>2. UNCHANGED kept
    BY <1>6 DEF RunMoves
  <2>3. ~Started(r) => runs[r].prev = 0 \/ Handled(runs[runs[r].prev])
    BY <2>1 DEF Running, Started
  <2>4. DOMAIN runs' = DOMAIN runs /\ Len(runs') = Len(runs) /\ RunsLast
    BY <2>1, <1>0 DEF RunBecomes
  <2>5. runs'[r].pc = pc /\ \A u \in DOMAIN runs : u # r => runs'[u] = runs[u]
    BY <2>1 DEF RunBecomes
  <2>6. Handled(runs[r]) => Handled(runs'[r])
    BY <2>1, <2>5 DEF Handled, Running
  <2>7. ASSUME NEW s \in Saga
        PROVE  \/ chains'[s] = chains[s]
               \/ chains'[s] = 0 /\ chains[s] # 0 /\ Handled(runs'[chains[s]])
    <3>1. CASE UNCHANGED chains
      BY <3>1
    <3>2. CASE pc \in {"done", "failed"} /\ chains' = Unlinked(r)
      <4>1. Handled(runs'[r]) /\ r # 0
        BY <3>2, <2>5, <1>0 DEF Handled
      <4>2. chains'[s] = IF s = runs[r].route.token /\ chains[s] = r THEN 0 ELSE chains[s]
        BY <3>2, UnlinkedFacts DEF BaseOK
      <4> QED
        BY <4>1, <4>2
    <3> QED
      BY <2>1, <3>1, <3>2
  <2> QED
    BY <2>2, <2>3, <2>4, <2>5, <2>6, <2>7, OrderKept DEF Started
<1>7. ASSUME NEW r \in DOMAIN runs, Delegates(r) PROVE OrderOK'
  <2>1. /\ UNCHANGED <<chains, kept>> /\ runs[r].pc = "delegate"
        /\ RunBecomes(r, "drain", runs[r].nested, Tail(runs[r].queue))
    BY <1>7 DEF Delegates
  <2>2. DOMAIN runs' = DOMAIN runs /\ Len(runs') = Len(runs) /\ RunsLast
    BY <2>1, <1>0 DEF RunBecomes
  <2>3. runs'[r].pc = "drain" /\ \A u \in DOMAIN runs : u # r => runs'[u] = runs[u]
    BY <2>1 DEF RunBecomes
  <2>4. Handled(runs'[r]) /\ Started(r)
    BY <2>1, <2>3 DEF Handled, Started
  <2> QED
    BY <2>1, <2>2, <2>3, <2>4, OrderKept DEF Started
<1>8. ASSUME NEW p \in DOMAIN pubs, EntersPlainly(p) \/ EntersAgain(p) PROVE OrderOK'
  BY <1>8, OrderScheduled DEF EntersPlainly, EntersAgain
<1>9. ASSUME NEW r \in DOMAIN runs, StartsTask(r), runs[r].queue[1] \in DOMAIN pubs PROVE OrderOK'
  BY <1>9, OrderScheduled DEF StartsTask
<1> QED
  BY <1>2, <1>3, <1>4, <1>5, <1>6, <1>7, <1>8, <1>9, StepKinds DEF SagaKinds

LEMMA OrderHolds == SagaSpec => []OrderOK
<1>1. SagaInit => OrderOK
  <2> SUFFICES ASSUME SagaInit PROVE OrderOK
    OBVIOUS
  <2>1. DOMAIN runs = {} /\ \A s \in Saga : chains[s] = 0
    BY DEF SagaInit
  <2> QED
    BY <2>1 DEF OrderOK, TurnOK, ChainsOK, PrevOK, StartedOK
<1>2. BaseOK /\ OrderOK /\ [SagaNext]_sagaVars => OrderOK'
  <2>1. ASSUME OrderOK, UNCHANGED sagaVars PROVE OrderOK'
    <3>1. UNCHANGED <<runs, chains, kept>>
      BY <2>1 DEF sagaVars
    <3> QED
      BY <2>1, <3>1
         DEF OrderOK, TurnOK, ChainsOK, PrevOK, StartedOK, Token, Started, Handled
  <2> QED
    BY <2>1, OrderStep
<1> QED
  BY <1>1, <1>2, BaseHolds, PTL DEF SagaSpec

\* Executions of one saga token are handled one at a time and in the order in
\* which they were enqueued, whatever enqueued them, as long as the service
\* keeps its graph (saga-bus.ts, dispatchWithOrdering()).
THEOREM SagasHandledInOrder == SagaSpec => []HandledInOrder
<1>1. ASSUME BaseOK, OrderOK PROVE HandledInOrder
  <2> SUFFICES ASSUME "sagas" \in kept, NEW a \in DOMAIN runs, NEW b \in DOMAIN runs,
                      a < b, Token(a) = Token(b), Started(b) \/ Running(b)
               PROVE  Handled(runs[a])
    BY DEF HandledInOrder, Token, Started
  <2>1. PrevOK /\ StartedOK
    BY <1>1 DEF OrderOK
  <2>2. CASE Started(b)
    BY <2>1, <2>2 DEF StartedOK
  <2>3. CASE ~Started(b) /\ Running(b)
    <3> DEFINE c == runs[b].prev
    <3>1. c = 0 \/ Handled(runs[c])
      BY <2>3 DEF Started, Running
    <3>2. CASE c = 0
      BY <2>1, <3>2 DEF PrevOK
    <3>3. CASE c # 0 /\ Handled(runs[c])
      <4>1. c \in DOMAIN runs /\ DOMAIN runs = 1 .. Len(runs) /\ Len(runs) \in Nat
        BY <1>1, <3>3 DEF BaseOK, SagaTypeOK, LinksOK
      <4>2. Token(c) = Token(b) /\ a <= c /\ Started(c)
        BY <2>1, <3>3 DEF PrevOK, Handled, Started
      <4>3. a = c \/ a < c
        BY <4>1, <4>2
      <4> QED
        BY <2>1, <3>3, <4>1, <4>2, <4>3 DEF StartedOK
    <3> QED
      BY <3>1, <3>2, <3>3
  <2> QED
    BY <2>2, <2>3
<1> QED
  BY <1>1, BaseHolds, OrderHolds, PTL

-----------------------------------------------------------------------------
(* The work of publications and executions                                 *)

Handed(p) == AllDone(p) /\ (pubs[p].direct \/ pubs[p].delegated)

\* A publication whose continuation is still to be drained, or has been dropped
\* by the failure of the execution that should drain it.
Queued(p, r) == \E i \in DOMAIN runs[r].queue : runs[r].queue[i] = p

Continued(p) ==
  LET s == pubs[p].ctx.scope
  IN  s # 0 /\ (Queued(p, s) \/ runs[s].pc = "failed")

PubTasksOK(p) ==
  /\ pubs[p].direct => pubs[p].pc \in {"enter", "sagas", "ok", "failed"}
  /\ pubs[p].pc \in {"handlers", "enter"} => DOMAIN pubs[p].tasks = {}
  /\ pubs[p].pc = "sagas" => \A i \in DOMAIN pubs[p].tasks : pubs[p].tasks[i].run # 0
  /\ pubs[p].pc = "after" => AllDone(p)
  /\ pubs[p].pc = "ok" => Handed(p) \/ Continued(p)

\* An execution is that of a task of its event.
IsTask(r) ==
  \E i \in DOMAIN pubs[runs[r].event].tasks : pubs[runs[r].event].tasks[i].run = r

\* An execution publishes once at most, in its scope, and awaits it; what comes
\* of it is enqueued later.
RunNestedOK(r) ==
  LET n == runs[r].nested
  IN  /\ runs[r].pc = "queued" => n = 0
      /\ n # 0 => /\ pubs[n].ctx.scope = runs[r].ctx.scope
                  /\ ~Settled(pubs[n]) => runs[r].pc = "nested"
                  /\ \A u \in DOMAIN runs : runs[u].event = n => r < u

\* What has a scope was published by an execution.
FromRun(p) == pubs[p].ctx.scope # 0 => \E r \in DOMAIN runs : runs[r].nested = p

RunQueueOK(r) ==
  /\ runs[r].pc = "delegate" => AllDone(runs[r].queue[1])
  /\ \A i \in DOMAIN runs[r].queue :
       LET p == runs[r].queue[i] IN pubs[p].ctx.scope = r /\ pubs[p].pc = "ok"

\* An execution that owns a scope ends after all of it, unless some of it fails.
InScope(r, s) == runs[r].ctx.scope = s
PubInScope(p, s) == pubs[p].ctx.scope = s

Clean(s) ==
  /\ \A r \in DOMAIN runs : InScope(r, s) => runs[r].pc # "failed"
  /\ \A p \in DOMAIN pubs : PubInScope(p, s) => pubs[p].pc # "failed"

ScopeOK(s) ==
  runs[s].owns /\ runs[s].pc = "done" /\ Clean(s) =>
    /\ \A r \in DOMAIN runs : InScope(r, s) => runs[r].pc = "done"
    /\ \A p \in DOMAIN pubs : PubInScope(p, s) => pubs[p].pc = "ok" /\ Handed(p)

PubsOK == \A p \in DOMAIN pubs : PubTasksOK(p) /\ FromRun(p)
RunsOK == \A r \in DOMAIN runs : IsTask(r) /\ RunNestedOK(r) /\ RunQueueOK(r)
ScopesOK == \A s \in DOMAIN runs : ScopeOK(s)
WorkOK == PubsOK /\ RunsOK /\ ScopesOK

-----------------------------------------------------------------------------
(* What one step may do to a publication and to an execution               *)

Entering(p) == pubs[p].pc \in {"handlers", "enter"}

PubTasksStep(p) ==
  /\ pubs'[p].tasks = pubs[p].tasks \/ Entering(p) \/ ~AllDone(p)
  /\ \A i \in DOMAIN pubs[p].tasks : pubs[p].tasks[i].run # 0 =>
       i \in DOMAIN pubs'[p].tasks /\ pubs'[p].tasks[i].run = pubs[p].tasks[i].run

PubPcStep(p) ==
  \/ pubs'[p].pc = pubs[p].pc /\ (pubs[p].pc \in {"handlers", "enter", "sagas"} => pubs'[p].tasks = pubs[p].tasks)
  \/ ~Settled(pubs[p]) /\ pubs'[p].pc = "failed"
  \/ Entering(p) /\ pubs'[p].pc = "sagas" /\ \A i \in DOMAIN pubs'[p].tasks : pubs'[p].tasks[i].run # 0
  \/ /\ pubs[p].pc = "sagas" /\ pubs'[p].pc = "after" /\ ~pubs[p].direct
     /\ AllDone(p) /\ pubs'[p].tasks = pubs[p].tasks
  \/ /\ pubs[p].pc \in {"sagas", "after"} /\ pubs'[p].pc = "ok"
     /\ AllDone(p) /\ pubs'[p].tasks = pubs[p].tasks
     /\ pubs[p].direct \/ pubs'[p].delegated
  \/ /\ Entering(p) /\ pubs'[p].pc = "ok" /\ pubs[p].ctx.scope # 0
     /\ Queued(p, pubs[p].ctx.scope)'

PubStep(p) ==
  /\ pubs[p].delegated => pubs'[p].delegated
  /\ PubTasksStep(p) /\ PubPcStep(p)

NewPub(p) ==
  /\ p # 0 /\ pubs'[p].pc \in {"handlers", "enter"} /\ DOMAIN pubs'[p].tasks = {}
  /\ pubs'[p].direct => pubs'[p].pc = "enter"
  /\ IF pubs'[p].direct THEN sagaState = "ready" ELSE eventState # "stopped"
  /\ pubs'[p].ctx.scope # 0 => \E r \in DOMAIN runs : runs'[r].nested = p

RunNestedStep(r) ==
  \/ /\ runs'[r].nested = runs[r].nested
     /\ runs'[r].pc = "queued" => runs[r].pc = "queued"
     /\ runs[r].pc = "nested" /\ runs'[r].pc # "nested" => Settled(pubs[runs[r].nested])
  \/ /\ runs[r].pc = "queued" /\ runs'[r].pc = "nested"
     /\ runs'[r].nested \in DOMAIN pubs' \ DOMAIN pubs
     /\ pubs'[runs'[r].nested].ctx.scope = runs[r].ctx.scope

\* A continuation is put into the queue, ...
RunQueueStep(r) ==
  \/ runs'[r].queue = runs[r].queue
  \/ \E p \in DOMAIN pubs :
       /\ runs'[r].queue = Append(runs[r].queue, p) /\ runs'[r].pc = runs[r].pc
       /\ pubs[p].ctx.scope = r /\ pubs'[p].pc = "ok"
  \* ... or is over, ...
  \/ /\ runs[r].pc = "delegate" /\ runs'[r].pc = "drain" /\ runs[r].queue # <<>>
     /\ runs'[r].queue = Tail(runs[r].queue) /\ pubs'[runs[r].queue[1]].delegated
  \* ... or the queue is dropped.
  \/ runs'[r].queue = <<>> /\ runs'[r].pc = "failed"
  \/ runs'[r].queue = <<>> /\ runs'[r].pc = "done" /\ (~runs[r].owns \/ runs[r].queue = <<>>)

RunPcStep(r) ==
  /\ Ended(runs[r]) => runs'[r].pc = runs[r].pc
  /\ runs'[r].pc = "delegate" =>
       \/ runs[r].pc = "delegate"
       \/ /\ runs[r].pc = "tasks" /\ AllDone(runs[r].queue[1])
          /\ runs'[r].queue = runs[r].queue
  /\ runs'[r].pc = "done" /\ runs[r].pc # "done" =>
       \/ ~runs[r].owns
       \/ /\ runs[r].pc = "drain" /\ runs[r].queue = <<>> /\ UNCHANGED pubs
          /\ \A u \in DOMAIN runs : u # r => runs'[u] = runs[u]
          /\ DOMAIN runs' = DOMAIN runs

RunStep(r) == RunNestedStep(r) /\ RunQueueStep(r) /\ RunPcStep(r)

NewRun(r) ==
  LET e == runs'[r].event
  IN  /\ e \in DOMAIN pubs /\ (Entering(e) \/ ~AllDone(e))
      /\ \A u \in DOMAIN runs : u < r
      /\ runs'[r].pc = "queued" /\ runs'[r].nested = 0 /\ DOMAIN runs'[r].queue = {}
      /\ \E i \in DOMAIN pubs'[e].tasks : pubs'[e].tasks[i].run = r
      /\ runs'[r].ctx.scope = IF pubs[e].ctx.scope = 0 THEN r ELSE pubs[e].ctx.scope

WorkStep ==
  /\ PubsLast /\ RunsLast
  /\ DOMAIN pubs \subseteq DOMAIN pubs' /\ DOMAIN runs \subseteq DOMAIN runs'
  /\ \A p \in DOMAIN pubs : PubStep(p)
  /\ \A r \in DOMAIN runs : RunStep(r)
  /\ \A p \in DOMAIN pubs' \ DOMAIN pubs : NewPub(p)
  /\ \A r \in DOMAIN runs' \ DOMAIN runs : NewRun(r)

\* What stays as it is makes no step of its own.
LEMMA SamePub ==
  ASSUME NEW p \in DOMAIN pubs, pubs'[p] = pubs[p]
  PROVE  PubStep(p)
  BY DEF PubStep, PubTasksStep, PubPcStep

LEMMA SameRun ==
  ASSUME NEW r \in DOMAIN runs, runs'[r] = runs[r]
  PROVE  RunStep(r)
  BY DEF RunStep, RunNestedStep, RunQueueStep, RunPcStep, Ended

LEMMA AdmittedWork ==
  ASSUME BaseOK, NEW d \in BOOLEAN, NEW ctx, Admitted(d, ctx),
         Len(runs') = Len(runs), runs' \in Seq(RunSet), RunsLast,
         \A r \in DOMAIN runs : RunStep(r),
         ctx.scope # 0 => \E r \in DOMAIN runs : runs'[r].nested = NextPub
  PROVE  WorkStep
<1>0. /\ Len(runs) \in Nat /\ DOMAIN runs = 1 .. Len(runs) /\ DOMAIN runs' = DOMAIN runs
      /\ Len(pubs) \in Nat /\ DOMAIN pubs = 1 .. Len(pubs) /\ NextPub = Len(pubs) + 1
  BY DEF BaseOK, SagaTypeOK, NextPub
<1>1. /\ DOMAIN pubs' = 1 .. Len(pubs) + 1 /\ PubsLast
      /\ \A o \in DOMAIN pubs : /\ pubs'[o].tasks = pubs[o].tasks /\ pubs'[o].pc = pubs[o].pc
                                /\ pubs'[o].delegated = pubs[o].delegated
      /\ pubs'[NextPub].direct = d /\ pubs'[NextPub].ctx = ctx
      /\ pubs'[NextPub].tasks = <<>>
      /\ pubs'[NextPub].pc = IF d THEN "enter" ELSE "handlers"
      /\ IF d THEN sagaState = "ready" ELSE eventState # "stopped"
  BY <1>0 DEF Admitted, PubsLast
<1>2. ASSUME NEW o \in DOMAIN pubs PROVE PubStep(o)
  BY <1>1 DEF PubStep, PubTasksStep, PubPcStep
<1>3. ASSUME NEW o \in DOMAIN pubs' \ DOMAIN pubs PROVE NewPub(o)
  <2>1. o = NextPub /\ o # 0
    BY <1>0, <1>1
  <2>2. DOMAIN <<>> = {}
    OBVIOUS
  <2> QED
    BY <1>1, <2>1, <2>2 DEF NewPub
<1>4. DOMAIN pubs \subseteq DOMAIN pubs'
  BY <1>0, <1>1
<1> QED
  BY <1>0, <1>1, <1>2, <1>3, <1>4 DEF WorkStep

LEMMA OutsideWork ==
  ASSUME BaseOK, NEW d \in BOOLEAN, AdmittedOutside(d)
  PROVE  WorkStep
<1>1. /\ UNCHANGED runs /\ runs \in Seq(RunSet) /\ RunsLast /\ Admitted(d, RootContext(d))
      /\ RootContext(d).scope = 0
  BY DEF BaseOK, SagaTypeOK, AdmittedOutside, RunsLast, RootContext
<1>2. \A r \in DOMAIN runs : RunStep(r)
  BY <1>1, SameRun
<1> QED
  BY <1>1, <1>2, AdmittedWork

LEMMA NestedWork ==
  ASSUME BaseOK, WorkOK, NEW r \in DOMAIN runs, AdmittedNested(r)
  PROVE  WorkStep
<1>1. /\ Admitted(FALSE, PublishContext(runs[r].ctx)) /\ runs[r].pc = "queued"
      /\ runs' \in Seq(RunSet) /\ Len(runs') = Len(runs) /\ RunsLast
      /\ \A u \in DOMAIN runs : u # r => runs'[u] = runs[u]
      /\ runs'[r].pc = "nested" /\ runs'[r].nested = NextPub /\ runs'[r].queue = runs[r].queue
  BY DEF AdmittedNested, RunBecomes
<1>2. /\ NextPub \in DOMAIN pubs' \ DOMAIN pubs
      /\ pubs'[NextPub].ctx.scope = runs[r].ctx.scope
  <2>1. Len(pubs) \in Nat /\ NextPub = Len(pubs) + 1 /\ DOMAIN pubs = 1 .. Len(pubs)
    BY DEF BaseOK, SagaTypeOK, NextPub
  <2>2. DOMAIN pubs' = 1 .. Len(pubs) + 1 /\ pubs'[NextPub].ctx = PublishContext(runs[r].ctx)
    BY <1>1, <2>1 DEF Admitted
  <2>3. runs[r].ctx \in Context
    <3>1. runs[r] \in RunSet
      BY DEF BaseOK, SagaTypeOK
    <3> QED
      BY <3>1 DEF RunSet
  <2>4. PublishContext(runs[r].ctx).scope = runs[r].ctx.scope
    BY <2>3 DEF PublishContext, Context
  <2> QED
    BY <2>1, <2>2, <2>4
<1>3. RunStep(r)
  BY <1>1, <1>2 DEF RunStep, RunNestedStep, RunQueueStep, RunPcStep, Ended
<1>4. \A u \in DOMAIN runs : RunStep(u)
  BY <1>1, <1>3, SameRun
<1>5. \E u \in DOMAIN runs : runs'[u].nested = NextPub
  BY <1>1
<1> QED
  BY <1>1, <1>4, <1>5, AdmittedWork

\* Where neither publications nor executions come into being.
LEMMA MovesWork ==
  ASSUME PubsLast, RunsLast, DOMAIN pubs' = DOMAIN pubs, DOMAIN runs' = DOMAIN runs,
         \A p \in DOMAIN pubs : PubStep(p), \A r \in DOMAIN runs : RunStep(r)
  PROVE  WorkStep
  BY DEF WorkStep

LEMMA PubMovesWork ==
  ASSUME BaseOK, WorkOK, NEW p \in DOMAIN pubs, PubMoves(p)
  PROVE  WorkStep
<1>0. UNCHANGED runs /\ pubs \in Seq(PubSet)
  BY DEF BaseOK, SagaTypeOK, PubMoves
<1>1. PICK pc, d : PubBecomes(p, pc, d, pubs[p].tasks) /\ (pubs[p].delegated => d)
  BY DEF PubMoves
<1>2. /\ DOMAIN pubs' = DOMAIN pubs /\ PubsLast
      /\ \A o \in DOMAIN pubs : o # p => pubs'[o] = pubs[o]
      /\ pubs'[p].tasks = pubs[p].tasks /\ pubs'[p].delegated = d
  BY <1>0, <1>1 DEF PubBecomes, PubsLast
<1>3. PubStep(p)
  <2>1. CASE pubs[p].pc \in {"handlers", "enter", "sagas"} /\ pubs'[p].pc = "failed"
    BY <1>1, <1>2, <2>1 DEF PubStep, PubTasksStep, PubPcStep, Settled
  <2>2. CASE /\ pubs[p].pc = "sagas" /\ Outcomes(p) \subseteq {"done"}
             /\ pubs'[p].pc = IF pubs[p].direct THEN "ok" ELSE "after"
    <3>1. AllDone(p)
      <4>1. \A i \in DOMAIN pubs[p].tasks : pubs[p].tasks[i].run # 0
        BY <2>2 DEF WorkOK, PubsOK, PubTasksOK
      <4> QED
        BY <2>2, <4>1 DEF AllDone, Outcomes
    <3> QED
      BY <1>1, <1>2, <2>2, <3>1 DEF PubStep, PubTasksStep, PubPcStep
  <2>3. CASE pubs[p].pc = "after" /\ pubs'[p].pc = "ok" /\ pubs'[p].delegated
    <3>1. AllDone(p)
      BY <2>3 DEF WorkOK, PubsOK, PubTasksOK
    <3> QED
      BY <1>1, <1>2, <2>3, <3>1 DEF PubStep, PubTasksStep, PubPcStep
  <2> QED
    BY <2>1, <2>2, <2>3 DEF PubMoves, PubBecomes
<1>4. \A o \in DOMAIN pubs : PubStep(o)
  BY <1>2, <1>3, SamePub
<1>5. RunsLast /\ \A r \in DOMAIN runs : RunStep(r)
  BY <1>0, SameRun DEF RunsLast
<1> QED
  BY <1>0, <1>2, <1>4, <1>5, MovesWork

LEMMA ShutdownWork ==
  ASSUME ShutdownSteps
  PROVE  WorkStep
<1>1. UNCHANGED <<pubs, runs>>
  BY DEF ShutdownSteps
<1> QED
  BY <1>1, SamePub, SameRun, MovesWork DEF PubsLast, RunsLast

LEMMA RunMovesWork ==
  ASSUME BaseOK, WorkOK, NEW r \in DOMAIN runs, RunMoves(r)
  PROVE  WorkStep
<1>0. UNCHANGED pubs /\ runs \in Seq(RunSet)
  BY DEF BaseOK, SagaTypeOK, RunMoves
<1>1. PICK pc \in RunPc, queue \in {<<>>, runs[r].queue} :
        /\ RunBecomes(r, pc, runs[r].nested, queue)
        /\ pc \notin {"queued", "nested"}
        /\ pc = "hung" \/ runs[r].pc \in {"queued", "nested"} => Running(r)
        /\ pc = "delegate" => runs[r].pc = "tasks" /\ AllDone(runs[r].queue[1])
        /\ pc = "done" => ~runs[r].owns \/ (runs[r].pc = "drain" /\ runs[r].queue = <<>>)
        /\ pc \in {"tasks", "delegate"} => queue # <<>>
        /\ pc \in {"done", "failed"} => queue = <<>>
        /\ queue = runs[r].queue \/ pc \in {"done", "failed"}
  BY RunMovesFields
<1>2. /\ DOMAIN runs' = DOMAIN runs /\ RunsLast
      /\ \A u \in DOMAIN runs : u # r => runs'[u] = runs[u]
      /\ runs'[r].pc = pc /\ runs'[r].nested = runs[r].nested /\ runs'[r].queue = queue
  BY <1>0, <1>1 DEF RunBecomes
<1>3. ~Ended(runs[r])
  BY DEF RunMoves, Running, Ended
<1>4. RunNestedStep(r)
  <2>1. runs[r].pc = "nested" => Settled(pubs[runs[r].nested])
    BY <1>1 DEF Running
  <2> QED
    BY <1>1, <1>2, <2>1 DEF RunNestedStep
<1>5. RunPcStep(r)
  BY <1>0, <1>1, <1>2, <1>3 DEF RunPcStep
<1>6. RunQueueStep(r)
  BY <1>0, <1>1, <1>2 DEF RunQueueStep
<1>7. \A u \in DOMAIN runs : RunStep(u)
  BY <1>2, <1>4, <1>5, <1>6, SameRun DEF RunStep
<1>8. PubsLast /\ \A p \in DOMAIN pubs : PubStep(p)
  BY <1>0, SamePub DEF PubsLast
<1> QED
  BY <1>0, <1>2, <1>7, <1>8, MovesWork

LEMMA DelegatesWork ==
  ASSUME BaseOK, WorkOK, NEW r \in DOMAIN runs, Delegates(r)
  PROVE  WorkStep
<1> DEFINE p == runs[r].queue[1]
<1>0. runs \in Seq(RunSet) /\ pubs \in Seq(PubSet)
  BY DEF BaseOK, SagaTypeOK
<1>1. /\ p \in DOMAIN pubs /\ runs[r].pc = "delegate" /\ runs[r].queue # <<>>
      /\ PubBecomes(p, pubs[p].pc, TRUE, pubs[p].tasks)
      /\ RunBecomes(r, "drain", runs[r].nested, Tail(runs[r].queue))
  BY DEF Delegates
<1> HIDE DEF p
<1>2. /\ DOMAIN pubs' = DOMAIN pubs /\ PubsLast
      /\ \A o \in DOMAIN pubs : o # p => pubs'[o] = pubs[o]
      /\ pubs'[p].tasks = pubs[p].tasks /\ pubs'[p].delegated /\ pubs'[p].pc = pubs[p].pc
  BY <1>0, <1>1 DEF PubBecomes, PubsLast
<1>3. /\ DOMAIN runs' = DOMAIN runs /\ RunsLast
      /\ \A u \in DOMAIN runs : u # r => runs'[u] = runs[u]
      /\ runs'[r].pc = "drain" /\ runs'[r].nested = runs[r].nested
      /\ runs'[r].queue = Tail(runs[r].queue)
  BY <1>0, <1>1 DEF RunBecomes
<1>4. PubStep(p)
  BY <1>2 DEF PubStep, PubTasksStep, PubPcStep
<1>5. RunStep(r)
  <2>1. RunQueueStep(r)
    BY <1>1, <1>2, <1>3 DEF RunQueueStep, p
  <2> QED
    BY <1>1, <1>3, <2>1 DEF RunStep, RunNestedStep, RunPcStep, Ended
<1>6. /\ \A o \in DOMAIN pubs : PubStep(o)
      /\ \A u \in DOMAIN runs : RunStep(u)
  BY <1>2, <1>3, <1>4, <1>5, SamePub, SameRun
<1> QED
  BY <1>2, <1>3, <1>6, MovesWork

\* What scheduling does, whoever schedules.
LEMMA SchedulesFacts ==
  ASSUME BaseOK, NEW p \in DOMAIN pubs, NEW tasks, NEW q, NEW pc,
         SchedulesTasks(p, tasks, q, pc)
  PROVE  /\ PubsLast /\ RunsLast /\ DOMAIN pubs' = DOMAIN pubs
         /\ DOMAIN runs \subseteq DOMAIN runs'
         /\ \A o \in DOMAIN pubs : o # p => pubs'[o] = pubs[o]
         /\ pubs'[p].pc = pc /\ pubs'[p].delegated = pubs[p].delegated
         /\ DOMAIN pubs'[p].tasks = DOMAIN tasks
         /\ \A i \in DOMAIN tasks :
              \/ i \notin ToSet(q) /\ pubs'[p].tasks[i] = tasks[i]
              \/ i \in ToSet(q) /\ pubs'[p].tasks[i].run # 0
         /\ \A u \in DOMAIN runs' \ DOMAIN runs :
              /\ \A v \in DOMAIN runs : v < u
              /\ runs'[u].event = p /\ runs'[u].pc = "queued" /\ runs'[u].nested = 0
              /\ DOMAIN runs'[u].queue = {}
              /\ \E i \in DOMAIN pubs'[p].tasks : pubs'[p].tasks[i].run = u
              /\ runs'[u].ctx.scope = IF pubs[p].ctx.scope = 0 THEN u ELSE pubs[p].ctx.scope
<1>0. /\ SagaTypeOK /\ Len(runs) \in Nat /\ DOMAIN runs = 1 .. Len(runs)
      /\ pubs \in Seq(PubSet)
  BY DEF BaseOK, SagaTypeOK
<1>1. /\ tasks \in Seq(TaskSet) /\ \A i \in DOMAIN tasks : tasks[i].run \in 0 .. Len(runs)
      /\ Picks(q, tasks) /\ Len(q) \in Nat
      /\ runs' \in Seq(RunSet) /\ Len(runs') = Len(runs) + Len(q) /\ RunsLast
      /\ \A k \in 1 .. Len(q) : runs'[Len(runs) + k] = Execution(p, tasks, q, k)
      /\ PubBecomes(p, pc, pubs[p].delegated, Numbered(tasks, q))
  <2>1. Picks(q, tasks)
    BY DEF SchedulesTasks
  <2>2. Len(q) \in Nat
    BY <2>1 DEF Picks
  <2> QED
    BY <2>1, <2>2 DEF SchedulesTasks
<1>2. /\ pubs' \in Seq(PubSet) /\ Len(pubs') = Len(pubs) /\ DOMAIN pubs' = DOMAIN pubs /\ PubsLast
      /\ \A o \in DOMAIN pubs : o # p => pubs'[o] = pubs[o]
      /\ pubs'[p].tasks = Numbered(tasks, q)
      /\ pubs'[p].pc = pc /\ pubs'[p].delegated = pubs[p].delegated
  BY <1>0, <1>1 DEF PubBecomes, PubsLast
<1>3. DOMAIN runs' = 1 .. Len(runs) + Len(q) /\ DOMAIN runs \subseteq DOMAIN runs'
  BY <1>0, <1>1
<1>4. /\ Numbered(tasks, q) \in Seq(TaskSet) /\ Len(Numbered(tasks, q)) = Len(tasks)
      /\ \A i \in DOMAIN tasks :
           /\ i \notin ToSet(q) => Numbered(tasks, q)[i] = tasks[i]
           /\ i \in ToSet(q) => \E k \in 1 .. Len(q) :
                q[k] = i /\ Numbered(tasks, q)[i].run = Len(runs) + k
      /\ \A k \in 1 .. Len(q) :
           q[k] \in DOMAIN tasks /\ Numbered(tasks, q)[q[k]].run = Len(runs) + k
  BY <1>0, <1>1, ScheduleFacts
<1>5. DOMAIN pubs'[p].tasks = DOMAIN tasks
  BY <1>1, <1>2, <1>4
<1>6. \A i \in DOMAIN tasks :
        \/ i \notin ToSet(q) /\ pubs'[p].tasks[i] = tasks[i]
        \/ i \in ToSet(q) /\ pubs'[p].tasks[i].run # 0
  BY <1>0, <1>1, <1>2, <1>4
<1>7. ASSUME NEW u \in DOMAIN runs' \ DOMAIN runs
      PROVE  /\ \A v \in DOMAIN runs : v < u
             /\ runs'[u].event = p /\ runs'[u].pc = "queued" /\ runs'[u].nested = 0
             /\ DOMAIN runs'[u].queue = {}
             /\ \E i \in DOMAIN pubs'[p].tasks : pubs'[p].tasks[i].run = u
             /\ runs'[u].ctx.scope = IF pubs[p].ctx.scope = 0 THEN u ELSE pubs[p].ctx.scope
  <2> DEFINE k == u - Len(runs)
  <2>1. k \in 1 .. Len(q) /\ u = Len(runs) + k
    BY <1>0, <1>1, <1>3
  <2> HIDE DEF k
  <2>2. runs'[u] = Execution(p, tasks, q, k)
    BY <1>1, <2>1
  <2>3. DOMAIN <<>> = {}
    OBVIOUS
  <2>4. \A v \in DOMAIN runs : v < u
    BY <1>0, <1>3
  <2>5. q[k] \in DOMAIN pubs'[p].tasks /\ pubs'[p].tasks[q[k]].run = u
    BY <1>2, <1>4, <1>5, <2>1
  <2>6. /\ runs'[u].event = p /\ runs'[u].pc = "queued" /\ runs'[u].nested = 0
        /\ runs'[u].queue = <<>>
        /\ runs'[u].ctx.scope = IF pubs[p].ctx.scope = 0 THEN u ELSE pubs[p].ctx.scope
    BY <2>1, <2>2 DEF Execution
  <2> QED
    BY <2>3, <2>4, <2>5, <2>6
<1> QED
  BY <1>1, <1>2, <1>3, <1>5, <1>6, <1>7

LEMMA SchedulesWork ==
  ASSUME BaseOK, NEW p \in DOMAIN pubs, NEW tasks, NEW q, NEW pc,
         SchedulesTasks(p, tasks, q, pc),
         Entering(p) \/ ~AllDone(p), PubStep(p), \A r \in DOMAIN runs : RunStep(r)
  PROVE  WorkStep
<1>1. /\ PubsLast /\ RunsLast /\ DOMAIN pubs' = DOMAIN pubs
      /\ DOMAIN runs \subseteq DOMAIN runs'
      /\ \A o \in DOMAIN pubs : o # p => pubs'[o] = pubs[o]
      /\ \A u \in DOMAIN runs' \ DOMAIN runs :
           /\ \A v \in DOMAIN runs : v < u
           /\ runs'[u].event = p /\ runs'[u].pc = "queued" /\ runs'[u].nested = 0
           /\ DOMAIN runs'[u].queue = {}
           /\ \E i \in DOMAIN pubs'[p].tasks : pubs'[p].tasks[i].run = u
           /\ runs'[u].ctx.scope = IF pubs[p].ctx.scope = 0 THEN u ELSE pubs[p].ctx.scope
  BY SchedulesFacts
<1>2. \A o \in DOMAIN pubs : PubStep(o)
  BY <1>1, SamePub
<1>3. \A u \in DOMAIN runs' \ DOMAIN runs : NewRun(u)
  BY <1>1 DEF NewRun
<1> QED
  BY <1>1, <1>2, <1>3 DEF WorkStep

LEMMA StartsTaskWork ==
  ASSUME BaseOK, WorkOK, NEW r \in DOMAIN runs, StartsTask(r), runs[r].queue[1] \in DOMAIN pubs
  PROVE  WorkStep
<1> DEFINE p == runs[r].queue[1]
<1>1. PICK i \in DOMAIN pubs[p].tasks :
        /\ runs[r].pc = "tasks" /\ pubs[p].tasks[i].run = 0
        /\ SchedulesTasks(p, pubs[p].tasks, <<i>>, pubs[p].pc) /\ RunsKept
  BY DEF StartsTask
<1>2. p \in DOMAIN pubs /\ ~AllDone(p)
  BY <1>1 DEF AllDone
<1>3. pubs[p].pc = "ok"
  <2>1. runs[r].queue # <<>> /\ runs[r] \in RunSet
    BY <1>1 DEF BaseOK, DrainsOK, SagaTypeOK
  <2>2. 1 \in DOMAIN runs[r].queue
    BY <2>1 DEF RunSet
  <2> QED
    BY <2>2 DEF WorkOK, RunsOK, RunQueueOK
<1> HIDE DEF p
<1>4. ToSet(<<i>>) = {i}
  BY DEF ToSet
<1> DEFINE q == <<i>>
<1>5. SchedulesTasks(p, pubs[p].tasks, q, pubs[p].pc) /\ ToSet(q) = {i}
  BY <1>1, <1>4
<1> HIDE DEF q
<1>6. /\ pubs'[p].pc = pubs[p].pc /\ pubs'[p].delegated = pubs[p].delegated
      /\ DOMAIN pubs'[p].tasks = DOMAIN pubs[p].tasks
      /\ \A j \in DOMAIN pubs[p].tasks :
           j \notin {i} => pubs'[p].tasks[j] = pubs[p].tasks[j]
  BY <1>2, <1>5, SchedulesFacts
<1>7. PubStep(p)
  BY <1>1, <1>2, <1>3, <1>6 DEF PubStep, PubTasksStep, PubPcStep
<1>8. \A u \in DOMAIN runs : RunStep(u)
  BY <1>1, SameRun DEF RunsKept
<1> QED
  BY <1>2, <1>5, <1>7, <1>8, SchedulesWork

LEMMA EntersWork ==
  ASSUME BaseOK, WorkOK, NEW p \in DOMAIN pubs, EntersPlainly(p) \/ EntersAgain(p)
  PROVE  WorkStep
<1>0. Entering(p) /\ DOMAIN pubs[p].tasks = {}
  <2>1. Entering(p)
    BY DEF EntersPlainly, EntersAgain, Entering
  <2> QED
    BY <2>1 DEF Entering, WorkOK, PubsOK, PubTasksOK
<1>1. CASE EntersPlainly(p)
  <2>1. PICK q : /\ SchedulesTasks(p, NewTasks(p), q, "sagas") /\ RunsKept
                 /\ ToSet(q) = DOMAIN NewTasks(p)
    BY <1>1 DEF EntersPlainly
  <2>2. /\ pubs'[p].pc = "sagas" /\ pubs'[p].delegated = pubs[p].delegated
        /\ \A i \in DOMAIN pubs'[p].tasks : pubs'[p].tasks[i].run # 0
    BY <2>1, SchedulesFacts
  <2>3. PubStep(p)
    BY <1>0, <2>2 DEF PubStep, PubTasksStep, PubPcStep
  <2>4. \A u \in DOMAIN runs : RunStep(u)
    BY <2>1, SameRun DEF RunsKept
  <2> QED
    BY <1>0, <2>1, <2>3, <2>4, SchedulesWork
<1>2. CASE EntersAgain(p)
  <2> DEFINE s == pubs[p].ctx.scope
  <2>1. PICK q :
          /\ pubs[p].ctx.routes # <<>> /\ SchedulesTasks(p, NewTasks(p), q, "ok")
          /\ \A r \in DOMAIN runs :
               runs'[r].queue = IF r = s THEN Append(runs[r].queue, p) ELSE runs[r].queue
    BY <1>2 DEF EntersAgain
  <2>2. s # 0 /\ s \in DOMAIN runs
    BY <2>1 DEF BaseOK, PubContextOK
  <2>3. /\ pubs'[p].pc = "ok" /\ pubs'[p].delegated = pubs[p].delegated
        /\ DOMAIN pubs' = DOMAIN pubs /\ pubs'[p].ctx = pubs[p].ctx
    BY <2>1, SchedulesFacts DEF PubsLast
  <2>4. \A r \in DOMAIN runs : runs'[r].pc = runs[r].pc /\ runs'[r].nested = runs[r].nested
    BY <2>1 DEF SchedulesTasks
  <2>5. Queued(p, s)'
    <3>1. runs[s].queue \in Seq(Nat) /\ runs'[s].queue = Append(runs[s].queue, p)
      <4>1. runs[s] \in RunSet
        BY <2>2 DEF BaseOK, SagaTypeOK
      <4> QED
        BY <2>1, <2>2, <4>1 DEF RunSet
    <3>2. \A queue \in Seq(Nat) : \E i \in DOMAIN Append(queue, p) : Append(queue, p)[i] = p
      <4> TAKE queue \in Seq(Nat)
      <4>1. /\ Len(queue) + 1 \in DOMAIN Append(queue, p)
            /\ Append(queue, p)[Len(queue) + 1] = p
        OBVIOUS
      <4> QED
        BY <4>1
    <3> QED
      BY <2>3, <3>1, <3>2 DEF Queued
  <2>6. PubStep(p)
    BY <1>0, <2>2, <2>3, <2>5 DEF PubStep, PubTasksStep, PubPcStep
  <2>7. ASSUME NEW r \in DOMAIN runs PROVE RunStep(r)
    <3>1. RunQueueStep(r)
      BY <2>1, <2>3, <2>4 DEF RunQueueStep
    <3>2. RunNestedStep(r)
      BY <2>4 DEF RunNestedStep
    <3>3. RunPcStep(r)
      BY <2>4 DEF RunPcStep
    <3> QED
      BY <3>1, <3>2, <3>3 DEF RunStep
  <2> QED
    BY <1>0, <2>1, <2>6, <2>7, SchedulesWork
<1> QED
  BY <1>1, <1>2

LEMMA WorkSteps ==
  ASSUME BaseOK, WorkOK, SagaNext
  PROVE  WorkStep
  BY StepKinds, OutsideWork, NestedWork, PubMovesWork, EntersWork, StartsTaskWork,
     RunMovesWork, DelegatesWork, ShutdownWork DEF SagaKinds

-----------------------------------------------------------------------------
(* ... keeps the work in order                                             *)

LEMMA DoneStays ==
  ASSUME BaseOK, WorkStep, NEW p \in DOMAIN pubs, AllDone(p), ~Entering(p)
  PROVE  AllDone(p)' /\ (Handed(p) => Handed(p)')
<1>1. pubs'[p].tasks = pubs[p].tasks
  BY DEF WorkStep, PubStep, PubTasksStep
<1>2. \A i \in DOMAIN pubs[p].tasks :
        pubs[p].tasks[i].run # 0 => pubs[p].tasks[i].run \in DOMAIN runs
  BY DEF BaseOK, SagaTypeOK, LinksOK
<1>3. \A r \in DOMAIN runs : runs[r].pc = "done" => runs'[r].pc = "done"
  BY DEF WorkStep, RunStep, RunPcStep, Ended
<1>4. AllDone(p)'
  BY <1>1, <1>2, <1>3 DEF AllDone
<1>5. pubs'[p].direct = pubs[p].direct /\ (pubs[p].delegated => pubs'[p].delegated)
  BY DEF WorkStep, PubsLast, PubStep
<1> QED
  BY <1>4, <1>5 DEF Handed

LEMMA ContinuedStays ==
  ASSUME BaseOK, WorkOK, WorkStep, NEW p \in DOMAIN pubs, pubs[p].pc = "ok"
  PROVE  Continued(p) => Continued(p)' \/ Handed(p)'
<1> DEFINE s == pubs[p].ctx.scope
<1> SUFFICES ASSUME Continued(p) PROVE Continued(p)' \/ Handed(p)'
  OBVIOUS
<1>1. /\ s # 0 /\ s \in DOMAIN runs /\ runs[s].owns /\ pubs'[p].ctx.scope = s
      /\ Queued(p, s) \/ runs[s].pc = "failed"
  BY DEF Continued, BaseOK, PubContextOK, WorkStep, PubsLast
<1>2. RunStep(s) /\ RunQueueStep(s) /\ (Ended(runs[s]) => runs'[s].pc = runs[s].pc)
      /\ runs[s].queue \in Seq(Nat)
  <2>1. runs[s] \in RunSet
    BY <1>1 DEF BaseOK, SagaTypeOK
  <2> QED
    BY <1>1, <2>1 DEF WorkStep, RunStep, RunPcStep, RunSet
<1>3. CASE runs[s].pc = "failed"
  BY <1>1, <1>2, <1>3 DEF Continued, Ended
<1>4. CASE Queued(p, s)
  <2>1. PICK i \in DOMAIN runs[s].queue : runs[s].queue[i] = p
    BY <1>4 DEF Queued
  <2>2. CASE runs'[s].queue = runs[s].queue
    BY <1>1, <2>1, <2>2 DEF Continued, Queued
  <2>3. ASSUME NEW o, runs'[s].queue = Append(runs[s].queue, o) PROVE Continued(p)'
    <3>1. i \in DOMAIN Append(runs[s].queue, o) /\ Append(runs[s].queue, o)[i] = p
      BY <1>2, <2>1
    <3> QED
      BY <1>1, <2>3, <3>1 DEF Continued, Queued
  <2>4. CASE /\ runs[s].pc = "delegate" /\ runs[s].queue # <<>>
             /\ runs'[s].queue = Tail(runs[s].queue) /\ pubs'[runs[s].queue[1]].delegated
    <3>1. CASE i = 1
      <4>1. AllDone(p) /\ ~Entering(p) /\ pubs'[p].delegated
        BY <1>1, <2>1, <2>4, <3>1 DEF WorkOK, RunsOK, RunQueueOK, Entering
      <4> QED
        BY <4>1, DoneStays DEF Handed
    <3>2. CASE i # 1
      <4>1. i - 1 \in DOMAIN Tail(runs[s].queue) /\ Tail(runs[s].queue)[i - 1] = p
        <5>1. \A queue \in Seq(Nat) : \A j \in DOMAIN queue : j # 1 =>
                j - 1 \in DOMAIN Tail(queue) /\ Tail(queue)[j - 1] = queue[j]
          OBVIOUS
        <5> QED
          BY <5>1, <1>2, <2>1, <3>2
      <4> QED
        BY <1>1, <2>4, <4>1 DEF Continued, Queued
    <3> QED
      BY <3>1, <3>2
  <2>5. CASE runs'[s].pc = "failed"
    BY <1>1, <2>5 DEF Continued
  <2>6. CASE runs[s].queue = <<>>
    BY <2>1, <2>6
  <2> QED
    BY <1>1, <1>2, <2>2, <2>3, <2>4, <2>5, <2>6 DEF RunQueueStep
<1> QED
  BY <1>1, <1>3, <1>4

LEMMA PubsKept ==
  ASSUME BaseOK, WorkOK, WorkStep
  PROVE  PubsOK'
<1>1. ASSUME NEW p \in DOMAIN pubs' \ DOMAIN pubs PROVE PubTasksOK(p)' /\ FromRun(p)'
  <2>1. NewPub(p) /\ DOMAIN runs \subseteq DOMAIN runs'
    BY <1>1 DEF WorkStep
  <2> QED
    BY <2>1 DEF NewPub, PubTasksOK, FromRun
<1>2. ASSUME NEW p \in DOMAIN pubs PROVE FromRun(p)'
  <2> SUFFICES ASSUME pubs'[p].ctx.scope # 0 PROVE \E r \in DOMAIN runs' : runs'[r].nested = p
    BY DEF FromRun
  <2>1. PICK r \in DOMAIN runs : runs[r].nested = p
    BY DEF WorkStep, PubsLast, WorkOK, PubsOK, FromRun
  <2>2. runs[r].pc # "queued"
    <3>1. p # 0
      BY DEF BaseOK, SagaTypeOK
    <3> QED
      BY <2>1, <3>1 DEF WorkOK, RunsOK, RunNestedOK
  <2>3. runs'[r].nested = p /\ r \in DOMAIN runs'
    BY <2>1, <2>2 DEF WorkStep, RunStep, RunNestedStep
  <2> QED
    BY <2>3
<1>3. ASSUME NEW p \in DOMAIN pubs PROVE PubTasksOK(p)'
  <2>0. /\ pubs'[p].direct = pubs[p].direct /\ pubs'[p].ctx = pubs[p].ctx
        /\ PubPcStep(p) /\ PubTasksStep(p) /\ PubTasksOK(p)
    BY DEF WorkStep, PubsLast, PubStep, WorkOK, PubsOK
  <2>1. CASE pubs'[p].pc = pubs[p].pc
    <3>1. CASE pubs[p].pc \in {"handlers", "enter", "sagas"}
      <4>1. pubs'[p].tasks = pubs[p].tasks
        BY <2>0, <2>1, <3>1 DEF PubPcStep, Settled, Entering
      <4> QED
        BY <2>0, <2>1, <3>1, <4>1 DEF PubTasksOK
    <3>2. CASE pubs[p].pc = "after"
      <4>1. AllDone(p)'
        BY <2>0, <3>2, DoneStays DEF PubTasksOK, Entering
      <4> QED
        BY <2>0, <2>1, <3>2, <4>1 DEF PubTasksOK
    <3>3. CASE pubs[p].pc = "ok"
      <4>1. Handed(p)' \/ Continued(p)'
        BY <2>0, <3>3, DoneStays, ContinuedStays DEF PubTasksOK, Entering, Handed
      <4> QED
        BY <2>0, <2>1, <3>3, <4>1 DEF PubTasksOK
    <3>4. CASE pubs[p].pc = "failed"
      BY <2>0, <2>1, <3>4 DEF PubTasksOK
    <3>5. pubs[p].pc \in PubPc
      <4>1. pubs[p] \in PubSet
        BY DEF BaseOK, SagaTypeOK
      <4> QED
        BY <4>1 DEF PubSet
    <3> QED
      BY <3>1, <3>2, <3>3, <3>4, <3>5 DEF PubPc
  <2>2. CASE pubs'[p].pc = "failed"
    BY <2>0, <2>2 DEF PubTasksOK
  <2>3. CASE pubs'[p].pc = "sagas" /\ \A i \in DOMAIN pubs'[p].tasks : pubs'[p].tasks[i].run # 0
    BY <2>0, <2>3 DEF PubTasksOK
  <2>4. CASE /\ pubs[p].pc = "sagas" /\ pubs'[p].pc = "after" /\ ~pubs[p].direct
             /\ AllDone(p)
    <3>1. AllDone(p)'
      BY <2>4, DoneStays DEF Entering
    <3> QED
      BY <2>0, <2>4, <3>1 DEF PubTasksOK
  <2>5. CASE /\ pubs[p].pc \in {"sagas", "after"} /\ pubs'[p].pc = "ok"
             /\ AllDone(p) /\ (pubs[p].direct \/ pubs'[p].delegated)
    <3>1. AllDone(p)'
      BY <2>5, DoneStays DEF Entering
    <3> QED
      BY <2>0, <2>5, <3>1 DEF PubTasksOK, Handed
  <2>6. CASE /\ pubs'[p].pc = "ok" /\ pubs[p].ctx.scope # 0
             /\ Queued(p, pubs[p].ctx.scope)'
    <3>1. Continued(p)'
      BY <2>0, <2>6 DEF Continued
    <3> QED
      BY <2>0, <2>6, <3>1 DEF PubTasksOK
  <2> QED
    BY <2>0, <2>1, <2>2, <2>3, <2>4, <2>5, <2>6 DEF PubPcStep
<1> QED
  BY <1>1, <1>2, <1>3 DEF PubsOK

LEMMA RunsKeptOK ==
  ASSUME BaseOK, WorkOK, WorkStep
  PROVE  RunsOK'
<1>0. /\ \A r \in DOMAIN runs : runs[r].event \in DOMAIN pubs /\ runs[r].nested \in 0 .. Len(pubs)
      /\ Len(pubs) \in Nat /\ DOMAIN pubs = 1 .. Len(pubs)
  BY DEF BaseOK, SagaTypeOK, LinksOK
<1>1. ASSUME NEW r \in DOMAIN runs PROVE IsTask(r)'
  <2> DEFINE e == runs[r].event
  <2>1. e \in DOMAIN pubs /\ runs'[r].event = e /\ r # 0
    BY <1>0 DEF WorkStep, RunsLast, BaseOK, SagaTypeOK
  <2>2. PICK i \in DOMAIN pubs[e].tasks : pubs[e].tasks[i].run = r
    BY DEF WorkOK, RunsOK, IsTask
  <2> HIDE DEF e
  <2>3. i \in DOMAIN pubs'[e].tasks /\ pubs'[e].tasks[i].run = r
    BY <2>1, <2>2 DEF WorkStep, PubStep, PubTasksStep
  <2> QED
    BY <2>1, <2>3 DEF IsTask
<1>2. ASSUME NEW r \in DOMAIN runs PROVE RunNestedOK(r)'
  <2> DEFINE n == runs[r].nested
  <2>0. /\ RunNestedStep(r) /\ RunNestedOK(r) /\ runs'[r].ctx = runs[r].ctx
        /\ \A u \in DOMAIN runs' \ DOMAIN runs : (\A v \in DOMAIN runs : v < u)
        /\ \A u \in DOMAIN runs' \ DOMAIN runs : runs'[u].event \in DOMAIN pubs
        /\ \A u \in DOMAIN runs : runs'[u].event = runs[u].event
    BY DEF WorkStep, RunStep, WorkOK, RunsOK, RunsLast, NewRun
  <2>1. CASE /\ runs'[r].nested = n
             /\ runs'[r].pc = "queued" => runs[r].pc = "queued"
             /\ runs[r].pc = "nested" /\ runs'[r].pc # "nested" => Settled(pubs[n])
    <3>1. runs'[r].pc = "queued" => n = 0
      BY <2>0, <2>1 DEF RunNestedOK
    <3>2. ASSUME n # 0
          PROVE  /\ pubs'[n].ctx.scope = runs[r].ctx.scope
                 /\ ~Settled(pubs'[n]) => runs'[r].pc = "nested"
                 /\ \A u \in DOMAIN runs' : runs'[u].event = n => r < u
      <4>1. n \in DOMAIN pubs
        BY <1>0, <3>2
      <4>2. pubs'[n].ctx = pubs[n].ctx /\ (Settled(pubs[n]) => Settled(pubs'[n]))
        <5>1. pubs'[n].ctx = pubs[n].ctx /\ PubPcStep(n)
          BY <4>1 DEF WorkStep, PubsLast, PubStep
        <5> QED
          BY <5>1 DEF PubPcStep, Settled, Entering
      <4>3. ~Settled(pubs'[n]) => runs'[r].pc = "nested"
        BY <2>0, <2>1, <3>2, <4>2 DEF RunNestedOK
      <4>4. \A u \in DOMAIN runs' : runs'[u].event = n => r < u
        BY <2>0, <3>2 DEF RunNestedOK
      <4> QED
        BY <2>0, <3>2, <4>2, <4>3, <4>4 DEF RunNestedOK
    <3> QED
      BY <2>0, <2>1, <3>1, <3>2 DEF RunNestedOK
  <2>2. CASE /\ runs[r].pc = "queued" /\ runs'[r].pc = "nested"
             /\ runs'[r].nested \in DOMAIN pubs' \ DOMAIN pubs
             /\ pubs'[runs'[r].nested].ctx.scope = runs[r].ctx.scope
    <3>1. \A u \in DOMAIN runs' : runs'[u].event # runs'[r].nested
      BY <1>0, <2>0, <2>2
    <3> QED
      BY <2>0, <2>2, <3>1 DEF RunNestedOK
  <2> QED
    BY <2>0, <2>1, <2>2 DEF RunNestedStep
<1>3. ASSUME NEW r \in DOMAIN runs PROVE RunQueueOK(r)'
  <2>0. /\ RunQueueStep(r) /\ RunPcStep(r) /\ RunQueueOK(r) /\ runs[r].queue \in Seq(Nat)
        /\ \A i \in DOMAIN runs[r].queue : runs[r].queue[i] \in DOMAIN pubs
        /\ runs[r].pc = "delegate" => runs[r].queue # <<>>
    <3>1. runs[r] \in RunSet
      BY DEF BaseOK, SagaTypeOK
    <3>2. \A i \in DOMAIN runs[r].queue : runs[r].queue[i] \in DOMAIN pubs
      BY DEF BaseOK, SagaTypeOK, LinksOK
    <3> QED
      BY <3>1, <3>2 DEF WorkStep, RunStep, WorkOK, RunsOK, RunSet, BaseOK, DrainsOK
  <2>1. ASSUME NEW p \in DOMAIN pubs, pubs[p].ctx.scope = r, pubs[p].pc = "ok" \/ pubs'[p].pc = "ok"
        PROVE  pubs'[p].ctx.scope = r /\ pubs'[p].pc = "ok"
    BY <2>1 DEF WorkStep, PubsLast, PubStep, PubPcStep, Settled, Entering
  <2>2. \A i \in DOMAIN runs[r].queue :
          /\ pubs'[runs[r].queue[i]].ctx.scope = r
          /\ pubs'[runs[r].queue[i]].pc = "ok"
    BY <2>0, <2>1 DEF RunQueueOK
  <2>3. \A i \in DOMAIN runs'[r].queue :
          /\ pubs'[runs'[r].queue[i]].ctx.scope = r
          /\ pubs'[runs'[r].queue[i]].pc = "ok"
    <3>1. CASE runs'[r].queue = runs[r].queue
      BY <2>2, <3>1
    <3>2. ASSUME NEW p \in DOMAIN pubs, runs'[r].queue = Append(runs[r].queue, p),
                 pubs[p].ctx.scope = r, pubs'[p].pc = "ok"
          PROVE  \A i \in DOMAIN runs'[r].queue :
                   /\ pubs'[runs'[r].queue[i]].ctx.scope = r
                   /\ pubs'[runs'[r].queue[i]].pc = "ok"
      <4>1. \A i \in DOMAIN Append(runs[r].queue, p) :
              \/ Append(runs[r].queue, p)[i] = p
              \/ i \in DOMAIN runs[r].queue /\ Append(runs[r].queue, p)[i] = runs[r].queue[i]
        BY <2>0
      <4> QED
        BY <2>1, <2>2, <3>2, <4>1
    <3>3. CASE runs'[r].queue = Tail(runs[r].queue) /\ runs[r].queue # <<>>
      <4>1. \A i \in DOMAIN Tail(runs[r].queue) :
              i + 1 \in DOMAIN runs[r].queue /\ Tail(runs[r].queue)[i] = runs[r].queue[i + 1]
        BY <2>0, <3>3
      <4> QED
        BY <2>2, <3>3, <4>1
    <3>4. CASE runs'[r].queue = <<>>
      BY <3>4
    <3> QED
      BY <2>0, <3>1, <3>2, <3>3, <3>4 DEF RunQueueStep
  <2>4. ASSUME runs'[r].pc = "delegate", NEW p, p = runs'[r].queue[1] PROVE AllDone(p)'
    <3> DEFINE head == runs[r].queue[1]
    <3>1. /\ runs[r].pc \in {"tasks", "delegate"} /\ AllDone(head)
          /\ \/ runs'[r].queue = runs[r].queue
             \/ \E o \in DOMAIN pubs : runs'[r].queue = Append(runs[r].queue, o)
      BY <2>0, <2>4 DEF RunPcStep, RunQueueStep, RunQueueOK
    <3>2. runs[r].queue # <<>> /\ 1 \in DOMAIN runs[r].queue
      BY <2>0, <3>1 DEF BaseOK, DrainsOK
    <3>3. head \in DOMAIN pubs /\ ~Entering(head)
      BY <2>0, <3>2 DEF RunQueueOK, Entering
    <3>4. p = head
      <4>1. \A o : 1 \in DOMAIN runs[r].queue => Append(runs[r].queue, o)[1] = head
        BY <2>0
      <4> QED
        BY <2>4, <3>1, <3>2, <4>1
    <3> HIDE DEF head
    <3> QED
      BY <3>1, <3>3, <3>4, DoneStays
  <2> QED
    BY <2>3, <2>4 DEF RunQueueOK, AllDone
<1>4. ASSUME NEW r \in DOMAIN runs' \ DOMAIN runs
      PROVE  IsTask(r)' /\ RunNestedOK(r)' /\ RunQueueOK(r)'
  BY <1>4 DEF WorkStep, NewRun, IsTask, RunNestedOK, RunQueueOK
<1> QED
  BY <1>1, <1>2, <1>3, <1>4 DEF RunsOK

\* What is clean was clean before: failures are for good.
LEMMA CleanBefore ==
  ASSUME BaseOK, WorkStep, NEW s \in DOMAIN runs, Clean(s)'
  PROVE  Clean(s)
<1>1. ASSUME NEW r \in DOMAIN runs, InScope(r, s) PROVE runs[r].pc # "failed"
  <2>1. r \in DOMAIN runs' /\ runs'[r].ctx.scope = s /\ RunPcStep(r)
    BY <1>1 DEF WorkStep, RunsLast, RunStep, InScope
  <2>2. runs'[r].pc # "failed"
    BY <2>1 DEF Clean, InScope
  <2> QED
    BY <2>1, <2>2 DEF RunPcStep, Ended
<1>2. ASSUME NEW p \in DOMAIN pubs, PubInScope(p, s) PROVE pubs[p].pc # "failed"
  <2>1. p \in DOMAIN pubs' /\ pubs'[p].ctx.scope = s /\ PubPcStep(p)
    BY <1>2 DEF WorkStep, PubsLast, PubStep, PubInScope
  <2>2. pubs'[p].pc # "failed"
    BY <2>1 DEF Clean, PubInScope
  <2> QED
    BY <2>1, <2>2 DEF PubPcStep, Settled, Entering
<1> QED
  BY <1>1, <1>2 DEF Clean

\* A scope that is over stays so: nobody is left to add to it.
LEMMA ScopeStays ==
  ASSUME BaseOK, WorkOK, WorkStep, NEW s \in DOMAIN runs, runs[s].owns, runs[s].pc = "done",
         Clean(s)'
  PROVE  ScopeOK(s)'
<1>0. /\ \A r \in DOMAIN runs : InScope(r, s) => runs[r].pc = "done"
      /\ \A p \in DOMAIN pubs : PubInScope(p, s) => pubs[p].pc = "ok" /\ Handed(p)
      /\ s # 0
  BY CleanBefore DEF WorkOK, ScopesOK, ScopeOK, BaseOK, SagaTypeOK
<1>1. ASSUME NEW r \in DOMAIN runs', InScope(r, s)' PROVE runs'[r].pc = "done"
  <2>1. CASE r \in DOMAIN runs
    <3>1. runs[r].pc = "done"
      BY <1>0, <1>1, <2>1 DEF WorkStep, RunsLast, InScope
    <3> QED
      BY <2>1, <3>1 DEF WorkStep, RunStep, RunPcStep, Ended
  <2>2. CASE r \notin DOMAIN runs
    <3> DEFINE e == runs'[r].event
    <3>1. /\ e \in DOMAIN pubs /\ (Entering(e) \/ ~AllDone(e))
          /\ runs'[r].ctx.scope = IF pubs[e].ctx.scope = 0 THEN r ELSE pubs[e].ctx.scope
      BY <2>2 DEF WorkStep, NewRun
    <3>2. runs'[r].ctx.scope = s /\ r # s
      BY <1>1, <2>2 DEF InScope
    <3>3. PubInScope(e, s)
      BY <3>1, <3>2 DEF PubInScope
    <3> QED
      BY <1>0, <3>1, <3>3 DEF Entering, Handed
  <2> QED
    BY <2>1, <2>2
<1>2. ASSUME NEW p \in DOMAIN pubs', PubInScope(p, s)' PROVE pubs'[p].pc = "ok" /\ Handed(p)'
  <2>1. CASE p \in DOMAIN pubs
    <3>1. pubs[p].pc = "ok" /\ Handed(p)
      BY <1>0, <1>2, <2>1 DEF WorkStep, PubsLast, PubInScope
    <3>2. AllDone(p) /\ ~Entering(p)
      BY <3>1 DEF Handed, Entering
    <3>3. pubs'[p].pc = "ok"
      BY <2>1, <3>1 DEF WorkStep, PubStep, PubPcStep, Settled, Entering
    <3> QED
      BY <2>1, <3>1, <3>2, <3>3, DoneStays
  <2>2. CASE p \notin DOMAIN pubs
    <3>1. PICK r \in DOMAIN runs : runs'[r].nested = p
      BY <1>0, <1>2, <2>2 DEF WorkStep, NewPub, PubInScope
    <3>2. runs[r].nested # p
      <4>1. runs[r].nested \in 0 .. Len(pubs) /\ DOMAIN pubs = 1 .. Len(pubs) /\ Len(pubs) \in Nat
        BY DEF BaseOK, SagaTypeOK, LinksOK
      <4>2. p # 0
        BY <2>2 DEF WorkStep, NewPub
      <4> QED
        BY <2>2, <4>1, <4>2
    <3>3. runs[r].pc = "queued" /\ runs[r].ctx.scope = s
      BY <1>2, <3>1, <3>2 DEF WorkStep, RunStep, RunNestedStep, PubInScope
    <3> QED
      BY <1>0, <3>3 DEF InScope
  <2> QED
    BY <2>1, <2>2
<1> QED
  BY <1>1, <1>2 DEF ScopeOK

\* An execution that owns its scope ends when nothing is left in it: the first
\* one that is not done would be the task of a publication that an earlier one
\* has awaited, and that has been handed over with all its tasks.
LEMMA ScopeEnds ==
  ASSUME BaseOK, WorkOK, WorkStep, NEW s \in DOMAIN runs, runs[s].owns, runs[s].pc # "done",
         runs'[s].pc = "done", Clean(s)'
  PROVE  ScopeOK(s)'
<1>0. /\ runs[s].pc = "drain" /\ runs[s].queue = <<>> /\ UNCHANGED pubs
      /\ \A u \in DOMAIN runs : u # s => runs'[u] = runs[u]
      /\ DOMAIN runs' = DOMAIN runs /\ DOMAIN runs \subseteq Nat /\ s # 0
      /\ \A u \in DOMAIN runs : runs'[u].ctx = runs[u].ctx
  BY DEF WorkStep, RunsLast, RunStep, RunPcStep, BaseOK, SagaTypeOK
<1>1. Clean(s)
  BY CleanBefore
\* What an execution of the scope that is done has published is handed over.
<1>2. ASSUME NEW p \in DOMAIN pubs, PubInScope(p, s), NEW r \in DOMAIN runs, runs[r].nested = p,
             runs'[r].pc = "done"
      PROVE  pubs[p].pc = "ok" /\ Handed(p)
  <2>1. runs[r].pc # "nested" /\ p # 0
    BY <1>0, <1>2 DEF BaseOK, SagaTypeOK
  <2>2. Settled(pubs[p])
    BY <1>2, <2>1 DEF WorkOK, RunsOK, RunNestedOK
  <2>3. pubs[p].pc = "ok"
    BY <1>1, <1>2, <2>2 DEF Clean, Settled
  <2>4. ~Continued(p)
    BY <1>0, <1>2 DEF Continued, Queued, PubInScope
  <2> QED
    BY <1>2, <2>3, <2>4 DEF WorkOK, PubsOK, PubTasksOK
<1>3. \A r \in DOMAIN runs : InScope(r, s) => runs'[r].pc = "done"
  <2> DEFINE Open == {r \in DOMAIN runs : InScope(r, s) /\ runs'[r].pc # "done"}
  <2> SUFFICES ASSUME Open # {} PROVE FALSE
    OBVIOUS
  <2>1. PICK r \in Open : \A u \in Open : r <= u
    BY <1>0, Least
  <2> DEFINE e == runs[r].event
  <2>2. r \in DOMAIN runs /\ runs[r].ctx.scope = s /\ r # s /\ runs[r].pc # "done"
    BY <1>0, <2>1 DEF InScope
  <2>3. e \in DOMAIN pubs /\ ~runs[r].owns
    BY <2>2, ScopeFacts DEF BaseOK, SagaTypeOK, LinksOK
  <2>4. pubs[e].ctx.scope = s
    BY <2>2, <2>3 DEF BaseOK, RunContextOK
  <2>5. PICK u \in DOMAIN runs : runs[u].nested = e
    BY <1>0, <2>3, <2>4 DEF WorkOK, PubsOK, FromRun
  <2>6. runs[u].ctx.scope = s /\ u < r
    <3>1. e # 0
      BY <2>3 DEF BaseOK, SagaTypeOK
    <3> QED
      BY <2>2, <2>4, <2>5, <3>1 DEF WorkOK, RunsOK, RunNestedOK
  <2>7. runs'[u].pc = "done"
    <3>1. u \notin Open
      BY <1>0, <2>1, <2>2, <2>6
    <3> QED
      BY <2>6, <3>1 DEF InScope
  <2>8. AllDone(e)
    BY <1>2, <2>3, <2>4, <2>5, <2>7 DEF Handed, PubInScope
  <2>9. runs[r].pc = "done"
    BY <2>2, <2>8 DEF WorkOK, RunsOK, IsTask, AllDone
  <2> QED
    BY <2>2, <2>9
<1>4. ASSUME NEW p \in DOMAIN pubs, PubInScope(p, s) PROVE pubs'[p].pc = "ok" /\ Handed(p)'
  <2>1. PICK r \in DOMAIN runs : runs[r].nested = p
    BY <1>0, <1>4 DEF WorkOK, PubsOK, FromRun, PubInScope
  <2>2. runs[r].ctx.scope = s
    <3>1. p # 0
      BY DEF BaseOK, SagaTypeOK
    <3> QED
      BY <1>4, <2>1, <3>1 DEF WorkOK, RunsOK, RunNestedOK, PubInScope
  <2>3. pubs[p].pc = "ok" /\ Handed(p)
    BY <1>2, <1>3, <1>4, <2>1, <2>2 DEF InScope
  <2>4. Handed(p)'
    BY <2>3, DoneStays DEF Handed, Entering
  <2> QED
    BY <1>0, <2>3, <2>4
<1> QED
  BY <1>0, <1>3, <1>4 DEF ScopeOK, InScope, PubInScope

LEMMA ScopesKept ==
  ASSUME BaseOK, WorkOK, WorkStep
  PROVE  ScopesOK'
<1> SUFFICES ASSUME NEW s \in DOMAIN runs', runs'[s].owns, runs'[s].pc = "done", Clean(s)'
             PROVE  ScopeOK(s)'
  BY DEF ScopesOK, ScopeOK
<1>1. s \in DOMAIN runs
  BY DEF WorkStep, NewRun
<1>2. runs[s].owns
  BY <1>1 DEF WorkStep, RunsLast
<1> QED
  BY <1>1, <1>2, ScopeStays, ScopeEnds

LEMMA WorkHolds == SagaSpec => []WorkOK
<1>1. SagaInit => WorkOK
  <2> SUFFICES ASSUME SagaInit PROVE WorkOK
    OBVIOUS
  <2>1. DOMAIN pubs = {} /\ DOMAIN runs = {}
    BY DEF SagaInit
  <2> QED
    BY <2>1 DEF WorkOK, PubsOK, RunsOK, ScopesOK
<1>2. BaseOK /\ WorkOK /\ [SagaNext]_sagaVars => WorkOK'
  <2>1. ASSUME BaseOK, WorkOK, WorkStep PROVE WorkOK'
    BY <2>1, PubsKept, RunsKeptOK, ScopesKept DEF WorkOK
  <2>2. ASSUME UNCHANGED sagaVars PROVE WorkStep
    <3>1. UNCHANGED <<pubs, runs>>
      BY <2>2 DEF sagaVars
    <3> QED
      BY <3>1, SamePub, SameRun, MovesWork DEF PubsLast, RunsLast
  <2> QED
    BY <2>1, <2>2, WorkSteps
<1> QED
  BY <1>1, <1>2, BaseHolds, PTL DEF SagaSpec

\* A publication that opened a context and resolves, with no failure beneath
\* it, has seen everything published with that context handled and handed on
\* (saga-bus.ts, runDispatch(), drainSagaContinuations()).
THEOREM OuterPublishWaits == SagaSpec => []OuterWaits
<1>1. ASSUME BaseOK, WorkOK PROVE OuterWaits
  <2> SUFFICES ASSUME NEW p \in DOMAIN pubs,
                      pubs[p].ctx.root = p, pubs[p].ctx.scope = 0, pubs[p].pc = "ok",
                      \A q \in TreePubs(p) : pubs[q].pc # "failed",
                      \A r \in TreeRuns(p) : runs[r].pc # "failed"
               PROVE  /\ \A q \in TreePubs(p) : pubs[q].delegated
                      /\ \A r \in TreeRuns(p) : runs[r].pc = "done"
    BY DEF OuterWaits
  <2>0. p # 0 /\ p \in Nat
    BY <1>1 DEF BaseOK, SagaTypeOK
  <2>1. AllDone(p) /\ pubs[p].delegated
    BY <1>1, <2>0 DEF BaseOK, PubContextOK, WorkOK, PubsOK, PubTasksOK, Handed, Continued
  \* Each scope below p is that of a task of p, and is over.
  <2>2. ASSUME NEW s \in DOMAIN runs, runs[s].owns, runs[s].ctx.root = p
        PROVE  /\ \A r \in DOMAIN runs : InScope(r, s) => runs[r].pc = "done"
               /\ \A q \in DOMAIN pubs : PubInScope(q, s) => pubs[q].delegated
    <3> DEFINE e == runs[s].event
    <3>1. e \in DOMAIN pubs /\ pubs[e].ctx.scope = 0 /\ pubs[e].ctx.root = p
      BY <1>1, <2>2 DEF BaseOK, RunContextOK, SagaTypeOK, LinksOK
    <3>2. e = p
      BY <1>1, <2>0, <3>1 DEF BaseOK, PubContextOK
    <3>3. runs[s].pc = "done"
      BY <1>1, <2>1, <2>2, <3>2 DEF WorkOK, RunsOK, IsTask, AllDone
    <3>4. s # 0
      BY <1>1 DEF BaseOK, SagaTypeOK
    <3>5. ASSUME NEW r \in DOMAIN runs, InScope(r, s) PROVE r \in TreeRuns(p)
      <4>1. runs[r].ctx.root = p
        BY <1>1, <2>0, <2>2, <3>5, ScopeFacts DEF InScope
      <4> QED
        BY <4>1 DEF TreeRuns
    <3>6. ASSUME NEW q \in DOMAIN pubs, PubInScope(q, s) PROVE q \in TreePubs(p) /\ ~pubs[q].direct
      BY <1>1, <2>0, <2>2, <3>4, <3>6 DEF PubInScope, BaseOK, PubContextOK, TreePubs
    <3>7. Clean(s)
      BY <3>5, <3>6 DEF Clean
    <3>8. ScopeOK(s)
      BY <1>1 DEF WorkOK, ScopesOK
    <3> QED
      BY <2>2, <3>3, <3>6, <3>7, <3>8 DEF ScopeOK, Handed
  <2>3. ASSUME NEW r \in TreeRuns(p) PROVE runs[r].pc = "done"
    <3> DEFINE s == runs[r].ctx.scope
    <3>1. r \in DOMAIN runs /\ runs[r].ctx.root = p
      BY DEF TreeRuns
    <3>2. s \in DOMAIN runs /\ runs[s].owns /\ runs[s].ctx.root = p
      BY <1>1, <2>0, <3>1, ScopeFacts
    <3> QED
      BY <2>2, <3>1, <3>2 DEF InScope
  <2>4. ASSUME NEW q \in TreePubs(p) PROVE pubs[q].delegated
    <3> DEFINE s == pubs[q].ctx.scope
    <3>1. q \in DOMAIN pubs /\ pubs[q].ctx.root = p /\ PubContextOK(q)
      BY <1>1 DEF TreePubs, BaseOK
    <3>2. CASE s = 0
      BY <2>0, <2>1, <3>1, <3>2 DEF PubContextOK
    <3>3. CASE s # 0
      <4>1. s \in DOMAIN runs /\ runs[s].owns /\ runs[s].ctx.root = p
        BY <3>1, <3>3 DEF PubContextOK
      <4> QED
        BY <2>2, <3>1, <4>1 DEF PubInScope
    <3> QED
      BY <3>2, <3>3
  <2> QED
    BY <2>3, <2>4
<1> QED
  BY <1>1, BaseHolds, WorkHolds, PTL

-----------------------------------------------------------------------------
(* The shutdown                                                            *)

\* Where the two services are while a hook runs, and what its drain has left.
LifeOK ==
  /\ hook = "none" => eventState = "ready" /\ sagaState = "ready"
  /\ hook = "events" => eventState = "stopping" /\ sagaState = "stopping"
  /\ hook = "sagas" => eventState = "stopped" /\ sagaState = "stopping"
  /\ hook = "over" => eventState = "stopped" /\ sagaState = "stopped"
  /\ ~timedOut /\ hook \in {"sagas", "over"} =>
       \A p \in DOMAIN pubs : pubs[p].direct \/ Settled(pubs[p])
  /\ ~timedOut /\ hook = "over" => \A p \in DOMAIN pubs : Settled(pubs[p])

\* A settled publication remains settled.
LEMMA SettledStays ==
  ASSUME WorkStep, NEW p \in DOMAIN pubs, Settled(pubs[p])
  PROVE  Settled(pubs'[p])
  BY DEF WorkStep, PubStep, PubPcStep, Settled, Entering

\* Nothing pending and nothing active: all is settled.
LEMMA AllSettled ==
  ASSUME BaseOK, WorkOK
  PROVE  /\ ActivePipelines(pubs) = {} =>
              \A p \in DOMAIN pubs : pubs[p].direct \/ Settled(pubs[p])
         /\ ActivePipelines(pubs) = {} /\ PendingDispatches(pubs) = {} =>
              \A p \in DOMAIN pubs : Settled(pubs[p])
<1>1. \A p \in DOMAIN pubs : pubs[p].direct => pubs[p].pc \in {"enter", "sagas", "ok", "failed"}
  BY DEF WorkOK, PubsOK, PubTasksOK
<1> QED
  BY <1>1 DEF ActivePipelines, PendingDispatches, Settled

\* Only the shutdown moves the services.
LEMMA StopVarsStep ==
  ASSUME BaseOK, SagaNext
  PROVE  UNCHANGED stopVars \/ ShutdownSteps
  BY StepKinds DEF SagaKinds, AdmittedOutside, AdmittedNested, Admitted, PubMoves,
     EntersPlainly, EntersAgain, StartsTask, SchedulesTasks, RunMoves, Delegates, Elsewhere

LEMMA LifeStep ==
  ASSUME BaseOK, WorkOK, LifeOK, SagaNext
  PROVE  LifeOK'
<1>0. WorkStep /\ hook \in {"none", "events", "sagas", "over"}
  BY WorkSteps DEF BaseOK, SagaTypeOK
<1>1. CASE UNCHANGED stopVars
  <2>1. UNCHANGED <<eventState, sagaState, hook, timedOut>>
    BY <1>1 DEF stopVars
  <2>2. ASSUME NEW p \in DOMAIN pubs' \ DOMAIN pubs PROVE hook \notin {"sagas", "over"}
    <3>1. sagaState = "ready" \/ eventState # "stopped"
      BY <1>0 DEF WorkStep, NewPub
    <3> QED
      BY <3>1 DEF LifeOK
  <2>3. hook \in {"sagas", "over"} => DOMAIN pubs' = DOMAIN pubs
    BY <1>0, <2>2 DEF WorkStep
  <2>4. \A p \in DOMAIN pubs : /\ pubs'[p].direct = pubs[p].direct
                               /\ Settled(pubs[p]) => Settled(pubs'[p])
    BY <1>0, SettledStays DEF WorkStep, PubsLast
  <2> QED
    BY <2>1, <2>3, <2>4 DEF LifeOK
<1>2. CASE ShutdownSteps
  <2>1. UNCHANGED pubs
    BY <1>2 DEF ShutdownSteps
  <2>2. CASE BeginShutdown
    BY <2>2 DEF BeginShutdown, LifeOK
  <2>3. CASE DeadlinePasses
    BY <2>3 DEF DeadlinePasses, LifeOK
  <2>4. CASE StopEvents
    <3>1. /\ hook = "events" /\ hook' = "sagas" /\ eventState' = "stopped"
          /\ sagaState' = sagaState /\ timedOut' = (ActivePipelines(pubs) # {})
      BY <2>4 DEF StopEvents
    <3>2. ~timedOut' => \A p \in DOMAIN pubs : pubs[p].direct \/ Settled(pubs[p])
      BY <3>1, AllSettled
    <3> QED
      BY <2>1, <3>1, <3>2 DEF LifeOK
  <2>5. CASE StopSagas
    <3>1. /\ hook = "sagas" /\ hook' = "over" /\ sagaState' = "stopped"
          /\ eventState' = eventState
          /\ timedOut' = (timedOut \/ PendingDispatches(pubs) # {})
      BY <2>5 DEF StopSagas
    <3>2. ~timedOut' => \A p \in DOMAIN pubs : Settled(pubs[p])
      <4>1. ASSUME ~timedOut' PROVE ActivePipelines(pubs) = {} /\ PendingDispatches(pubs) = {}
        BY <3>1, <4>1 DEF LifeOK, ActivePipelines
      <4> QED
        BY <4>1, AllSettled
    <3> QED
      BY <2>1, <3>1, <3>2 DEF LifeOK
  <2> QED
    BY <1>2, <2>2, <2>3, <2>4, <2>5 DEF ShutdownSteps
<1> QED
  BY <1>1, <1>2, StopVarsStep

LEMMA LifeHolds == SagaSpec => []LifeOK
<1>1. SagaInit => LifeOK
  BY DEF SagaInit, LifeOK
<1>2. BaseOK /\ WorkOK /\ LifeOK /\ [SagaNext]_sagaVars => LifeOK'
  <2>1. ASSUME LifeOK, UNCHANGED sagaVars PROVE LifeOK'
    <3>1. UNCHANGED <<pubs, eventState, sagaState, hook, timedOut>>
      BY <2>1 DEF sagaVars
    <3> QED
      BY <2>1, <3>1 DEF LifeOK
  <2> QED
    BY <2>1, LifeStep
<1> QED
  BY <1>1, <1>2, BaseHolds, WorkHolds, PTL DEF SagaSpec

-----------------------------------------------------------------------------
(* The graphs that are kept                                                *)

\* A step either forgets what may be forgotten after it, or it changes nothing
\* about that.
KeptStep ==
  \/ /\ kept' = kept \ Forgettable(pubs', eventState', sagaState')
     /\ DOMAIN pubs' = DOMAIN pubs
     /\ eventState = "stopped" => eventState' = "stopped"
     /\ sagaState = "stopped" => sagaState' = "stopped"
  \/ /\ UNCHANGED kept
     /\ Forgettable(pubs', eventState', sagaState') = Forgettable(pubs, eventState, sagaState)

LEMMA KeptForgets ==
  ASSUME NEW ps, NEW ch, pubs' = ps, DOMAIN ps = DOMAIN pubs, Forget(ps, ch), UNCHANGED stopVars
  PROVE  KeptStep
  BY DEF Forget, KeptStep, stopVars

LEMMA KeptSettles ==
  ASSUME NEW p \in DOMAIN pubs, NEW pc, SettlePub(p, pc), UNCHANGED stopVars
  PROVE  KeptStep
<1> DEFINE ps == [pubs EXCEPT ![p].pc = pc]
<1>1. pubs' = ps /\ Forget(ps, chains) /\ DOMAIN ps = DOMAIN pubs
  BY DEF SettlePub
<1> HIDE DEF ps
<1> QED
  BY <1>1, KeptForgets

\* A publication that is under way before and after the step.
LEMMA KeptUnderWay ==
  ASSUME NEW p \in DOMAIN pubs, UNCHANGED stopVars, UNCHANGED kept,
         DOMAIN pubs' = DOMAIN pubs, \A o \in DOMAIN pubs : o # p => pubs'[o] = pubs[o],
         pubs'[p].direct = pubs[p].direct, ~Settled(pubs[p]), ~Settled(pubs'[p]),
         pubs[p].direct => /\ pubs[p].pc \in {"enter", "sagas", "after"}
                           /\ pubs'[p].pc \in {"enter", "sagas", "after"}
  PROVE  KeptStep
<1>1. CASE ~pubs[p].direct
  <2>1. p \in ActivePipelines(pubs) /\ p \in ActivePipelines(pubs')
    BY <1>1 DEF ActivePipelines
  <2>2. Forgettable(pubs', eventState', sagaState') = {} /\ Forgettable(pubs, eventState, sagaState) = {}
    BY <2>1 DEF Forgettable
  <2> QED
    BY <2>2 DEF KeptStep
<1>2. CASE pubs[p].direct
  <2>1. p \in PendingDispatches(pubs) /\ p \in PendingDispatches(pubs')
    BY <1>2 DEF PendingDispatches
  <2>2. ActivePipelines(pubs') = ActivePipelines(pubs)
    BY <1>2 DEF ActivePipelines
  <2>3. PendingDispatches(pubs) # {} /\ PendingDispatches(pubs') # {}
    BY <2>1
  <2>4. Forgettable(pubs', eventState', sagaState') = Forgettable(pubs, eventState, sagaState)
    BY <2>2, <2>3 DEF Forgettable, stopVars
  <2> QED
    BY <2>4 DEF KeptStep
<1> QED
  BY <1>1, <1>2

\* No publication settles or begins.
LEMMA KeptSame ==
  ASSUME UNCHANGED <<kept, eventState, sagaState>>, DOMAIN pubs' = DOMAIN pubs,
         \A o \in DOMAIN pubs : pubs'[o].direct = pubs[o].direct /\ pubs'[o].pc = pubs[o].pc
  PROVE  KeptStep
<1>1. ActivePipelines(pubs') = ActivePipelines(pubs) /\ PendingDispatches(pubs') = PendingDispatches(pubs)
  BY DEF ActivePipelines, PendingDispatches, Settled
<1>2. Forgettable(pubs', eventState', sagaState') = Forgettable(pubs, eventState, sagaState)
  BY <1>1 DEF Forgettable
<1> QED
  BY <1>2 DEF KeptStep

\* While a service admits work there is nothing to forget.
LEMMA KeptAdmitted ==
  ASSUME BaseOK, LifeOK, NEW d \in BOOLEAN, NEW ctx, Admitted(d, ctx)
  PROVE  KeptStep
<1>1. UNCHANGED <<kept, eventState, sagaState>>
  BY DEF Admitted, stopVars
<1>2. sagaState = "ready" \/ eventState # "stopped"
  BY DEF Admitted
<1>3. eventState # "stopped" /\ sagaState # "stopped"
  BY <1>2 DEF LifeOK, BaseOK, SagaTypeOK
<1>4. Forgettable(pubs', eventState', sagaState') = {} /\ Forgettable(pubs, eventState, sagaState) = {}
  BY <1>1, <1>3 DEF Forgettable
<1> QED
  BY <1>1, <1>4 DEF KeptStep

LEMMA KeptEnters ==
  ASSUME BaseOK, WorkOK, NEW p \in DOMAIN pubs, EnterSagas(p)
  PROVE  KeptStep
<1> DEFINE ctx == pubs[p].ctx
<1> DEFINE routes == RoutesOf[pubs[p].topic]
<1> DEFINE tasks == [i \in DOMAIN routes |-> [route |-> routes[i], run |-> 0]]
<1> DEFINE again == {i \in DOMAIN routes : Reentrant(ctx, routes[i])}
<1> DEFINE ps(q, pc) == [pubs EXCEPT ![p].tasks = Numbered(tasks, q), ![p].pc = pc]
<1>0. /\ pubs[p].pc \in {"handlers", "enter"} /\ UNCHANGED stopVars
      /\ \/ SettlePub(p, "failed")
         \/ \E q \in InOrder(DOMAIN routes) : pubs' = ps(q, "sagas") /\ UNCHANGED kept
         \/ \E q \in InOrder(again) :
              pubs' = ps(q, "ok") /\ Forget(ps(q, "ok"), Chained(tasks, q))
  BY DEF EnterSagas
<1> HIDE DEF tasks, again
<1>1. CASE SettlePub(p, "failed")
  BY <1>0, <1>1, KeptSettles
<1>2. ASSUME NEW q, pubs' = ps(q, "sagas"), UNCHANGED kept PROVE KeptStep
  <2>1. /\ DOMAIN pubs' = DOMAIN pubs /\ \A o \in DOMAIN pubs : o # p => pubs'[o] = pubs[o]
        /\ pubs'[p] = [pubs[p] EXCEPT !.tasks = Numbered(tasks, q), !.pc = "sagas"]
    BY <1>2
  <2>2. pubs[p] \in PubSet
    BY DEF BaseOK, SagaTypeOK
  <2>3. pubs'[p].direct = pubs[p].direct /\ pubs'[p].pc = "sagas"
    BY <2>1, <2>2 DEF PubSet
  <2>4. pubs[p].direct => pubs[p].pc = "enter"
    BY <1>0 DEF WorkOK, PubsOK, PubTasksOK
  <2>5. ~Settled(pubs[p]) /\ ~Settled(pubs'[p])
    BY <1>0, <2>3 DEF Settled
  <2> QED
    BY <1>0, <1>2, <2>1, <2>3, <2>4, <2>5, KeptUnderWay
<1>3. ASSUME NEW q, pubs' = ps(q, "ok"), Forget(ps(q, "ok"), Chained(tasks, q)) PROVE KeptStep
  <2> DEFINE now == ps(q, "ok")
  <2>1. pubs' = now /\ DOMAIN now = DOMAIN pubs /\ Forget(now, Chained(tasks, q))
    BY <1>3
  <2> HIDE DEF now
  <2> QED
    BY <1>0, <2>1, KeptForgets
<1> QED
  BY <1>0, <1>1, <1>2, <1>3

LEMMA KeptEnds ==
  ASSUME BaseOK, WorkOK, NEW p \in DOMAIN pubs, SagasEnd(p) \/ Delegate(p)
  PROVE  KeptStep
<1>0. UNCHANGED stopVars
  BY DEF SagasEnd, Delegate
<1>1. CASE \E pc : SettlePub(p, pc)
  BY <1>0, <1>1, KeptSettles
<1>2. CASE /\ pubs[p].pc = "sagas" /\ ~pubs[p].direct
           /\ pubs' = [pubs EXCEPT ![p].pc = "after"] /\ UNCHANGED kept
  <2>1. /\ DOMAIN pubs' = DOMAIN pubs /\ \A o \in DOMAIN pubs : o # p => pubs'[o] = pubs[o]
        /\ pubs'[p] = [pubs[p] EXCEPT !.pc = "after"]
    BY <1>2
  <2>2. pubs[p] \in PubSet
    BY DEF BaseOK, SagaTypeOK
  <2>3. pubs'[p].direct = pubs[p].direct /\ pubs'[p].pc = "after"
    BY <2>1, <2>2 DEF PubSet
  <2>4. ~Settled(pubs[p]) /\ ~Settled(pubs'[p])
    BY <1>2, <2>3 DEF Settled
  <2> QED
    BY <1>0, <1>2, <2>1, <2>3, <2>4, KeptUnderWay
<1>3. CASE Delegate(p)
  <2> DEFINE ps == [pubs EXCEPT ![p].delegated = TRUE, ![p].pc = "ok"]
  <2>1. pubs' = ps /\ DOMAIN ps = DOMAIN pubs /\ Forget(ps, chains)
    BY <1>3 DEF Delegate
  <2> HIDE DEF ps
  <2> QED
    BY <1>0, <2>1, KeptForgets
<1>4. CASE SagasEnd(p)
  BY <1>1, <1>2, <1>4 DEF SagasEnd
<1> QED
  BY <1>3, <1>4

\* Executions move, tasks are started: no publication settles.
LEMMA KeptRuns ==
  ASSUME BaseOK, NEW r \in DOMAIN runs,
         HandleEnds(r) \/ HandleHangs(r) \/ TakeContinuation(r) \/ TasksEnd(r)
           \/ StartTask(r) \/ DelegateContinuation(r)
  PROVE  KeptStep
<1>0. UNCHANGED <<kept, eventState, sagaState>> /\ pubs \in Seq(PubSet)
  BY DEF HandleEnds, HandleHangs, TakeContinuation, TasksEnd, StartTask, DelegateContinuation,
     stopVars, BaseOK, SagaTypeOK
<1>1. ASSUME NEW p \in DOMAIN pubs, NEW d, NEW tasks, PubBecomes(p, pubs[p].pc, d, tasks)
      PROVE  KeptStep
  <2>1. /\ DOMAIN pubs' = DOMAIN pubs
        /\ \A o \in DOMAIN pubs : pubs'[o].direct = pubs[o].direct /\ pubs'[o].pc = pubs[o].pc
    BY <1>0, <1>1 DEF PubBecomes
  <2> QED
    BY <1>0, <2>1, KeptSame
<1>2. CASE StartTask(r)
  <2>1. StartsTask(r) /\ runs[r].queue[1] \in DOMAIN pubs
    BY <1>2, StartTaskKind
  <2> QED
    BY <1>1, <2>1 DEF StartsTask, SchedulesTasks
<1>3. CASE DelegateContinuation(r)
  <2>1. Delegates(r)
    BY <1>3, RunKinds
  <2> QED
    BY <1>1, <2>1 DEF Delegates
<1>4. CASE HandleEnds(r) \/ HandleHangs(r) \/ TakeContinuation(r) \/ TasksEnd(r)
  <2>1. UNCHANGED pubs
    BY <1>4 DEF HandleEnds, HandleHangs, TakeContinuation, TasksEnd
  <2> QED
    BY <1>0, <2>1, KeptSame
<1> QED
  BY <1>2, <1>3, <1>4

LEMMA KeptShutdown ==
  ASSUME BaseOK, LifeOK, BeginShutdown \/ DeadlinePasses \/ StopEvents \/ StopSagas
  PROVE  KeptStep
<1>1. CASE BeginShutdown
  <2>1. UNCHANGED <<pubs, kept>> /\ eventState' = "stopping" /\ sagaState' = "stopping"
        /\ hook = "none"
    BY <1>1 DEF BeginShutdown
  <2>2. Forgettable(pubs', eventState', sagaState') = {} /\ Forgettable(pubs, eventState, sagaState) = {}
    BY <2>1 DEF LifeOK, Forgettable
  <2> QED
    BY <2>1, <2>2 DEF KeptStep
<1>2. CASE DeadlinePasses
  <2>1. UNCHANGED <<pubs, kept, eventState, sagaState>>
    BY <1>2 DEF DeadlinePasses
  <2> QED
    BY <2>1, KeptSame
<1>3. CASE StopEvents
  BY <1>3 DEF StopEvents, KeptStep
<1>4. CASE StopSagas
  BY <1>4 DEF StopSagas, KeptStep
<1> QED
  BY <1>1, <1>2, <1>3, <1>4

LEMMA KeptSteps ==
  ASSUME BaseOK, WorkOK, LifeOK, SagaNext
  PROVE  KeptStep
<1>0. SagaTypeOK /\ Published \subseteq Topic /\ Dispatched \subseteq Topic
  BY SagaAssumption DEF BaseOK
<1>1. ASSUME NEW d \in BOOLEAN, AdmittedOutside(d) PROVE KeptStep
  BY <1>1, KeptAdmitted DEF AdmittedOutside
<1>2. ASSUME NEW r \in DOMAIN runs, NEW t \in Topic, PublishFromSaga(r, t) PROVE KeptStep
  <2>1. AdmittedNested(r)
    BY <1>0, <1>2, AdmitFromSaga
  <2> QED
    BY <2>1, KeptAdmitted DEF AdmittedNested
<1>3. ASSUME NEW t \in Topic,
             \/ t \in Published /\ PublishFromOutside(t)
             \/ t \in Dispatched /\ DispatchFromOutside(t)
             \/ \E p \in DOMAIN pubs : PublishFromSubscriber(p, t)
      PROVE  KeptStep
  BY <1>0, <1>1, <1>3, AdmitFromOutside
<1> QED
  BY <1>0, <1>2, <1>3, KeptEnters, KeptEnds, KeptRuns, KeptShutdown DEF SagaNext, SagaProgress

\* What may be forgotten may be forgotten later, too, if no publication begins.
LEMMA ForgettableGrows ==
  ASSUME BaseOK, WorkOK, WorkStep, DOMAIN pubs' = DOMAIN pubs,
         eventState = "stopped" => eventState' = "stopped",
         sagaState = "stopped" => sagaState' = "stopped"
  PROVE  Forgettable(pubs, eventState, sagaState) \subseteq Forgettable(pubs', eventState', sagaState')
<1>1. \A p \in DOMAIN pubs : /\ pubs'[p].direct = pubs[p].direct
                             /\ Settled(pubs[p]) => Settled(pubs'[p])
  BY SettledStays DEF WorkStep, PubsLast
<1>2. ActivePipelines(pubs) = {} => ActivePipelines(pubs') = {}
  BY <1>1, AllSettled DEF ActivePipelines
<1>3. ActivePipelines(pubs) = {} /\ PendingDispatches(pubs) = {} => PendingDispatches(pubs') = {}
  BY <1>1, AllSettled DEF PendingDispatches, Settled
<1> QED
  BY <1>2, <1>3 DEF Forgettable

LEMMA ReleasedHolds == SagaSpec => []GraphReleased
<1>1. SagaInit => GraphReleased
  BY DEF SagaInit, GraphReleased, Forgettable
<1>2. BaseOK /\ WorkOK /\ LifeOK /\ GraphReleased /\ [SagaNext]_sagaVars => GraphReleased'
  <2>1. ASSUME BaseOK, WorkOK, LifeOK, GraphReleased, SagaNext PROVE GraphReleased'
    <3>1. KeptStep /\ WorkStep
      BY <2>1, KeptSteps, WorkSteps
    <3>2. CASE /\ kept' = kept \ Forgettable(pubs', eventState', sagaState')
               /\ DOMAIN pubs' = DOMAIN pubs
               /\ eventState = "stopped" => eventState' = "stopped"
               /\ sagaState = "stopped" => sagaState' = "stopped"
      <4>1. Forgettable(pubs, eventState, sagaState) \subseteq Forgettable(pubs', eventState', sagaState')
        BY <2>1, <3>1, <3>2, ForgettableGrows
      <4>2. kept' = {"events", "sagas"} \ Forgettable(pubs', eventState', sagaState')
        BY <2>1, <3>2, <4>1 DEF GraphReleased
      <4> QED
        BY <4>2 DEF GraphReleased
    <3>3. CASE /\ UNCHANGED kept
               /\ Forgettable(pubs', eventState', sagaState') = Forgettable(pubs, eventState, sagaState)
      BY <2>1, <3>3 DEF GraphReleased
    <3> QED
      BY <3>1, <3>2, <3>3 DEF KeptStep
  <2>2. ASSUME GraphReleased, UNCHANGED sagaVars PROVE GraphReleased'
    <3>1. UNCHANGED <<pubs, kept, eventState, sagaState>>
      BY <2>2 DEF sagaVars
    <3> QED
      BY <2>2, <3>1 DEF GraphReleased
  <2> QED
    BY <2>1, <2>2
<1> QED
  BY <1>1, <1>2, BaseHolds, WorkHolds, LifeHolds, PTL DEF SagaSpec

\* After a shutdown whose drains were not cut short no execution is left, if
\* none failed; and a stopped service keeps its graph exactly as long as
\* something it admitted is under way (saga-bus.ts,
\* clearStoppedSagaGraphIfQuiescent(), onApplicationShutdown()).
THEOREM ShutdownLeavesNothing == SagaSpec => []SagaShutdownQuiet
<1>1. ASSUME BaseOK, WorkOK, LifeOK PROVE QuietSagas
  <2> SUFFICES ASSUME hook = "over", ~timedOut, NoneFailed, NEW r \in DOMAIN runs
               PROVE  Ended(runs[r])
    BY DEF QuietSagas
  <2>1. \A p \in DOMAIN pubs : pubs[p].pc = "ok"
    BY <1>1 DEF LifeOK, NoneFailed, Settled
  \* What is not left to a continuation is handed over.
  <2>2. ASSUME NEW u \in DOMAIN runs, runs[u].pc # "done"
        PROVE  LET s == pubs[runs[u].event].ctx.scope
               IN  s # 0 /\ s \in DOMAIN runs /\ Queued(runs[u].event, s)
    <3> DEFINE e == runs[u].event
    <3>1. e \in DOMAIN pubs
      BY <1>1 DEF BaseOK, SagaTypeOK, LinksOK
    <3>2. ~AllDone(e)
      BY <1>1, <2>2 DEF WorkOK, RunsOK, IsTask, AllDone
    <3>3. Continued(e)
      BY <1>1, <2>1, <3>1, <3>2 DEF WorkOK, PubsOK, PubTasksOK, Handed
    <3>4. pubs[e].ctx.scope # 0 => pubs[e].ctx.scope \in DOMAIN runs
      BY <1>1, <3>1 DEF BaseOK, PubContextOK
    <3> QED
      BY <3>3, <3>4 DEF Continued, NoneFailed
  <2>3. SUFFICES ASSUME runs[r].pc # "done" PROVE FALSE
    BY DEF Ended
  <2> DEFINE e == runs[r].event
  <2> DEFINE s == pubs[e].ctx.scope
  <2>4. s # 0 /\ s \in DOMAIN runs /\ e \in DOMAIN pubs
    BY <1>1, <2>2, <2>3 DEF BaseOK, SagaTypeOK, LinksOK
  <2>5. runs[s].owns /\ runs[r].ctx.scope = s
    BY <1>1, <2>4 DEF BaseOK, PubContextOK, RunContextOK
  <2>6. pubs[runs[s].event].ctx.scope = 0
    BY <1>1, <2>4, <2>5 DEF BaseOK, RunContextOK
  <2>7. runs[s].pc = "done"
    BY <2>2, <2>4, <2>6
  <2>8. Clean(s)
    BY DEF Clean, NoneFailed
  <2> QED
    BY <1>1, <2>3, <2>4, <2>5, <2>7, <2>8 DEF WorkOK, ScopesOK, ScopeOK, InScope
<1>2. BaseOK => SagaTypeOK
  BY DEF BaseOK
<1>3. SagaTypeOK /\ QuietSagas /\ GraphReleased => SagaShutdownQuiet
  BY DEF SagaShutdownQuiet
<1> QED
  BY <1>1, <1>2, <1>3, BaseHolds, WorkHolds, LifeHolds, ReleasedHolds, PTL
=============================================================================
