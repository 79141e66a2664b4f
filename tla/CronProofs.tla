------------------------------ MODULE CronProofs ------------------------------
(***************************************************************************)
(* Proofs about the scheduler of @fluojs/cron, for any number of nodes,    *)
(* ticks, renewals, registrations and handles: the locks that a node       *)
(* believes in are the ones Redis holds, and the scheduler implements the  *)
(* lease of LeaseLock (CronLease); the registry and the live schedules     *)
(* agree, and ticks come one at a time (CronRegistry).                     *)
(***************************************************************************)
EXTENDS CronLease, CronRegistry, FiniteSetTheorems, TLAPS

\* The tick is past its task: it never runs, nor asks for the lease, again.
Past(t) == at[t] \in {"drop", "release", "retry", "done"}

\* Redis has granted the lease and the tick has not heard of it.
Granted(t) == at[t] = "acquire" /\ cmd[t] = "yes"

\* Redis has not seen the tick yet.
Unseen(t) == at[t] = "idle" \/ (at[t] = "acquire" /\ cmd[t] = "sent")

RunningOn(n) == {t \in Tick : nodeOf[t] = n /\ Running(t)}

-----------------------------------------------------------------------------
(* The parts of the inductive invariant *)

\* The key holds a token that has not run out, of a tick that Redis has seen.
KeySound ==
    /\ holder \in Tick \cup {NoTick} /\ holder \notin lapsed
    /\ \A t \in Tick : Unseen(t) => holder # t /\ t \notin lapsed

\* Only leases of ticks that are past their task are released: what is sent or
\* still under way cannot hit a running task.
ReleasesSound ==
    /\ \A p \in Caller : target[p] # NoTick => Past(target[p])
    /\ \A p \in Caller : Releasing(p) /\ cmd[p] # "none" => target[p] # NoTick
    /\ \A t \in stray : Past(t)

\* An answered release has freed the key for good.
AnswersSound ==
    \A p \in Caller : target[p] # NoTick /\ cmd[p] = "yes" => holder # target[p]

\* A node owns leases of its own ticks, and counts those whose task runs.
BooksSound ==
    /\ \A n \in Node : owned[n] # NoTick =>
          nodeOf[owned[n]] = n /\ (Past(owned[n]) \/ Running(owned[n]))
    /\ \A n \in Node : leases[n] = Cardinality(RunningOn(n))

\* A granted lease holds the key unless it ran out; while the key is held by a
\* lease that its node has heard of, no other grant is on its way to the node.
GrantsSound ==
    /\ \A t \in Tick : Granted(t) \/ Running(t) => t \in lapsed \/ holder = t
    /\ \A t, u \in Tick :
          holder = t /\ (Past(t) \/ Running(t)) /\ nodeOf[u] = nodeOf[t] => ~Granted(u)

\* Renewals are attempted while the task runs, so that a refusal means a loss.
RenewalsSound ==
    /\ \A t \in Tick : due[t] > 0 => Running(t)
    /\ \A t \in Tick : renewal[t] = "no" => t \in lapsed

LeaseInv ==
    /\ LeaseTypeOK /\ KeySound /\ ReleasesSound /\ AnswersSound /\ BooksSound
    /\ GrantsSound /\ Remembered /\ RenewalsSound /\ TrueLoss

-----------------------------------------------------------------------------
(* Counting *)

\* A tick of the node begins to run, or its task ends.
LEMMA CountChanges ==
    ASSUME LeaseTypeOK, NEW t \in Tick, NEW n \in Node
    PROVE  /\ IsFiniteSet(RunningOn(n)) /\ Cardinality(RunningOn(n)) \in Nat
           /\ t \notin RunningOn(n) =>
                 Cardinality(RunningOn(n) \cup {t}) = Cardinality(RunningOn(n)) + 1
           /\ t \in RunningOn(n) =>
                 Cardinality(RunningOn(n) \ {t}) = Cardinality(RunningOn(n)) - 1
<1>1. RunningOn(n) \subseteq Tick
  BY DEF RunningOn
<1>2. IsFiniteSet(RunningOn(n))
  BY <1>1, FS_Subset, LeaseAssumption
<1> HIDE DEF RunningOn
<1> QED
  BY <1>2, FS_CardinalityType, FS_AddElement, FS_RemoveElement

\* A count of zero spares nobody: no task of the node runs.
LEMMA NoneRuns ==
    ASSUME LeaseInv, NEW n \in Node, leases[n] = 0, NEW t \in Tick, nodeOf[t] = n
    PROVE  ~Running(t)
<1>1. IsFiniteSet(RunningOn(n)) /\ Cardinality(RunningOn(n)) = 0
  BY CountChanges DEF LeaseInv, BooksSound
<1>2. RunningOn(n) = {}
  BY <1>1, FS_EmptySet
<1> QED
  BY <1>2 DEF RunningOn

-----------------------------------------------------------------------------
(* The steps of Redis *)

LEMMA SetRunsStep ==
    ASSUME LeaseInv, NEW t \in Tick, SetRuns(t) PROVE LeaseInv'
<1> USE LeaseAssumption DEF LeaseInv, SetRuns, TokenOf, nodeVars, renewalVars
<1>1. LeaseTypeOK'
  BY DEF LeaseTypeOK, Caller
<1>2. KeySound'
  BY DEF LeaseTypeOK, KeySound, Unseen, Caller
<1>3. ReleasesSound'
  BY DEF LeaseTypeOK, ReleasesSound, Releasing, Past, Caller
<1>4. AnswersSound'
  BY DEF LeaseTypeOK, AnswersSound, ReleasesSound, Past, Caller
<1>5. BooksSound'
  BY DEF BooksSound, Past, Running, RunningOn
<1>6. GrantsSound'
  BY DEF LeaseTypeOK, KeySound, GrantsSound, Granted, Running, Past, Caller
<1>7. Remembered'
  BY DEF LeaseTypeOK, Remembered
<1>8. RenewalsSound' /\ TrueLoss'
  BY DEF RenewalsSound, TrueLoss, Running
<1> QED
  BY <1>1, <1>2, <1>3, <1>4, <1>5, <1>6, <1>7, <1>8

\* A release that Redis runs frees the key only of a tick that is past its task.
LEMMA Deletion ==
    ASSUME LeaseInv, NEW x \in Tick, Past(x), holder' = Deleted(x),
           UNCHANGED <<lapsed, nodeVars, at, renewalVars, nodeOf>>,
           \A t \in Tick : Granted(t)' => Granted(t),
           \A t \in Tick : Unseen(t)' => Unseen(t)
    PROVE  /\ holder' # x /\ holder' \in {holder, NoTick}
           /\ KeySound' /\ BooksSound' /\ GrantsSound' /\ Remembered'
           /\ RenewalsSound' /\ TrueLoss'
<1> USE LeaseAssumption DEF LeaseInv, Deleted, TokenOf, nodeVars, renewalVars
<1>1. holder' # x /\ holder' \in {holder, NoTick}
  OBVIOUS
<1>2. KeySound'
  BY DEF KeySound, LeaseTypeOK
<1>3. BooksSound'
  BY DEF BooksSound, Past, Running, RunningOn
<1>4. GrantsSound'
  BY DEF GrantsSound, Running, Past, Granted
<1>5. Remembered' /\ RenewalsSound' /\ TrueLoss'
  BY DEF Remembered, RenewalsSound, TrueLoss, Running
<1> QED
  BY <1>1, <1>2, <1>3, <1>4, <1>5

LEMMA ReleaseRunsStep ==
    ASSUME LeaseInv, NEW p \in Caller, ReleaseRuns(p) PROVE LeaseInv'
<1> USE LeaseAssumption DEF LeaseInv
<1>1. target[p] \in Tick /\ Past(target[p])
  BY DEF ReleaseRuns, ReleasesSound, LeaseTypeOK
<1>2. \A t \in Tick : (Granted(t)' => Granted(t)) /\ (Unseen(t)' => Unseen(t))
  BY DEF ReleaseRuns, Releasing, Granted, Unseen, LeaseTypeOK, Caller
<1>3. /\ holder' # target[p] /\ holder' \in {holder, NoTick}
      /\ KeySound' /\ BooksSound' /\ GrantsSound' /\ Remembered'
      /\ RenewalsSound' /\ TrueLoss'
  BY <1>1, <1>2, Deletion DEF ReleaseRuns, renewalVars
<1>4. LeaseTypeOK'
  BY <1>3 DEF ReleaseRuns, LeaseTypeOK, nodeVars, renewalVars
<1>5. ReleasesSound'
  BY DEF ReleaseRuns, ReleasesSound, Releasing, Past, LeaseTypeOK
<1>6. AnswersSound'
  BY <1>1, <1>3 DEF ReleaseRuns, AnswersSound, LeaseTypeOK
<1> QED
  BY <1>3, <1>4, <1>5, <1>6

LEMMA StrayRunsStep ==
    ASSUME LeaseInv, NEW t \in Tick, StrayRuns(t) PROVE LeaseInv'
<1> USE LeaseAssumption DEF LeaseInv
<1>1. Past(t)
  BY DEF StrayRuns, ReleasesSound
<1>2. \A u \in Tick : (Granted(u)' => Granted(u)) /\ (Unseen(u)' => Unseen(u))
  BY DEF StrayRuns, Granted, Unseen
<1>3. /\ holder' # t /\ holder' \in {holder, NoTick}
      /\ KeySound' /\ BooksSound' /\ GrantsSound' /\ Remembered'
      /\ RenewalsSound' /\ TrueLoss'
  BY <1>1, <1>2, Deletion DEF StrayRuns, renewalVars
<1>4. LeaseTypeOK'
  BY <1>3 DEF StrayRuns, LeaseTypeOK, nodeVars, renewalVars
<1>5. ReleasesSound' /\ AnswersSound'
  BY <1>3 DEF StrayRuns, ReleasesSound, AnswersSound, Releasing, Past, LeaseTypeOK
<1> QED
  BY <1>3, <1>4, <1>5

LEMMA ExpireStep == ASSUME LeaseInv, Expire PROVE LeaseInv'
<1> USE LeaseAssumption DEF LeaseInv, Expire, nodeVars, renewalVars
<1>1. LeaseTypeOK' /\ KeySound'
  BY DEF LeaseTypeOK, KeySound, Unseen
<1>2. ReleasesSound' /\ AnswersSound'
  BY DEF ReleasesSound, AnswersSound, Releasing, Past, LeaseTypeOK
<1>3. BooksSound'
  BY DEF BooksSound, Past, Running, RunningOn
<1>4. GrantsSound'
  BY DEF GrantsSound, Running, Past, Granted
<1>5. Remembered' /\ RenewalsSound' /\ TrueLoss'
  BY DEF Remembered, RenewalsSound, TrueLoss, Running, TokenOf
<1> QED
  BY <1>1, <1>2, <1>3, <1>4, <1>5

\* What the renewals leave alone.
LEMMA RenewalOnly ==
    ASSUME LeaseInv,
           UNCHANGED <<redisVars, stray, nodeVars, nodeOf, at, cmd, target>>
    PROVE  /\ KeySound' /\ ReleasesSound' /\ AnswersSound' /\ BooksSound'
           /\ GrantsSound' /\ Remembered'
<1> USE DEF LeaseInv, redisVars, nodeVars
<1>1. KeySound' /\ Remembered'
  BY DEF KeySound, Unseen, Remembered
<1>2. ReleasesSound' /\ AnswersSound'
  BY DEF ReleasesSound, AnswersSound, Releasing, Past
<1>3. BooksSound'
  BY DEF BooksSound, Past, Running, RunningOn
<1>4. GrantsSound'
  BY DEF GrantsSound, Running, Past, Granted
<1> QED
  BY <1>1, <1>2, <1>3, <1>4

LEMMA RenewalSteps ==
    ASSUME LeaseInv, NEW t \in Tick,
           RenewalRuns(t) \/ RenewalDue(t) \/ \E b \in BOOLEAN : RenewalReply(t, b)
    PROVE  LeaseInv'
<1> USE LeaseAssumption DEF LeaseInv
<1>0. UNCHANGED <<redisVars, stray, nodeVars, nodeOf, at, cmd, target>>
  BY DEF RenewalRuns, RenewalDue, RenewalReply
<1>1. /\ KeySound' /\ ReleasesSound' /\ AnswersSound' /\ BooksSound'
      /\ GrantsSound' /\ Remembered'
  BY <1>0, RenewalOnly
<1>2. CASE RenewalRuns(t)
  <2>1. LeaseTypeOK'
    BY <1>2 DEF RenewalRuns, LeaseTypeOK, redisVars, nodeVars
  <2>2. RenewalsSound' /\ TrueLoss'
    BY <1>2 DEF RenewalRuns, RenewalsSound, TrueLoss, Running, GrantsSound, TokenOf,
                LeaseTypeOK, redisVars
  <2> QED
    BY <1>1, <2>1, <2>2
<1>3. CASE RenewalDue(t)
  <2>1. LeaseTypeOK'
    BY <1>3 DEF RenewalDue, LeaseTypeOK, redisVars, nodeVars
  <2>2. RenewalsSound' /\ TrueLoss'
    BY <1>3 DEF RenewalDue, RenewalsSound, TrueLoss, Running, TokenOf, LeaseTypeOK, redisVars
  <2> QED
    BY <1>1, <2>1, <2>2
<1>4. ASSUME NEW b \in BOOLEAN, RenewalReply(t, b) PROVE LeaseInv'
  <2>1. LeaseTypeOK'
    BY <1>4 DEF RenewalReply, Outcome, LeaseTypeOK, redisVars, nodeVars
  <2>2. RenewalsSound' /\ TrueLoss'
    BY <1>4 DEF RenewalReply, Outcome, RenewalsSound, TrueLoss, Running, TokenOf,
                LeaseTypeOK, redisVars
  <2> QED
    BY <1>1, <2>1, <2>2
<1> QED
  BY <1>2, <1>3, <1>4

-----------------------------------------------------------------------------
(* The steps of a tick *)

LEMMA BeginTickStep ==
    ASSUME LeaseInv, NEW t \in Tick, NEW n \in Node, BeginTick(t, n) PROVE LeaseInv'
<1> USE LeaseAssumption DEF LeaseInv, BeginTick, redisVars, nodeVars, renewalVars
<1>1. LeaseTypeOK' /\ KeySound'
  BY DEF LeaseTypeOK, KeySound, Unseen, Caller
<1>2. ReleasesSound'
  BY DEF ReleasesSound, Releasing, Past, LeaseTypeOK, Caller
<1>3. AnswersSound'
  BY DEF AnswersSound, LeaseTypeOK, Caller
<1>4. BooksSound'
  <2>1. \A m \in Node : RunningOn(m)' = RunningOn(m)
    BY DEF RunningOn, Running, LeaseTypeOK
  <2> QED
    BY <2>1 DEF BooksSound, Past, Running, LeaseTypeOK
<1>5. GrantsSound'
  BY DEF GrantsSound, Running, Past, Granted, LeaseTypeOK, Caller
<1>6. Remembered' /\ RenewalsSound' /\ TrueLoss'
  BY DEF Remembered, RenewalsSound, TrueLoss, Running, TokenOf, LeaseTypeOK
<1> QED
  BY <1>1, <1>2, <1>3, <1>4, <1>5, <1>6

LEMMA AcquireFailsStep ==
    ASSUME LeaseInv, NEW t \in Tick, AcquireFails(t) PROVE LeaseInv'
<1> USE LeaseAssumption DEF LeaseInv, AcquireFails, redisVars, nodeVars, renewalVars
<1>1. LeaseTypeOK' /\ KeySound'
  BY DEF LeaseTypeOK, KeySound, Unseen, Caller
<1>2. ReleasesSound'
  BY DEF ReleasesSound, Releasing, Past, LeaseTypeOK, Caller
<1>3. AnswersSound'
  BY DEF AnswersSound, LeaseTypeOK, Caller
<1>4. BooksSound'
  <2>1. \A m \in Node : RunningOn(m)' = RunningOn(m)
    BY DEF RunningOn, Running, LeaseTypeOK
  <2> QED
    BY <2>1 DEF BooksSound, Past, Running, LeaseTypeOK
<1>5. GrantsSound'
  BY DEF GrantsSound, Running, Past, Granted, LeaseTypeOK, Caller
<1>6. Remembered' /\ RenewalsSound' /\ TrueLoss'
  BY DEF Remembered, RenewalsSound, TrueLoss, Running, TokenOf, LeaseTypeOK
<1> QED
  BY <1>1, <1>2, <1>3, <1>4, <1>5, <1>6

LEMMA AcquiredStep ==
    ASSUME LeaseInv, NEW t \in Tick, NEW b \in BOOLEAN, Acquired(t, b) PROVE LeaseInv'
<1> USE LeaseAssumption DEF LeaseInv
<1>n. PICK n \in Node : n = nodeOf[t]
  BY DEF LeaseTypeOK
<1> USE <1>n
<1>0. n \in Node /\ Granted(t)
  BY DEF Acquired, Granted, LeaseTypeOK
<1>1. at'[t] \in {"run", "drop", "done"} /\ \A u \in Tick \ {t} : at'[u] = at[u]
  BY DEF Acquired, BeginRelease, LeaseTypeOK
<1>2. LeaseTypeOK'
  <2>1. /\ at' \in [Tick -> {"idle", "acquire", "skipped", "run", "settle", "drop",
                             "release", "retry", "done"}]
        /\ cmd' \in [Caller -> {"none", "sent", "yes", "no"}]
        /\ target' \in [Caller -> Tick \cup {NoTick}]
    <3>1. t \in Caller
      BY DEF Caller
    <3>2. \/ at' = [at EXCEPT ![t] = "run"] /\ Forget(t)
          \/ at' = [at EXCEPT ![t] = "done"] /\ Forget(t)
          \/ at' = [at EXCEPT ![t] = "drop"] /\ Send(t, t)
      BY DEF Acquired, BeginRelease
    <3> QED
      BY <3>1, <3>2 DEF Send, Forget, LeaseTypeOK
  <2>2. owned' \in [Node -> Tick \cup {NoTick}] /\ leases' \in [Node -> Nat]
    BY DEF Acquired, LeaseTypeOK
  <2> QED
    BY <2>1, <2>2 DEF Acquired, LeaseTypeOK, redisVars, renewalVars
<1>3. KeySound'
  BY <1>1 DEF Acquired, BeginRelease, Send, Forget, KeySound, Unseen, LeaseTypeOK, Caller,
              redisVars
<1>4. ReleasesSound'
  <2>1. \A p \in Caller \ {t} : cmd'[p] = cmd[p] /\ target'[p] = target[p]
    BY DEF Acquired, BeginRelease, Send, Forget, LeaseTypeOK
  <2>2. /\ target'[t] = NoTick \/ (target'[t] = t /\ at'[t] = "drop")
        /\ at'[t] = "drop" => target'[t] = t
    BY <1>1 DEF Acquired, BeginRelease, Send, Forget, LeaseTypeOK, Caller
  <2>3. \A u \in Tick : Past(u) => Past(u)'
    BY <1>0, <1>1 DEF Past, Granted
  <2>4. \A p \in Caller \ {t} : Releasing(p)' <=> Releasing(p)
    BY <1>1 DEF Releasing
  <2>5. \A p \in Caller \ {t} :
            /\ target'[p] # NoTick => Past(target[p])'
            /\ Releasing(p)' /\ cmd'[p] # "none" => target'[p] # NoTick
    BY <2>1, <2>3, <2>4 DEF ReleasesSound, LeaseTypeOK
  <2>6. /\ target'[t] # NoTick => Past(target[t])'
        /\ Releasing(t)' /\ cmd'[t] # "none" => target'[t] # NoTick
    BY <1>1, <2>2 DEF Past, Releasing
  <2>7. \A u \in stray' : Past(u)'
    BY <2>3 DEF Acquired, ReleasesSound, LeaseTypeOK
  <2> QED
    BY <2>5, <2>6, <2>7 DEF ReleasesSound
<1>5. AnswersSound'
  BY DEF Acquired, BeginRelease, Send, Forget, AnswersSound, LeaseTypeOK, Caller, redisVars
<1>6. BooksSound'
  <2>1. \A m \in Node : owned'[m] # NoTick =>
            nodeOf'[owned'[m]] = m /\ (Past(owned[m]) \/ Running(owned[m]))'
    BY <1>0, <1>1 DEF Acquired, BooksSound, Past, Running, LeaseTypeOK
  <2>2. t \notin RunningOn(n)
    BY <1>0 DEF Granted, RunningOn, Running
  <2>3. CASE at'[t] = "run"
    <3>1. leases' = [leases EXCEPT ![n] = @ + 1]
      BY <2>3 DEF Acquired, BeginRelease, LeaseTypeOK
    <3>2. RunningOn(n)' = RunningOn(n) \cup {t}
      BY <1>1, <2>3 DEF Acquired, RunningOn, Running
    <3>3. \A m \in Node \ {n} : RunningOn(m)' = RunningOn(m)
      BY <1>1 DEF Acquired, RunningOn, Running
    <3>4. Cardinality(RunningOn(n)') = leases[n] + 1
      BY <1>0, <2>2, <3>2, CountChanges DEF BooksSound
    <3>5. ASSUME NEW m \in Node PROVE leases'[m] = Cardinality(RunningOn(m)')
      <4>1. CASE m = n
        BY <1>0, <3>1, <3>4, <4>1 DEF LeaseTypeOK
      <4>2. CASE m # n
        <5>1. RunningOn(m)' = RunningOn(m) /\ leases'[m] = leases[m]
          BY <1>0, <3>1, <3>3, <4>2 DEF LeaseTypeOK
        <5> QED
          BY <5>1 DEF BooksSound
      <4> QED
        BY <4>1, <4>2
    <3> QED
      BY <2>1, <3>5 DEF BooksSound
  <2>4. CASE at'[t] # "run"
    <3>1. leases' = leases
      BY <2>4 DEF Acquired, LeaseTypeOK
    <3>2. \A m \in Node : RunningOn(m)' = RunningOn(m)
      BY <1>0, <1>1, <2>4 DEF Acquired, RunningOn, Running, Granted
    <3> QED
      BY <2>1, <3>1, <3>2 DEF BooksSound
  <2> QED
    BY <2>3, <2>4
<1>7. GrantsSound'
  <2>1. \A u \in Tick : Granted(u)' => u # t /\ Granted(u)
    BY <1>1 DEF Acquired, BeginRelease, Send, Forget, Granted, LeaseTypeOK, Caller
  <2>2. \A u \in Tick : (Running(u)' => u = t \/ Running(u)) /\ (Past(u)' => u = t \/ Past(u))
    BY <1>1 DEF Running, Past
  <2>3. holder' = holder /\ lapsed' = lapsed /\ nodeOf' = nodeOf
    BY DEF Acquired, redisVars
  <2>4. holder = t => \A u \in Tick \ {t} : nodeOf[u] = nodeOf[t] => ~Granted(u)
    BY DEF Acquired, NextReply, TokenOf, KeySound, Granted
  <2> QED
    BY <1>0, <2>1, <2>2, <2>3, <2>4 DEF GrantsSound
<1>8. Remembered'
  <2>1. ASSUME NEW u \in Tick \ {t}, holder = u, nodeOf[u] = n
        PROVE  ~(Past(u) \/ Running(u))
    BY <1>0, <2>1 DEF GrantsSound
  <2> QED
    BY <1>0, <1>1, <2>1 DEF Acquired, Remembered, TokenOf, Past, Running, LeaseTypeOK, redisVars
<1>9. RenewalsSound' /\ TrueLoss'
  BY <1>0, <1>1 DEF Acquired, RenewalsSound, TrueLoss, Running, Granted, redisVars, renewalVars
<1> QED
  BY <1>2, <1>3, <1>4, <1>5, <1>6, <1>7, <1>8, <1>9

LEMMA BodyEndsStep ==
    ASSUME LeaseInv, NEW t \in Tick, BodyEnds(t) PROVE LeaseInv'
<1> USE LeaseAssumption DEF LeaseInv, BodyEnds, redisVars, nodeVars
<1>1. \A u \in Tick : /\ Running(u)' <=> Running(u)
                      /\ Past(u)' <=> Past(u)
                      /\ Granted(u)' <=> Granted(u)
                      /\ Unseen(u)' <=> Unseen(u)
  BY DEF Running, Past, Granted, Unseen, LeaseTypeOK
<1>2. LeaseTypeOK'
  BY DEF LeaseTypeOK
<1>3. KeySound' /\ GrantsSound'
  BY <1>1 DEF KeySound, GrantsSound
<1>4. ReleasesSound' /\ AnswersSound'
  BY <1>1 DEF ReleasesSound, AnswersSound, Releasing, LeaseTypeOK
<1>5. BooksSound'
  <2>1. \A m \in Node : RunningOn(m)' = RunningOn(m)
    BY <1>1 DEF RunningOn
  <2> QED
    BY <1>1, <2>1 DEF BooksSound, LeaseTypeOK
<1>6. Remembered' /\ RenewalsSound' /\ TrueLoss'
  BY <1>1 DEF Remembered, RenewalsSound, TrueLoss, TokenOf, Running, LeaseTypeOK
<1> QED
  BY <1>2, <1>3, <1>4, <1>5, <1>6

\* The finally block: the task is no longer counted and its lease is released.
LEMMA FinallyStep ==
    ASSUME LeaseInv, NEW t \in Tick, Running(t), Finally(t)
    PROVE  /\ KeySound' /\ ReleasesSound' /\ AnswersSound' /\ BooksSound'
           /\ GrantsSound' /\ Remembered'
           /\ at' \in [Tick -> {"idle", "acquire", "skipped", "run", "settle", "drop",
                                "release", "retry", "done"}]
           /\ cmd' \in [Caller -> {"none", "sent", "yes", "no"}]
           /\ target' \in [Caller -> Tick \cup {NoTick}]
           /\ leases' \in [Node -> Nat]
           /\ Past(t)' /\ \A u \in Tick \ {t} : at'[u] = at[u]
<1> USE LeaseAssumption DEF LeaseInv
<1>n. PICK n \in Node : n = nodeOf[t]
  BY DEF LeaseTypeOK
<1> USE <1>n
<1>0. n \in Node
  BY DEF LeaseTypeOK
<1>1. at'[t] \in {"release", "done"} /\ \A u \in Tick \ {t} : at'[u] = at[u]
  BY DEF Finally, BeginRelease, LeaseTypeOK
<1>2. /\ at' \in [Tick -> {"idle", "acquire", "skipped", "run", "settle", "drop",
                           "release", "retry", "done"}]
      /\ cmd' \in [Caller -> {"none", "sent", "yes", "no"}]
      /\ target' \in [Caller -> Tick \cup {NoTick}]
  BY SMTT(30) DEF Finally, BeginRelease, Send, Forget, LeaseTypeOK, Caller
<1>3. KeySound'
  BY <1>1 DEF Finally, BeginRelease, Send, Forget, KeySound, Unseen, LeaseTypeOK, Caller,
              redisVars
<1>4. ReleasesSound'
  BY SMTT(30), <1>1 DEF Finally, BeginRelease, Send, Forget, ReleasesSound, Releasing, Past,
              LeaseTypeOK, Caller
<1>5. AnswersSound'
  BY DEF Finally, BeginRelease, Send, Forget, AnswersSound, LeaseTypeOK, Caller, redisVars
<1>6. BooksSound' /\ leases' \in [Node -> Nat]
  <2>1. \A m \in Node : owned'[m] # NoTick =>
            nodeOf'[owned'[m]] = m /\ (Past(owned[m]) \/ Running(owned[m]))'
    BY <1>0, <1>1 DEF Finally, BooksSound, Past, Running, LeaseTypeOK
  <2>2. t \in RunningOn(n)
    BY <1>0 DEF RunningOn
  <2>3. RunningOn(n)' = RunningOn(n) \ {t}
    BY <1>1 DEF Finally, RunningOn, Running
  <2>4. \A m \in Node \ {n} : RunningOn(m)' = RunningOn(m)
    BY <1>1 DEF Finally, RunningOn, Running
  <2>5. leases' = [leases EXCEPT ![n] = @ - 1]
    BY DEF Finally, CountDown
  <2>6. leases[n] = Cardinality(RunningOn(n)) /\ RunningOn(n) # {}
    BY <1>0, <2>2 DEF BooksSound
  <2>7. leases[n] - 1 \in Nat /\ leases[n] - 1 = Cardinality(RunningOn(n)')
    <3>1. IsFiniteSet(RunningOn(n)) /\ Cardinality(RunningOn(n)) \in Nat
          /\ Cardinality(RunningOn(n)') = leases[n] - 1
      BY <1>0, <2>2, <2>3, <2>6, CountChanges
    <3>2. leases[n] # 0
      BY <2>6, <3>1, FS_EmptySet
    <3> QED
      BY <2>6, <3>1, <3>2
  <2>8. ASSUME NEW m \in Node
        PROVE  leases'[m] = Cardinality(RunningOn(m)') /\ leases'[m] \in Nat
    <3>1. CASE m = n
      BY <1>0, <2>5, <2>7, <3>1 DEF LeaseTypeOK
    <3>2. CASE m # n
      <4>1. RunningOn(m)' = RunningOn(m) /\ leases'[m] = leases[m]
        BY <1>0, <2>4, <2>5, <3>2 DEF LeaseTypeOK
      <4> QED
        BY <4>1 DEF BooksSound, LeaseTypeOK
    <3> QED
      BY <3>1, <3>2
  <2>9. DOMAIN leases' = Node /\ leases' = [m \in Node |-> leases'[m]]
    BY <2>5 DEF LeaseTypeOK
  <2> QED
    BY <2>1, <2>8, <2>9 DEF BooksSound
<1>7. GrantsSound'
  <2>1. \A u \in Tick : Granted(u)' => Granted(u)
    BY <1>1 DEF Finally, BeginRelease, Send, Forget, Granted, LeaseTypeOK, Caller
  <2>2. \A u \in Tick : /\ Running(u)' => Running(u)
                        /\ Past(u)' => Past(u) \/ Running(u)
    BY <1>1 DEF Running, Past
  <2>3. holder' = holder /\ lapsed' = lapsed /\ nodeOf' = nodeOf
    BY DEF Finally, redisVars
  <2> QED
    BY <2>1, <2>2, <2>3 DEF GrantsSound
<1>8. Remembered'
  BY <1>1 DEF Finally, Remembered, TokenOf, Running, redisVars
<1> QED
  BY <1>1, <1>2, <1>3, <1>4, <1>5, <1>6, <1>7, <1>8 DEF Past

LEMMA TaskEndsStep ==
    ASSUME LeaseInv, NEW t \in Tick, Settled(t) \/ BodyFails(t) PROVE LeaseInv'
<1> USE LeaseAssumption DEF LeaseInv
<1>1. Running(t) /\ Finally(t)
  BY DEF Settled, BodyFails, Running
<1>2. /\ KeySound' /\ ReleasesSound' /\ AnswersSound' /\ BooksSound'
      /\ GrantsSound' /\ Remembered'
      /\ at' \in [Tick -> {"idle", "acquire", "skipped", "run", "settle", "drop",
                           "release", "retry", "done"}]
      /\ cmd' \in [Caller -> {"none", "sent", "yes", "no"}]
      /\ target' \in [Caller -> Tick \cup {NoTick}]
      /\ leases' \in [Node -> Nat]
      /\ Past(t)' /\ \A u \in Tick \ {t} : at'[u] = at[u]
  BY <1>1, FinallyStep
<1>3. /\ due' \in [Tick -> 0 .. MaxRenewals] /\ due'[t] = 0
      /\ renewal' \in [Tick -> {"none", "yes", "no"}]
      /\ postRun' \in [Tick -> {"none", "lost", "failed"}]
      /\ \A u \in Tick : /\ u # t => due'[u] = due[u]
                         /\ renewal'[u] \in {"none", renewal[u]}
                         /\ postRun'[u] \in {"none", postRun[u]}
  BY DEF Settled, BodyFails, LeaseTypeOK, renewalVars
<1>4. LeaseTypeOK'
  BY <1>1, <1>2, <1>3 DEF Finally, LeaseTypeOK, redisVars
<1>5. RenewalsSound' /\ TrueLoss'
  BY <1>1, <1>2, <1>3 DEF Finally, RenewalsSound, TrueLoss, TokenOf, Running, redisVars
<1> QED
  BY <1>2, <1>4, <1>5

\* The reply to a release: ownership is cleared only when Redis answered, and a
\* release that nobody waits for any more may still run.
LEMMA ReturnedFacts ==
    ASSUME LeaseInv, NEW p \in Caller, NEW n \in Node, NEW b \in BOOLEAN,
           Releasing(p), Returned(p, n, b), UNCHANGED <<redisVars, nodeOf>>,
           \A t \in Tick : (Past(t)' <=> Past(t)) /\ (Running(t)' <=> Running(t))
    PROVE  /\ owned' \in [Node -> Tick \cup {NoTick}]
           /\ stray' \subseteq Tick /\ \A t \in stray' : Past(t)
           /\ Remembered'
           /\ \A m \in Node : owned'[m] \in {owned[m], NoTick}
<1> USE LeaseAssumption DEF LeaseInv, Returned, ClearOwned, TokenOf
<1>1. owned' \in [Node -> Tick \cup {NoTick}] /\ \A m \in Node : owned'[m] \in {owned[m], NoTick}
  BY DEF LeaseTypeOK
<1>2. target[p] \in Tick /\ Past(target[p])
  BY DEF ReleasesSound, LeaseTypeOK
<1>3. stray' \subseteq Tick /\ \A t \in stray' : Past(t)
  BY <1>2 DEF ReleasesSound, LeaseTypeOK
<1>4. Remembered'
  <2> SUFFICES ASSUME NEW t \in Tick, holder = t, Past(t) \/ Running(t)
               PROVE  owned'[nodeOf[t]] = t
    BY DEF Remembered, Past, Running, redisVars
  <2>1. owned[nodeOf[t]] = t
    BY DEF Remembered, Past, Running
  <2>2. cmd[p] = "yes" => holder # target[p]
    BY <1>2 DEF AnswersSound
  <2> QED
    BY <2>1, <2>2 DEF LeaseTypeOK
<1> QED
  BY <1>1, <1>3, <1>4

LEMMA ReleaseReplyStep ==
    ASSUME LeaseInv, NEW t \in Tick, NEW b \in BOOLEAN, ReleaseReply(t, b)
    PROVE  LeaseInv'
<1> USE LeaseAssumption DEF LeaseInv
<1>n. PICK n \in Node : n = nodeOf[t]
  BY DEF LeaseTypeOK
<1>0. /\ UNCHANGED <<redisVars, life, overdue, leases, renewalVars, nodeOf>>
      /\ Returned(t, n, b)
      /\ Releasing(t) /\ t \in Caller /\ Past(t)
  BY <1>n DEF ReleaseReply, Releasing, Caller, Past
<1>a. \/ at' = [at EXCEPT ![t] = "done"] /\ Forget(t)
      \/ at' = [at EXCEPT ![t] = "retry"] /\ Send(t, owned[n]) /\ CanSweep(n, TRUE)
  BY <1>n DEF ReleaseReply
<1>1. at'[t] \in {"retry", "done"} /\ \A u \in Tick \ {t} : at'[u] = at[u]
  BY ZenonT(40) DEF ReleaseReply, LeaseTypeOK
<1>2. \A u \in Tick : /\ Past(u)' <=> Past(u)
                      /\ Running(u)' <=> Running(u)
                      /\ Unseen(u)' => Unseen(u)
  BY ZenonT(40), <1>0, <1>1 DEF ReleaseReply, Send, Forget, Past, Running, Unseen, LeaseTypeOK, Caller
<1>3. /\ owned' \in [Node -> Tick \cup {NoTick}]
      /\ stray' \subseteq Tick /\ \A u \in stray' : Past(u)
      /\ Remembered'
      /\ \A m \in Node : owned'[m] \in {owned[m], NoTick}
  BY <1>0, <1>2, ReturnedFacts
<1>4. LeaseTypeOK'
  <2>1. /\ at' \in [Tick -> {"idle", "acquire", "skipped", "run", "settle", "drop",
                             "release", "retry", "done"}]
        /\ cmd' \in [Caller -> {"none", "sent", "yes", "no"}]
        /\ target' \in [Caller -> Tick \cup {NoTick}]
    <3>1. owned[n] \in Tick \cup {NoTick}
      BY DEF LeaseTypeOK
    <3>2. CASE Forget(t) /\ at' = [at EXCEPT ![t] = "done"]
      BY <1>0, <3>2 DEF Forget, LeaseTypeOK
    <3>3. CASE Send(t, owned[n]) /\ at' = [at EXCEPT ![t] = "retry"]
      BY <1>0, <3>1, <3>3 DEF Send, LeaseTypeOK
    <3> QED
      BY <1>a, <3>2, <3>3
  <2> QED
    BY <1>0, <1>3, <2>1 DEF LeaseTypeOK, redisVars, renewalVars
<1>5. KeySound'
  BY <1>0, <1>2 DEF KeySound, redisVars
<1>6. /\ \A p \in Caller \ {t} : cmd'[p] = cmd[p] /\ target'[p] = target[p]
      /\ \/ at'[t] = "done" /\ target'[t] = NoTick
         \/ at'[t] = "retry" /\ cmd'[t] = "sent" /\ target'[t] = owned[n]
            /\ CanSweep(n, TRUE)
  BY ZenonT(40), <1>0, <1>a DEF Send, Forget, LeaseTypeOK
<1>7. ReleasesSound'
  <2>1. CanSweep(n, TRUE) => owned[n] # NoTick /\ Past(owned[n])
    BY NoneRuns DEF CanSweep, BooksSound, LeaseTypeOK
  <2>2. \A p \in Caller \ {t} : Releasing(p)' <=> Releasing(p)
    BY <1>1 DEF Releasing
  <2>3. /\ target'[t] # NoTick => Past(target[t])'
        /\ Releasing(t)' => target'[t] # NoTick
    <3>1. CASE target'[t] = NoTick
      BY <1>6, <3>1, <2>1, <1>0 DEF Releasing
    <3>2. CASE target'[t] # NoTick
      BY ZenonT(40), <1>6, <1>2, <3>2, <2>1 DEF LeaseTypeOK
    <3> QED
      BY <3>1, <3>2
  <2>4. \A p \in Caller \ {t} :
            /\ target'[p] # NoTick => Past(target[p])'
            /\ Releasing(p)' /\ cmd'[p] # "none" => target'[p] # NoTick
    BY <1>6, <1>2, <2>2 DEF ReleasesSound, LeaseTypeOK
  <2>5. \A u \in stray' : Past(u)'
    BY <1>2, <1>3
  <2> QED
    BY <2>3, <2>4, <2>5 DEF ReleasesSound
<1>8. AnswersSound'
  BY <1>0, <1>6 DEF AnswersSound, redisVars
<1>9. BooksSound'
  <2>1. \A m \in Node : RunningOn(m)' = RunningOn(m)
    BY <1>0, <1>2 DEF RunningOn
  <2>2. \A m \in Node : owned'[m] # NoTick =>
           nodeOf'[owned'[m]] = m /\ (Past(owned[m]) \/ Running(owned[m]))'
    BY <1>0, <1>2, <1>3 DEF BooksSound, LeaseTypeOK
  <2> QED
    BY <1>0, <2>1, <2>2 DEF BooksSound
<1>10. GrantsSound'
  <2>1. \A u \in Tick : Granted(u)' => Granted(u)
    BY <1>1, <1>6 DEF Granted, Caller
  <2> QED
    BY <1>0, <1>2, <2>1 DEF GrantsSound, redisVars
<1>11. RenewalsSound' /\ TrueLoss'
  BY <1>0, <1>2 DEF RenewalsSound, TrueLoss, TokenOf, redisVars, renewalVars
<1> QED
  BY <1>3, <1>4, <1>5, <1>7, <1>8, <1>9, <1>10, <1>11

-----------------------------------------------------------------------------
(* The steps of a node *)

\* What the shutdown leaves alone.
LEMMA NodeFrame ==
    ASSUME LeaseInv, NEW n \in Node, UNCHANGED <<redisVars, leases, nodeOf, at, renewalVars>>,
           \A p \in Caller \ {n} : cmd'[p] = cmd[p] /\ target'[p] = target[p],
           \A m \in Node : owned'[m] \in {owned[m], NoTick}
    PROVE  /\ \A t \in Tick : (Past(t)' <=> Past(t)) /\ (Running(t)' <=> Running(t))
           /\ \A t \in Tick : Releasing(t)' <=> Releasing(t)
           /\ KeySound' /\ BooksSound' /\ GrantsSound' /\ RenewalsSound' /\ TrueLoss'
<1> USE LeaseAssumption DEF LeaseInv, redisVars, renewalVars
<1>1. \A t \in Tick : /\ Past(t)' <=> Past(t)
                      /\ Running(t)' <=> Running(t)
                      /\ Releasing(t)' <=> Releasing(t)
                      /\ Granted(t)' <=> Granted(t)
                      /\ Unseen(t)' <=> Unseen(t)
  BY DEF Past, Running, Releasing, Granted, Unseen, Caller
<1>2. KeySound' /\ GrantsSound'
  BY <1>1 DEF KeySound, GrantsSound
<1>3. BooksSound'
  <2>1. \A m \in Node : RunningOn(m)' = RunningOn(m)
    BY <1>1 DEF RunningOn
  <2>2. \A m \in Node : owned'[m] # NoTick =>
           nodeOf'[owned'[m]] = m /\ (Past(owned[m]) \/ Running(owned[m]))'
    BY <1>1 DEF BooksSound, LeaseTypeOK
  <2> QED
    BY <2>1, <2>2 DEF BooksSound
<1>4. RenewalsSound' /\ TrueLoss'
  BY <1>1 DEF RenewalsSound, TrueLoss, TokenOf
<1> QED
  BY <1>1, <1>2, <1>3, <1>4

LEMMA ShutdownSteps ==
    ASSUME LeaseInv, NEW n \in Node, Shutdown(n) \/ DeadlinePasses(n) PROVE LeaseInv'
<1> USE LeaseAssumption DEF LeaseInv
<1>0. /\ UNCHANGED <<redisVars, stray, owned, leases, at, cmd, target, renewalVars, nodeOf>>
      /\ life' \in [Node -> {"ready", "stopping", "stopped"}]
      /\ overdue' \in [Node -> BOOLEAN]
  <2>1. CASE Shutdown(n)
    BY <2>1 DEF Shutdown, LeaseTypeOK
  <2>2. CASE DeadlinePasses(n)
    BY <2>2 DEF DeadlinePasses, LeaseTypeOK
  <2> QED
    BY <2>1, <2>2
<1>1. /\ \A t \in Tick : (Past(t)' <=> Past(t)) /\ (Running(t)' <=> Running(t))
      /\ \A t \in Tick : Releasing(t)' <=> Releasing(t)
      /\ KeySound' /\ BooksSound' /\ GrantsSound' /\ RenewalsSound' /\ TrueLoss'
  BY <1>0, NodeFrame
<1>2. LeaseTypeOK'
  BY <1>0 DEF LeaseTypeOK, redisVars, renewalVars
<1>3. ReleasesSound' /\ AnswersSound' /\ Remembered'
  BY <1>0, <1>1 DEF ReleasesSound, AnswersSound, Remembered, Releasing, Past, redisVars
<1> QED
  BY <1>1, <1>2, <1>3

\* A release is sent for the lease a node owns, when no task of it can run.
LEMMA SweepSent ==
    ASSUME LeaseInv, NEW n \in Node, Send(n, owned[n]), owned[n] # NoTick,
           Past(owned[n]), life' \in [Node -> {"ready", "stopping", "stopped"}],
           UNCHANGED <<redisVars, stray, overdue, owned, leases, at, renewalVars, nodeOf>>
    PROVE  LeaseInv'
<1> USE LeaseAssumption DEF LeaseInv
<1>0. /\ \A p \in Caller \ {n} : cmd'[p] = cmd[p] /\ target'[p] = target[p]
      /\ cmd'[n] = "sent" /\ target'[n] = owned[n] /\ n \in Caller
      /\ \A m \in Node : owned'[m] \in {owned[m], NoTick}
  BY DEF Send, LeaseTypeOK, Caller
<1>1. /\ \A t \in Tick : (Past(t)' <=> Past(t)) /\ (Running(t)' <=> Running(t))
      /\ \A t \in Tick : Releasing(t)' <=> Releasing(t)
      /\ KeySound' /\ BooksSound' /\ GrantsSound' /\ RenewalsSound' /\ TrueLoss'
  BY <1>0, NodeFrame
<1>2. LeaseTypeOK'
  BY DEF Send, LeaseTypeOK, redisVars, renewalVars, Caller
<1>3. ReleasesSound'
  BY SMTT(30), <1>0, <1>1 DEF ReleasesSound, LeaseTypeOK, Caller, Releasing
<1>4. AnswersSound' /\ Remembered'
  BY <1>0 DEF AnswersSound, Remembered, redisVars
<1> QED
  BY <1>1, <1>2, <1>3, <1>4

LEMMA WaitEndsStep ==
    ASSUME LeaseInv, NEW n \in Node, NEW b \in BOOLEAN, WaitEnds(n, b) PROVE LeaseInv'
<1> USE LeaseAssumption DEF LeaseInv
<1>0. UNCHANGED <<redisVars, stray, overdue, owned, leases, at, renewalVars, nodeOf>>
      /\ life' \in [Node -> {"ready", "stopping", "stopped"}]
  BY DEF WaitEnds, LeaseTypeOK
<1>1. CASE CanSweep(n, b)
  <2>1. Past(owned[n]) /\ owned[n] # NoTick
    <3>1. nodeOf[owned[n]] = n /\ owned[n] \in Tick
          /\ (Past(owned[n]) \/ Running(owned[n]))
      BY <1>1 DEF CanSweep, BooksSound, LeaseTypeOK
    <3>2. CASE b
      BY <1>1, <3>1, <3>2, NoneRuns DEF CanSweep
    <3>3. CASE ~b
      BY <3>1, <3>3 DEF WaitEnds, WaitOver, Active, Running, Past
    <3> QED
      BY <1>1, <3>1, <3>2, <3>3 DEF CanSweep
  <2>2. Send(n, owned[n])
    BY <1>1 DEF WaitEnds
  <2> QED
    BY <1>0, <2>1, <2>2, SweepSent
<1>2. CASE ~CanSweep(n, b)
  <2>0. UNCHANGED <<cmd, target>>
    BY <1>2 DEF WaitEnds
  <2>1. /\ \A t \in Tick : (Past(t)' <=> Past(t)) /\ (Running(t)' <=> Running(t))
        /\ \A t \in Tick : Releasing(t)' <=> Releasing(t)
        /\ KeySound' /\ BooksSound' /\ GrantsSound' /\ RenewalsSound' /\ TrueLoss'
    BY <1>0, <2>0, NodeFrame
  <2>2. LeaseTypeOK'
    BY <1>0, <2>0 DEF LeaseTypeOK, redisVars, renewalVars
  <2>3. ReleasesSound' /\ AnswersSound' /\ Remembered'
    BY <1>0, <2>0, <2>1 DEF ReleasesSound, AnswersSound, Remembered, Releasing, Past, redisVars
  <2> QED
    BY <2>1, <2>2, <2>3
<1> QED
  BY <1>1, <1>2

LEMMA ShutdownAgainStep ==
    ASSUME LeaseInv, NEW n \in Node, ShutdownAgain(n) PROVE LeaseInv'
<1> USE LeaseAssumption DEF LeaseInv
<1>1. owned[n] # NoTick /\ Send(n, owned[n])
  BY DEF ShutdownAgain, CanSweep
<1>2. Past(owned[n])
  BY <1>1 DEF ShutdownAgain, Active, BooksSound, Running, LeaseTypeOK
<1>3. /\ UNCHANGED <<redisVars, stray, overdue, owned, leases, at, renewalVars, nodeOf>>
      /\ life' \in [Node -> {"ready", "stopping", "stopped"}]
  BY DEF ShutdownAgain, nodeVars, LeaseTypeOK
<1> QED
  BY <1>1, <1>2, <1>3, SweepSent

LEMMA SweepReplyStep ==
    ASSUME LeaseInv, NEW n \in Node, NEW b \in BOOLEAN, SweepReply(n, b) PROVE LeaseInv'
<1> USE LeaseAssumption DEF LeaseInv
<1>0. /\ UNCHANGED <<redisVars, overdue, leases, at, renewalVars, nodeOf>>
      /\ Returned(n, n, b) /\ Releasing(n) /\ n \in Caller
      /\ life' \in [Node -> {"ready", "stopping", "stopped"}]
      /\ cmd' \in [Caller -> {"none", "sent", "yes", "no"}]
      /\ target' \in [Caller -> Tick \cup {NoTick}]
      /\ \A p \in Caller \ {n} : cmd'[p] = cmd[p] /\ target'[p] = target[p]
      /\ cmd'[n] = "none" /\ target'[n] = NoTick
  BY DEF SweepReply, Forget, Releasing, Caller, LeaseTypeOK
<1>1. \A t \in Tick : (Past(t)' <=> Past(t)) /\ (Running(t)' <=> Running(t))
  BY <1>0 DEF Past, Running
<1>2. /\ owned' \in [Node -> Tick \cup {NoTick}]
      /\ stray' \subseteq Tick /\ \A t \in stray' : Past(t)
      /\ Remembered'
      /\ \A m \in Node : owned'[m] \in {owned[m], NoTick}
  BY <1>0, <1>1, ReturnedFacts
<1>3. /\ \A t \in Tick : Releasing(t)' <=> Releasing(t)
      /\ KeySound' /\ BooksSound' /\ GrantsSound' /\ RenewalsSound' /\ TrueLoss'
  BY <1>0, <1>2, NodeFrame
<1>4. LeaseTypeOK'
  BY <1>0, <1>2 DEF LeaseTypeOK, redisVars, renewalVars
<1>5. ReleasesSound'
  BY <1>0, <1>1, <1>2, <1>3 DEF ReleasesSound, LeaseTypeOK, Caller, Releasing
<1>6. AnswersSound'
  BY <1>0 DEF AnswersSound, redisVars
<1> QED
  BY <1>2, <1>3, <1>4, <1>5, <1>6

-----------------------------------------------------------------------------
(* The invariant *)

\* Every step of the scheduler, of Redis and of the clock keeps the invariant.
LEMMA LeaseStepKeeps == LeaseInv /\ [LeaseNext]_leaseVars => LeaseInv'
<1> SUFFICES ASSUME LeaseInv, [LeaseNext]_leaseVars PROVE LeaseInv'
  OBVIOUS
<1>1. CASE Expire
  BY <1>1, ExpireStep
<1>2. ASSUME NEW t \in Tick, TickStep(t) PROVE LeaseInv'
  <2>1. ASSUME NEW b \in BOOLEAN, Acquired(t, b) \/ ReleaseReply(t, b) PROVE LeaseInv'
    BY <2>1, AcquiredStep, ReleaseReplyStep
  <2>2. CASE RenewalRuns(t) \/ RenewalDue(t) \/ \E b \in BOOLEAN : RenewalReply(t, b)
    BY <2>2, RenewalSteps
  <2>3. CASE SetRuns(t) \/ AcquireFails(t) \/ StrayRuns(t) \/ BodyEnds(t)
    BY <2>3, SetRunsStep, AcquireFailsStep, StrayRunsStep, BodyEndsStep
  <2>4. CASE BodyFails(t) \/ Settled(t)
    BY <2>4, TaskEndsStep
  <2>5. ASSUME NEW n \in Node, BeginTick(t, n) PROVE LeaseInv'
    BY <2>5, BeginTickStep
  <2> QED
    BY <1>2, <2>1, <2>2, <2>3, <2>4, <2>5 DEF TickStep
<1>3. ASSUME NEW n \in Node, NodeStep(n) PROVE LeaseInv'
  <2>1. ASSUME NEW b \in BOOLEAN, WaitEnds(n, b) \/ SweepReply(n, b) PROVE LeaseInv'
    BY <2>1, WaitEndsStep, SweepReplyStep
  <2> QED
    BY <1>3, <2>1, ShutdownSteps, ShutdownAgainStep DEF NodeStep
<1>4. ASSUME NEW p \in Caller, ReleaseRuns(p) PROVE LeaseInv'
  BY <1>4, ReleaseRunsStep
<1>5. CASE UNCHANGED leaseVars
  <2>1. UNCHANGED <<redisVars, stray, nodeVars, nodeOf, at, cmd, target, renewalVars>>
    BY <1>5 DEF leaseVars, redisVars, nodeVars, renewalVars
  <2>2. /\ KeySound' /\ ReleasesSound' /\ AnswersSound' /\ BooksSound'
        /\ GrantsSound' /\ Remembered'
    BY <2>1, RenewalOnly
  <2>3. LeaseTypeOK' /\ RenewalsSound' /\ TrueLoss'
    BY <2>1 DEF LeaseInv, LeaseTypeOK, RenewalsSound, TrueLoss, Running, TokenOf,
                redisVars, nodeVars, renewalVars
  <2> QED
    BY <2>2, <2>3 DEF LeaseInv
<1> QED
  BY <1>1, <1>2, <1>3, <1>4, <1>5 DEF LeaseNext

LEMMA LeaseInitially == LeaseInit => LeaseInv
<1> SUFFICES ASSUME LeaseInit PROVE LeaseInv
  OBVIOUS
<1> USE LeaseAssumption DEF LeaseInit
<1>1. LeaseTypeOK
  <2>1. (CHOOSE n \in Node : TRUE) \in Node
    OBVIOUS
  <2> QED
    BY <2>1 DEF LeaseTypeOK, Caller
<1>2. KeySound /\ ReleasesSound /\ AnswersSound
  BY DEF KeySound, ReleasesSound, AnswersSound, Caller
<1>3. BooksSound
  <2>1. \A n \in Node : RunningOn(n) = {}
    BY DEF RunningOn, Running
  <2> QED
    BY <2>1, FS_EmptySet DEF BooksSound
<1>4. GrantsSound /\ Remembered /\ RenewalsSound /\ TrueLoss
  BY DEF GrantsSound, Granted, Remembered, RenewalsSound, TrueLoss, Running, Past, TokenOf
<1> QED
  BY <1>1, <1>2, <1>3, <1>4 DEF LeaseInv

LEMMA LeaseInvariant == LeaseSpec => []LeaseInv
<1>1. LeaseInit => LeaseInv
  BY LeaseInitially
<1>2. LeaseInv /\ [LeaseNext]_leaseVars => LeaseInv'
  BY LeaseStepKeeps
<1> QED
  BY <1>1, <1>2, PTL DEF LeaseSpec

\* What the nodes believe of their locks agrees with what Redis holds, through
\* late releases, renewals in flight and timed-out drains (service.ts,
\* runDistributedTaskTick(); distributed-lock-manager.ts).
THEOREM LeasesAreSafe == LeaseSpec => []LeaseSafe
<1>1. LeaseInv => LeaseSafe
  BY DEF LeaseInv, LeaseSafe, HeldWhileRunning, GrantsSound, TokenOf
<1> QED
  BY <1>1, LeaseInvariant, PTL

-----------------------------------------------------------------------------
(* The lease of LeaseLock *)

Working == {t \in Tick : Running(t)}

\* Every step of the scheduler is a step of the abstract lease, or none.
LEMMA LockStep ==
    LeaseInv /\ [LeaseNext]_leaseVars => [Lock!Next]_<<holder, lapsed, Working>>
<1> SUFFICES ASSUME LeaseInv, [LeaseNext]_leaseVars
             PROVE  Lock!Next \/ UNCHANGED <<holder, lapsed, Working>>
  OBVIOUS
<1> USE LeaseAssumption DEF LeaseInv
<1> DEFINE Same == UNCHANGED <<holder, lapsed, Working>>
<1>g. ASSUME NEW x \in Tick, Past(x), holder' = Deleted(x), lapsed' = lapsed, at' = at
      PROVE  Lock!GiveBack \/ Same
  BY <1>g DEF Deleted, TokenOf, Lock!GiveBack, Past, Running, Working
<1>1. CASE Expire
  BY <1>1 DEF Expire, Lock!Next, Lock!RunOut, KeySound, Working, Running
<1>2. ASSUME NEW t \in Tick, TickStep(t) PROVE Lock!Next \/ Same
  <2>1. ASSUME NEW n \in Node, BeginTick(t, n) PROVE Same
    BY <2>1 DEF BeginTick, redisVars, Working, Running, LeaseTypeOK
  <2>2. CASE SetRuns(t)
    <3>1. Working' = Working
      BY <2>2 DEF SetRuns, Working, Running
    <3>2. t \notin lapsed \cup Working
      BY <2>2 DEF SetRuns, KeySound, Unseen, Working, Running
    <3> QED
      BY <2>2, <3>1, <3>2 DEF SetRuns, Lock!Next, Lock!Grant, TokenOf, Working
  <2>3. CASE AcquireFails(t)
    BY <2>3 DEF AcquireFails, redisVars, Working, Running, LeaseTypeOK
  <2>4. CASE RenewalDue(t) \/ RenewalRuns(t) \/ \E b \in BOOLEAN : RenewalReply(t, b)
    BY <2>4 DEF RenewalDue, RenewalRuns, RenewalReply, redisVars, Working, Running
  <2>5. CASE BodyEnds(t)
    BY <2>5 DEF BodyEnds, redisVars, Working, Running, LeaseTypeOK
  <2>6. CASE BodyFails(t) \/ Settled(t)
    <3>1. Running(t) /\ Finally(t)
      BY <2>6 DEF Settled, BodyFails, Running
    <3>2. Past(t)' /\ \A u \in Tick \ {t} : at'[u] = at[u]
      BY <3>1, FinallyStep
    <3>3. Working' = Working \ {t}
      BY <3>2 DEF Working, Running, Past
    <3> QED
      BY <3>1, <3>3 DEF Finally, redisVars, Lock!Next, Lock!End, Working
  <2>7. CASE StrayRuns(t)
    <3>1. Past(t)
      BY <2>7 DEF StrayRuns, ReleasesSound
    <3> QED
      BY <2>7, <3>1, <1>g DEF StrayRuns, Lock!Next
  <2>8. ASSUME NEW b \in BOOLEAN, Acquired(t, b) PROVE Lock!Next \/ Same
    <3>0. /\ holder' = holder /\ lapsed' = lapsed
          /\ at[t] = "acquire" /\ at'[t] \in {"run", "drop", "done"}
          /\ \A u \in Tick \ {t} : at'[u] = at[u]
      BY <2>8 DEF Acquired, BeginRelease, LeaseTypeOK, redisVars
    <3>1. t = holder \/ t \in lapsed
      BY <2>8 DEF Acquired, GrantsSound, Granted
    <3>2. CASE at'[t] = "run"
      <4>1. Working' = Working \cup {t}
        BY <3>0, <3>2 DEF Working, Running
      <4> QED
        BY <3>0, <3>1, <4>1 DEF Lock!Next, Lock!Begin, Working
    <3>3. CASE at'[t] # "run"
      BY <3>0, <3>3 DEF Working, Running
    <3> QED
      BY <3>2, <3>3
  <2>9. ASSUME NEW b \in BOOLEAN, ReleaseReply(t, b) PROVE Same
    <3>1. /\ at[t] \in {"drop", "release", "retry"} /\ at'[t] \in {"retry", "done"}
          /\ \A u \in Tick \ {t} : at'[u] = at[u]
      BY ZenonT(40), <2>9 DEF ReleaseReply, LeaseTypeOK
    <3> QED
      BY <2>9, <3>1 DEF ReleaseReply, redisVars, Working, Running
  <2> QED
    BY <1>2, <2>1, <2>2, <2>3, <2>4, <2>5, <2>6, <2>7, <2>8, <2>9 DEF TickStep
<1>3. ASSUME NEW n \in Node, NodeStep(n) PROVE Same
  BY <1>3 DEF NodeStep, Shutdown, DeadlinePasses, ShutdownAgain, WaitEnds, SweepReply,
              redisVars, Working, Running
<1>4. ASSUME NEW p \in Caller, ReleaseRuns(p) PROVE Lock!Next \/ Same
  <2>1. target[p] \in Tick /\ Past(target[p])
    BY <1>4 DEF ReleaseRuns, ReleasesSound, LeaseTypeOK
  <2> QED
    BY <1>4, <2>1, <1>g DEF ReleaseRuns, Lock!Next
<1>5. CASE UNCHANGED leaseVars
  BY <1>5 DEF leaseVars, Working, Running
<1> QED
  BY <1>1, <1>2, <1>3, <1>4, <1>5 DEF LeaseNext

\* The scheduler, its lock manager and Redis implement the lease: one owner at
\* a time, and nobody gives the key back while the body of its owner runs.
THEOREM SchedulerImplementsLease == LeaseSpec => ImplementsLease
<1>1. LeaseInit => Lock!Init
  BY DEF LeaseInit, Lock!Init, Running
<1>2. LeaseInv /\ [LeaseNext]_leaseVars => [Lock!Next]_<<holder, lapsed, Working>>
  BY LockStep
<1> QED
  BY <1>1, <1>2, LeaseInvariant, PTL
     DEF LeaseSpec, ImplementsLease, Lock!Spec, Lock!vars, Working

-----------------------------------------------------------------------------
(* CronRegistry: the parts of the inductive invariant *)

FieldsTyped ==
    /\ phase \in {"created", "ready", "stopping"}
    /\ task \in 0 .. MaxTasks
    /\ kind \in [Tasks -> {"none", "cron", "timeout"}]
    /\ enabled \in [Tasks -> BOOLEAN] /\ busy \in [Tasks -> BOOLEAN]
    /\ handle \in [Tasks -> 0 .. MaxHandles] /\ token \in [Tasks -> 0 .. MaxHandles]
    /\ unstopped \in [Tasks -> SUBSET Handles]
    /\ handles \in 0 .. MaxHandles
    /\ live \subseteq Handles /\ timers \subseteq Handles
    /\ calls \subseteq [task : Tasks, token : Handles, step : {"lease", "body", "end"}]

\* A task is busy while its only tick is under way.
BusySound ==
    /\ \A i \in Tasks : busy[i] <=> \E c \in calls : c.task = i
    /\ NoOverlap

\* Tasks are numbered in order, and only the registered one has handles.
TasksSound ==
    /\ \E n \in Nat : {i \in Tasks : kind[i] # "none"} = 1 .. n
    /\ task # 0 => kind[task] # "none"
    /\ token = handle
    /\ \A i \in Tasks : i # task => handle[i] = 0 /\ unstopped[i] = {}

\* A job that runs is known to the registered task, and the handle of a task is
\* a job that runs, a timer that is set, or the timer that began its tick.
HandlesSound ==
    /\ JobsKept
    /\ live # {} => kind[task] = "cron"
    /\ \A i \in Tasks : handle[i] # 0 =>
          \/ kind[i] = "cron" /\ handle[i] \in live
          \/ /\ kind[i] = "timeout"
             /\ handle[i] \in timers \/ \E c \in calls : c.task = i /\ c.token = handle[i]

EnabledHasHandle ==
    phase = "ready" /\ task # 0 /\ enabled[task] /\ unstopped[task] = {} => handle[task] # 0

RegistryInv == FieldsTyped /\ BusySound /\ TasksSound /\ HandlesSound /\ EnabledHasHandle

-----------------------------------------------------------------------------
(* CronRegistry: schedules *)

LEMMA Bounds ==
    /\ MaxTasks \in Nat /\ MaxHandles \in Nat
    /\ \A i : i \in Tasks <=> i \in 0 .. MaxTasks /\ i # 0
    /\ \A h : h \in Handles <=> h \in 0 .. MaxHandles /\ h # 0
BY RegistryAssumption DEF Tasks, Handles

\* The next registration has a number of its own.
LEMMA FreshTask ==
    ASSUME FieldsTyped, TasksSound, Fresh <= MaxTasks
    PROVE  /\ Fresh \in Tasks /\ kind[Fresh] = "none"
           /\ {i \in Tasks : kind[i] # "none"} = 1 .. Fresh - 1
<1>1. PICK n \in Nat : {i \in Tasks : kind[i] # "none"} = 1 .. n
  BY DEF TasksSound
<1>2. Cardinality(1 .. n) = n
  BY FS_Interval
<1>3. Fresh = n + 1
  BY <1>1, <1>2 DEF Fresh
<1> QED
  BY <1>1, <1>3, Bounds DEF Tasks

\* A task that is scheduled has a handle.
LEMMA Scheduled ==
    ASSUME FieldsTyped, NEW i \in Tasks, NEW k \in {"cron", "timeout"}, ScheduleTask(i, k)
    PROVE  /\ handle' \in [Tasks -> 0 .. MaxHandles] /\ token' \in [Tasks -> 0 .. MaxHandles]
           /\ handles' \in 0 .. MaxHandles /\ live' \subseteq Handles /\ timers' \subseteq Handles
           /\ token = handle => token' = handle'
           /\ \A j \in Tasks : j # i => handle'[j] = handle[j]
           /\ handle'[i] # 0
           /\ \/ handle'[i] = handle[i] /\ UNCHANGED <<live, timers>>
              \/ handle[i] = 0 /\ k = "cron" /\ live' = live \cup {handle'[i]} /\ timers' = timers
              \/ handle[i] = 0 /\ k = "timeout" /\ timers' = timers \cup {handle'[i]} /\ live' = live
<1>1. CASE handle[i] # 0
  BY <1>1 DEF ScheduleTask, FieldsTyped
<1>2. CASE handle[i] = 0
  <2>1. /\ handles' = handles + 1 /\ handles' \in 0 .. MaxHandles /\ handles' # 0
        /\ handles' \in Handles
    BY <1>2, Bounds DEF ScheduleTask, Create, FieldsTyped
  <2>2. /\ handle' = [handle EXCEPT ![i] = handles'] /\ token' = [token EXCEPT ![i] = handles']
        /\ live' = (IF k = "cron" THEN live \cup {handles'} ELSE live)
        /\ timers' = (IF k = "cron" THEN timers ELSE timers \cup {handles'})
    BY <1>2, <2>1 DEF ScheduleTask, Set
  <2>3. handle'[i] = handles' /\ \A j \in Tasks : j # i => handle'[j] = handle[j]
    BY <2>2 DEF FieldsTyped
  <2>4. handle' \in [Tasks -> 0 .. MaxHandles] /\ token' \in [Tasks -> 0 .. MaxHandles]
    BY <2>1, <2>2 DEF FieldsTyped
  <2>5. live' \subseteq Handles /\ timers' \subseteq Handles
    BY <2>1, <2>2 DEF FieldsTyped
  <2> QED
    BY <1>2, <2>1, <2>2, <2>3, <2>4, <2>5
<1> QED
  BY <1>1, <1>2

\* A task that is unscheduled keeps what could not be stopped.
LEMMA Unscheduled ==
    ASSUME FieldsTyped, NEW i \in Tasks, NEW S \in Stops(i), UnscheduleTask(i, S)
    PROVE  /\ handle' \in [Tasks -> 0 .. MaxHandles] /\ token' \in [Tasks -> 0 .. MaxHandles]
           /\ unstopped' \in [Tasks -> SUBSET Handles]
           /\ live' = live \ S /\ timers' = timers \ S
           /\ token = handle => token' = handle'
           /\ \A j \in Tasks : j # i => handle'[j] = handle[j] /\ unstopped'[j] = unstopped[j]
           /\ handle'[i] = (IF handle[i] \in S THEN 0 ELSE handle[i])
           /\ unstopped'[i] = unstopped[i] \ S
           /\ S \subseteq Stoppable(i) /\ (kind[i] = "timeout" => S = Stoppable(i))
<1>1. S \subseteq Stoppable(i) /\ (kind[i] = "timeout" => S = Stoppable(i))
  BY DEF Stops
<1>2. /\ handle' = IF handle[i] \in S THEN [handle EXCEPT ![i] = 0] ELSE handle
      /\ token' = IF handle[i] \in S THEN [token EXCEPT ![i] = 0] ELSE token
      /\ unstopped' = [unstopped EXCEPT ![i] = unstopped[i] \ S]
      /\ live' = live \ S /\ timers' = timers \ S
  BY DEF UnscheduleTask, Set
<1>3. 0 \in 0 .. MaxHandles
  BY Bounds
<1>4. handle' \in [Tasks -> 0 .. MaxHandles] /\ token' \in [Tasks -> 0 .. MaxHandles]
  BY <1>2, <1>3 DEF FieldsTyped
<1>5. unstopped' \in [Tasks -> SUBSET Handles]
  BY <1>2 DEF FieldsTyped
<1>6. /\ token = handle => token' = handle'
      /\ \A j \in Tasks : j # i => handle'[j] = handle[j]
      /\ handle'[i] = (IF handle[i] \in S THEN 0 ELSE handle[i])
  BY <1>2 DEF FieldsTyped
<1>7. /\ \A j \in Tasks : j # i => unstopped'[j] = unstopped[j]
      /\ unstopped'[i] = unstopped[i] \ S
  BY <1>2 DEF FieldsTyped
<1> QED
  BY <1>1, <1>2, <1>4, <1>5, <1>6, <1>7

\* A timeout task that has fired disables itself.
LEMMA Completed ==
    ASSUME FieldsTyped, NEW h, CompleteTimeout(h)
    PROVE  /\ handle' \in [Tasks -> 0 .. MaxHandles] /\ token' \in [Tasks -> 0 .. MaxHandles]
           /\ enabled' \in [Tasks -> BOOLEAN]
           /\ token = handle => token' = handle'
           /\ \A j \in Tasks : \/ handle'[j] = handle[j] /\ enabled'[j] = enabled[j]
                               \/ kind[j] = "timeout" /\ handle'[j] = 0 /\ enabled'[j] = FALSE
           /\ task # 0 /\ kind[task] = "timeout" /\ token[task] = h => handle'[task] = 0
<1>1. CASE task # 0 /\ kind[task] = "timeout" /\ token[task] = h
  <2>1. task \in Tasks /\ 0 \in 0 .. MaxHandles
    BY <1>1, Bounds DEF FieldsTyped
  <2>2. /\ handle' = [handle EXCEPT ![task] = 0] /\ token' = [token EXCEPT ![task] = 0]
        /\ enabled' = [enabled EXCEPT ![task] = FALSE]
    BY <1>1 DEF CompleteTimeout, Set
  <2>3. handle' \in [Tasks -> 0 .. MaxHandles] /\ token' \in [Tasks -> 0 .. MaxHandles]
        /\ enabled' \in [Tasks -> BOOLEAN]
    BY <2>1, <2>2 DEF FieldsTyped
  <2> QED
    BY <1>1, <2>1, <2>2, <2>3 DEF FieldsTyped
<1>2. CASE ~(task # 0 /\ kind[task] = "timeout" /\ token[task] = h)
  BY <1>2 DEF CompleteTimeout, FieldsTyped
<1> QED
  BY <1>1, <1>2

LEMMA FieldsKept ==
    ASSUME FieldsTyped, TasksSound, [RegistryNext]_registryVars
    PROVE  FieldsTyped'
<1>0. /\ MaxTasks \in Nat /\ MaxHandles \in Nat /\ 0 \in 0 .. MaxHandles /\ 0 \in 0 .. MaxTasks
      /\ task # 0 => task \in Tasks
      /\ task \in 0 .. MaxTasks
  BY Bounds DEF FieldsTyped
<1>1. CASE UNCHANGED registryVars
  BY <1>1 DEF FieldsTyped, registryVars
<1>2. ASSUME NEW k \in {"cron", "timeout"}, Add(k) PROVE FieldsTyped'
  <2>1. Fresh \in Tasks /\ Fresh \in 0 .. MaxTasks
    BY <1>2, FreshTask, Bounds DEF Add
  <2>2. /\ kind' = [kind EXCEPT ![Fresh] = k] /\ enabled' = [enabled EXCEPT ![Fresh] = TRUE]
        /\ task' = Fresh /\ UNCHANGED <<phase, unstopped, busy, calls>>
        /\ \/ ScheduleTask(Fresh, k)
           \/ UNCHANGED <<handle, token, handles, live, timers>>
    BY <1>2 DEF Add, Set
  <2>3. kind' \in [Tasks -> {"none", "cron", "timeout"}] /\ enabled' \in [Tasks -> BOOLEAN]
    BY <2>1, <2>2 DEF FieldsTyped
  <2>4. CASE ScheduleTask(Fresh, k)
    BY <2>1, <2>2, <2>3, <2>4, Scheduled DEF FieldsTyped
  <2>5. CASE UNCHANGED <<handle, token, handles, live, timers>>
    BY <2>1, <2>2, <2>3, <2>5 DEF FieldsTyped
  <2> QED
    BY <2>2, <2>4, <2>5
<1>3. ASSUME task # 0, kind[task] # "none",
             ScheduleTask(task, kind[task]) \/ UNCHANGED <<handle, token, handles, live, timers>>
      PROVE  /\ handle' \in [Tasks -> 0 .. MaxHandles] /\ token' \in [Tasks -> 0 .. MaxHandles]
             /\ handles' \in 0 .. MaxHandles /\ live' \subseteq Handles /\ timers' \subseteq Handles
  <2>1. task \in Tasks /\ kind[task] \in {"cron", "timeout"}
    BY <1>0, <1>3 DEF FieldsTyped
  <2> QED
    BY <1>3, <2>1, Scheduled DEF FieldsTyped
<1>4. CASE Enable
  <2>1. enabled' \in [Tasks -> BOOLEAN]
    BY <1>0, <1>4 DEF Enable, Set, FieldsTyped
  <2> QED
    BY <1>3, <1>4, <2>1 DEF Enable, FieldsTyped, TasksSound
<1>5. CASE Bootstrap
  <2>1. CASE task # 0 /\ enabled[task]
    BY <1>3, <1>5, <2>1 DEF Bootstrap, FieldsTyped, TasksSound
  <2>2. CASE ~(task # 0 /\ enabled[task])
    BY <1>5, <2>2 DEF Bootstrap, FieldsTyped
  <2> QED
    BY <2>1, <2>2
<1>6. ASSUME Create PROVE handles' = handles + 1 /\ handles' \in 0 .. MaxHandles /\ handles' \in Handles
  BY <1>0, <1>6, Bounds DEF Create, FieldsTyped
<1>7. CASE Update
  <2>1. /\ task \in Tasks /\ handle' = [handle EXCEPT ![task] = handles']
        /\ token' = [token EXCEPT ![task] = handles']
        /\ live' = (live \ {handle[task]}) \cup {handles'}
        /\ UNCHANGED <<phase, task, kind, enabled, unstopped, busy, timers, calls>>
    BY <1>0, <1>6, <1>7 DEF Update, CanUpdate, Set
  <2>2. handles' \in 0 .. MaxHandles /\ handles' \in Handles
    BY <1>6, <1>7 DEF Update
  <2>3. handle' \in [Tasks -> 0 .. MaxHandles] /\ token' \in [Tasks -> 0 .. MaxHandles]
    BY <2>1, <2>2 DEF FieldsTyped
  <2>4. live' \subseteq Handles
    BY <2>1, <2>2 DEF FieldsTyped
  <2> QED
    BY <2>1, <2>2, <2>3, <2>4 DEF FieldsTyped
<1>8. ASSUME NEW b \in BOOLEAN, UpdateFails(b) PROVE FieldsTyped'
  <2>1. task \in Tasks /\ handles' \in 0 .. MaxHandles /\ handles' \in Handles
        /\ handles' = handles + 1
    BY <1>0, <1>6, <1>8 DEF UpdateFails, CanUpdate
  <2>2. live' \subseteq Handles /\ unstopped' \in [Tasks -> SUBSET Handles]
    BY <1>8, <2>1 DEF UpdateFails, Set, FieldsTyped
  <2> QED
    BY <1>8, <2>1, <2>2 DEF UpdateFails, FieldsTyped
<1>9. ASSUME NEW S, task # 0, S \in Stops(task), UnscheduleTask(task, S)
      PROVE  /\ handle' \in [Tasks -> 0 .. MaxHandles] /\ token' \in [Tasks -> 0 .. MaxHandles]
             /\ unstopped' \in [Tasks -> SUBSET Handles]
             /\ live' \subseteq Handles /\ timers' \subseteq Handles
  BY <1>0, <1>9, Unscheduled DEF FieldsTyped
<1>10. ASSUME NEW S, Remove(S) PROVE FieldsTyped'
  BY <1>0, <1>9, <1>10 DEF Remove, FieldsTyped
<1>11. ASSUME NEW S, Disable(S) PROVE FieldsTyped'
  <2>1. enabled' \in [Tasks -> BOOLEAN]
    BY <1>0, <1>11 DEF Disable, Set, FieldsTyped
  <2> QED
    BY <1>9, <1>11, <2>1 DEF Disable, FieldsTyped
<1>12. ASSUME NEW S, StopAll(S) PROVE FieldsTyped'
  <2>1. CASE task # 0
    BY <1>9, <1>12, <2>1 DEF StopAll, FieldsTyped
  <2>2. CASE task = 0
    BY <1>12, <2>2 DEF StopAll, FieldsTyped
  <2> QED
    BY <2>1, <2>2
<1>13. ASSUME NEW h \in Handles, NEW step \in {"lease", "body"}, task # 0,
              calls' = calls \cup {[task |-> task, token |-> h, step |-> step]},
              busy' = [busy EXCEPT ![task] = TRUE]
       PROVE  /\ calls' \subseteq [task : Tasks, token : Handles, step : {"lease", "body", "end"}]
              /\ busy' \in [Tasks -> BOOLEAN]
  <2>1. calls' \subseteq [task : Tasks, token : Handles, step : {"lease", "body", "end"}]
    BY <1>0, <1>13 DEF FieldsTyped
  <2>2. busy' \in [Tasks -> BOOLEAN]
    BY <1>0, <1>13 DEF FieldsTyped
  <2> QED
    BY <2>1, <2>2
<1>14. ASSUME NEW h \in Handles, NEW step \in {"lease", "body"}, JobFires(h, step)
       PROVE  FieldsTyped'
  BY <1>13, <1>14 DEF JobFires, Admits, Set, FieldsTyped, fields
<1>15. ASSUME NEW h \in Handles, NEW step \in {"lease", "body"}, TimerFires(h, step)
       PROVE  FieldsTyped'
  <2>1. CASE Admits(h)
    BY <1>13, <1>15, <2>1 DEF TimerFires, Admits, Set, FieldsTyped
  <2>2. CASE ~Admits(h)
    BY <1>15, <2>2, Completed DEF TimerFires, FieldsTyped
  <2> QED
    BY <2>1, <2>2
<1>16. ASSUME NEW c \in calls, NEW step \in {"body", "end"}, Move(c, step)
       PROVE  calls' \subseteq [task : Tasks, token : Handles, step : {"lease", "body", "end"}]
  BY <1>16 DEF Move, FieldsTyped
<1>17. ASSUME NEW c \in calls, NEW b \in BOOLEAN, LeaseAnswers(c, b) PROVE FieldsTyped'
  <2>1. PICK step \in {"body", "end"} : Move(c, step)
    BY <1>17 DEF LeaseAnswers
  <2> QED
    BY <1>16, <1>17, <2>1 DEF LeaseAnswers, FieldsTyped, fields
<1>18. ASSUME NEW c \in calls, BodyDone(c) PROVE FieldsTyped'
  <2>1. c.task \in Tasks
    BY DEF FieldsTyped
  <2>2. /\ enabled' \in [Tasks -> BOOLEAN]
        /\ handle' \in [Tasks -> 0 .. MaxHandles] /\ token' \in [Tasks -> 0 .. MaxHandles]
    BY ZenonT(40), <1>0, <1>18, <2>1 DEF BodyDone, Set, FieldsTyped
  <2> QED
    BY <1>16, <1>18, <2>2 DEF BodyDone, FieldsTyped
<1>19. ASSUME NEW c \in calls, TickEnds(c) PROVE FieldsTyped'
  <2>1. busy' \in [Tasks -> BOOLEAN] /\ c.token \in Handles
    BY <1>19 DEF TickEnds, NotBusy, Set, FieldsTyped
  <2> QED
    BY <1>19, <2>1, Completed DEF TickEnds, FieldsTyped
<1> QED
  BY <1>1, <1>2, <1>4, <1>5, <1>7, <1>8, <1>10, <1>11, <1>12, <1>14, <1>15, <1>17, <1>18, <1>19
  DEF RegistryNext

\* A task is busy while a tick of it is under way, and there is only one.
LEMMA BusyKept ==
    ASSUME FieldsTyped, BusySound, [RegistryNext]_registryVars
    PROVE  BusySound'
<1>1. CASE UNCHANGED <<busy, calls>>
  BY <1>1 DEF BusySound, NoOverlap
<1>2. ASSUME NEW h, NEW step, Admits(h), busy' = [busy EXCEPT ![task] = TRUE],
             calls' = calls \cup {[task |-> task, token |-> h, step |-> step]}
      PROVE  BusySound'
  <2>1. task \in Tasks /\ ~busy[task] /\ \A c \in calls : c.task # task
    BY <1>2, Bounds DEF Admits, BusySound, FieldsTyped
  <2> DEFINE d == [task |-> task, token |-> h, step |-> step]
  <2>2. d.task = task /\ calls' = calls \cup {d}
    BY <1>2
  <2> HIDE DEF d
  <2>3. NoOverlap'
    BY <2>1, <2>2 DEF BusySound, NoOverlap
  <2>4. \A i \in Tasks : busy'[i] <=> \E c \in calls' : c.task = i
    BY <1>2, <2>1, <2>2 DEF BusySound, FieldsTyped
  <2> QED
    BY <2>3, <2>4 DEF BusySound
<1>3. ASSUME NEW c \in calls, NEW step, Move(c, step), UNCHANGED busy PROVE BusySound'
  <2> DEFINE d == [c EXCEPT !.step = step]
  <2>1. d.task = c.task /\ calls' = (calls \ {c}) \cup {d}
    BY <1>3 DEF Move, FieldsTyped
  <2> HIDE DEF d
  <2>2. NoOverlap'
    BY <2>1 DEF BusySound, NoOverlap
  <2>3. \A i \in Tasks : (\E e \in calls' : e.task = i) <=> \E e \in calls : e.task = i
    BY <2>1
  <2> QED
    BY <1>3, <2>2, <2>3 DEF BusySound
<1>4. ASSUME NEW c \in calls, TickEnds(c) PROVE BusySound'
  <2>1. c.task \in Tasks /\ calls' = calls \ {c} /\ busy' = [busy EXCEPT ![c.task] = FALSE]
    BY <1>4 DEF TickEnds, NotBusy, Set, FieldsTyped
  <2>2. \A i \in Tasks : busy'[i] <=> \E e \in calls' : e.task = i
    BY <2>1 DEF BusySound, NoOverlap, FieldsTyped
  <2> QED
    BY <2>1, <2>2 DEF BusySound, NoOverlap
<1>5. CASE Enable \/ Update \/ Bootstrap
  BY <1>1, <1>5 DEF Enable, Update, Bootstrap
<1>6. ASSUME NEW S, Remove(S) \/ Disable(S) \/ StopAll(S) PROVE BusySound'
  BY <1>1, <1>6 DEF Remove, Disable, StopAll
<1>7. ASSUME NEW k, Add(k) PROVE BusySound'
  BY <1>1, <1>7 DEF Add
<1>8. ASSUME NEW b, UpdateFails(b) PROVE BusySound'
  BY <1>1, <1>8 DEF UpdateFails
<1>9. ASSUME NEW h, NEW step, JobFires(h, step) \/ TimerFires(h, step) PROVE BusySound'
  BY <1>1, <1>2, <1>9 DEF JobFires, TimerFires, Set
<1>10. ASSUME NEW c \in calls, NEW b, BodyDone(c) \/ LeaseAnswers(c, b) PROVE BusySound'
  BY <1>3, <1>10 DEF BodyDone, LeaseAnswers, fields
<1>11. CASE UNCHANGED registryVars
  BY <1>1, <1>11 DEF registryVars
<1> QED
  BY <1>4, <1>5, <1>6, <1>7, <1>8, <1>9, <1>10, <1>11 DEF RegistryNext

\* What the steps leave of a handle that is in force.
InForce(i) ==
    handle[i] # 0 =>
        \/ kind[i] = "cron" /\ handle[i] \in live
        \/ /\ kind[i] = "timeout"
           /\ handle[i] \in timers \/ \E c \in calls : c.task = i /\ c.token = handle[i]

\* The registry keeps what it needs to stop every job, and an enabled task has
\* a handle.
LEMMA SchedulesChange ==
    ASSUME FieldsTyped, BusySound, TasksSound, HandlesSound, EnabledHasHandle,
           [RegistryNext]_registryVars
    PROVE  TasksSound' /\ HandlesSound' /\ EnabledHasHandle'
<1> DEFINE Goal == TasksSound' /\ HandlesSound' /\ EnabledHasHandle'
<1>0. /\ task # 0 => task \in Tasks /\ kind[task] \in {"cron", "timeout"}
      /\ task # 0 => 0 \notin unstopped[task] /\ unstopped[task] \subseteq Handles
      /\ \A i \in Tasks : InForce(i) /\ (i # task => handle[i] = 0 /\ unstopped[i] = {})
      /\ token = handle /\ 0 \notin live /\ 0 \notin Handles
      /\ \A h \in live : task # 0 /\ kind[task] = "cron" /\ (h = handle[task] \/ h \in unstopped[task])
  BY Bounds DEF FieldsTyped, TasksSound, HandlesSound, JobsKept, Stoppable, InForce
\* What is to be shown, with the cases of Stoppable and Tasks spelled out.
<1>g. ASSUME FieldsTyped',
             \E n \in Nat : {i \in Tasks : kind'[i] # "none"} = 1 .. n,
             task' # 0 => kind'[task'] # "none", token' = handle',
             \A i \in Tasks : i # task' => handle'[i] = 0 /\ unstopped'[i] = {},
             \A h \in live' : /\ task' # 0 /\ kind'[task'] = "cron"
                              /\ h = handle'[task'] \/ h \in unstopped'[task'],
             \A i \in Tasks : InForce(i)',
             EnabledHasHandle'
      PROVE  Goal
  <2>1. 0 \notin live'
    BY <1>g, Bounds DEF FieldsTyped
  <2>2. JobsKept'
    BY <1>g, <2>1 DEF JobsKept, Stoppable
  <2> QED
    BY <1>g, <2>2 DEF TasksSound, HandlesSound, InForce
<1>f. FieldsTyped'
  BY FieldsKept
<1>n. \E n \in Nat : {i \in Tasks : kind[i] # "none"} = 1 .. n
  BY DEF TasksSound
<1> HIDE DEF Goal
\* The task is scheduled, and perhaps enabled.
<1>1. ASSUME task # 0, ScheduleTask(task, kind[task]), UNCHANGED <<task, kind, unstopped, calls>>
      PROVE  Goal
  <2>1. /\ task \in Tasks /\ token' = handle' /\ handle'[task] # 0
        /\ \A j \in Tasks : j # task => handle'[j] = handle[j]
        /\ \/ handle'[task] = handle[task] /\ UNCHANGED <<live, timers>>
           \/ /\ handle[task] = 0 /\ kind[task] = "cron" /\ live' = live \cup {handle'[task]}
              /\ timers' = timers
           \/ /\ handle[task] = 0 /\ kind[task] = "timeout"
              /\ timers' = timers \cup {handle'[task]} /\ live' = live
    BY <1>0, <1>1, Scheduled
  <2>2. \A i \in Tasks : InForce(i)'
    BY <1>0, <1>1, <2>1 DEF InForce
  <2>3. \A h \in live' : /\ task' # 0 /\ kind'[task'] = "cron"
                         /\ h = handle'[task'] \/ h \in unstopped'[task']
    BY <1>0, <1>1, <2>1
  <2> QED
    BY <1>0, <1>1, <1>f, <1>g, <1>n, <2>1, <2>2, <2>3 DEF EnabledHasHandle
<1>2. ASSUME UNCHANGED <<handle, token, live, timers, task, kind, unstopped, calls>>,
             phase' = "ready" /\ task # 0 /\ enabled'[task] => phase = "ready" /\ enabled[task]
      PROVE  Goal
  <2>1. EnabledHasHandle'
    BY <1>2 DEF EnabledHasHandle
  <2>2. \A i \in Tasks : InForce(i)'
    BY <1>0, <1>2 DEF InForce
  <2> QED
    BY <1>0, <1>2, <1>f, <1>g, <1>n, <2>1, <2>2
<1>3. ASSUME NEW k \in {"cron", "timeout"}, Add(k) PROVE Goal
  <2>1. /\ Fresh \in Tasks /\ kind[Fresh] = "none" /\ task = 0 /\ task' = Fresh
        /\ {i \in Tasks : kind[i] # "none"} = 1 .. Fresh - 1
        /\ UNCHANGED <<phase, unstopped, calls>>
    BY <1>3, FreshTask DEF Add
  <2>2. PICK f \in Tasks : f = Fresh
    BY <2>1
  <2>3. /\ kind' = [kind EXCEPT ![f] = k]
        /\ \/ ScheduleTask(f, k)
           \/ phase # "ready" /\ UNCHANGED <<handle, token, handles, live, timers>>
    BY <1>3, <2>2 DEF Add, Set
  <2>4. /\ \A i \in Tasks : handle[i] = 0 /\ unstopped[i] = {}
        /\ live = {} /\ f # 0 /\ f \in Nat /\ task' = f /\ kind[f] = "none"
        /\ kind'[f] = k /\ \A i \in Tasks : i # f => kind'[i] = kind[i]
    BY <1>0, <2>1, <2>2, <2>3, Bounds DEF FieldsTyped, Tasks
  <2>5. {i \in Tasks : kind'[i] # "none"} = 1 .. f
    BY <2>1, <2>2, <2>4, Bounds DEF Tasks
  <2>6. CASE ScheduleTask(f, k)
    <3>1. /\ token' = handle' /\ handle'[f] # 0
          /\ \A j \in Tasks : j # f => handle'[j] = handle[j]
          /\ \/ k = "cron" /\ live' = live \cup {handle'[f]} /\ timers' = timers
             \/ k = "timeout" /\ timers' = timers \cup {handle'[f]} /\ live' = live
      BY <1>0, <2>4, <2>6, Scheduled
    <3>2. \A i \in Tasks : InForce(i)'
      BY <2>4, <3>1 DEF InForce
    <3> QED
      BY <1>f, <1>g, <2>1, <2>4, <2>5, <3>1, <3>2 DEF EnabledHasHandle
  <2>7. CASE phase # "ready" /\ UNCHANGED <<handle, token, handles, live, timers>>
    <3>1. \A i \in Tasks : InForce(i)'
      BY <2>4, <2>7 DEF InForce
    <3> QED
      BY <1>0, <1>f, <1>g, <2>1, <2>4, <2>5, <2>7, <3>1 DEF EnabledHasHandle
  <2> QED
    BY <2>3, <2>6, <2>7
<1>4. ASSUME Enable PROVE Goal
  <2>1. UNCHANGED <<phase, task, kind, unstopped, calls>> /\ task # 0
    BY <1>4 DEF Enable
  <2>2. CASE phase = "ready"
    <3>1. ScheduleTask(task, kind[task])
      BY <1>4, <2>2 DEF Enable
    <3> QED
      BY <1>1, <2>1, <3>1
  <2>3. CASE phase # "ready"
    <3>1. UNCHANGED <<handle, token, live, timers>>
      BY <1>4, <2>3 DEF Enable
    <3> QED
      BY <1>2, <2>1, <2>3, <3>1
  <2> QED
    BY <2>2, <2>3
<1>5. ASSUME Bootstrap PROVE Goal
  <2>1. UNCHANGED <<task, kind, unstopped, calls, enabled>>
    BY <1>5 DEF Bootstrap
  <2>2. CASE task # 0 /\ enabled[task]
    <3>1. ScheduleTask(task, kind[task])
      BY <1>5, <2>2 DEF Bootstrap
    <3> QED
      BY <1>1, <2>1, <2>2, <3>1
  <2>3. CASE ~(task # 0 /\ enabled[task])
    <3>1. UNCHANGED <<handle, token, live, timers>>
      BY <1>5, <2>3 DEF Bootstrap
    <3> QED
      BY <1>2, <2>1, <2>3, <3>1
  <2> QED
    BY <2>2, <2>3
\* The schedule is replaced.
<1>6. ASSUME Update PROVE Goal
  <2>1. /\ task # 0 /\ kind[task] = "cron" /\ task \in Tasks /\ handles' \in Handles
        /\ handle' = [handle EXCEPT ![task] = handles'] /\ token' = [token EXCEPT ![task] = handles']
        /\ live' = (live \ {handle[task]}) \cup {handles'}
        /\ UNCHANGED <<task, kind, unstopped, calls>>
    <3>1. handles' = handles + 1 /\ handles' \in Handles
      BY <1>6, Bounds DEF Update, Create, FieldsTyped
    <3> QED
      BY <1>0, <1>6, <3>1 DEF Update, CanUpdate, Set
  <2>2. /\ handle'[task] = handles' /\ handles' # 0 /\ token' = handle'
        /\ \A j \in Tasks : j # task => handle'[j] = handle[j]
    BY <1>0, <2>1 DEF FieldsTyped
  <2>3. \A i \in Tasks : InForce(i)'
    BY <1>0, <2>1, <2>2 DEF InForce
  <2>4. \A h \in live' : h = handle'[task] \/ h \in unstopped'[task]
    BY <1>0, <2>1, <2>2
  <2>5. EnabledHasHandle'
    BY <2>1, <2>2 DEF EnabledHasHandle
  <2> QED
    BY <1>0, <1>f, <1>g, <1>n, <2>1, <2>2, <2>3, <2>4, <2>5
<1>7. ASSUME NEW b \in BOOLEAN, UpdateFails(b) PROVE Goal
  <2>1. /\ task # 0 /\ kind[task] = "cron" /\ task \in Tasks /\ handle[task] # 0
        /\ UNCHANGED <<task, kind, handle, token, calls, timers>>
        /\ \/ UNCHANGED <<live, unstopped>>
           \/ \E h \in Handles :
                 /\ live' = live \cup {h}
                 /\ unstopped' = [unstopped EXCEPT ![task] = unstopped[task] \cup {h}]
    <3>1. handles + 1 \in Handles
      BY <1>7, Bounds DEF UpdateFails, Create, FieldsTyped
    <3> QED
      BY <1>0, <1>7, <3>1 DEF UpdateFails, CanUpdate, Set
  <2>2. /\ \A i \in Tasks : i # task => unstopped'[i] = unstopped[i]
        /\ \A h \in live' : h \in live \/ h \in unstopped'[task]
        /\ unstopped[task] \subseteq unstopped'[task] /\ live \subseteq live'
    BY <2>1 DEF FieldsTyped
  <2>3. \A i \in Tasks : InForce(i)'
    BY <1>0, <2>1, <2>2 DEF InForce
  <2> QED
    BY <1>0, <1>f, <1>g, <1>n, <2>1, <2>2, <2>3 DEF EnabledHasHandle
\* Handles of the task are stopped.
<1>8. ASSUME NEW S, task # 0, S \in Stops(task), UnscheduleTask(task, S),
             UNCHANGED <<kind, calls>>,
             \/ task' = task /\ (phase' = "ready" => ~enabled'[task])
             \/ /\ task' = IF S = Stoppable(task) THEN 0 ELSE task
                /\ UNCHANGED <<phase, enabled>>
      PROVE  Goal
  <2>1. /\ task \in Tasks /\ token' = handle'
        /\ live' = live \ S /\ timers' = timers \ S
        /\ \A j \in Tasks : j # task => handle'[j] = handle[j] /\ unstopped'[j] = unstopped[j]
        /\ handle'[task] = (IF handle[task] \in S THEN 0 ELSE handle[task])
        /\ unstopped'[task] = unstopped[task] \ S
        /\ S \subseteq Stoppable(task) /\ (kind[task] = "timeout" => S = Stoppable(task))
    BY <1>0, <1>8, Unscheduled
  <2>2. \A i \in Tasks : InForce(i)'
    <3>1. CASE kind[task] = "cron"
      BY <1>0, <1>8, <2>1, <3>1 DEF InForce
    <3>2. CASE kind[task] = "timeout"
      <4>1. handle'[task] = 0
        BY <1>0, <2>1, <3>2 DEF Stoppable
      <4> QED
        BY <1>0, <2>1, <4>1 DEF InForce
    <3> QED
      BY <1>0, <1>8, <3>1, <3>2
  <2>3. S = Stoppable(task) => handle'[task] = 0 /\ unstopped'[task] = {} /\ live' = {}
    BY <1>0, <1>8, <2>1 DEF Stoppable
  <2>4. \A h \in live' : /\ task' # 0 /\ kind'[task'] = "cron"
                         /\ h = handle'[task'] \/ h \in unstopped'[task']
    BY <1>0, <1>8, <2>1, <2>3
  <2>5. S # Stoppable(task) /\ unstopped'[task] = {} => handle'[task] # 0
    BY <1>0, <2>1 DEF Stoppable
  <2>6. EnabledHasHandle'
    BY <1>8, <2>5 DEF EnabledHasHandle
  <2>7. \A i \in Tasks : i # task' => handle'[i] = 0 /\ unstopped'[i] = {}
    BY <1>0, <1>8, <2>1, <2>3
  <2> QED
    BY <1>0, <1>8, <1>f, <1>g, <1>n, <2>1, <2>2, <2>4, <2>6, <2>7
<1>9. ASSUME NEW S, Remove(S) PROVE Goal
  BY <1>8, <1>9 DEF Remove
<1>10. ASSUME NEW S, Disable(S) PROVE Goal
  <2>1. ~enabled'[task] /\ task' = task
    BY <1>0, <1>10 DEF Disable, Set, FieldsTyped
  <2> QED
    BY <1>8, <1>10, <2>1 DEF Disable
<1>11. ASSUME NEW S, StopAll(S) PROVE Goal
  <2>1. CASE task # 0
    BY <1>8, <1>11, <2>1 DEF StopAll
  <2>2. CASE task = 0
    <3>1. S = {} /\ UNCHANGED <<live, timers, handle, token, unstopped, task, kind, calls>>
      BY <1>11, <2>2 DEF StopAll
    <3> QED
      BY <1>2, <2>2, <3>1
  <2> QED
    BY <2>1, <2>2
\* A tick begins.
<1>12. ASSUME UNCHANGED <<phase, task, kind, handle, token, unstopped, live, enabled>>,
              \A i \in Tasks : InForce(i)'
       PROVE  Goal
  BY <1>0, <1>12, <1>f, <1>g, <1>n DEF EnabledHasHandle
<1>13. ASSUME NEW h, NEW step, JobFires(h, step) PROVE Goal
  <2>1. UNCHANGED <<phase, task, kind, handle, token, unstopped, live, timers, enabled>>
        /\ calls \subseteq calls'
    BY <1>13 DEF JobFires, fields
  <2>2. \A i \in Tasks : InForce(i)'
    BY <1>0, <2>1 DEF InForce
  <2> QED
    BY <1>12, <2>1, <2>2
\* A timeout task is over.
<1>14. ASSUME NEW h, CompleteTimeout(h), UNCHANGED <<phase, task, kind, unstopped, live>>,
              \A i \in Tasks :
                 \/ handle[i] = 0 \/ kind[i] = "cron" \/ handle[i] = h
                 \/ /\ handle[i] \in timers => handle[i] \in timers'
                    /\ \A c \in calls : c.task = i /\ c.token = handle[i] => c \in calls'
       PROVE  Goal
  <2>1. /\ token' = handle'
        /\ \A j \in Tasks : \/ handle'[j] = handle[j] /\ enabled'[j] = enabled[j]
                            \/ kind[j] = "timeout" /\ handle'[j] = 0 /\ enabled'[j] = FALSE
        /\ task # 0 /\ kind[task] = "timeout" /\ handle[task] = h => handle'[task] = 0
    BY <1>0, <1>14, Completed
  <2>2. \A i \in Tasks : InForce(i)'
    <3> SUFFICES ASSUME NEW i \in Tasks, handle'[i] # 0 PROVE InForce(i)'
      BY DEF InForce
    <3>1. handle'[i] = handle[i] /\ i = task /\ task # 0
      BY <1>0, <2>1, Bounds
    <3>2. kind[i] = "timeout" => handle[i] # h
      BY <2>1, <3>1
    <3> QED
      BY <1>0, <1>14, <3>1, <3>2 DEF InForce
  <2> QED
    BY <1>0, <1>14, <1>f, <1>g, <1>n, <2>1, <2>2 DEF EnabledHasHandle
<1>15. ASSUME NEW h, NEW step, TimerFires(h, step) PROVE Goal
  <2>1. CASE Admits(h)
    <3>1. /\ UNCHANGED <<phase, task, kind, handle, token, unstopped, live, enabled>>
          /\ timers' = timers \ {h}
          /\ calls' = calls \cup {[task |-> task, token |-> h, step |-> step]}
      BY <1>15, <2>1 DEF TimerFires
    <3>2. \E c \in calls' : c.task = task /\ c.token = h
      <4> DEFINE d == [task |-> task, token |-> h, step |-> step]
      <4>1. d.task = task /\ d.token = h /\ d \in calls'
        BY <3>1
      <4> QED
        BY <4>1
    <3>3. \A i \in Tasks : InForce(i)'
      <4> SUFFICES ASSUME NEW i \in Tasks, handle[i] # 0 PROVE InForce(i)'
        BY <3>1 DEF InForce
      <4>1. i = task
        BY <1>0
      <4> QED
        BY <1>0, <3>1, <3>2, <4>1 DEF InForce
    <3> QED
      BY <1>12, <3>1, <3>3
  <2>2. CASE ~Admits(h)
    <3>1. /\ CompleteTimeout(h) /\ UNCHANGED <<phase, task, kind, unstopped, live, calls>>
          /\ timers' = timers \ {h}
      BY <1>15, <2>2 DEF TimerFires
    <3> QED
      BY <1>14, <3>1
  <2> QED
    BY <2>1, <2>2
<1>16. ASSUME NEW c \in calls, NEW step, Move(c, step)
       PROVE  \A i, h : (\E d \in calls : d.task = i /\ d.token = h) =>
                            \E d \in calls' : d.task = i /\ d.token = h
  <2> DEFINE e == [c EXCEPT !.step = step]
  <2>1. e.task = c.task /\ e.token = c.token /\ calls' = (calls \ {c}) \cup {e}
    BY <1>16 DEF Move, FieldsTyped
  <2> HIDE DEF e
  <2> QED
    BY <2>1
<1>17. ASSUME NEW c \in calls, NEW b, LeaseAnswers(c, b) PROVE Goal
  <2>1. /\ UNCHANGED <<phase, task, kind, handle, token, unstopped, live, timers, enabled>>
        /\ \E step \in {"body", "end"} : Move(c, step)
    BY <1>17 DEF LeaseAnswers, fields
  <2>2. \A i \in Tasks : InForce(i)'
    BY <1>0, <1>16, <2>1 DEF InForce
  <2> QED
    BY <1>12, <2>1, <2>2
<1>18. ASSUME NEW c \in calls, BodyDone(c) PROVE Goal
  <2>1. Move(c, "end") /\ UNCHANGED <<phase, task, kind, unstopped, live, timers>>
        /\ c.task \in Tasks
    BY <1>18 DEF BodyDone, FieldsTyped
  <2>2. CASE kind[c.task] # "timeout"
    <3>1. UNCHANGED <<enabled, handle, token>>
      BY <1>18, <2>2 DEF BodyDone
    <3>2. \A i \in Tasks : InForce(i)'
      BY <1>0, <1>16, <2>1, <3>1 DEF InForce
    <3> QED
      BY <1>12, <2>1, <3>1, <3>2
  <2>3. CASE kind[c.task] = "timeout"
    <3>1. /\ enabled' = [enabled EXCEPT ![c.task] = FALSE]
          /\ handle' = [handle EXCEPT ![c.task] = 0] /\ token' = [token EXCEPT ![c.task] = 0]
      BY <1>18, <2>3 DEF BodyDone, Set
    <3>2. /\ token' = handle' /\ handle'[c.task] = 0 /\ enabled'[c.task] = FALSE
          /\ \A i \in Tasks : i # c.task => handle'[i] = handle[i] /\ enabled'[i] = enabled[i]
      BY <1>0, <2>1, <3>1 DEF FieldsTyped
    <3>3. \A i \in Tasks : InForce(i)'
      BY <1>0, <1>16, <2>1, <3>2 DEF InForce
    <3> QED
      BY <1>0, <1>f, <1>g, <1>n, <2>1, <2>3, <3>2, <3>3 DEF EnabledHasHandle
  <2> QED
    BY <2>2, <2>3
<1>19. ASSUME NEW c \in calls, TickEnds(c) PROVE Goal
  <2>1. /\ CompleteTimeout(c.token) /\ calls' = calls \ {c}
        /\ UNCHANGED <<phase, task, kind, unstopped, live, timers>>
    BY <1>19 DEF TickEnds
  <2> QED
    BY <1>14, <2>1
<1>20. ASSUME UNCHANGED registryVars PROVE Goal
  <2>1. UNCHANGED <<phase, task, kind, enabled, handle, token, unstopped, live, timers, calls>>
    BY <1>20 DEF registryVars
  <2> QED
    BY <1>2, <2>1
<1> QED
  BY <1>3, <1>4, <1>5, <1>6, <1>7, <1>9, <1>10, <1>11, <1>13, <1>15, <1>17, <1>18, <1>19, <1>20
  DEF RegistryNext, Goal

LEMMA RegistryInitially == RegistryInit => RegistryInv
<1> SUFFICES ASSUME RegistryInit PROVE RegistryInv
  OBVIOUS
<1>1. /\ 0 \in 0 .. MaxHandles /\ 0 \in 0 .. MaxTasks
  BY Bounds
<1>2. FieldsTyped
  BY <1>1 DEF RegistryInit, FieldsTyped
<1>3. BusySound
  BY DEF RegistryInit, BusySound, NoOverlap
<1>4. {i \in Tasks : kind[i] # "none"} = 1 .. 0
  BY DEF RegistryInit
<1>5. TasksSound
  BY <1>4 DEF RegistryInit, TasksSound
<1>6. HandlesSound /\ EnabledHasHandle
  BY DEF RegistryInit, HandlesSound, JobsKept, EnabledHasHandle
<1> QED
  BY <1>2, <1>3, <1>5, <1>6 DEF RegistryInv

\* The inductive invariant of the registry holds.
THEOREM RegistryInvariant == RegistrySpec => []RegistryInv
<1>1. RegistryInv /\ [RegistryNext]_registryVars => RegistryInv'
  BY FieldsKept, BusyKept, SchedulesChange DEF RegistryInv
<1> QED
  BY <1>1, RegistryInitially, PTL DEF RegistrySpec

\* Every job that may still fire is known to the registered task, and an enabled
\* task is scheduled, whichever schedule fails to start or to stop (service.ts,
\* unscheduleTask() and updateCronExpression()).
THEOREM SchedulesAreKept == RegistrySpec => []SchedulesKept
<1>1. RegistryInv => SchedulesKept
  <2> SUFFICES ASSUME RegistryInv PROVE SchedulesKept
    OBVIOUS
  <2>1. RegistryTypeOK
    BY DEF RegistryInv, FieldsTyped, BusySound, RegistryTypeOK
  <2>2. ASSUME phase = "ready", task # 0, enabled[task], unstopped[task] = {}
        PROVE  /\ token[task] = handle[task]
               /\ \/ handle[task] \in live \cup timers
                  \/ \E c \in calls : c.task = task /\ c.token = token[task]
    <3>1. task \in Tasks
      BY <2>2, Bounds DEF RegistryInv, FieldsTyped
    <3> QED
      BY <2>2, <3>1 DEF RegistryInv, TasksSound, HandlesSound, EnabledHasHandle
  <2> QED
    BY <2>1, <2>2 DEF RegistryInv, HandlesSound, EnabledRuns, SchedulesKept
<1> QED
  BY <1>1, RegistryInvariant, PTL

\* Ticks of a task come one at a time, also when its schedule was replaced while
\* the first one ran, and no body starts for a schedule that is not in force any
\* more (service.ts, handleTaskTick() and runDistributedTaskTick()).
THEOREM TicksAreCurrent == RegistrySpec => TicksCurrent
<1>1. RegistryInv => NoOverlap
  BY DEF RegistryInv, BusySound
<1>2. RegistryInv /\ [RegistryNext]_registryVars =>
        [\A c \in calls' \ calls : c.step = "body" => Current(c.task, c.token)]_registryVars
  <2> SUFFICES ASSUME RegistryInv, RegistryNext,
                      NEW c \in calls' \ calls, c.step = "body"
               PROVE  Current(c.task, c.token)
    OBVIOUS
  <2>1. ASSUME NEW h, NEW step, JobFires(h, step) \/ TimerFires(h, step)
        PROVE  Current(c.task, c.token)
    <3>1. c = [task |-> task, token |-> h, step |-> step] /\ Admits(h)
      BY <2>1 DEF JobFires, TimerFires
    <3>2. c.task = task /\ c.token = h
      BY <3>1
    <3> QED
      BY <3>1, <3>2 DEF Admits
  <2>2. ASSUME NEW d \in calls, NEW step, Move(d, step)
        PROVE  c.task = d.task /\ c.token = d.token /\ c.step = step
    BY <2>2 DEF Move, RegistryInv, FieldsTyped
  <2>3. ASSUME NEW d \in calls, NEW b, LeaseAnswers(d, b)
        PROVE  Current(c.task, c.token)
    <3>1. PICK step \in {"body", "end"} : Move(d, step) /\ (step = "body" => StillCurrent(d))
      BY <2>3 DEF LeaseAnswers
    <3> QED
      BY <2>2, <3>1 DEF StillCurrent
  <2>4. ASSUME NEW d \in calls, BodyDone(d) PROVE FALSE
    BY <2>2, <2>4 DEF BodyDone
  <2>5. ASSUME NEW d \in calls, TickEnds(d) PROVE FALSE
    BY <2>5 DEF TickEnds
  <2>6. ASSUME UNCHANGED calls PROVE FALSE
    BY <2>6
  <2>7. ASSUME Enable \/ Update \/ Bootstrap \/ (\E k \in {"cron", "timeout"} : Add(k))
               \/ (\E b \in BOOLEAN : UpdateFails(b))
        PROVE  FALSE
    BY <2>6, <2>7 DEF Enable, Update, Bootstrap, Add, UpdateFails
  <2>8. ASSUME NEW S, Remove(S) \/ Disable(S) \/ StopAll(S) PROVE FALSE
    BY <2>6, <2>8 DEF Remove, Disable, StopAll
  <2> QED
    BY <2>1, <2>3, <2>4, <2>5, <2>7, <2>8 DEF RegistryNext
<1> QED
  BY <1>1, <1>2, RegistryInvariant, PTL DEF RegistrySpec, TicksCurrent, BodyCurrent

=============================================================================
