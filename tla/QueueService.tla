---------------------------- MODULE QueueService ----------------------------
(***************************************************************************)
(* QueueLifecycleService: the lazy start shared by the callers of          *)
(* enqueue() and the bootstrap hook, the rollback of a start that fails,   *)
(* the workers that run once the application is ready, their dead-letter   *)
(* writes, and the shutdown.                                               *)
(*                                                                         *)
(* Start number a builds one worker instance <<a, w>> for every job name w *)
(* in 1..Workers: its BullMQ queue, worker and connections.  Whoever runs  *)
(* closeInitializedResources() takes the registered instances out of the   *)
(* maps at once and closes them afterwards: `held' is what each closer has *)
(* in hand.                                                                *)
(***************************************************************************)
EXTENDS Naturals, FiniteSets

CONSTANTS Workers,     \* number of discovered worker descriptors
          Client,      \* callers of enqueue() or of the bootstrap hook
          MaxStarts    \* bound on the starts that are begun

ASSUME QueueAssumption == /\ Workers \in Nat \ {0} /\ MaxStarts \in Nat \ {0}
                          /\ Client \cap {"rollback", "shutdown"} = {}

Attempt == 1..MaxStarts
Instance == Attempt \X (1..Workers)
Closer == Client \cup {"rollback", "shutdown"}

VARIABLES
  queueLife,     \* lifecycleState
  startPromise,  \* the start it refers to, 0 for undefined
  starts,        \* number of starts begun
  status,        \* status[a]: "none", "running", "ok" or "error"
  built,         \* built[a]: worker descriptors initialized so far
  register,      \* register[w]: the start whose instance the maps hold, or 0
  ready,         \* readyWorkers
  scheduled,     \* instances waiting for the bootstrap-ready signal
  processing,       \* instances whose processor was started
  open,          \* instances that exist and are not closed
  failed,        \* failedWorkerJobNames
  doing,         \* doing[c]: what each caller, the rollback and shutdown() do
  awaited,       \* awaited[c]: the start c waits for
  held,          \* held[c]: instances c is closing
  writes,        \* dead-letter writes in flight, by instance
  overtaken      \* history: a rollback has reset the state of a newer start

queueVars == <<queueLife, startPromise, starts, status, built, register, ready,
               scheduled, processing, open, failed, doing, awaited, held, writes,
               overtaken>>

QueueInit ==
  /\ queueLife = "idle" /\ startPromise = 0 /\ starts = 0
  /\ status = [a \in Attempt |-> "none"]
  /\ built = [a \in Attempt |-> 0]
  /\ register = [w \in 1..Workers |-> 0]
  /\ ready = {} /\ scheduled = {} /\ processing = {} /\ open = {} /\ failed = {}
  /\ doing = [c \in Closer |-> "idle"]
  /\ awaited = [c \in Closer |-> 0]
  /\ held = [c \in Closer |-> {}]
  /\ writes = {} /\ overtaken = FALSE

-----------------------------------------------------------------------------
Registered == {i \in Instance : register[i[2]] = i[1]}

\* The synchronous part of closeInitializedResources(), run by c; the other
\* waiters of a failed start find the maps empty.
TakeAll(c, others) ==
  /\ held' = [d \in Closer |-> IF d = c THEN Registered
                               ELSE IF d \in others THEN {} ELSE held[d]]
  /\ register' = [w \in 1..Workers |-> 0]
  /\ ready' = {}

\* No continuation is ready to run: only then is an answer of Redis, or the
\* end of a close, taken from the event loop.
Quiet ==
  /\ \A a \in Attempt : status[a] = "running" => built[a] < Workers
  /\ \A c \in Client : doing[c] # "resume"
  /\ writes = {} => \A c \in Closer : doing[c] # "draining"
  /\ \A c \in Closer : doing[c] = "closing" => held[c] # {}

(***************************************************************************)
(* ensureStarted(): join the start in progress or begin one.               *)
(***************************************************************************)
Enqueue(c) ==
  /\ doing[c] = "idle"
  /\ \/ /\ queueLife = "started"
        /\ doing' = [doing EXCEPT ![c] = "resume"]
        /\ UNCHANGED <<queueLife, startPromise, starts, status, awaited, held,
                       register, ready>>
     \/ /\ queueLife \in {"idle", "starting"} /\ startPromise # 0
        /\ status[startPromise] = "running"
        /\ doing' = [doing EXCEPT ![c] = "waiting"]
        /\ awaited' = [awaited EXCEPT ![c] = startPromise]
        /\ UNCHANGED <<queueLife, startPromise, starts, status, held, register, ready>>
     \/ \* a start already rejected: this caller rolls back as well
        /\ queueLife \in {"idle", "starting"} /\ startPromise # 0
        /\ status[startPromise] = "error"
        /\ doing' = [doing EXCEPT ![c] = "closing"]
        /\ TakeAll(c, {})
        /\ UNCHANGED <<queueLife, startPromise, starts, status, awaited>>
     \/ /\ queueLife \in {"idle", "starting"} /\ startPromise = 0
        /\ starts < MaxStarts
        /\ starts' = starts + 1
        /\ queueLife' = "starting"
        /\ startPromise' = starts'
        /\ status' = [status EXCEPT ![starts'] = "running"]
        /\ doing' = [doing EXCEPT ![c] = "waiting"]
        /\ awaited' = [awaited EXCEPT ![c] = starts']
        /\ UNCHANGED <<held, register, ready>>
  /\ UNCHANGED <<built, scheduled, processing, open, failed, writes, overtaken>>

\* initializeWorkerResources() and registerInitializedWorker() of one worker.
BuildWorker(a) ==
  /\ Quiet /\ status[a] = "running" /\ built[a] < Workers
  /\ LET w == built[a] + 1 IN
       /\ built' = [built EXCEPT ![a] = w]
       /\ register' = [register EXCEPT ![w] = a]
       /\ ready' = ready \cup {<<a, w>>}
       /\ open' = open \cup {<<a, w>>}
  /\ UNCHANGED <<queueLife, startPromise, starts, status, scheduled, processing,
                 failed, doing, awaited, held, writes, overtaken>>

WaitersOf(a) == {c \in Client : doing[c] = "waiting" /\ awaited[c] = a}

\* The end of startLifecycle(): a shutdown that began meanwhile wins.  Its
\* waiters drop startPromise and go on.
StartSucceeds(a) ==
  /\ status[a] = "running" /\ built[a] = Workers
  /\ status' = [status EXCEPT ![a] = "ok"]
  /\ IF queueLife = "starting"
     THEN queueLife' = "started" /\ scheduled' = scheduled \cup ready /\ ready' = {}
     ELSE UNCHANGED <<queueLife, scheduled, ready>>
  /\ startPromise' = 0
  /\ doing' = [c \in Closer |-> IF c \in WaitersOf(a) THEN "resume" ELSE doing[c]]
  /\ UNCHANGED <<starts, built, register, processing, open, failed, awaited, held,
                 writes, overtaken>>

\* One worker cannot be initialized: the start rejects and every waiter rolls
\* back; the first of them finds the registered instances, the others nothing.
StartFails(a) ==
  /\ Quiet /\ status[a] = "running" /\ built[a] < Workers
  /\ status' = [status EXCEPT ![a] = "error"]
  /\ \E c \in WaitersOf(a) : TakeAll(c, WaitersOf(a))
  /\ doing' = [c \in Closer |-> IF c \in WaitersOf(a) THEN "closing" ELSE doing[c]]
  /\ UNCHANGED <<queueLife, startPromise, starts, built, scheduled, processing, open,
                 failed, awaited, writes, overtaken>>

\* A mutated form: the state is not read again after the wait.
AcceptAlways(c) == TRUE

\* The continuation of enqueue(): the state is read again, then the queue.
Accepting(c) == queueLife = "started"

Accept(c) ==
  /\ c \in Client /\ doing[c] = "resume"
  /\ doing' = [doing EXCEPT ![c] = IF Accepting(c) /\ \A w \in 1..Workers : register[w] # 0
                             THEN "added" ELSE "idle"]
  /\ UNCHANGED <<queueLife, startPromise, starts, status, built, register, ready,
                 scheduled, processing, open, failed, awaited, held, writes, overtaken>>

-----------------------------------------------------------------------------
\* drainPendingWrites() looks at the live set until it is empty.
WritesDrained == writes = {}

\* The instances in hand are closed, gracefully or by force.
CloseHeld(c) ==
  /\ doing[c] = "closing"
  /\ held[c] = {} \/ Quiet
  /\ open' = open \ held[c]
  /\ processing' = processing \ held[c]
  /\ held' = [held EXCEPT ![c] = {}]
  /\ doing' = [doing EXCEPT ![c] = "draining"]
  /\ UNCHANGED <<queueLife, startPromise, starts, status, built, register, ready,
                 scheduled, failed, awaited, writes, overtaken>>

\* handleStartupFailure() ends: the state is reset if it reads "starting", also
\* if it is that of a newer start.
RolledBack(c) ==
  /\ c \in Client /\ doing[c] = "draining" /\ WritesDrained
  /\ queueLife' = IF queueLife = "starting" THEN "idle" ELSE queueLife
  /\ startPromise' = 0
  /\ overtaken' = (overtaken \/ (queueLife = "starting" /\ status[startPromise] = "running"))
  /\ doing' = [doing EXCEPT ![c] = "idle"]
  /\ UNCHANGED <<starts, status, built, register, ready, scheduled, processing,
                 open, failed, awaited, held, writes>>

(***************************************************************************)
(* The bootstrap-ready signal starts the processors; one that fails ends   *)
(* the service and rolls its resources back, once.                         *)
(***************************************************************************)
\* recordWorkerStartFailure(), with the job name w or none for the signal.
StartFailure(names) ==
  IF queueLife \in {"stopping", "stopped"} \/ (names # {} /\ names \subseteq failed)
  THEN UNCHANGED <<queueLife, failed, doing, held, register, ready>>
  ELSE /\ queueLife' = IF queueLife \in {"started", "starting"} THEN "failed" ELSE queueLife
       /\ failed' = failed \cup names
       /\ IF doing["rollback"] = "idle"
          THEN doing' = [doing EXCEPT !["rollback"] = "closing"] /\ TakeAll("rollback", {})
          ELSE UNCHANGED <<doing, held, register, ready>>

RunWorkers ==
  /\ scheduled # {}
  /\ scheduled' = {}
  /\ \/ /\ queueLife # "started"
        /\ UNCHANGED <<processing, queueLife, failed, doing, held, register, ready>>
     \/ /\ queueLife = "started"
        /\ processing' = processing \cup (scheduled \cap open)
        /\ UNCHANGED <<queueLife, failed, doing, held, register, ready>>
     \/ /\ queueLife = "started"
        /\ \E i \in scheduled : /\ processing' = processing \cup ({j \in scheduled : j[2] < i[2]} \cap open)
                                /\ StartFailure({i[2]})
     \/ queueLife = "started" /\ UNCHANGED processing /\ StartFailure({})
  /\ UNCHANGED <<startPromise, starts, status, built, open, awaited, writes, overtaken>>

\* Worker.run() rejects later.
WorkerFails(i) ==
  /\ Quiet /\ i \in processing
  /\ processing' = processing \ {i}
  /\ StartFailure({i[2]})
  /\ UNCHANGED <<startPromise, starts, status, built, scheduled, open, awaited,
                 writes, overtaken>>

RollbackDone ==
  /\ doing["rollback"] = "draining" /\ WritesDrained
  /\ doing' = [doing EXCEPT !["rollback"] = "done"]
  /\ UNCHANGED <<queueLife, startPromise, starts, status, built, register, ready,
                 scheduled, processing, open, failed, awaited, held, writes, overtaken>>

\* A job of a processing worker fails for the last time: a dead-letter record.
JobFails(i) ==
  /\ Quiet /\ i \in processing /\ i \notin writes
  /\ writes' = writes \cup {i}
  /\ UNCHANGED <<queueLife, startPromise, starts, status, built, register, ready,
                 scheduled, processing, open, failed, doing, awaited, held, overtaken>>

\* The write settles, or a drain gives it up after its timeout.
WriteEnds(i) ==
  /\ Quiet /\ i \in writes
  /\ writes' = writes \ {i}
  /\ UNCHANGED <<queueLife, startPromise, starts, status, built, register, ready,
                 scheduled, processing, open, failed, doing, awaited, held, overtaken>>

-----------------------------------------------------------------------------
(***************************************************************************)
(* shutdown(): wait for the start and the rollback in progress, close what *)
(* is registered, drain the dead-letter writes.                            *)
(***************************************************************************)
StopQueue ==
  /\ doing["shutdown"] = "idle"
  /\ queueLife' = "stopping"
  /\ doing' = [doing EXCEPT !["shutdown"] = "waiting"]
  /\ awaited' = [awaited EXCEPT !["shutdown"] = startPromise]
  /\ UNCHANGED <<startPromise, starts, status, built, register, ready,
                 scheduled, processing, open, failed, held, writes, overtaken>>

StartOver(a) == status[a] \in {"ok", "error"}

ShutdownClose ==
  /\ doing["shutdown"] = "waiting"
  /\ awaited["shutdown"] # 0 => StartOver(awaited["shutdown"])
  /\ doing["rollback"] \in {"idle", "done"}
  /\ TakeAll("shutdown", {})
  /\ doing' = [doing EXCEPT !["shutdown"] = "closing"]
  /\ UNCHANGED <<queueLife, startPromise, starts, status, built, scheduled, processing,
                 open, failed, awaited, writes, overtaken>>

Stopped ==
  /\ doing["shutdown"] = "draining" /\ WritesDrained
  /\ queueLife' = "stopped"
  /\ startPromise' = 0
  /\ doing' = [doing EXCEPT !["shutdown"] = "done"]
  /\ UNCHANGED <<starts, status, built, register, ready, scheduled, processing,
                 open, failed, awaited, held, writes, overtaken>>

StartStep(a) == BuildWorker(a) \/ StartSucceeds(a) \/ StartFails(a)

CallerStep(c) == Accept(c) \/ CloseHeld(c) \/ RolledBack(c)

RollbackStep == CloseHeld("rollback") \/ RollbackDone

ShutdownStep == ShutdownClose \/ CloseHeld("shutdown") \/ Stopped

QueueNext ==
  \/ \E a \in Attempt : StartStep(a)
  \/ \E c \in Client : Enqueue(c) \/ CallerStep(c)
  \/ \E i \in Instance : WorkerFails(i) \/ JobFails(i) \/ WriteEnds(i)
  \/ RunWorkers \/ RollbackStep \/ StopQueue \/ ShutdownStep

\* Redis answers, and a timeout bounds every close and every awaited write.
QueueFairness ==
  /\ \A a \in Attempt : WF_queueVars(StartStep(a))
  /\ \A c \in Client : WF_queueVars(CallerStep(c))
  /\ \A i \in Instance : WF_queueVars(WriteEnds(i))
  /\ WF_queueVars(RollbackStep)
  /\ WF_queueVars(ShutdownStep)

QueueSpec == QueueInit /\ [][QueueNext]_queueVars

-----------------------------------------------------------------------------
(***************************************************************************)
(* The state of the queue service.                                         *)
(***************************************************************************)
QueueTypeOK ==
  /\ queueLife \in {"idle", "starting", "started", "stopping", "stopped", "failed"}
  /\ startPromise \in 0..MaxStarts /\ starts \in 0..MaxStarts
  /\ status \in [Attempt -> {"none", "running", "ok", "error"}]
  /\ built \in [Attempt -> 0..Workers]
  /\ register \in [1..Workers -> 0..MaxStarts]
  /\ ready \subseteq Instance /\ scheduled \subseteq Instance
  /\ processing \subseteq open /\ open \subseteq Instance
  /\ failed \subseteq 1..Workers
  /\ doing \in [Closer -> {"idle", "waiting", "resume", "added", "closing",
                        "draining", "done"}]
  /\ awaited \in [Closer -> 0..MaxStarts]
  /\ held \in [Closer -> SUBSET Instance]
  /\ \A c \in Closer : doing[c] # "closing" => held[c] = {}
  /\ writes \subseteq Instance /\ overtaken \in BOOLEAN

InHand == UNION {held[c] : c \in Closer}

(***************************************************************************)
(* Every instance that was opened is registered or in the hands of a       *)
(* closer, so that the end of the lifecycle reaches it.                    *)
(***************************************************************************)
NothingOutlives == open \subseteq Registered \cup InHand

(***************************************************************************)
(* When shutdown() reports the service stopped no dead-letter write is in  *)
(* flight: a write may begin while the workers are being closed and is     *)
(* still awaited, and none can begin later.  It takes every running worker *)
(* to be registered: an orphan of NothingOutlives, or a worker that the    *)
(* start which replaced its own takes along, still writes.                 *)
(***************************************************************************)
DeadLettersDrained == queueLife = "stopped" /\ ~overtaken => writes = {}

(***************************************************************************)
(* A call of enqueue() that waited for the start is accepted only by a     *)
(* service that is started then: a shutdown, a failed worker or a rollback *)
(* that came in between is noticed and no job reaches a closed queue.      *)
(***************************************************************************)
AcceptedWhileStarted ==
  [][\A c \in Client : doing[c] = "resume" /\ doing'[c] = "added" =>
       queueLife = "started" /\ Registered \subseteq open]_queueVars

(***************************************************************************)
(* shutdown() ends, whatever start, rollback or dead-letter write it meets.*)
(* An orphaned worker may keep the drains busy for ever.                   *)
(***************************************************************************)
QueueStops == doing["shutdown"] # "idle" ~> (doing["shutdown"] = "done" \/ overtaken)
=============================================================================
