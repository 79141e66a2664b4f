------------------------------ MODULE CronRegistry ------------------------------
(***************************************************************************)
(* The scheduling registry of CronLifecycleService                         *)
(* (packages/cron/src/service.ts): one task name that is added, removed,   *)
(* enabled, disabled and rescheduled while callbacks of its scheduler      *)
(* handles arrive and ticks wait for their lease, run and end.  Creating a *)
(* handle may throw, and so may stopping a cron job; a job that could not  *)
(* be stopped goes on.                                                     *)
(*                                                                         *)
(* A task and a handle are numbered in the order they are created; the     *)
(* number of a handle is its schedule token, and 0 is undefined.           *)
(***************************************************************************)
EXTENDS Naturals, FiniteSets

CONSTANTS
    MaxTasks,    \* bound: registrations of the name
    MaxHandles   \* bound: scheduler handles created

ASSUME RegistryAssumption == MaxTasks \in Nat /\ MaxHandles \in Nat

VARIABLES
    phase,      \* created, ready or stopping: lifecycleState and started
    task,       \* the registered RuntimeTaskState, or 0
    kind,       \* task -> "cron" or "timeout"
    enabled,    \* task -> its field
    handle,     \* task -> scheduledHandle
    token,      \* task -> activeScheduleToken
    unstopped,  \* task -> pendingStopHandles
    busy,       \* task -> running
    handles,    \* number of handles created
    live,       \* cron jobs and intervals that run
    timers,     \* timers of timeout tasks that are set
    calls       \* ticks under way: [task, token, step]

fields == <<task, kind, enabled, handle, token, unstopped>>
registryVars == <<phase, task, kind, enabled, handle, token, unstopped, busy,
                  handles, live, timers, calls>>

Tasks == 1 .. MaxTasks
Handles == 1 .. MaxHandles

\* Every task has a number: the registrations so far are those with a kind.
Fresh == Cardinality({i \in Tasks : kind[i] # "none"}) + 1

Set(f, i, v) == [f EXCEPT ![i] = v]

-----------------------------------------------------------------------------
(* Handles *)

\* createScheduledHandle() succeeds.
Create == handles < MaxHandles /\ handles' = handles + 1

\* scheduleTask(): a task that still has a handle keeps it.
ScheduleTask(i, k) ==
    IF handle[i] # 0
    THEN UNCHANGED <<handle, token, handles, live, timers>>
    ELSE /\ Create
         /\ handle' = Set(handle, i, handles + 1)
         /\ token' = Set(token, i, handles + 1)
         /\ live' = IF k = "cron" THEN live \cup {handles + 1} ELSE live
         /\ timers' = IF k = "cron" THEN timers ELSE timers \cup {handles + 1}

Stoppable(i) == ({handle[i]} \cup unstopped[i]) \ {0}

\* The handles of which stop() succeeds: clearing a timer never fails.
Stops(i) == {S \in SUBSET Stoppable(i) : kind[i] = "timeout" => S = Stoppable(i)}

\* A mutated form: the handle is dropped whether it was stopped or not.
DropHandle(i, S) ==
    /\ live' = live \ S /\ timers' = timers \ S
    /\ handle' = Set(handle, i, 0) /\ token' = Set(token, i, 0)
    /\ unstopped' = Set(unstopped, i, unstopped[i] \ S)

\* unscheduleTask(): only what was stopped is forgotten.
UnscheduleTask(i, S) ==
    /\ live' = live \ S /\ timers' = timers \ S
    /\ handle' = IF handle[i] \in S THEN Set(handle, i, 0) ELSE handle
    /\ token' = IF handle[i] \in S THEN Set(token, i, 0) ELSE token
    /\ unstopped' = Set(unstopped, i, unstopped[i] \ S)

-----------------------------------------------------------------------------
(* The registry's operations *)

\* addCron(), addInterval() and addTimeout().  The task is registered after
\* its schedule was created, so that a failure leaves nothing behind.
Add(k) ==
    /\ task = 0 /\ Fresh <= MaxTasks
    /\ task' = Fresh
    /\ kind' = Set(kind, Fresh, k) /\ enabled' = Set(enabled, Fresh, TRUE)
    /\ IF phase = "ready" THEN ScheduleTask(Fresh, k)
       ELSE UNCHANGED <<handle, token, handles, live, timers>>
    /\ UNCHANGED <<phase, unstopped, busy, calls>>

Remove(S) ==
    /\ task # 0 /\ S \in Stops(task)
    /\ UnscheduleTask(task, S)
    /\ task' = IF S = Stoppable(task) THEN 0 ELSE task
    /\ UNCHANGED <<phase, kind, enabled, busy, handles, calls>>

\* A failure to schedule leaves the task disabled.
Enable ==
    /\ task # 0 /\ ~enabled[task]
    /\ enabled' = Set(enabled, task, TRUE)
    /\ IF phase = "ready" THEN ScheduleTask(task, kind[task])
       ELSE UNCHANGED <<handle, token, handles, live, timers>>
    /\ UNCHANGED <<phase, task, kind, unstopped, busy, calls>>

Disable(S) ==
    /\ task # 0 /\ S \in Stops(task)
    /\ enabled[task] \/ Stoppable(task) # {}
    /\ enabled' = Set(enabled, task, FALSE)
    /\ UnscheduleTask(task, S)
    /\ UNCHANGED <<phase, task, kind, busy, handles, calls>>

\* updateCronExpression() and updateIntervalMs() of a scheduled task.
CanUpdate == task # 0 /\ phase = "ready" /\ enabled[task] /\ kind[task] = "cron"

\* The replacement is created and the previous handle stops.
Update ==
    /\ CanUpdate /\ Create
    /\ handle' = Set(handle, task, handles + 1)
    /\ token' = Set(token, task, handles + 1)
    /\ live' = (live \ {handle[task]}) \cup {handles + 1}
    /\ UNCHANGED <<phase, task, kind, enabled, unstopped, busy, timers, calls>>

\* The previous handle does not stop, and perhaps neither does the replacement;
\* the previous schedule is restored.
UpdateFails(stopped) ==
    /\ CanUpdate /\ handle[task] # 0 /\ Create
    /\ IF stopped
       THEN UNCHANGED <<live, unstopped>>
       ELSE /\ live' = live \cup {handles + 1}
            /\ unstopped' = Set(unstopped, task, unstopped[task] \cup {handles + 1})
    /\ UNCHANGED <<phase, task, kind, enabled, token, handle, busy, timers, calls>>

-----------------------------------------------------------------------------
(* Ticks *)

\* completeTimeoutTask()
CompleteTimeout(h) ==
    IF task # 0 /\ kind[task] = "timeout" /\ token[task] = h
    THEN /\ handle' = Set(handle, task, 0) /\ token' = Set(token, task, 0)
         /\ enabled' = Set(enabled, task, FALSE)
    ELSE UNCHANGED <<handle, token, enabled>>

\* isTaskTickCurrent() for the registered task
Current(i, h) == phase # "stopping" /\ task = i /\ enabled[i] /\ token[i] = h

\* The guard of handleTaskTick()
Admits(h) == phase = "ready" /\ task # 0 /\ Current(task, h) /\ ~busy[task]

\* handleTaskTick() of a repeating job; its callback may have been queued
\* before the job was stopped.  A task that is not distributed runs at once.
JobFires(h, step) ==
    /\ h <= handles /\ Admits(h) /\ kind[task] = "cron"
    /\ busy' = Set(busy, task, TRUE)
    /\ calls' = calls \cup {[task |-> task, token |-> h, step |-> step]}
    /\ UNCHANGED <<phase, fields, handles, live, timers>>

\* The timer of a timeout task, which fires once.
TimerFires(h, step) ==
    /\ h \in timers
    /\ timers' = timers \ {h}
    /\ IF Admits(h)
       THEN /\ busy' = Set(busy, task, TRUE)
            /\ calls' = calls \cup {[task |-> task, token |-> h, step |-> step]}
            /\ UNCHANGED <<handle, token, enabled>>
       ELSE CompleteTimeout(h) /\ UNCHANGED <<busy, calls>>
    /\ UNCHANGED <<phase, task, kind, unstopped, handles, live>>

\* A mutated form: the tick is not checked again after the wait.
NoRecheck(c) == TRUE

\* The check of runDistributedTaskTick() when the lease was granted.
StillCurrent(c) == Current(c.task, c.token)

Move(c, step) == calls' = (calls \ {c}) \cup {[c EXCEPT !.step = step]}

\* The lease is granted to the tick, or refused.
LeaseAnswers(c, granted) ==
    /\ c \in calls /\ c.step = "lease"
    /\ Move(c, IF granted /\ StillCurrent(c) THEN "body" ELSE "end")
    /\ UNCHANGED <<phase, fields, busy, handles, live, timers>>

\* executeTask(): the body has ended; a timeout task disables itself.
BodyDone(c) ==
    /\ c \in calls /\ c.step = "body"
    /\ Move(c, "end")
    /\ IF kind[c.task] = "timeout"
       THEN /\ enabled' = Set(enabled, c.task, FALSE)
            /\ handle' = Set(handle, c.task, 0) /\ token' = Set(token, c.task, 0)
       ELSE UNCHANGED <<enabled, handle, token>>
    /\ UNCHANGED <<phase, task, kind, unstopped, busy, handles, live, timers>>

\* The finally block of handleTaskTick()
NotBusy(c) == Set(busy, c.task, FALSE)

\* The lease is released and handleTaskTick() returns.
TickEnds(c) ==
    /\ c \in calls /\ c.step = "end"
    /\ calls' = calls \ {c}
    /\ busy' = NotBusy(c)
    /\ CompleteTimeout(c.token)
    /\ UNCHANGED <<phase, task, kind, unstopped, handles, live, timers>>

-----------------------------------------------------------------------------
(* Bootstrap and shutdown *)

\* startLifecycle(): tasks that were added before are scheduled now.
Bootstrap ==
    /\ phase = "created"
    /\ phase' = "ready"
    /\ IF task # 0 /\ enabled[task] THEN ScheduleTask(task, kind[task])
       ELSE UNCHANGED <<handle, token, handles, live, timers>>
    /\ UNCHANGED <<task, kind, enabled, unstopped, busy, calls>>

\* stopAllScheduledTasks(), by the first shutdown hook and by the next one.
StopAll(S) ==
    /\ phase # "created"
    /\ phase' = "stopping"
    /\ IF task # 0
       THEN S \in Stops(task) /\ UnscheduleTask(task, S)
       ELSE S = {} /\ UNCHANGED <<live, timers, handle, token, unstopped>>
    /\ UNCHANGED <<task, kind, enabled, busy, handles, calls>>

RegistryInit ==
    /\ phase = "created" /\ task = 0 /\ handles = 0 /\ calls = {}
    /\ live = {} /\ timers = {}
    /\ kind = [i \in Tasks |-> "none"] /\ enabled = [i \in Tasks |-> FALSE]
    /\ handle = [i \in Tasks |-> 0] /\ token = [i \in Tasks |-> 0]
    /\ unstopped = [i \in Tasks |-> {}] /\ busy = [i \in Tasks |-> FALSE]

RegistryNext ==
    \/ Enable \/ Update \/ Bootstrap
    \/ \E k \in {"cron", "timeout"} : Add(k)
    \/ \E stopped \in BOOLEAN : UpdateFails(stopped)
    \/ \E S \in SUBSET Handles : Remove(S) \/ Disable(S) \/ StopAll(S)
    \/ \E h \in Handles, step \in {"lease", "body"} : JobFires(h, step) \/ TimerFires(h, step)
    \/ \E c \in calls :
         BodyDone(c) \/ TickEnds(c) \/ \E granted \in BOOLEAN : LeaseAnswers(c, granted)

RegistrySpec == RegistryInit /\ [][RegistryNext]_registryVars

-----------------------------------------------------------------------------
(* Properties *)

\* Type invariant of the registered tasks, the handles and the ticks; a task is
\* marked as running exactly while a tick of it is under way.
RegistryTypeOK ==
    /\ phase \in {"created", "ready", "stopping"}
    /\ task \in 0 .. MaxTasks
    /\ kind \in [Tasks -> {"none", "cron", "timeout"}]
    /\ enabled \in [Tasks -> BOOLEAN] /\ busy \in [Tasks -> BOOLEAN]
    /\ handle \in [Tasks -> 0 .. MaxHandles] /\ token \in [Tasks -> 0 .. MaxHandles]
    /\ unstopped \in [Tasks -> SUBSET Handles]
    /\ handles \in 0 .. MaxHandles 
    /\ live \subseteq Handles /\ timers \subseteq Handles
    /\ calls \subseteq [task : Tasks, token : Handles, step : {"lease", "body", "end"}]
    /\ \A i \in Tasks : busy[i] <=> \E c \in calls : c.task = i

\* Two ticks of one registration never overlap, also when the schedule was
\* replaced while the first one runs (README.md: "the same task instance will
\* not run overlapping ticks").
NoOverlap == \A c, d \in calls : c.task = d.task => c = d

\* A cron job that may still fire is known to the registered task, which can
\* stop it later: a failed stop(), remove() or update never loses one
\* (service.ts, pendingStopHandles).
JobsKept == \A h \in live : task # 0 /\ h \in Stoppable(task)

\* A task that is enabled is scheduled: after a failed update, disable() or
\* enable() the handle in force is live and its ticks are accepted.  A removal
\* that stopped only some handles is excepted (service.ts, updateCronExpression()).
EnabledRuns ==
    phase = "ready" /\ task # 0 /\ enabled[task] /\ unstopped[task] = {} =>
        /\ token[task] = handle[task]
        /\ \/ handle[task] \in live \cup timers
           \/ \E c \in calls : c.task = task /\ c.token = token[task]

\* The registry and the live schedules agree, whichever schedule fails to
\* start or to stop: no job runs that cannot be stopped, no enabled task is idle.
SchedulesKept == RegistryTypeOK /\ JobsKept /\ EnabledRuns

\* No task body starts for a tick whose schedule was replaced, disabled or
\* removed, or whose service began to stop, while the tick waited for its
\* lease (service.ts, runDistributedTaskTick()).
BodyCurrent ==
    [][\A c \in calls' \ calls : c.step = "body" => Current(c.task, c.token)]_registryVars

\* Ticks of a task come one at a time, and only for the schedule in force.
TicksCurrent == []NoOverlap /\ BodyCurrent

\* A timer that is set for a timeout task is honoured when it fires, so that a
\* task "can be re-enabled deliberately" (README.md), also while its previous
\* run has not ended (service.ts, executeTask()).
TimersHonoured ==
    \A h \in timers : phase = "stopping" \/ (task # 0 /\ Current(task, h))
=============================================================================
