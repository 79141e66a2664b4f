------------------------------ MODULE Application ------------------------------
(***************************************************************************)
(* The HTTP application shell of @fluojs/runtime                           *)
(* (packages/runtime/src/internal/application.ts): listen() and close()    *)
(* racing each other and the host's callbacks, the microservices connected *)
(* to the application (internal/microservice-application.ts), the rollback *)
(* of startAllMicroservices(), and the retryable teardown phases           *)
(* (internal/runtime-resources.ts).                                        *)
(*                                                                         *)
(* Every async function is suspended between two actions; an action is the *)
(* synchronous segment that a settled promise or a caller resumes.  What   *)
(* the host supplies (adapter, transports, cleanup callbacks, hooks,       *)
(* loggers) settles either way, at any time.                               *)
(***************************************************************************)
EXTENDS Naturals, Sequences

CONSTANTS
    Child,      \* microservices connectMicroservice() may attach
    Starter,    \* startAllMicroservices() calls
    MaxClose    \* bound: close() calls of the host that begin an attempt

ASSUME ConstantsAssumption == MaxClose \in Nat

\* RuntimeShutdownPhase, in the order of closeRuntimeResources().
Phases == <<"readiness", "runtime-cleanup", "hooks", "adapter", "container">>
PhaseName == {"readiness", "runtime-cleanup", "hooks", "adapter", "container"}

VARIABLES
    state,           \* applicationState
    closed,          \* this.closed
    closeStarted,    \* this.closeStarted, the terminal operation gate
    closing,         \* closingPromise: none, running, failed, done
    closes,          \* number of host close() calls that began an attempt
    step,            \* where the close attempt is suspended
    turn,            \* index of the child the attempt is closing
    at,              \* index of the phase the attempt is in
    failed,          \* the attempt has collected an error
    childrenClosed,  \* connectedMicroservicesClosed
    done,            \* completed phases of runtimeShutdownState
    tried,           \* phases some attempt has entered
    startup,         \* listenPromise and startupPromise
    adapter,         \* the host's listener: idle, binding or up
    registered,      \* unregisterShutdownSignals is set
    signalErrors,    \* signalCleanupErrors is not empty
    connected,       \* connectedMicroservices
    conn,            \* child -> its connectMicroservice() call
    mstate,          \* child -> microserviceState
    mCloseStarted,   \* child -> closeStarted
    mClosing,        \* child -> closingPromise and where it is suspended
    mListening,      \* child -> listenPromise is set
    transport,       \* child -> the host's transport: idle, binding or up
    spc,             \* startAllMicroservices() call -> where it is suspended
    si,              \* startAllMicroservices() call -> index in the loop
    undo             \* startAllMicroservices() call -> index in the rollback

attemptVars == <<step, turn, at, failed, tried>>
shellVars   == <<state, closed, closeStarted, closing, closes, childrenClosed,
                 done>>
hostVars    == <<startup, adapter, registered, signalErrors>>
connVars    == <<connected, conn>>
mCloseVars  == <<mCloseStarted, mClosing>>
mOpenVars   == <<mstate, mListening, transport>>
startVars   == <<spc, si, undo>>
vars == <<attemptVars, shellVars, hostVars, connVars, mCloseVars, mOpenVars,
          startVars>>

\* listenPromise is set from listen() until the raw startup settles.
Listening == startup \in {"readiness", "binding", "tail"}

\* The closingPromise of the child has settled.
Settled(c) == mClosing[c] \in {"done", "failed"}

-----------------------------------------------------------------------------
(* FluoMicroserviceApplication *)

\* A mutated form: every close() of a child begins a new attempt.
Uncached(c) ==
    /\ mCloseStarted' = [mCloseStarted EXCEPT ![c] = TRUE]
    /\ mClosing' = [mClosing EXCEPT ![c] =
                        IF @ = "done" THEN @
                        ELSE IF mListening[c] THEN "listen" ELSE "runtime"]

\* close(): the first call shuts the gate and goes to wait for a pending
\* listen(); every later call joins it, or meets its cached result.
CloseChild(c) ==
    /\ mCloseStarted' = [mCloseStarted EXCEPT ![c] = TRUE]
    /\ mClosing' = [mClosing EXCEPT ![c] =
                        IF @ # "none" THEN @
                        ELSE IF mListening[c] THEN "listen" ELSE "runtime"]

\* listen() past its guards: runtime.listen() begins, or is joined.
OpenChild(c) ==
    /\ transport' = [transport EXCEPT ![c] =
                        IF mListening[c] THEN @ ELSE "binding"]
    /\ mListening' = [mListening EXCEPT ![c] = TRUE]
    /\ UNCHANGED mstate

\* The host calls listen() on a connected microservice.
ChildListen(c) ==
    /\ conn[c] = "yes"
    /\ ~mCloseStarted[c] /\ mstate[c] # "ready" /\ ~mListening[c]
    /\ OpenChild(c)
    /\ UNCHANGED <<attemptVars, shellVars, hostVars, connVars, mCloseVars,
                   startVars>>

\* startListening() resumes after runtime.listen(): the state becomes ready
\* unless shutdown began meanwhile.
BecomesReady(c, ok) == ok /\ ~mCloseStarted[c]

\* Every startAllMicroservices() call that awaits the promise sees its outcome:
\* a rejection also when the state is ready but the logger throws.
ChildBound(c, ok, logged) ==
    /\ mListening[c]
    /\ mListening' = [mListening EXCEPT ![c] = FALSE]
    /\ transport' = [transport EXCEPT ![c] = IF ok THEN "up" ELSE "idle"]
    /\ mstate' = [mstate EXCEPT ![c] = IF BecomesReady(c, ok) THEN "ready" ELSE @]
    /\ spc' = [s \in Starter |->
                 IF spc[s] = "wait" /\ connected[si[s]] = c
                 THEN IF BecomesReady(c, ok) /\ logged THEN "ok" ELSE "err"
                 ELSE spc[s]]
    /\ UNCHANGED <<attemptVars, shellVars, hostVars, connVars, mCloseVars, si,
                   undo>>

\* The host calls close() on a connected microservice.
ChildClose(c) ==
    /\ conn[c] = "yes" /\ mClosing[c] = "none"
    /\ CloseChild(c)
    /\ UNCHANGED <<attemptVars, shellVars, hostVars, connVars, mOpenVars,
                   startVars>>

\* The close function resumes after the listenPromise it waited for.
ChildCloseResumes(c) ==
    /\ mClosing[c] = "listen" /\ ~mListening[c]
    /\ mClosing' = [mClosing EXCEPT ![c] = "runtime"]
    /\ UNCHANGED <<attemptVars, shellVars, hostVars, connVars, mCloseStarted,
                   mOpenVars, startVars>>

\* runtime.close() settles; its result is final either way.
ChildRuntimeClosed(c, ok) ==
    /\ mClosing[c] = "runtime"
    /\ mClosing' = [mClosing EXCEPT ![c] = IF ok THEN "done" ELSE "failed"]
    /\ mstate' = [mstate EXCEPT ![c] = IF ok THEN "closed" ELSE @]
    /\ transport' = [transport EXCEPT ![c] = IF ok THEN "idle" ELSE @]
    /\ UNCHANGED <<attemptVars, shellVars, hostVars, connVars, mCloseStarted,
                   mListening, startVars>>

-----------------------------------------------------------------------------
(* connectMicroservice() *)

Connect(c) ==
    /\ conn[c] = "no" /\ ~closeStarted
    /\ conn' = [conn EXCEPT ![c] = "resolving"]
    /\ UNCHANGED <<attemptVars, shellVars, hostVars, connected, mCloseVars,
                   mOpenVars, startVars>>

Attach(c) ==
    /\ conn' = [conn EXCEPT ![c] = "yes"]
    /\ connected' = Append(connected, c)

\* The runtime token resolves.  The gate is checked again: a child that
\* arrives after shutdown began is not attached.
AttachOrReject(c) ==
    IF closeStarted
    THEN conn' = [conn EXCEPT ![c] = "rejected"] /\ UNCHANGED connected
    ELSE Attach(c)

Connected(c) ==
    /\ conn[c] = "resolving"
    /\ AttachOrReject(c)
    /\ UNCHANGED <<attemptVars, shellVars, hostVars, mCloseVars, mOpenVars,
                   startVars>>

\* The token does not resolve, or resolves to something without listen().
ConnectFails(c) ==
    /\ conn[c] = "resolving"
    /\ conn' = [conn EXCEPT ![c] = "rejected"]
    /\ UNCHANGED <<attemptVars, shellVars, hostVars, connected, mCloseVars,
                   mOpenVars, startVars>>

-----------------------------------------------------------------------------
(* startAllMicroservices() *)

\* A mutated form: a failed startAllMicroservices() leaves its children up.
RollbackLess(s, j) ==
    /\ spc' = [spc EXCEPT ![s] = "failed"]
    /\ UNCHANGED <<undo, mCloseVars>>

\* rollbackStartedMicroservices(): close children j, j-1, ..., 1 in turn.
Rollback(s, j) ==
    IF j = 0
    THEN /\ spc' = [spc EXCEPT ![s] = "failed"]
         /\ UNCHANGED <<undo, mCloseVars>>
    ELSE /\ spc' = [spc EXCEPT ![s] = "undo"]
         /\ undo' = [undo EXCEPT ![s] = j]
         /\ CloseChild(connected[j])

\* The loop from index i on: the children before i have been started.
StartFrom(s, i) ==
    /\ si' = [si EXCEPT ![s] = i]
    /\ \/ /\ i > Len(connected)
          /\ spc' = [spc EXCEPT ![s] = "done"]
          /\ UNCHANGED <<undo, mCloseVars, mOpenVars>>
       \/ /\ i <= Len(connected)
          /\ closeStarted \/ mCloseStarted[connected[i]]
          /\ Rollback(s, i - 1)
          /\ UNCHANGED mOpenVars
       \/ /\ i <= Len(connected)
          /\ ~closeStarted /\ ~mCloseStarted[connected[i]]
          /\ IF mstate[connected[i]] = "ready"
             THEN /\ spc' = [spc EXCEPT ![s] = "ok"]
                  /\ UNCHANGED mOpenVars
             ELSE /\ spc' = [spc EXCEPT ![s] = "wait"]
                  /\ OpenChild(connected[i])
          /\ UNCHANGED <<undo, mCloseVars>>

StartAll(s) ==
    /\ spc[s] = "idle" /\ ~closeStarted
    /\ StartFrom(s, 1)
    /\ UNCHANGED <<attemptVars, shellVars, hostVars, connVars>>

\* microservice.listen() has resolved.
Started(s) ==
    /\ spc[s] = "ok"
    /\ StartFrom(s, si[s] + 1)
    /\ UNCHANGED <<attemptVars, shellVars, hostVars, connVars>>

\* microservice.listen() has rejected.
StartFails(s) ==
    /\ spc[s] = "err"
    /\ Rollback(s, si[s] - 1)
    /\ UNCHANGED <<attemptVars, shellVars, hostVars, connVars, mOpenVars, si>>

\* The close() of the rolled back child has settled; its error is logged.
RolledBack(s) ==
    /\ spc[s] = "undo" /\ Settled(connected[undo[s]])
    /\ Rollback(s, undo[s] - 1)
    /\ UNCHANGED <<attemptVars, shellVars, hostVars, connVars, mOpenVars, si>>

\* The logger throws on that error: the rollback ends there, and its error
\* takes the place of the startup's.
RollbackThrows(s) ==
    /\ spc[s] = "undo" /\ mClosing[connected[undo[s]]] = "failed"
    /\ spc' = [spc EXCEPT ![s] = "aborted"]
    /\ UNCHANGED <<attemptVars, shellVars, hostVars, connVars, mCloseVars,
                   mOpenVars, si, undo>>

-----------------------------------------------------------------------------
(* close() *)

\* The first phase from index k on that is not complete; 6 when none is.
NextPhase(k, complete) ==
    CHOOSE j \in k .. 6 :
        /\ j = 6 \/ Phases[j] \notin complete
        /\ \A i \in k .. 5 : i < j => Phases[i] \in complete

\* closeRuntimeResources() reaches its next incomplete phase, or returns.
Advance(k, complete) ==
    LET j == NextPhase(k, complete) IN
    IF j = 6
    THEN step' = "finish" /\ UNCHANGED <<at, tried>>
    ELSE /\ step' = "phase" /\ at' = j
         /\ tried' = tried \cup {Phases[j]}

\* The signal handlers are unregistered, once; an error is kept for every
\* caller of close().  Then the children are closed, last one first.
Teardown ==
    /\ registered' = FALSE
    /\ \E throws \in BOOLEAN :
          /\ throws => registered
          /\ signalErrors' = (signalErrors \/ throws)
    /\ IF childrenClosed
       THEN Advance(1, done) /\ UNCHANGED <<turn, mCloseVars>>
       ELSE /\ step' = "child" /\ turn' = Len(connected)
            /\ IF connected = <<>> THEN UNCHANGED mCloseVars
               ELSE CloseChild(connected[Len(connected)])
            /\ UNCHANGED <<at, tried>>

\* A mutated form: teardown does not wait for a startup under way.
NoWait == Teardown

\* Teardown waits for a raw startup that is under way.
TeardownOrWait ==
    IF Listening
    THEN step' = "listen" /\ UNCHANGED <<turn, at, tried, registered,
                                         signalErrors, mCloseVars>>
    ELSE Teardown

\* close() begins an attempt: the gate shuts before anything else happens.
BeginClose ==
    /\ closeStarted' = TRUE
    /\ closing' = "running"
    /\ failed' = FALSE
    /\ TeardownOrWait
    /\ UNCHANGED <<state, closed, childrenClosed, done, adapter, connVars,
                   mOpenVars, startVars>>

\* The host calls close().  While a closingPromise is set the call joins it.
Close ==
    /\ ~closed /\ closing = "none" /\ closes < MaxClose
    /\ closes' = closes + 1
    /\ BeginClose
    /\ UNCHANGED startup

\* A mutated form: close() waits for the public listen() with its cleanup.
StartupSettled == startup \in {"none", "ok", "failed"}

\* close() waits for listenPromise, the raw startup.
CanResume == ~Listening

CloseResumes ==
    /\ step = "listen" /\ CanResume
    /\ Teardown
    /\ UNCHANGED <<failed, shellVars, startup, adapter, connVars, mOpenVars,
                   startVars>>

\* The close() of the child in turn has settled.
ChildSettled ==
    /\ step = "child" /\ turn > 0 /\ Settled(connected[turn])
    /\ failed' = (failed \/ mClosing[connected[turn]] = "failed")
    /\ turn' = turn - 1
    /\ IF turn = 1 THEN UNCHANGED mCloseVars ELSE CloseChild(connected[turn - 1])
    /\ UNCHANGED <<step, at, tried, shellVars, hostVars, connVars, mOpenVars,
                   startVars>>

\* closeConnectedMicroservices() is over; the runtime phases follow in any case.
ChildrenClosed ==
    /\ step = "child" /\ turn = 0
    /\ childrenClosed' = ~failed
    /\ Advance(1, done)
    /\ UNCHANGED <<turn, failed, state, closed, closeStarted, closing, closes,
                   done, hostVars, connVars, mCloseVars, mOpenVars, startVars>>

\* A phase settles.  An error does not keep later phases from running, except
\* that of the synchronous readiness reset.
PhaseEnds(ok) ==
    /\ step = "phase"
    /\ done' = IF ok THEN done \cup {Phases[at]} ELSE done
    /\ failed' = (failed \/ ~ok)
    /\ adapter' = IF ok /\ Phases[at] = "adapter" THEN "idle" ELSE adapter
    /\ IF ~ok /\ Phases[at] = "readiness"
       THEN step' = "finish" /\ UNCHANGED <<at, tried>>
       ELSE Advance(at + 1, done')
    /\ UNCHANGED <<turn, state, closed, closeStarted, closing, closes,
                   childrenClosed, startup, registered, signalErrors, connVars,
                   mCloseVars, mOpenVars, startVars>>

Succeeds == ~failed

\* The attempt settles the closingPromise; a startup that waits for it as its
\* failure cleanup settles too.
Finish ==
    /\ step = "finish"
    /\ step' = "idle"
    /\ closed' = Succeeds
    /\ state' = IF Succeeds THEN "closed" ELSE state
    /\ closing' = IF failed \/ signalErrors THEN "failed" ELSE "done"
    /\ startup' = IF startup = "cleaning" THEN "failed" ELSE startup
    /\ UNCHANGED <<turn, at, failed, tried, closeStarted, closes,
                   childrenClosed, done, adapter, registered, signalErrors,
                   connVars, mCloseVars, mOpenVars, startVars>>

\* The caller that began the attempt drops its rejected closingPromise.
ClearClosing ==
    /\ closing = "failed"
    /\ closing' = "none"
    /\ UNCHANGED <<attemptVars, state, closed, closeStarted, closes,
                   childrenClosed, done, hostVars, connVars, mCloseVars,
                   mOpenVars, startVars>>

-----------------------------------------------------------------------------
(* listen() *)

Listen ==
    /\ ~closeStarted /\ startup = "none"
    /\ startup' = "readiness"
    /\ UNCHANGED <<attemptVars, shellVars, adapter, registered, signalErrors,
                   connVars, mCloseVars, mOpenVars, startVars>>

\* ready() settles: the platform's critical readiness decides.
ReadinessChecked(ok) ==
    /\ startup = "readiness"
    /\ ok => state # "closed"
    /\ startup' = IF ok THEN "binding" ELSE "failing"
    /\ adapter' = IF ok THEN "binding" ELSE adapter
    /\ UNCHANGED <<attemptVars, shellVars, registered, signalErrors, connVars,
                   mCloseVars, mOpenVars, startVars>>

\* A mutated form: no check for a shutdown after the adapter is bound.
Unchecked(ok) == ok

\* The startup succeeds only when no shutdown began meanwhile.
StillOpen(ok) == ok /\ ~closeStarted

\* adapter.listen() settles: ready, unless it failed or shutdown began.
AdapterBound(ok) ==
    /\ startup = "binding"
    /\ adapter' = IF ok THEN "up" ELSE "idle"
    /\ startup' = IF StillOpen(ok) THEN "tail" ELSE "failing"
    /\ state' = IF StillOpen(ok) THEN "ready" ELSE state
    /\ UNCHANGED <<attemptVars, closed, closeStarted, closing, closes,
                   childrenClosed, done, registered, signalErrors, connVars,
                   mCloseVars, mOpenVars, startVars>>

\* Startup logging and the host's shutdownRegistration; each may throw, and
\* each may call close() before it returns.
StartupTail(registers, throws) ==
    /\ startup = "tail"
    /\ throws => ~registers
    /\ registered' = registers
    /\ startup' = IF throws \/ closeStarted THEN "failing" ELSE "ok"
    /\ UNCHANGED <<attemptVars, shellVars, adapter, signalErrors, connVars,
                   mCloseVars, mOpenVars, startVars>>

\* The startup failed: it closes the application, or joins the close() that
\* is under way, and rejects with its own error in any case.
StartupCleanup ==
    /\ startup = "failing"
    /\ \/ /\ ~closed /\ closing = "none"
          /\ startup' = "cleaning"
          /\ BeginClose
          /\ UNCHANGED closes
       \/ /\ closed \/ closing # "none"
          /\ startup' = IF ~closed /\ closing = "running" THEN "cleaning"
                        ELSE "failed"
          /\ UNCHANGED <<attemptVars, shellVars, adapter, registered,
                         signalErrors, connVars, mCloseVars, mOpenVars,
                         startVars>>

-----------------------------------------------------------------------------
Init ==
    /\ state = "bootstrapped" /\ closed = FALSE /\ closeStarted = FALSE
    /\ closing = "none" /\ closes = 0 /\ step = "idle" /\ turn = 0 /\ at = 0
    /\ failed = FALSE /\ childrenClosed = FALSE /\ done = {} /\ tried = {}
    /\ startup = "none" /\ adapter = "idle" /\ registered = FALSE
    /\ signalErrors = FALSE
    /\ connected = <<>> /\ conn = [c \in Child |-> "no"]
    /\ mstate = [c \in Child |-> "bootstrapped"]
    /\ mCloseStarted = [c \in Child |-> FALSE]
    /\ mClosing = [c \in Child |-> "none"]
    /\ mListening = [c \in Child |-> FALSE]
    /\ transport = [c \in Child |-> "idle"]
    /\ spc = [s \in Starter |-> "idle"]
    /\ si = [s \in Starter |-> 0] /\ undo = [s \in Starter |-> 0]

\* Steps that a settled promise takes without a new call of the host.
ChildStep(c) ==
    \/ ChildCloseResumes(c)
    \/ Connected(c) \/ ConnectFails(c)
    \/ \E ok, logged \in BOOLEAN : ChildBound(c, ok, logged)
    \/ \E ok \in BOOLEAN : ChildRuntimeClosed(c, ok)

StarterStep(s) ==
    Started(s) \/ StartFails(s) \/ RolledBack(s) \/ RollbackThrows(s)

CloseStep ==
    \/ CloseResumes \/ ChildSettled \/ ChildrenClosed \/ Finish \/ ClearClosing
    \/ \E ok \in BOOLEAN : PhaseEnds(ok)

StartupStep ==
    \/ StartupCleanup
    \/ \E ok \in BOOLEAN : ReadinessChecked(ok) \/ AdapterBound(ok)
    \/ \E registers, throws \in BOOLEAN : StartupTail(registers, throws)

Next ==
    \/ Listen \/ Close
    \/ \E c \in Child : Connect(c) \/ ChildListen(c) \/ ChildClose(c)
    \/ \E s \in Starter : StartAll(s)
    \/ \E c \in Child : ChildStep(c)
    \/ \E s \in Starter : StarterStep(s)
    \/ CloseStep
    \/ StartupStep

\* What the host hands over settles eventually: adapters and transports bound
\* their own waits, and promise reactions are run by the event loop.
Fairness ==
    /\ \A c \in Child : WF_vars(ChildStep(c))
    /\ \A s \in Starter : WF_vars(StarterStep(s))
    /\ WF_vars(CloseStep)
    /\ WF_vars(StartupStep)

Spec == Init /\ [][Next]_vars
FairSpec == Spec /\ Fairness

-----------------------------------------------------------------------------
(* Properties *)

\* Type invariant of the fields of FluoApplication and of its children.
TypeOK ==
    /\ state \in {"bootstrapped", "ready", "closed"}
    /\ closed \in BOOLEAN /\ closeStarted \in BOOLEAN
    /\ closing \in {"none", "running", "failed", "done"}
    /\ closes \in 0 .. MaxClose
    /\ step \in {"idle", "listen", "child", "phase", "finish"}
    /\ turn \in 0 .. Len(connected) /\ at \in 0 .. 5
    /\ failed \in BOOLEAN /\ childrenClosed \in BOOLEAN
    /\ done \subseteq PhaseName /\ tried \subseteq PhaseName
    /\ startup \in {"none", "readiness", "binding", "tail", "failing",
                    "cleaning", "failed", "ok"}
    /\ adapter \in {"idle", "binding", "up"}
    /\ registered \in BOOLEAN /\ signalErrors \in BOOLEAN
    /\ connected \in Seq(Child)
    /\ conn \in [Child -> {"no", "resolving", "yes", "rejected"}]
    /\ mstate \in [Child -> {"bootstrapped", "ready", "closed"}]
    /\ mCloseStarted \in [Child -> BOOLEAN]
    /\ mClosing \in [Child -> {"none", "listen", "runtime", "done", "failed"}]
    /\ mListening \in [Child -> BOOLEAN]
    /\ transport \in [Child -> {"idle", "binding", "up"}]
    /\ spc \in [Starter -> {"idle", "wait", "ok", "err", "undo", "done",
                            "failed", "aborted"}]
    /\ si \in [Starter -> Nat] /\ undo \in [Starter -> Nat]

\* An application whose close() succeeded has nothing left: every teardown
\* phase is complete, the adapter does not listen and cannot come up late, no
\* signal handler is registered, and every connected child is closed with its
\* transport down.  A listen(), connectMicroservice() or
\* startAllMicroservices() that was under way when close() began cannot undo
\* this (application.ts, close() and startListening()).
ClosedMeansDown ==
    closed =>
      /\ state = "closed" /\ done = PhaseName
      /\ adapter = "idle" /\ ~Listening /\ ~registered
      /\ \A c \in Child : conn[c] = "yes" =>
            mClosing[c] = "done" /\ transport[c] = "idle" /\ ~mListening[c]

\* The runtime's own teardown begins only when the close() of every connected
\* child has settled, in every attempt, however late the child was connected
\* (application.ts, closeConnectedMicroservices() before
\* closeRuntimeResources()).
ChildrenFirst ==
    tried # {} => \A c \in Child : conn[c] = "yes" => Settled(c)

\* Teardown order across retries: no phase is entered before every earlier
\* phase has been entered, and none is entered again once it is complete
\* (runtime-resources.ts, closeRuntimeResources()).
TeardownOrder ==
    /\ \A i, j \in 1 .. 5 : i < j /\ Phases[j] \in tried => Phases[i] \in tried
    /\ step = "phase" => Phases[at] \notin done

\* Teardown in both dimensions: children before the runtime, and the phases of
\* the runtime in their order, each completed once across all retries
\* (application.ts, close(); runtime-resources.ts, closeRuntimeResources()).
TeardownSound == TypeOK /\ ChildrenFirst /\ TeardownOrder

\* When startAllMicroservices() rejects with the error of the startup, the
\* close() of every child it had started has settled.  Only a logger that
\* throws can leave started children open: the rollback then stops at a child
\* whose own close() failed, every later one has been closed, and the caller
\* gets the logger's error (application.ts, rollbackStartedMicroservices()).
RollbackComplete ==
    \A s \in Starter :
      /\ spc[s] = "failed" =>
            \A j \in 1 .. Len(connected) : j < si[s] => Settled(connected[j])
      /\ spc[s] = "aborted" =>
            /\ mClosing[connected[undo[s]]] = "failed"
            /\ \A j \in 1 .. Len(connected) :
                  undo[s] <= j /\ j < si[s] => Settled(connected[j])

(* The inductive invariant behind these properties. *)

\* closingPromise, the attempt's step, the flags and the public state agree.
ShellOK ==
    /\ (closing = "running") <=> (step # "idle")
    /\ closing # "none" => closeStarted
    /\ closing = "running" => ~closed
    /\ closing = "done" => closed
    /\ closed <=> (state = "closed")
    /\ closed => closeStarted
    /\ startup \in {"none", "readiness", "binding"} => state # "ready"

\* Once an attempt is past its wait, startup is over for good; no phase was
\* ever entered before that.
StartupOver ==
    /\ closeStarted /\ step # "listen" => ~Listening /\ ~registered
    /\ tried # {} => closeStarted /\ step # "listen"
    /\ childrenClosed => closeStarted /\ step # "listen"
    /\ done \subseteq tried
    /\ "adapter" \in done => adapter = "idle"

\* Progress of the current attempt through the phases.
PhasesOK ==
    /\ \A i, j \in 1 .. 5 : i < j /\ Phases[j] \in tried => Phases[i] \in tried
    /\ step = "phase" => at \in 1 .. 5 /\ Phases[at] \in tried \ done
    /\ step = "phase" /\ ~failed =>
            \A i \in 1 .. 5 : i < at => Phases[i] \in done
    /\ step = "finish" /\ ~failed => done = PhaseName
    /\ step \in {"phase", "finish"} /\ ~failed => childrenClosed
    /\ closed => done = PhaseName /\ childrenClosed

\* A child's closingPromise, gate, state, listenPromise and transport agree.
ChildOK ==
    \A c \in Child :
      /\ mCloseStarted[c] <=> (mClosing[c] # "none")
      /\ mClosing[c] \in {"runtime", "done", "failed"} => ~mListening[c]
      /\ (mClosing[c] = "done") <=> (mstate[c] = "closed")
      /\ mClosing[c] = "done" => transport[c] = "idle"
      /\ mListening[c] => mstate[c] # "ready"

\* connectedMicroservices holds the children whose connection succeeded.
ConnectedOK ==
    /\ \A c \in Child : conn[c] = "yes" => \E i \in 1 .. Len(connected) : connected[i] = c
    /\ step = "child" => \A i \in 1 .. Len(connected) : turn < i =>
            Settled(connected[i]) /\ (~failed => mClosing[connected[i]] = "done")
    /\ tried # {} => \A i \in 1 .. Len(connected) : Settled(connected[i])
    /\ childrenClosed => \A i \in 1 .. Len(connected) : mClosing[connected[i]] = "done"

\* Where the startAllMicroservices() loops and rollbacks are.
StarterOK ==
    \A s \in Starter :
      /\ spc[s] \in {"wait", "ok", "err", "undo", "failed", "aborted"} =>
            si[s] \in 1 .. Len(connected)
      /\ spc[s] \in {"undo", "aborted"} =>
            /\ undo[s] \in 1 .. Len(connected) /\ undo[s] < si[s]
            /\ \A j \in 1 .. Len(connected) : undo[s] < j /\ j < si[s] =>
                  Settled(connected[j])

AppInv == TypeOK /\ ShellOK /\ StartupOver /\ PhasesOK /\ ChildOK /\ ConnectedOK
          /\ StarterOK /\ RollbackComplete

\* FluoApplication implements the lifecycle shell, with retries.
AppGate ==
    IF closed THEN "closed"
    ELSE IF closing = "running" THEN "closing"
    ELSE IF closeStarted THEN "failed" ELSE "open"

App == INSTANCE LifecycleShell WITH
           Retryable <- TRUE, state <- state, gate <- AppGate

\* Each FluoMicroserviceApplication implements it too; its first close()
\* result is final.
ChildGate(c) ==
    CASE mClosing[c] = "none" -> "open"
      [] mClosing[c] \in {"listen", "runtime"} -> "closing"
      [] mClosing[c] = "failed" -> "failed"
      [] mClosing[c] = "done" -> "closed"

Microservice(c) == INSTANCE LifecycleShell WITH
                       Retryable <- FALSE, state <- mstate[c],
                       gate <- ChildGate(c)

\* The application is a lifecycle shell: it never becomes ready once close()
\* has begun, the gate never reopens, the public state changes only when an
\* attempt succeeds, and only a failed attempt may be followed by another.
AppIsShell == App!Spec

\* So is every connected microservice, and a failed close() of it is final.
ChildIsShell ==
    /\ \A c \in Child : Microservice(c)!Init
    /\ [][\A c \in Child : [Microservice(c)!Next]_<<mstate[c], ChildGate(c)>>]_vars

\* listen() settles even when it fails while close() waits for it: close()
\* waits for the raw startup only, never for the cleanup that waits for
\* close() (application.ts, listenPromise and startupPromise).
ListenSettles == (startup = "readiness") ~> (startup \in {"ok", "failed"})

\* Every close() attempt settles, whatever startup and children are doing.
CloseSettles == (closing = "running") ~> (closing # "running")

\* startAllMicroservices() settles, close() of the application or not.
StartAllSettles ==
    \A s \in Starter : (spc[s] = "wait") ~> (spc[s] \in {"done", "failed", "aborted"})

\* listen(), close() and startAllMicroservices() all settle, although each may
\* wait for the other two.
ShellSettles == ListenSettles /\ CloseSettles /\ StartAllSettles
=============================================================================
