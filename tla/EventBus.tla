------------------------------ MODULE EventBus ------------------------------
(***************************************************************************)
(* EventBusLifecycleService: publications fan out to local handlers and    *)
(* the transport, inbound messages to local handlers; what they start is   *)
(* tracked, outlives the caller's timeout, and is drained under a deadline *)
(* before the shutdown closes the transport.                               *)
(*                                                                         *)
(* A dispatch is a call of publish() or a message of the transport.  It    *)
(* waits for the discovery of the handlers, starts one piece of work per   *)
(* recipient and is itself tracked; work <<d, t>> is tracked on its own.   *)
(***************************************************************************)
CONSTANTS Delivery,     \* calls of publish() and inbound messages
          Target        \* recipients: matching handlers, transport channels

\* The names tell a dispatch's own promises from the work of its recipients.
ASSUME BusAssumption == {"dispatch", "completion"} \cap Target = {}

VARIABLES
  bus,            \* lifecycleState
  discovery,      \* "none", "running", "done"
  boot,           \* onApplicationBootstrap(): "none", "discovery", "subscribe", "ended"
  progress,       \* progress[d]: how far dispatch d has come
  mode,           \* mode[d]: "awaited", "background" or "inbound"
  work,           \* work[d][t]: "none", "running" or "done"
  activeDispatches,   \* what is tracked
  shut,           \* onApplicationShutdown(): "none", "drain", "close"
  snapshot,       \* the tracked work the drain waits for
  closed,         \* transportClosed
  drainTimeout,   \* shutdownDrainTimeouts > 0
  rolledBack      \* a failed bootstrap closed the transport

busVars == <<bus, discovery, boot, progress, mode, work, activeDispatches, shut, snapshot,
             closed, drainTimeout, rolledBack>>

BusInit ==
  /\ bus = "created" /\ discovery = "none" /\ boot = "none"
  /\ progress = [d \in Delivery |-> "none"]
  /\ mode = [d \in Delivery |-> "awaited"]
  /\ work = [d \in Delivery |-> [t \in Target |-> "none"]]
  /\ activeDispatches = {} /\ shut = "none" /\ snapshot = {}
  /\ closed = FALSE /\ drainTimeout = FALSE /\ rolledBack = FALSE

lifeVars == <<boot, shut, snapshot, closed, drainTimeout, rolledBack>>

Own(d) == <<d, "dispatch">>        \* the promise of executePublish()
All(d) == <<d, "completion">>      \* the completion of a background publication
Part(d, t) == <<d, t>>             \* the work of one recipient

-----------------------------------------------------------------------------
(***************************************************************************)
(* publish(): refused once the bus stops or has failed; else tracked from  *)
(* its first step, which joins or starts the discovery.                    *)
(***************************************************************************)
PublishEvent(d) ==
  /\ progress[d] = "none" /\ bus \in {"created", "discovering", "ready"}
  /\ \E m \in {"awaited", "background"} : mode' = [mode EXCEPT ![d] = m]
  /\ progress' = [progress EXCEPT ![d] = "discovering"]
  /\ activeDispatches' = activeDispatches \cup {Own(d)}
  /\ discovery' = IF discovery = "none" THEN "running" ELSE discovery
  /\ UNCHANGED <<bus, work>> /\ UNCHANGED lifeVars

\* An inbound message is dispatched by a bus that is ready, else ignored.
Receive(d) ==
  /\ progress[d] = "none" /\ bus = "ready" /\ ~closed
  /\ mode' = [mode EXCEPT ![d] = "inbound"]
  /\ progress' = [progress EXCEPT ![d] = "started"]
  /\ work' = [work EXCEPT ![d] = [t \in Target |-> "running"]]
  /\ activeDispatches' = activeDispatches \cup {Own(d)} \cup {Part(d, t) : t \in Target}
  /\ UNCHANGED <<bus, discovery>> /\ UNCHANGED lifeVars

\* The discovery ends: its callers go on, or reject with it.
Discovered ==
  /\ discovery = "running" /\ discovery' = "done"
  /\ boot' = IF boot = "discovery" THEN "subscribe" ELSE boot
  /\ UNCHANGED <<bus, progress, mode, work, activeDispatches, shut, snapshot, closed,
                 drainTimeout, rolledBack>>

DiscoveryFailed ==
  /\ discovery = "running" /\ discovery' = "none"
  /\ LET waiting == {d \in Delivery : progress[d] = "discovering"} IN
       /\ progress' = [d \in Delivery |-> IF d \in waiting THEN "settled" ELSE progress[d]]
       /\ activeDispatches' = activeDispatches \ {Own(d) : d \in waiting}
  /\ IF boot = "discovery" THEN boot' = "ended" /\ bus' = "failed"
                           ELSE UNCHANGED <<boot, bus>>
  /\ UNCHANGED <<mode, work, shut, snapshot, closed, drainTimeout, rolledBack>>

\* executePublish() after the discovery: every recipient's work is started
\* and tracked; a background publication hands out its receipt at once.
FanOut(d) ==
  /\ progress[d] = "discovering" /\ discovery = "done"
  /\ work' = [work EXCEPT ![d] = [t \in Target |-> "running"]]
  /\ LET parts == {Part(d, t) : t \in Target} IN
     IF mode[d] = "background"
     THEN /\ progress' = [progress EXCEPT ![d] = "settled"]
          /\ activeDispatches' = (activeDispatches \ {Own(d)}) \cup parts \cup {All(d)}
     ELSE /\ progress' = [progress EXCEPT ![d] = "started"]
          /\ activeDispatches' = activeDispatches \cup parts
  /\ UNCHANGED <<bus, discovery, mode>> /\ UNCHANGED lifeVars

\* A handler or a transport publication settles, successfully or not.
WorkEnds(d, t) ==
  /\ work[d][t] = "running"
  /\ work' = [work EXCEPT ![d][t] = "done"]
  /\ activeDispatches' = (activeDispatches \ {Part(d, t)})
               \ (IF \A u \in Target : work'[d][u] = "done" THEN {All(d)} ELSE {})
  /\ UNCHANGED <<bus, discovery, progress, mode>> /\ UNCHANGED lifeVars

\* The caller's wait ends with the work, by its timeout or by its signal.
DispatchSettles(d) ==
  /\ progress[d] = "started"
  /\ progress' = [progress EXCEPT ![d] = "settled"]
  /\ activeDispatches' = activeDispatches \ {Own(d)}
  /\ UNCHANGED <<bus, discovery, mode, work>> /\ UNCHANGED lifeVars

-----------------------------------------------------------------------------
\* onApplicationBootstrap(): discovery, then the channels of the transport.
BootstrapBus ==
  /\ boot = "none"
  /\ bus' = "discovering"
  /\ IF discovery = "done"
     THEN boot' = "subscribe" /\ UNCHANGED discovery
     ELSE boot' = "discovery" /\ discovery' = "running"
  /\ UNCHANGED <<progress, mode, work, activeDispatches, shut, snapshot, closed,
                 drainTimeout, rolledBack>>

Subscribed ==
  /\ boot = "subscribe" /\ boot' = "ended"
  /\ bus' = "ready"
  /\ UNCHANGED <<discovery, progress, mode, work, activeDispatches, shut, snapshot, closed,
                 drainTimeout, rolledBack>>

\* A subscription fails: the transport is closed again, if it lets itself be.
SubscribeFailed ==
  /\ boot = "subscribe" /\ boot' = "ended"
  /\ bus' = "failed"
  /\ \E ok \in BOOLEAN : closed' = ok /\ rolledBack' = ok
  /\ UNCHANGED <<discovery, progress, mode, work, activeDispatches, shut, snapshot,
                 drainTimeout>>

-----------------------------------------------------------------------------
(***************************************************************************)
(* onApplicationShutdown(): after the bootstrap or instead of it, when an  *)
(* earlier hook failed, and again when the transport could not be closed.  *)
(***************************************************************************)
StopBus ==
  /\ boot \in {"none", "ended"} /\ shut = "none" /\ bus # "stopped"
  /\ bus' = "stopping" /\ boot' = "ended"
  /\ IF activeDispatches = {} THEN shut' = "close" /\ UNCHANGED snapshot
                    ELSE shut' = "drain" /\ snapshot' = activeDispatches
  /\ UNCHANGED <<discovery, progress, mode, work, activeDispatches, closed,
                 drainTimeout, rolledBack>>

\* A mutated form: the live set is not looked at again.
DrainOnce ==
  /\ shut = "drain" /\ snapshot \cap activeDispatches = {}
  /\ shut' = "close" /\ snapshot' = {}
  /\ UNCHANGED <<bus, discovery, boot, progress, mode, work, activeDispatches, closed,
                 drainTimeout, rolledBack>>

\* The snapshot has settled: look at the live set again.
DrainPass ==
  /\ shut = "drain" /\ snapshot \cap activeDispatches = {}
  /\ IF activeDispatches = {} THEN shut' = "close" /\ snapshot' = {}
                    ELSE snapshot' = activeDispatches /\ UNCHANGED shut
  /\ UNCHANGED <<bus, discovery, boot, progress, mode, work, activeDispatches, closed,
                 drainTimeout, rolledBack>>

\* Promise.race of the snapshot and the one timer of the drain.
TimerWins == snapshot # {}

\* The one deadline of the drain.
DrainExpires ==
  /\ shut = "drain" /\ TimerWins
  /\ shut' = "close" /\ snapshot' = {}
  /\ drainTimeout' = TRUE
  /\ UNCHANGED <<bus, discovery, boot, progress, mode, work, activeDispatches, closed,
                 rolledBack>>

\* closeTransport(): a transport already closed is not closed again.
CloseBus ==
  /\ shut = "close" /\ shut' = "none"
  /\ \/ bus' = "stopped" /\ closed' = TRUE
     \/ ~closed /\ bus' = "failed" /\ UNCHANGED closed
  /\ UNCHANGED <<discovery, boot, progress, mode, work, activeDispatches, snapshot,
                 drainTimeout, rolledBack>>

BusNext ==
  \/ \E d \in Delivery : \/ PublishEvent(d) \/ Receive(d) \/ FanOut(d)
                         \/ DispatchSettles(d)
                         \/ \E t \in Target : WorkEnds(d, t)
  \/ Discovered \/ DiscoveryFailed
  \/ BootstrapBus \/ Subscribed \/ SubscribeFailed
  \/ StopBus \/ DrainPass \/ DrainExpires \/ CloseBus

\* The drain timer fires and the transport answers; handlers may hang.
BusFairness == WF_busVars(DrainExpires) /\ WF_busVars(CloseBus)

BusSpec == BusInit /\ [][BusNext]_busVars

-----------------------------------------------------------------------------
(***************************************************************************)
(* The state of the event bus.                                             *)
(***************************************************************************)
BusTypeOK ==
  /\ bus \in {"created", "discovering", "ready", "stopping", "stopped", "failed"}
  /\ discovery \in {"none", "running", "done"}
  /\ boot \in {"none", "discovery", "subscribe", "ended"}
  /\ progress \in [Delivery -> {"none", "discovering", "started", "settled"}]
  /\ mode \in [Delivery -> {"awaited", "background", "inbound"}]
  /\ work \in [Delivery -> [Target -> {"none", "running", "done"}]]
  /\ activeDispatches \subseteq Delivery \X ({"dispatch", "completion"} \cup Target)
  /\ snapshot \subseteq Delivery \X ({"dispatch", "completion"} \cup Target)
  /\ shut \in {"none", "drain", "close"}
  /\ shut # "drain" => snapshot = {}
  /\ closed \in BOOLEAN /\ drainTimeout \in BOOLEAN /\ rolledBack \in BOOLEAN

(***************************************************************************)
(* The shutdown closes the transport only over a quiet bus: no recipient's *)
(* work runs and no admitted publication is still to start some, even when *)
(* that work outlived its caller or was started during the drain.  The two *)
(* exceptions the code makes are an expired drain and the rollback of a    *)
(* bootstrap that failed.                                                  *)
(***************************************************************************)
QuietClose ==
  closed /\ ~drainTimeout /\ ~rolledBack =>
    \A d \in Delivery : /\ progress[d] # "discovering"
                        /\ \A t \in Target : work[d][t] # "running"

(***************************************************************************)
(* The shutdown ends although handlers may hang for ever: nothing but the  *)
(* drain timer and the transport's own close is waited for.                *)
(***************************************************************************)
BusStops == shut # "none" ~> shut = "none"
=============================================================================
