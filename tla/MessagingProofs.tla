---------------------------- MODULE MessagingProofs ----------------------------
(***************************************************************************)
(* Proofs about the event bus (EventBus), the queue (QueueService) and the *)
(* microservice over Redis Streams (Microservice), each for any number of  *)
(* events, callers, starts, nodes and requests.                            *)
(***************************************************************************)
EXTENDS Messaging, TLAPS

(* The event bus.  What is admitted is tracked until it is over. *)
Tracked ==
    \A d \in Delivery :
        /\ progress[d] = "discovering" => Own(d) \in activeDispatches
        /\ \A t \in Target : work[d][t] = "running" => Part(d, t) \in activeDispatches

\* A bus that stops admits nothing; its drain leaves nothing behind, unless it
\* expires; and once its transport is closed it does not start again.
StopSound ==
    /\ shut # "none" => bus = "stopping" /\ boot = "ended"
    /\ shut = "close" /\ ~drainTimeout => activeDispatches = {}
    /\ closed /\ ~rolledBack => /\ bus = "stopped" /\ boot = "ended"
                                /\ drainTimeout \/ activeDispatches = {}

BusInv == BusTypeOK /\ Tracked /\ StopSound

\* The tags of the promises are not recipients.
LEMMA Tags == \A t \in Target : t # "dispatch" /\ t # "completion"
BY BusAssumption

-----------------------------------------------------------------------------
LEMMA BusTypeKept ==
    ASSUME BusTypeOK, [BusNext]_busVars
    PROVE  BusTypeOK'
<1> USE DEF BusTypeOK, lifeVars, Own, All, Part
<1>1. CASE \E d \in Delivery : PublishEvent(d)
  BY <1>1 DEF PublishEvent
<1>2. CASE \E d \in Delivery : Receive(d)
  BY <1>2 DEF Receive
<1>3. CASE \E d \in Delivery : FanOut(d)
  BY <1>3 DEF FanOut
<1>4. CASE \E d \in Delivery : DispatchSettles(d)
  BY <1>4 DEF DispatchSettles
<1>5. CASE \E d \in Delivery : \E t \in Target : WorkEnds(d, t)
  BY <1>5 DEF WorkEnds
<1>6. CASE Discovered
  BY <1>6 DEF Discovered
<1>7. CASE DiscoveryFailed
  BY <1>7 DEF DiscoveryFailed
<1>8. CASE BootstrapBus
  BY <1>8 DEF BootstrapBus
<1>9. CASE Subscribed
  BY <1>9 DEF Subscribed
<1>10. CASE SubscribeFailed
  BY <1>10 DEF SubscribeFailed
<1>11. CASE StopBus
  BY <1>11 DEF StopBus
<1>12. CASE DrainPass
  BY <1>12 DEF DrainPass
<1>13. CASE DrainExpires
  BY <1>13 DEF DrainExpires
<1>14. CASE CloseBus
  BY <1>14 DEF CloseBus
<1>15. CASE UNCHANGED busVars
  BY <1>15 DEF busVars
<1> QED
  BY <1>1, <1>2, <1>3, <1>4, <1>5, <1>6, <1>7, <1>8, <1>9, <1>10, <1>11, <1>12, <1>13, <1>14,
     <1>15 DEF BusNext

LEMMA TrackedKept ==
    ASSUME BusTypeOK, Tracked, [BusNext]_busVars
    PROVE  Tracked'
<1> USE Tags DEF BusTypeOK, Tracked, lifeVars, Own, All, Part
<1>1. CASE \E d \in Delivery : PublishEvent(d)
  BY <1>1 DEF PublishEvent
<1>2. CASE \E d \in Delivery : Receive(d)
  BY <1>2 DEF Receive
<1>3. ASSUME NEW d \in Delivery, FanOut(d)
      PROVE  Tracked'
  <2>1. /\ progress[d] = "discovering" /\ mode[d] \in {"awaited", "background", "inbound"}
        /\ work' = [work EXCEPT ![d] = [t \in Target |-> "running"]]
        /\ \/ /\ progress' = [progress EXCEPT ![d] = "settled"]
              /\ activeDispatches' = (activeDispatches \ {<<d, "dispatch">>})
                     \cup {<<d, t>> : t \in Target} \cup {<<d, "completion">>}
           \/ /\ progress' = [progress EXCEPT ![d] = "started"]
              /\ activeDispatches' = activeDispatches \cup {<<d, t>> : t \in Target}
    BY <1>3 DEF FanOut
  <2>2. ASSUME NEW e \in Delivery, progress'[e] = "discovering"
        PROVE  <<e, "dispatch">> \in activeDispatches'
    BY <2>1, <2>2
  <2>3. ASSUME NEW e \in Delivery, NEW t \in Target, work'[e][t] = "running"
        PROVE  <<e, t>> \in activeDispatches'
    <3>1. CASE e = d
      BY <2>1, <3>1
    <3>2. CASE e # d
      <4>1. work'[e][t] = work[e][t]
        BY <2>1, <3>2
      <4>2. <<e, t>> \in activeDispatches /\ <<e, t>> # <<d, "dispatch">>
        BY <4>1, <2>3, <3>2
      <4> QED
        BY <4>2, <2>1
    <3> QED
      BY <3>1, <3>2
  <2> QED
    BY <2>2, <2>3
<1>4. CASE \E d \in Delivery : DispatchSettles(d)
  BY <1>4 DEF DispatchSettles
<1>5. ASSUME NEW d \in Delivery, NEW t \in Target, WorkEnds(d, t)
      PROVE  Tracked'
  <2>1. /\ work' = [work EXCEPT ![d][t] = "done"] /\ progress' = progress
        /\ activeDispatches \ {<<d, t>>, <<d, "completion">>} \subseteq activeDispatches'
    BY <1>5 DEF WorkEnds
  <2>2. ASSUME NEW e \in Delivery, progress'[e] = "discovering"
        PROVE  <<e, "dispatch">> \in activeDispatches'
    BY <2>1, <2>2
  <2>3. ASSUME NEW e \in Delivery, NEW u \in Target, work'[e][u] = "running"
        PROVE  <<e, u>> \in activeDispatches'
    <3>1. work[e][u] = "running" /\ <<e, u>> # <<d, t>>
      <4>1. CASE e = d /\ u = t
        BY <4>1, <2>1, <2>3
      <4>2. CASE ~(e = d /\ u = t)
        BY <4>2, <2>1, <2>3
      <4> QED
        BY <4>1, <4>2
    <3> QED
      BY <3>1, <2>1
  <2> QED
    BY <2>2, <2>3
<1>6. CASE DiscoveryFailed
  BY <1>6 DEF DiscoveryFailed
<1>7. CASE UNCHANGED <<progress, work, activeDispatches>>
  BY <1>7
<1>8. Discovered \/ BootstrapBus \/ Subscribed \/ SubscribeFailed \/ StopBus \/ DrainPass
        \/ DrainExpires \/ CloseBus \/ UNCHANGED busVars
      => UNCHANGED <<progress, work, activeDispatches>>
  BY DEF Discovered, BootstrapBus, Subscribed, SubscribeFailed, StopBus, DrainPass,
         DrainExpires, CloseBus, busVars
<1> QED
  BY <1>1, <1>2, <1>3, <1>4, <1>5, <1>6, <1>7, <1>8 DEF BusNext

LEMMA StopKept ==
    ASSUME BusTypeOK, Tracked, StopSound, [BusNext]_busVars
    PROVE  StopSound'
<1> USE DEF BusTypeOK, StopSound, lifeVars
<1>1. CASE \E d \in Delivery : PublishEvent(d)
  BY <1>1 DEF PublishEvent
<1>2. CASE \E d \in Delivery : Receive(d)
  BY <1>2 DEF Receive
<1>3. CASE \E d \in Delivery : FanOut(d)
  BY <1>3 DEF FanOut, Tracked
<1>4. CASE \E d \in Delivery : DispatchSettles(d)
  BY <1>4 DEF DispatchSettles
<1>5. CASE \E d \in Delivery : \E t \in Target : WorkEnds(d, t)
  BY <1>5 DEF WorkEnds
<1>6. CASE Discovered
  BY <1>6 DEF Discovered
<1>7. CASE DiscoveryFailed
  BY <1>7 DEF DiscoveryFailed
<1>8. CASE BootstrapBus
  BY <1>8 DEF BootstrapBus
<1>9. CASE Subscribed
  BY <1>9 DEF Subscribed
<1>10. CASE SubscribeFailed
  BY <1>10 DEF SubscribeFailed
<1>11. CASE StopBus
  BY <1>11 DEF StopBus
<1>12. CASE DrainPass
  BY <1>12 DEF DrainPass
<1>13. CASE DrainExpires
  BY <1>13 DEF DrainExpires
<1>14. CASE CloseBus
  BY <1>14 DEF CloseBus
<1>15. CASE UNCHANGED busVars
  BY <1>15 DEF busVars
<1> QED
  BY <1>1, <1>2, <1>3, <1>4, <1>5, <1>6, <1>7, <1>8, <1>9, <1>10, <1>11, <1>12, <1>13, <1>14,
     <1>15 DEF BusNext

\* The inductive invariant of the event bus.
THEOREM BusInvariant == BusSpec => []BusInv
<1>1. BusInit => BusInv
  <2> SUFFICES ASSUME BusInit PROVE BusInv
    OBVIOUS
  <2> USE DEF BusInit
  <2>1. BusTypeOK
    BY DEF BusTypeOK
  <2>2. Tracked
    BY DEF Tracked
  <2>3. StopSound
    BY DEF StopSound
  <2> QED
    BY <2>1, <2>2, <2>3 DEF BusInv
<1>2. BusInv /\ [BusNext]_busVars => BusInv'
  BY BusTypeKept, TrackedKept, StopKept DEF BusInv
<1> QED
  BY <1>1, <1>2, PTL DEF BusSpec

\* The shutdown closes the transport only over a quiet bus (service.ts of the
\* event-bus package, onApplicationShutdown()).
THEOREM BusClosesQuietly == BusSpec => [](BusTypeOK /\ QuietClose)
<1>1. BusInv => BusTypeOK /\ QuietClose
  BY DEF BusInv, Tracked, StopSound, QuietClose
<1> QED
  BY <1>1, BusInvariant, PTL

-----------------------------------------------------------------------------
(***************************************************************************)
(* The queue.                                                              *)
(***************************************************************************)

\* What the lifecycle state says of the shutdown, the start and the workers.
LifeSound ==
    /\ queueLife \in {"stopping", "stopped"} <=> doing["shutdown"] # "idle"
    /\ queueLife = "stopped" <=> doing["shutdown"] = "done"
    /\ queueLife = "starting" => startPromise # 0
    /\ queueLife \in {"idle", "starting"} => processing = {} /\ scheduled = {}

\* An instance in the maps is open, and nobody is closing it.
RegisteredSound ==
    /\ \A w \in 1..Workers : register[w] # 0 =>
         /\ <<register[w], w>> \in open /\ w <= built[register[w]]
         /\ \A c \in Closer : <<register[w], w>> \notin held[c]
    /\ \A c \in Closer : \A i \in held[c] : i[2] <= built[i[1]]

\* One start runs at a time, and the service or the shutdown waits for it.
StartsSound ==
    ~overtaken =>
    /\ \A a \in Attempt : status[a] = "running" =>
         /\ a = starts
         /\ \/ queueLife = "starting" /\ startPromise = a
            \/ doing["shutdown"] = "waiting" /\ awaited["shutdown"] = a
         /\ processing = {} /\ scheduled = {}
    /\ ready \subseteq Registered
    /\ \A i \in ready : /\ i[1] = starts
                        /\ status[starts] = "running" \/ queueLife \in {"stopping", "stopped"}

\* Whoever closes reaches every worker that runs.
WorkersKnown ==
    ~overtaken =>
    /\ processing \cup (scheduled \cap open)
         \subseteq Registered \cup held["rollback"] \cup held["shutdown"]
    /\ doing["shutdown"] \in {"closing", "draining", "done"} =>
         /\ \A w \in 1..Workers : register[w] = 0
         /\ \A a \in Attempt : status[a] # "running"
         /\ doing["rollback"] \in {"idle", "done"}
    /\ doing["shutdown"] = "done" => writes = {}

QueueInv == QueueTypeOK /\ LifeSound /\ RegisteredSound /\ StartsSound /\ WorkersKnown

LEMMA QueueSizes ==
    /\ Workers \in Nat /\ MaxStarts \in Nat
    /\ "rollback" \in Closer /\ "shutdown" \in Closer /\ Client \subseteq Closer
    /\ "rollback" \notin Client /\ "shutdown" \notin Client
BY QueueAssumption DEF Closer

\* The types, in groups.
LifeTyped ==
    /\ queueLife \in {"idle", "starting", "started", "stopping", "stopped", "failed"}
    /\ startPromise \in 0..MaxStarts /\ starts \in 0..MaxStarts
    /\ failed \subseteq 1..Workers /\ overtaken \in BOOLEAN

StartsTyped ==
    /\ status \in [Attempt -> {"none", "running", "ok", "error"}]
    /\ built \in [Attempt -> 0..Workers]
    /\ register \in [1..Workers -> 0..MaxStarts]
    /\ awaited \in [Closer -> 0..MaxStarts]

InstancesTyped ==
    /\ ready \subseteq Instance /\ scheduled \subseteq Instance
    /\ processing \subseteq open /\ open \subseteq Instance
    /\ writes \subseteq Instance

ClosersTyped ==
    /\ doing \in [Closer -> {"idle", "waiting", "resume", "added", "closing",
                             "draining", "done"}]
    /\ held \in [Closer -> SUBSET Instance]
    /\ \A c \in Closer : doing[c] # "closing" => held[c] = {}

LEMMA QueueTyped == QueueTypeOK <=> LifeTyped /\ StartsTyped /\ InstancesTyped /\ ClosersTyped
BY DEF QueueTypeOK, LifeTyped, StartsTyped, InstancesTyped, ClosersTyped

LEMMA LifeTypedKept ==
    ASSUME LifeTyped, InstancesTyped, [QueueNext]_queueVars
    PROVE  LifeTyped'
<1> USE QueueSizes DEF LifeTyped, InstancesTyped, Instance
<1>1. ASSUME NEW c \in Client, Enqueue(c) PROVE LifeTyped'
  BY <1>1 DEF Enqueue, TakeAll
<1>2. ASSUME NEW a \in Attempt, BuildWorker(a) PROVE LifeTyped'
  BY <1>2 DEF BuildWorker
<1>3. ASSUME NEW a \in Attempt, StartSucceeds(a) PROVE LifeTyped'
  BY <1>3 DEF StartSucceeds, WaitersOf
<1>4. ASSUME NEW a \in Attempt, StartFails(a) PROVE LifeTyped'
  BY <1>4 DEF StartFails, WaitersOf, TakeAll
<1>5. ASSUME NEW c \in Client, Accept(c) PROVE LifeTyped'
  BY <1>5 DEF Accept
<1>6. ASSUME NEW c \in Closer, CloseHeld(c) PROVE LifeTyped'
  BY <1>6 DEF CloseHeld
<1>7. ASSUME NEW c \in Client, RolledBack(c) PROVE LifeTyped'
  BY <1>7 DEF RolledBack
<1>8. ASSUME RunWorkers PROVE LifeTyped'
  BY <1>8 DEF RunWorkers, StartFailure, TakeAll
<1>9. ASSUME NEW i \in Instance, WorkerFails(i) PROVE LifeTyped'
  BY <1>9 DEF WorkerFails, StartFailure, TakeAll
<1>10. ASSUME RollbackDone PROVE LifeTyped'
  BY <1>10 DEF RollbackDone
<1>11. ASSUME NEW i \in Instance, JobFails(i) PROVE LifeTyped'
  BY <1>11 DEF JobFails
<1>12. ASSUME NEW i \in Instance, WriteEnds(i) PROVE LifeTyped'
  BY <1>12 DEF WriteEnds
<1>13. ASSUME StopQueue PROVE LifeTyped'
  BY <1>13 DEF StopQueue
<1>14. ASSUME ShutdownClose PROVE LifeTyped'
  BY <1>14 DEF ShutdownClose, TakeAll
<1>15. ASSUME Stopped PROVE LifeTyped'
  BY <1>15 DEF Stopped
<1>16. ASSUME UNCHANGED queueVars PROVE LifeTyped'
  BY <1>16 DEF queueVars
<1> QED
  BY <1>1, <1>2, <1>3, <1>4, <1>5, <1>6, <1>7, <1>8, <1>9, <1>10, <1>11, <1>12,
     <1>13, <1>14, <1>15, <1>16
  DEF QueueNext, StartStep, CallerStep, RollbackStep, ShutdownStep

LEMMA StartsTypedKept ==
    ASSUME LifeTyped, StartsTyped, [QueueNext]_queueVars
    PROVE  StartsTyped'
<1> USE QueueSizes DEF LifeTyped, StartsTyped, Attempt
<1>1. ASSUME NEW c \in Client, Enqueue(c) PROVE StartsTyped'
  <2>1. built' = built
    BY <1>1 DEF Enqueue
  <2>2. register' \in [1..Workers -> 0..MaxStarts]
    BY SMTT(30), <1>1 DEF Enqueue, TakeAll
  <2>3. \/ UNCHANGED <<status, awaited>>
        \/ UNCHANGED status /\ awaited' = [awaited EXCEPT ![c] = startPromise]
        \/ /\ starts + 1 \in 0..MaxStarts /\ status' = [status EXCEPT ![starts + 1] = "running"]
           /\ awaited' = [awaited EXCEPT ![c] = starts + 1]
    BY <1>1 DEF Enqueue
  <2>4. status' \in [Attempt -> {"none", "running", "ok", "error"}]
    BY <2>3
  <2>5. awaited' \in [Closer -> 0..MaxStarts]
    BY <2>3
  <2> QED
    BY <2>1, <2>2, <2>4, <2>5
<1>2. ASSUME NEW a \in Attempt, BuildWorker(a) PROVE StartsTyped'
  BY <1>2 DEF BuildWorker
<1>3. ASSUME NEW a \in Attempt, StartSucceeds(a) PROVE StartsTyped'
  BY <1>3 DEF StartSucceeds, WaitersOf
<1>4. ASSUME NEW a \in Attempt, StartFails(a) PROVE StartsTyped'
  BY <1>4 DEF StartFails, WaitersOf, TakeAll
<1>5. ASSUME NEW c \in Client, Accept(c) PROVE StartsTyped'
  BY <1>5 DEF Accept
<1>6. ASSUME NEW c \in Closer, CloseHeld(c) PROVE StartsTyped'
  BY <1>6 DEF CloseHeld
<1>7. ASSUME NEW c \in Client, RolledBack(c) PROVE StartsTyped'
  BY <1>7 DEF RolledBack
<1>8. ASSUME RunWorkers PROVE StartsTyped'
  BY <1>8 DEF RunWorkers, StartFailure, TakeAll
<1>9. ASSUME NEW i \in Instance, WorkerFails(i) PROVE StartsTyped'
  BY <1>9 DEF WorkerFails, StartFailure, TakeAll
<1>10. ASSUME RollbackDone PROVE StartsTyped'
  BY <1>10 DEF RollbackDone
<1>11. ASSUME NEW i \in Instance, JobFails(i) PROVE StartsTyped'
  BY <1>11 DEF JobFails
<1>12. ASSUME NEW i \in Instance, WriteEnds(i) PROVE StartsTyped'
  BY <1>12 DEF WriteEnds
<1>13. ASSUME StopQueue PROVE StartsTyped'
  BY <1>13 DEF StopQueue
<1>14. ASSUME ShutdownClose PROVE StartsTyped'
  BY <1>14 DEF ShutdownClose, TakeAll
<1>15. ASSUME Stopped PROVE StartsTyped'
  BY <1>15 DEF Stopped
<1>16. ASSUME UNCHANGED queueVars PROVE StartsTyped'
  BY <1>16 DEF queueVars
<1> QED
  BY <1>1, <1>2, <1>3, <1>4, <1>5, <1>6, <1>7, <1>8, <1>9, <1>10, <1>11, <1>12,
     <1>13, <1>14, <1>15, <1>16
  DEF QueueNext, StartStep, CallerStep, RollbackStep, ShutdownStep

LEMMA InstancesTypedKept ==
    ASSUME StartsTyped, InstancesTyped, [QueueNext]_queueVars
    PROVE  InstancesTyped'
<1> USE QueueSizes DEF StartsTyped, InstancesTyped, Instance
<1>1. ASSUME NEW c \in Client, Enqueue(c) PROVE InstancesTyped'
  BY <1>1 DEF Enqueue, TakeAll
<1>2. ASSUME NEW a \in Attempt, BuildWorker(a) PROVE InstancesTyped'
  BY <1>2 DEF BuildWorker
<1>3. ASSUME NEW a \in Attempt, StartSucceeds(a) PROVE InstancesTyped'
  BY <1>3 DEF StartSucceeds, WaitersOf
<1>4. ASSUME NEW a \in Attempt, StartFails(a) PROVE InstancesTyped'
  BY <1>4 DEF StartFails, WaitersOf, TakeAll
<1>5. ASSUME NEW c \in Client, Accept(c) PROVE InstancesTyped'
  BY <1>5 DEF Accept
<1>6. ASSUME NEW c \in Closer, CloseHeld(c) PROVE InstancesTyped'
  BY <1>6 DEF CloseHeld
<1>7. ASSUME NEW c \in Client, RolledBack(c) PROVE InstancesTyped'
  BY <1>7 DEF RolledBack
<1>8. ASSUME RunWorkers PROVE InstancesTyped'
  BY <1>8 DEF RunWorkers, StartFailure, TakeAll
<1>9. ASSUME NEW i \in Instance, WorkerFails(i) PROVE InstancesTyped'
  BY <1>9 DEF WorkerFails, StartFailure, TakeAll
<1>10. ASSUME RollbackDone PROVE InstancesTyped'
  BY <1>10 DEF RollbackDone
<1>11. ASSUME NEW i \in Instance, JobFails(i) PROVE InstancesTyped'
  BY <1>11 DEF JobFails
<1>12. ASSUME NEW i \in Instance, WriteEnds(i) PROVE InstancesTyped'
  BY <1>12 DEF WriteEnds
<1>13. ASSUME StopQueue PROVE InstancesTyped'
  BY <1>13 DEF StopQueue
<1>14. ASSUME ShutdownClose PROVE InstancesTyped'
  BY <1>14 DEF ShutdownClose, TakeAll
<1>15. ASSUME Stopped PROVE InstancesTyped'
  BY <1>15 DEF Stopped
<1>16. ASSUME UNCHANGED queueVars PROVE InstancesTyped'
  BY <1>16 DEF queueVars
<1> QED
  BY <1>1, <1>2, <1>3, <1>4, <1>5, <1>6, <1>7, <1>8, <1>9, <1>10, <1>11, <1>12,
     <1>13, <1>14, <1>15, <1>16
  DEF QueueNext, StartStep, CallerStep, RollbackStep, ShutdownStep

LEMMA ClosersTypedKept ==
    ASSUME ClosersTyped, [QueueNext]_queueVars
    PROVE  ClosersTyped'
<1> USE QueueSizes DEF ClosersTyped, Registered
<1>1. ASSUME NEW c \in Client, Enqueue(c) PROVE ClosersTyped'
  BY <1>1 DEF Enqueue, TakeAll
<1>2. ASSUME NEW a \in Attempt, BuildWorker(a) PROVE ClosersTyped'
  BY <1>2 DEF BuildWorker
<1>3. ASSUME NEW a \in Attempt, StartSucceeds(a) PROVE ClosersTyped'
  BY <1>3 DEF StartSucceeds, WaitersOf
<1>4. ASSUME NEW a \in Attempt, StartFails(a) PROVE ClosersTyped'
  BY <1>4 DEF StartFails, WaitersOf, TakeAll
<1>5. ASSUME NEW c \in Client, Accept(c) PROVE ClosersTyped'
  BY <1>5 DEF Accept
<1>6. ASSUME NEW c \in Closer, CloseHeld(c) PROVE ClosersTyped'
  BY <1>6 DEF CloseHeld
<1>7. ASSUME NEW c \in Client, RolledBack(c) PROVE ClosersTyped'
  BY <1>7 DEF RolledBack
<1>8. ASSUME RunWorkers PROVE ClosersTyped'
  BY <1>8 DEF RunWorkers, StartFailure, TakeAll
<1>9. ASSUME NEW i \in Instance, WorkerFails(i) PROVE ClosersTyped'
  BY <1>9 DEF WorkerFails, StartFailure, TakeAll
<1>10. ASSUME RollbackDone PROVE ClosersTyped'
  BY <1>10 DEF RollbackDone
<1>11. ASSUME NEW i \in Instance, JobFails(i) PROVE ClosersTyped'
  BY <1>11 DEF JobFails
<1>12. ASSUME NEW i \in Instance, WriteEnds(i) PROVE ClosersTyped'
  BY <1>12 DEF WriteEnds
<1>13. ASSUME StopQueue PROVE ClosersTyped'
  BY <1>13 DEF StopQueue
<1>14. ASSUME ShutdownClose PROVE ClosersTyped'
  BY <1>14 DEF ShutdownClose, TakeAll
<1>15. ASSUME Stopped PROVE ClosersTyped'
  BY <1>15 DEF Stopped
<1>16. ASSUME UNCHANGED queueVars PROVE ClosersTyped'
  BY <1>16 DEF queueVars
<1> QED
  BY <1>1, <1>2, <1>3, <1>4, <1>5, <1>6, <1>7, <1>8, <1>9, <1>10, <1>11, <1>12,
     <1>13, <1>14, <1>15, <1>16
  DEF QueueNext, StartStep, CallerStep, RollbackStep, ShutdownStep

LEMMA QueueTypeKept ==
    ASSUME QueueTypeOK, [QueueNext]_queueVars
    PROVE  QueueTypeOK'
<1>1. LifeTyped' /\ StartsTyped' /\ InstancesTyped' /\ ClosersTyped'
  BY QueueTyped, LifeTypedKept, StartsTypedKept, InstancesTypedKept, ClosersTypedKept
<1> QED
  BY <1>1, QueueTyped, PTL

LEMMA LifeSoundKept ==
    ASSUME QueueTypeOK, LifeSound, [QueueNext]_queueVars
    PROVE  LifeSound'
<1> USE QueueSizes, QueueTyped DEF LifeSound, LifeTyped, StartsTyped, InstancesTyped, ClosersTyped
<1>1. ASSUME NEW c \in Client, Enqueue(c) PROVE LifeSound'
  BY <1>1 DEF Enqueue, TakeAll
<1>2. ASSUME NEW a \in Attempt, BuildWorker(a) PROVE LifeSound'
  BY <1>2 DEF BuildWorker
<1>3. ASSUME NEW a \in Attempt, StartSucceeds(a) PROVE LifeSound'
  BY <1>3 DEF StartSucceeds, WaitersOf
<1>4. ASSUME NEW a \in Attempt, StartFails(a) PROVE LifeSound'
  BY <1>4 DEF StartFails, WaitersOf, TakeAll
<1>5. ASSUME NEW c \in Client, Accept(c) PROVE LifeSound'
  BY <1>5 DEF Accept
<1>6. ASSUME NEW c \in Closer, CloseHeld(c) PROVE LifeSound'
  BY <1>6 DEF CloseHeld
<1>7. ASSUME NEW c \in Client, RolledBack(c) PROVE LifeSound'
  BY <1>7 DEF RolledBack
<1>8. ASSUME RunWorkers PROVE LifeSound'
  BY <1>8 DEF RunWorkers, StartFailure, TakeAll
<1>9. ASSUME NEW i \in Instance, WorkerFails(i) PROVE LifeSound'
  BY <1>9 DEF WorkerFails, StartFailure, TakeAll
<1>10. ASSUME RollbackDone PROVE LifeSound'
  BY <1>10 DEF RollbackDone
<1>11. ASSUME NEW i \in Instance, JobFails(i) PROVE LifeSound'
  BY <1>11 DEF JobFails
<1>12. ASSUME NEW i \in Instance, WriteEnds(i) PROVE LifeSound'
  BY <1>12 DEF WriteEnds
<1>13. ASSUME StopQueue PROVE LifeSound'
  BY <1>13 DEF StopQueue
<1>14. ASSUME ShutdownClose PROVE LifeSound'
  BY <1>14 DEF ShutdownClose, TakeAll
<1>15. ASSUME Stopped PROVE LifeSound'
  BY <1>15 DEF Stopped
<1>16. ASSUME UNCHANGED queueVars PROVE LifeSound'
  BY <1>16 DEF queueVars
<1> QED
  BY <1>1, <1>2, <1>3, <1>4, <1>5, <1>6, <1>7, <1>8, <1>9, <1>10, <1>11, <1>12,
     <1>13, <1>14, <1>15, <1>16
  DEF QueueNext, StartStep, CallerStep, RollbackStep, ShutdownStep

\* Taking the instances out of the maps leaves none there.
LEMMA TakesSound ==
    ASSUME QueueTypeOK, RegisteredSound, NEW c \in Closer, NEW others, TakeAll(c, others),
           built' = built
    PROVE  RegisteredSound'
<1> USE QueueSizes, QueueTyped DEF StartsTyped, ClosersTyped
<1>1. \A w \in 1..Workers : register'[w] = 0
  BY DEF TakeAll
<1>2. ASSUME NEW d \in Closer, NEW i \in held'[d] PROVE i[2] <= built[i[1]]
  <2>1. held'[d] \in {Registered, {}, held[d]}
    BY DEF TakeAll
  <2>2. ASSUME i \in Registered PROVE i[2] <= built[i[1]]
    BY <2>2 DEF Registered, RegisteredSound, Instance, Attempt
  <2> QED
    BY <2>1, <2>2, <1>2 DEF RegisteredSound
<1> QED
  BY <1>1, <1>2 DEF RegisteredSound

LEMMA RegisteredKept ==
    ASSUME QueueTypeOK, RegisteredSound, [QueueNext]_queueVars
    PROVE  RegisteredSound'
<1> USE QueueSizes, QueueTyped DEF RegisteredSound, LifeTyped, StartsTyped, InstancesTyped, ClosersTyped, Instance, Attempt, Registered
<1>1. ASSUME NEW c \in Client, Enqueue(c) PROVE RegisteredSound'
  <2>1. UNCHANGED <<built, open>>
    BY <1>1 DEF Enqueue
  <2>2. UNCHANGED <<register, held>> \/ TakeAll(c, {})
    BY <1>1 DEF Enqueue
  <2>3. CASE UNCHANGED <<register, held>>
    BY <2>1, <2>3 DEF RegisteredSound
  <2> QED
    BY <2>1, <2>2, <2>3, TakesSound
<1>2. ASSUME NEW a \in Attempt, BuildWorker(a) PROVE RegisteredSound'
  <2> DEFINE n == built[a] + 1
  <2>1. /\ n \in 1..Workers /\ built' = [built EXCEPT ![a] = n] /\ held' = held
        /\ register' = [register EXCEPT ![n] = a] /\ open' = open \cup {<<a, n>>}
    BY <1>2 DEF BuildWorker
  <2>2. \A b \in Attempt : built[b] <= built'[b] /\ built'[b] \in Nat /\ built[b] \in Nat
    BY SMTT(30), <2>1
  <2>3. ASSUME NEW c \in Closer, NEW i \in held'[c] PROVE i[2] <= built'[i[1]]
    <3>1. i \in held[c] /\ i \in Instance
      BY <2>1, <2>3
    <3>2. i[1] \in Attempt /\ i[2] \in Nat
      BY <3>1
    <3>3. i[2] <= built[i[1]]
      BY <3>1
    <3> QED
      BY <3>2, <3>3, <2>2
  <2>4. ASSUME NEW w \in 1..Workers, register'[w] # 0
        PROVE  /\ <<register'[w], w>> \in open' /\ w <= built'[register'[w]]
               /\ \A c \in Closer : <<register'[w], w>> \notin held'[c]
    <3>1. CASE w = n
      <4>1. register'[w] = a /\ built'[a] = n
        BY <3>1, <2>1
      <4>2. ASSUME NEW c \in Closer, <<a, n>> \in held[c] PROVE FALSE
        BY <4>2, <2>1
      <4> QED
        BY SMTT(30), <4>1, <4>2, <3>1, <2>1
    <3>2. CASE w # n
      <4>1. register'[w] = register[w] /\ register[w] \in Attempt /\ w \in Nat
        BY <3>2, <2>1, <2>4
      <4>2. /\ <<register[w], w>> \in open /\ w <= built[register[w]]
            /\ \A c \in Closer : <<register[w], w>> \notin held[c]
        BY <4>1, <2>4
      <4>3. w <= built'[register[w]]
        BY <4>1, <4>2, <2>2
      <4> QED
        BY <4>1, <4>2, <4>3, <2>1
    <3> QED
      BY <3>1, <3>2
  <2> QED
    BY <2>3, <2>4
<1>3. ASSUME NEW a \in Attempt, StartSucceeds(a) PROVE RegisteredSound'
  BY <1>3 DEF StartSucceeds, WaitersOf
<1>4. ASSUME NEW a \in Attempt, StartFails(a) PROVE RegisteredSound'
  BY <1>4, TakesSound DEF StartFails, WaitersOf
<1>5. ASSUME NEW c \in Client, Accept(c) PROVE RegisteredSound'
  BY <1>5 DEF Accept
<1>6. ASSUME NEW c \in Closer, CloseHeld(c) PROVE RegisteredSound'
  BY <1>6 DEF CloseHeld
<1>7. ASSUME NEW c \in Client, RolledBack(c) PROVE RegisteredSound'
  BY <1>7 DEF RolledBack
<1>8. ASSUME RunWorkers PROVE RegisteredSound'
  <2>1. UNCHANGED <<built, open>>
    BY <1>8 DEF RunWorkers
  <2>2. UNCHANGED <<register, held>> \/ TakeAll("rollback", {})
    BY <1>8 DEF RunWorkers, StartFailure
  <2>3. CASE UNCHANGED <<register, held>>
    BY <2>1, <2>3 DEF RegisteredSound
  <2> QED
    BY <2>1, <2>2, <2>3, TakesSound
<1>9. ASSUME NEW i \in Instance, WorkerFails(i) PROVE RegisteredSound'
  <2>1. UNCHANGED <<built, open>>
    BY <1>9 DEF WorkerFails
  <2>2. UNCHANGED <<register, held>> \/ TakeAll("rollback", {})
    BY <1>9 DEF WorkerFails, StartFailure
  <2>3. CASE UNCHANGED <<register, held>>
    BY <2>1, <2>3 DEF RegisteredSound
  <2> QED
    BY <2>1, <2>2, <2>3, TakesSound
<1>10. ASSUME RollbackDone PROVE RegisteredSound'
  BY <1>10 DEF RollbackDone
<1>11. ASSUME NEW i \in Instance, JobFails(i) PROVE RegisteredSound'
  BY <1>11 DEF JobFails
<1>12. ASSUME NEW i \in Instance, WriteEnds(i) PROVE RegisteredSound'
  BY <1>12 DEF WriteEnds
<1>13. ASSUME StopQueue PROVE RegisteredSound'
  BY <1>13 DEF StopQueue
<1>14. ASSUME ShutdownClose PROVE RegisteredSound'
  BY <1>14, TakesSound DEF ShutdownClose
<1>15. ASSUME Stopped PROVE RegisteredSound'
  BY <1>15 DEF Stopped
<1>16. ASSUME UNCHANGED queueVars PROVE RegisteredSound'
  BY <1>16 DEF queueVars
<1> QED
  BY <1>1, <1>2, <1>3, <1>4, <1>5, <1>6, <1>7, <1>8, <1>9, <1>10, <1>11, <1>12,
     <1>13, <1>14, <1>15, <1>16
  DEF QueueNext, StartStep, CallerStep, RollbackStep, ShutdownStep


LEMMA StartsKept ==
    ASSUME QueueInv, [QueueNext]_queueVars
    PROVE  StartsSound'
<1> USE QueueSizes, QueueTyped DEF QueueInv, LifeSound, StartsSound, LifeTyped, StartsTyped, InstancesTyped, ClosersTyped, Instance, Attempt, Registered
<1>1. ASSUME NEW c \in Client, Enqueue(c) PROVE StartsSound'
  <2> SUFFICES ASSUME ~overtaken PROVE StartsSound'
    BY <1>1 DEF Enqueue
  <2>1. CASE UNCHANGED <<queueLife, startPromise, starts, status, register, ready>>
    BY <1>1, <2>1 DEF Enqueue
  <2>2. ASSUME TakeAll(c, {}), UNCHANGED <<queueLife, startPromise, starts, status, awaited>>,
               doing' = [doing EXCEPT ![c] = "closing"]
        PROVE  StartsSound'
    BY <1>1, <2>2 DEF Enqueue, TakeAll
  <2>3. ASSUME queueLife \in {"idle", "starting"}, startPromise = 0, starts < MaxStarts,
               starts' = starts + 1, queueLife' = "starting", startPromise' = starts',
               status' = [status EXCEPT ![starts'] = "running"],
               UNCHANGED <<register, ready>>
        PROVE  StartsSound'
    <3>1. \A a \in Attempt : status[a] # "running"
      BY <2>3
    <3>2. ready = {}
      <4>1. starts = 0 \/ status[starts] # "running"
        BY <3>1
      <4>2. \A i \in ready : i[1] = starts /\ i[1] \in Attempt
        OBVIOUS
      <4> QED
        BY <4>1, <4>2, <3>1, <2>3
    <3>3. UNCHANGED <<scheduled, processing>> /\ processing = {} /\ scheduled = {}
      BY <1>1, <2>3 DEF Enqueue
    <3>4. ASSUME NEW a \in Attempt, status'[a] = "running"
          PROVE  a = starts' /\ queueLife' = "starting" /\ startPromise' = a
      BY <2>3, <3>1, <3>4
    <3> QED
      BY <3>2, <3>3, <3>4, <2>3
  <2> QED
    BY <1>1, <2>1, <2>2, <2>3 DEF Enqueue
<1>2. ASSUME NEW a \in Attempt, BuildWorker(a) PROVE StartsSound'
  BY SMTT(30), <1>2 DEF BuildWorker
<1>3. ASSUME NEW a \in Attempt, StartSucceeds(a) PROVE StartsSound'
  BY <1>3 DEF StartSucceeds, WaitersOf
<1>4. ASSUME NEW a \in Attempt, StartFails(a) PROVE StartsSound'
  BY <1>4 DEF StartFails, WaitersOf, TakeAll
<1>5. ASSUME NEW c \in Client, Accept(c) PROVE StartsSound'
  BY <1>5 DEF Accept
<1>6. ASSUME NEW c \in Closer, CloseHeld(c) PROVE StartsSound'
  BY <1>6 DEF CloseHeld
<1>7. ASSUME NEW c \in Client, RolledBack(c) PROVE StartsSound'
  BY <1>7 DEF RolledBack
<1>8. ASSUME RunWorkers PROVE StartsSound'
  BY <1>8 DEF RunWorkers, StartFailure, TakeAll
<1>9. ASSUME NEW i \in Instance, WorkerFails(i) PROVE StartsSound'
  BY <1>9 DEF WorkerFails, StartFailure, TakeAll
<1>10. ASSUME RollbackDone PROVE StartsSound'
  BY <1>10 DEF RollbackDone
<1>11. ASSUME NEW i \in Instance, JobFails(i) PROVE StartsSound'
  BY <1>11 DEF JobFails
<1>12. ASSUME NEW i \in Instance, WriteEnds(i) PROVE StartsSound'
  BY <1>12 DEF WriteEnds
<1>13. ASSUME StopQueue PROVE StartsSound'
  <2> SUFFICES ASSUME ~overtaken PROVE StartsSound'
    BY <1>13 DEF StopQueue
  <2>1. /\ doing' = [doing EXCEPT !["shutdown"] = "waiting"] /\ doing["shutdown"] = "idle"
        /\ awaited' = [awaited EXCEPT !["shutdown"] = startPromise]
        /\ queueLife' = "stopping"
        /\ UNCHANGED <<starts, status, register, ready, scheduled, processing>>
    BY <1>13 DEF StopQueue
  <2>2. doing'["shutdown"] = "waiting" /\ awaited'["shutdown"] = startPromise
    BY <2>1
  <2>3. ASSUME NEW a \in Attempt, status'[a] = "running"
        PROVE  /\ a = starts' /\ awaited'["shutdown"] = a
               /\ processing' = {} /\ scheduled' = {}
    BY <2>1, <2>2, <2>3
  <2>4. ready' \subseteq Registered' /\ \A i \in ready' : i[1] = starts'
    BY <2>1
  <2> QED
    BY <2>1, <2>2, <2>3, <2>4
<1>14. ASSUME ShutdownClose PROVE StartsSound'
  <2> SUFFICES ASSUME ~overtaken PROVE StartsSound'
    BY <1>14 DEF ShutdownClose
  <2>1. /\ doing["shutdown"] = "waiting"
        /\ awaited["shutdown"] # 0 => StartOver(awaited["shutdown"])
        /\ UNCHANGED <<status, starts>> /\ ready' = {}
    BY <1>14 DEF ShutdownClose, TakeAll
  <2>2. ASSUME NEW a \in Attempt PROVE status[a] # "running"
    <3>1. queueLife # "starting"
      BY <2>1
    <3> QED
      BY <2>1, <3>1 DEF StartOver
  <2> QED
    BY <2>1, <2>2
<1>15. ASSUME Stopped PROVE StartsSound'
  BY <1>15 DEF Stopped
<1>16. ASSUME UNCHANGED queueVars PROVE StartsSound'
  BY <1>16 DEF queueVars
<1> QED
  BY <1>1, <1>2, <1>3, <1>4, <1>5, <1>6, <1>7, <1>8, <1>9, <1>10, <1>11, <1>12,
     <1>13, <1>14, <1>15, <1>16
  DEF QueueNext, StartStep, CallerStep, RollbackStep, ShutdownStep

LEMMA WorkersKept ==
    ASSUME QueueInv, [QueueNext]_queueVars
    PROVE  WorkersKnown'
<1> USE QueueSizes, QueueTyped DEF QueueInv, LifeSound, StartsSound, LifeTyped, StartsTyped, InstancesTyped, ClosersTyped, Instance, Attempt, Registered, WorkersKnown
<1>1. ASSUME NEW c \in Client, Enqueue(c) PROVE WorkersKnown'
  BY ZenonT(40), <1>1 DEF Enqueue, TakeAll
<1>2. ASSUME NEW a \in Attempt, BuildWorker(a) PROVE WorkersKnown'
  BY <1>2 DEF BuildWorker
<1>3. ASSUME NEW a \in Attempt, StartSucceeds(a) PROVE WorkersKnown'
  BY SMTT(30), <1>3 DEF StartSucceeds, WaitersOf
<1>4. ASSUME NEW a \in Attempt, StartFails(a) PROVE WorkersKnown'
  BY <1>4 DEF StartFails, WaitersOf, TakeAll
<1>5. ASSUME NEW c \in Client, Accept(c) PROVE WorkersKnown'
  BY <1>5 DEF Accept
<1>6. ASSUME NEW c \in Closer, CloseHeld(c) PROVE WorkersKnown'
  BY SMTT(30), <1>6 DEF CloseHeld
<1>7. ASSUME NEW c \in Client, RolledBack(c) PROVE WorkersKnown'
  BY <1>7 DEF RolledBack
<1>8. ASSUME RunWorkers PROVE WorkersKnown'
  <2> SUFFICES ASSUME ~overtaken PROVE WorkersKnown'
    BY <1>8 DEF RunWorkers
  <2>1. UNCHANGED <<status, open, writes>> /\ scheduled' = {}
    BY <1>8 DEF RunWorkers
  <2>2. CASE queueLife # "started"
    BY <1>8, <2>1, <2>2 DEF RunWorkers
  <2>3. CASE queueLife = "started"
    <3>1. doing["shutdown"] = "idle" /\ doing'["shutdown"] = "idle"
      BY SMTT(30), <1>8, <2>3 DEF RunWorkers, StartFailure
    <3>2. processing' \subseteq processing \cup (scheduled \cap open)
      BY <1>8, <2>3 DEF RunWorkers
    <3>3. Registered \cup held["rollback"] \cup held["shutdown"]
            \subseteq Registered' \cup held'["rollback"] \cup held'["shutdown"]
      <4>1. UNCHANGED <<register, held>> \/ (doing["rollback"] = "idle" /\ TakeAll("rollback", {}))
        BY <1>8 DEF RunWorkers, StartFailure
      <4>2. CASE UNCHANGED <<register, held>>
        BY <4>2
      <4>3. CASE doing["rollback"] = "idle" /\ TakeAll("rollback", {})
        BY ZenonT(40), <4>3 DEF TakeAll
      <4> QED
        BY <4>1, <4>2, <4>3
    <3> QED
      BY <2>1, <3>1, <3>2, <3>3
  <2> QED
    BY <2>2, <2>3
<1>9. ASSUME NEW i \in Instance, WorkerFails(i) PROVE WorkersKnown'
  <2> SUFFICES ASSUME ~overtaken PROVE WorkersKnown'
    BY <1>9 DEF WorkerFails
  <2>1. UNCHANGED <<status, open, writes, scheduled>> /\ processing' \subseteq processing
    BY <1>9 DEF WorkerFails
  <2>2. doing'["shutdown"] = doing["shutdown"]
    BY <1>9 DEF WorkerFails, StartFailure
  <2>3. CASE UNCHANGED <<register, held, doing>>
    BY <2>1, <2>3
  <2>4. ASSUME doing["rollback"] = "idle", TakeAll("rollback", {}),
               queueLife \notin {"stopping", "stopped"}
        PROVE  WorkersKnown'
    <3>1. doing'["shutdown"] = "idle"
      BY <2>2, <2>4
    <3>2. Registered \cup held["rollback"] \cup held["shutdown"]
            \subseteq Registered' \cup held'["rollback"] \cup held'["shutdown"]
      BY SMTT(30), <2>4 DEF TakeAll
    <3> QED
      BY <2>1, <3>1, <3>2
  <2> QED
    BY <1>9, <2>3, <2>4 DEF WorkerFails, StartFailure
<1>10. ASSUME RollbackDone PROVE WorkersKnown'
  BY <1>10 DEF RollbackDone
<1>11. ASSUME NEW i \in Instance, JobFails(i) PROVE WorkersKnown'
  <2>0. UNCHANGED <<status, open, scheduled, processing, register, held, doing, overtaken>>
    BY <1>11 DEF JobFails
  <2> SUFFICES ASSUME ~overtaken PROVE WorkersKnown'
    BY <2>0
  <2>1. ASSUME doing["shutdown"] = "done" PROVE FALSE
    <3>1. /\ \A w \in 1..Workers : register[w] = 0
          /\ doing["rollback"] \in {"idle", "done"}
      BY <2>1
    <3>2. held["rollback"] = {} /\ held["shutdown"] = {}
      BY <2>1, <3>1
    <3>3. i \in processing /\ i \in Instance
      BY <1>11 DEF JobFails
    <3>4. i \notin Registered
      BY <3>1, <3>3
    <3> QED
      BY <3>2, <3>3, <3>4
  <2> QED
    BY <2>0, <2>1
<1>12. ASSUME NEW i \in Instance, WriteEnds(i) PROVE WorkersKnown'
  BY <1>12 DEF WriteEnds
<1>13. ASSUME StopQueue PROVE WorkersKnown'
  BY <1>13 DEF StopQueue
<1>14. ASSUME ShutdownClose PROVE WorkersKnown'
  <2> SUFFICES ASSUME ~overtaken PROVE WorkersKnown'
    BY <1>14 DEF ShutdownClose
  <2>1. /\ doing["shutdown"] = "waiting" /\ doing["rollback"] \in {"idle", "done"}
        /\ doing' = [doing EXCEPT !["shutdown"] = "closing"]
        /\ awaited["shutdown"] # 0 => StartOver(awaited["shutdown"])
        /\ UNCHANGED <<status, open, writes, scheduled, processing>>
    BY <1>14 DEF ShutdownClose
  <2>2. \A w \in 1..Workers : register'[w] = 0
    BY <1>14 DEF ShutdownClose, TakeAll
  <2>3. held'["shutdown"] = Registered /\ held["shutdown"] = {} /\ held["rollback"] = {}
    BY <1>14, <2>1 DEF ShutdownClose, TakeAll
  <2>4. ASSUME NEW a \in Attempt PROVE status[a] # "running"
    <3>1. queueLife # "starting"
      BY <2>1
    <3> QED
      BY <2>1, <3>1 DEF StartOver
  <2>5. doing'["shutdown"] = "closing" /\ doing'["rollback"] = doing["rollback"]
    BY <2>1
  <2> QED
    BY <2>1, <2>2, <2>3, <2>4, <2>5
<1>15. ASSUME Stopped PROVE WorkersKnown'
  <2>1. /\ doing["shutdown"] = "draining" /\ writes = {}
        /\ doing' = [doing EXCEPT !["shutdown"] = "done"]
        /\ UNCHANGED <<status, open, writes, scheduled, processing, register, held, overtaken>>
    BY <1>15 DEF Stopped, WritesDrained
  <2>2. doing'["shutdown"] = "done" /\ doing'["rollback"] = doing["rollback"]
    BY <2>1
  <2> QED
    BY <2>1, <2>2
<1>16. ASSUME UNCHANGED queueVars PROVE WorkersKnown'
  BY <1>16 DEF queueVars
<1> QED
  BY <1>1, <1>2, <1>3, <1>4, <1>5, <1>6, <1>7, <1>8, <1>9, <1>10, <1>11, <1>12,
     <1>13, <1>14, <1>15, <1>16
  DEF QueueNext, StartStep, CallerStep, RollbackStep, ShutdownStep


LEMMA QueueInitially == QueueInit => QueueInv
<1> SUFFICES ASSUME QueueInit PROVE QueueInv
  OBVIOUS
<1> USE QueueSizes DEF QueueInit
<1>1. QueueTypeOK
  <2>1. LifeTyped
    <3>1. overtaken \in BOOLEAN
      OBVIOUS
    <3>2. 0 \in 0..MaxStarts
      OBVIOUS
    <3> QED
      BY <3>1, <3>2, Zenon DEF LifeTyped
  <2>2. StartsTyped
    BY DEF StartsTyped
  <2>3. InstancesTyped
    BY DEF InstancesTyped
  <2>4. ClosersTyped
    BY DEF ClosersTyped
  <2> QED
    BY <2>1, <2>2, <2>3, <2>4, QueueTyped
<1>2. LifeSound
  BY DEF LifeSound
<1>3. RegisteredSound
  BY DEF RegisteredSound
<1>4. StartsSound
  BY DEF StartsSound
<1>5. WorkersKnown
  BY DEF WorkersKnown
<1> QED
  BY <1>1, <1>2, <1>3, <1>4, <1>5 DEF QueueInv

\* The inductive invariant of the queue.
THEOREM QueueInvariant == QueueSpec => []QueueInv
<1>1. QueueInv /\ [QueueNext]_queueVars => QueueInv'
  <2> SUFFICES ASSUME QueueInv, [QueueNext]_queueVars PROVE QueueInv'
    OBVIOUS
  <2>1. QueueTypeOK /\ LifeSound /\ RegisteredSound
    BY DEF QueueInv
  <2> QED
    BY <2>1, QueueTypeKept, LifeSoundKept, RegisteredKept, StartsKept, WorkersKept DEF QueueInv
<1> QED
  BY <1>1, QueueInitially, PTL DEF QueueSpec

\* No dead-letter write is in flight once shutdown() reports the service
\* stopped, unless a late rollback has made it lose workers (service.ts of the
\* queue package, shutdown(); drainPendingWrites()).
THEOREM QueueDrainsWrites == QueueSpec => [](QueueTypeOK /\ DeadLettersDrained)
<1>1. QueueInv => QueueTypeOK /\ DeadLettersDrained
  BY DEF QueueInv, LifeSound, WorkersKnown, DeadLettersDrained
<1> QED
  BY <1>1, QueueInvariant, PTL

\* A job is accepted only by a service that is started at that moment, and
\* every queue it may be added to is open, however the service got there
\* (service.ts of the queue package, enqueue()).
THEOREM JobsAreAccepted == QueueSpec => AcceptedWhileStarted
<1>1. QueueInv /\ [QueueNext]_queueVars =>
        [\A c \in Client : doing[c] = "resume" /\ doing'[c] = "added" =>
           queueLife = "started" /\ Registered \subseteq open]_queueVars
  <2> SUFFICES ASSUME QueueInv, [QueueNext]_queueVars, NEW c \in Client,
                      doing[c] = "resume", doing'[c] = "added"
               PROVE  queueLife = "started" /\ Registered \subseteq open
    OBVIOUS
  <2>1. Registered \subseteq open
    BY DEF QueueInv, RegisteredSound, Registered, Instance, Attempt
  <2>2. queueLife = "started"
    <3> USE QueueSizes, QueueTyped DEF QueueInv, ClosersTyped
    <3>1. ASSUME NEW d \in Client, Accept(d) PROVE queueLife = "started"
      BY <3>1 DEF Accept, Accepting
    <3>2. ASSUME NEW d \in Client, Enqueue(d) PROVE FALSE
      BY <3>2 DEF Enqueue
    <3>3. ASSUME NEW d \in Closer, CloseHeld(d) PROVE FALSE
      BY <3>3 DEF CloseHeld
    <3>4. ASSUME NEW d \in Client, RolledBack(d) PROVE FALSE
      BY <3>4 DEF RolledBack
    <3>5. ASSUME NEW a \in Attempt, StartSucceeds(a) PROVE FALSE
      BY <3>5 DEF StartSucceeds
    <3>6. ASSUME NEW a \in Attempt, StartFails(a) PROVE FALSE
      BY <3>6 DEF StartFails
    <3>7. ASSUME RunWorkers \/ \E i \in Instance : WorkerFails(i) PROVE FALSE
      BY <3>7 DEF RunWorkers, WorkerFails, StartFailure
    <3>8. ASSUME RollbackDone \/ StopQueue \/ ShutdownClose \/ Stopped PROVE FALSE
      BY <3>8 DEF RollbackDone, StopQueue, ShutdownClose, Stopped
    <3>9. ASSUME NEW a \in Attempt, BuildWorker(a) PROVE FALSE
      BY <3>9 DEF BuildWorker
    <3>10. ASSUME NEW i \in Instance, JobFails(i) \/ WriteEnds(i) PROVE FALSE
      BY <3>10 DEF JobFails, WriteEnds
    <3>11. ASSUME UNCHANGED queueVars PROVE FALSE
      BY <3>11 DEF queueVars
    <3> QED
      BY <3>1, <3>2, <3>3, <3>4, <3>5, <3>6, <3>7, <3>8, <3>9, <3>10, <3>11
      DEF QueueNext, StartStep, CallerStep, RollbackStep, ShutdownStep
  <2> QED
    BY <2>1, <2>2
<1> QED
  BY <1>1, QueueInvariant, PTL DEF QueueSpec, AcceptedWhileStarted

-----------------------------------------------------------------------------
(***************************************************************************)
(* The microservice over Redis Streams.                                    *)
(***************************************************************************)

\* A loop handles entries of its own stream; only a request is answered.
LoopsSound ==
    \A l \in Loop :
        /\ batch[l] \subseteq Of(l)
        /\ stage[l] \in {"handler", "reply", "failure", "blank", "ack"} => current[l] \in Of(l)
        /\ stage[l] \in {"reply", "failure", "blank"} => l[2] = "messages"

\* The loops of a node run only while it listens, and are over when its groups
\* are given up; whoever closes has stopped the admission first.
PeersSound ==
    \A n \in Peer :
        /\ listen[n] # "on" => \A s \in Stream : stage[<<n, s>>] = "off"
        /\ closeAt[n] = "release" =>
             /\ listen[n] \in {"off", "on"}
             /\ \A s \in Stream : stage[<<n, s>>] \in {"off", "ended"}
        /\ closer[n] # "none" => closeStarted[n]

\* What an acknowledgement may rely on.
Served(e) == e \in Malformed \/ IF e \in Request THEN e \in answered ELSE e \in handled

AnswersSound ==
    /\ \A e \in Entry : entry[e] = "acked" => Served(e)
    /\ \A l \in Loop : stage[l] = "ack" => Served(current[l])
    /\ \A l \in Loop : stage[l] = "reply" => current[l] \in handled

\* A frame that reads as a result answers a handled request, unless errors may
\* have no message.
FramesSound ==
    ~BlankErrors =>
        /\ \A f \in frames : f[2] = "error" \/ (f[2] = "ok" /\ f[1] \in handled)
        /\ \A l \in Loop : stage[l] # "blank"
        /\ \A r \in Request : outcome[r] = "ok" => r \in handled

CallsSound ==
    \A r \in Request :
        /\ r \in pendingRequests <=> (sender[r] # NoPeer /\ outcome[r] = "none")
        /\ sender[r] = NoPeer => outcome[r] = "none"

ServiceInv ==
    /\ MessagingTypeOK /\ LoopsSound /\ PeersSound /\ AnswersSound /\ FramesSound /\ CallsSound
    /\ DrainedClose /\ ClosedIsFinal

\* The types, in groups.
PeersTyped ==
    /\ up \in [Peer -> BOOLEAN] /\ closing \in [Peer -> BOOLEAN]
    /\ listen \in [Peer -> {"off", "messages", "events", "responses", "on"}]
    /\ groups \in [Peer -> SUBSET {"events", "responses"}]
    /\ closeAt \in [Peer -> {"none", "loops", "release"}]

ServicesTyped ==
    /\ lifecycle \in [Peer -> {"created", "starting", "ready", "stopping",
                               "stopped", "failed"}]
    /\ closeStarted \in [Peer -> BOOLEAN] /\ listenError \in [Peer -> BOOLEAN]
    /\ closer \in [Peer -> {"none", "listen", "drain", "transport", "done"}]

CallsTyped ==
    /\ sender \in [Request -> Peer \cup {NoPeer}]
    /\ publication \in [Request -> {"none", "dispatch", "xadd", "done"}]
    /\ pendingRequests \subseteq Request
    /\ outcome \in [Request -> {"none", "ok", "error"}]

EntriesTyped ==
    /\ entry \in [Entry -> Peer \cup {"absent", "queued", "acked", "dropped"}]
    /\ frames \subseteq Request \X {"ok", "error", "blank"}
    /\ answered \subseteq Request /\ handled \subseteq Entry

LoopsTyped ==
    /\ stage \in [Loop -> {"off", "polling", "next", "handler", "reply", "failure",
                           "blank", "ack", "ended"}]
    /\ batch \in [Loop -> SUBSET Entry]
    /\ current \in [Loop -> Entry \cup {NoEntry}]

LoopsIdle ==
    \A l \in Loop : stage[l] \in {"off", "polling", "ended"} =>
                      batch[l] = {} /\ current[l] = NoEntry

AllTyped == PeersTyped /\ ServicesTyped /\ CallsTyped /\ EntriesTyped /\ LoopsTyped /\ LoopsIdle

LEMMA MessagingTyped == MessagingTypeOK <=> AllTyped
BY DEF MessagingTypeOK, AllTyped, PeersTyped, ServicesTyped, CallsTyped, EntriesTyped,
       LoopsTyped, LoopsIdle

LEMMA Places ==
    /\ NoPeer \notin Peer /\ NoEntry \notin Entry /\ Request \subseteq Entry
    /\ \A n \in Peer : n \notin {"absent", "queued", "acked", "dropped"}
    /\ \A l \in Loop : l[1] \in Peer /\ l[2] \in {"messages", "events"}
                       /\ l = <<l[1], l[2]>>
    /\ \A n \in Peer, s \in Stream : <<n, s>> \in Loop
    /\ \A l \in Loop : /\ Of(l) \subseteq Entry
                       /\ l[2] = "messages" => Of(l) = Request
                       /\ l[2] = "events" => Of(l) \cap Request = {}
BY StreamsAssumption DEF Entry, Loop, Stream, Of

LEMMA PeersTypedKept ==
    ASSUME PeersTyped, [MessagingNext]_messagingVars
    PROVE  PeersTyped'
<1> USE Places DEF PeersTyped, serviceVars, peerVars, requestVars, loopVars
<1>1. ASSUME NEW n \in Peer, ServiceListen(n)
       PROVE PeersTyped'
  BY <1>1 DEF ServiceListen, OpenTransport
<1>2. ASSUME NEW n \in Peer, ServiceListening(n)
       PROVE PeersTyped'
  BY <1>2 DEF ServiceListening, GroupCreated, StartLoops
<1>3. ASSUME NEW n \in Peer, ServiceListenFailed(n)
       PROVE PeersTyped'
  BY <1>3 DEF ServiceListenFailed, GroupFailed
<1>4. ASSUME NEW n \in Peer, StartDrain(n)
       PROVE PeersTyped'
  BY <1>4 DEF StartDrain, streamVars
<1>5. ASSUME NEW n \in Peer, Drained(n)
       PROVE PeersTyped'
  BY <1>5 DEF Drained, CloseTransport
<1>6. ASSUME NEW n \in Peer, Closed(n)
       PROVE PeersTyped'
  BY <1>6 DEF Closed, Released, SettleAll, Cleaned, Unanswered
<1>7. ASSUME NEW n \in Peer, LoopsEnded(n), UNCHANGED serviceVars
       PROVE PeersTyped'
  BY <1>7 DEF LoopsEnded
<1>8. ASSUME NEW n \in Peer, MarkShutdown(n)
       PROVE PeersTyped'
  BY <1>8 DEF MarkShutdown, streamVars
<1>9. ASSUME NEW n \in Peer, ServiceClose(n)
       PROVE PeersTyped'
  BY <1>9 DEF ServiceClose, streamVars
<1>10. ASSUME NEW n \in Peer, Crash(n), UNCHANGED serviceVars
        PROVE PeersTyped'
  BY <1>10 DEF Crash
<1>11. ASSUME NEW n \in Peer, NEW r \in Request, ServiceSend(n, r)
        PROVE PeersTyped'
  BY <1>11 DEF ServiceSend, SendRequest
<1>12. ASSUME NEW n \in Peer, NEW e \in Event, ServiceEmit(n, e)
        PROVE PeersTyped'
  BY <1>12 DEF ServiceEmit, Emit
<1>13. ASSUME NEW l \in Loop, Admit(l)
        PROVE PeersTyped'
  BY <1>13 DEF Admit, AdmitsWork, Enter, Parsed
<1>14. ASSUME NEW l \in Loop, Refuse(l)
        PROVE PeersTyped'
  BY <1>14 DEF Refuse, Throw, Onward, Parsed
<1>15. ASSUME NEW l \in Loop, HandlerEnds(l)
        PROVE PeersTyped'
  BY <1>15 DEF HandlerEnds, HandlerReturns, AfterHandler, Throw, Onward
<1>16. ASSUME NEW l \in Loop, EndPoll(l), UNCHANGED serviceVars
        PROVE PeersTyped'
  BY <1>16 DEF EndPoll
<1>17. ASSUME NEW l \in Loop, Reply(l), UNCHANGED serviceVars
        PROVE PeersTyped'
  BY <1>17 DEF Reply, AppendFrame
<1>18. ASSUME NEW l \in Loop, ReplyError(l), UNCHANGED serviceVars
        PROVE PeersTyped'
  BY <1>18 DEF ReplyError, AppendFrame, GiveUp, Onward
<1>19. ASSUME NEW l \in Loop, Ack(l), UNCHANGED serviceVars
        PROVE PeersTyped'
  BY <1>19 DEF Ack, Onward
<1>20. ASSUME NEW l \in Loop, Reclaim(l), UNCHANGED serviceVars
        PROVE PeersTyped'
  BY <1>20 DEF Reclaim, Take
<1>21. ASSUME NEW l \in Loop, Read(l), UNCHANGED serviceVars
        PROVE PeersTyped'
  BY <1>21 DEF Read, Take
<1>22. ASSUME NEW r \in Request, Dispatch(r), UNCHANGED serviceVars
        PROVE PeersTyped'
  BY <1>22 DEF Dispatch, SettleAll, Cleaned
<1>23. ASSUME NEW r \in Request, Publish(r), UNCHANGED serviceVars
        PROVE PeersTyped'
  BY <1>23 DEF Publish, SettleAll, Cleaned
<1>24. ASSUME NEW r \in Request, RequestExpires(r), UNCHANGED serviceVars
        PROVE PeersTyped'
  BY <1>24 DEF RequestExpires, SettleAll, Cleaned
<1>25. ASSUME NEW r \in Request, NEW kind \in {"ok", "error", "blank"},
             Deliver(r, kind), UNCHANGED serviceVars
        PROVE PeersTyped'
  BY <1>25 DEF Deliver, SettleAll, Cleaned, Meaning
<1>26. ASSUME NEW f \in frames, LoseFrame(f), UNCHANGED serviceVars
        PROVE PeersTyped'
  BY <1>26 DEF LoseFrame
<1>27. ASSUME UNCHANGED messagingVars
        PROVE PeersTyped'
  BY <1>27 DEF messagingVars, streamVars
<1>28. ASSUME NEW l \in Loop, Discard(l), UNCHANGED serviceVars
        PROVE PeersTyped'
  BY <1>28 DEF Discard
<1> QED
  BY <1>1, <1>2, <1>3, <1>4, <1>5, <1>6, <1>7, <1>8, <1>9, <1>10, <1>11, <1>12,
     <1>13, <1>14, <1>15, <1>16, <1>17, <1>18, <1>19, <1>20, <1>21, <1>22, <1>23, <1>24,
     <1>25, <1>26, <1>27, <1>28
  DEF MessagingNext, PeerStep, LoopStep

LEMMA ServicesTypedKept ==
    ASSUME ServicesTyped, [MessagingNext]_messagingVars
    PROVE  ServicesTyped'
<1> USE Places DEF ServicesTyped, serviceVars, peerVars, requestVars, loopVars
<1>1. ASSUME NEW n \in Peer, ServiceListen(n)
       PROVE ServicesTyped'
  BY <1>1 DEF ServiceListen, OpenTransport
<1>2. ASSUME NEW n \in Peer, ServiceListening(n)
       PROVE ServicesTyped'
  BY <1>2 DEF ServiceListening, GroupCreated, StartLoops
<1>3. ASSUME NEW n \in Peer, ServiceListenFailed(n)
       PROVE ServicesTyped'
  BY <1>3 DEF ServiceListenFailed, GroupFailed
<1>4. ASSUME NEW n \in Peer, StartDrain(n)
       PROVE ServicesTyped'
  BY <1>4 DEF StartDrain, streamVars
<1>5. ASSUME NEW n \in Peer, Drained(n)
       PROVE ServicesTyped'
  BY <1>5 DEF Drained, CloseTransport
<1>6. ASSUME NEW n \in Peer, Closed(n)
       PROVE ServicesTyped'
  BY <1>6 DEF Closed, Released, SettleAll, Cleaned, Unanswered
<1>7. ASSUME NEW n \in Peer, LoopsEnded(n), UNCHANGED serviceVars
       PROVE ServicesTyped'
  BY <1>7 DEF LoopsEnded
<1>8. ASSUME NEW n \in Peer, MarkShutdown(n)
       PROVE ServicesTyped'
  BY <1>8 DEF MarkShutdown, streamVars
<1>9. ASSUME NEW n \in Peer, ServiceClose(n)
       PROVE ServicesTyped'
  BY <1>9 DEF ServiceClose, streamVars
<1>10. ASSUME NEW n \in Peer, Crash(n), UNCHANGED serviceVars
        PROVE ServicesTyped'
  BY <1>10 DEF Crash
<1>11. ASSUME NEW n \in Peer, NEW r \in Request, ServiceSend(n, r)
        PROVE ServicesTyped'
  BY <1>11 DEF ServiceSend, SendRequest
<1>12. ASSUME NEW n \in Peer, NEW e \in Event, ServiceEmit(n, e)
        PROVE ServicesTyped'
  BY <1>12 DEF ServiceEmit, Emit
<1>13. ASSUME NEW l \in Loop, Admit(l)
        PROVE ServicesTyped'
  BY <1>13 DEF Admit, AdmitsWork, Enter, Parsed
<1>14. ASSUME NEW l \in Loop, Refuse(l)
        PROVE ServicesTyped'
  BY <1>14 DEF Refuse, Throw, Onward, Parsed
<1>15. ASSUME NEW l \in Loop, HandlerEnds(l)
        PROVE ServicesTyped'
  BY <1>15 DEF HandlerEnds, HandlerReturns, AfterHandler, Throw, Onward
<1>16. ASSUME NEW l \in Loop, EndPoll(l), UNCHANGED serviceVars
        PROVE ServicesTyped'
  BY <1>16 DEF EndPoll
<1>17. ASSUME NEW l \in Loop, Reply(l), UNCHANGED serviceVars
        PROVE ServicesTyped'
  BY <1>17 DEF Reply, AppendFrame
<1>18. ASSUME NEW l \in Loop, ReplyError(l), UNCHANGED serviceVars
        PROVE ServicesTyped'
  BY <1>18 DEF ReplyError, AppendFrame, GiveUp, Onward
<1>19. ASSUME NEW l \in Loop, Ack(l), UNCHANGED serviceVars
        PROVE ServicesTyped'
  BY <1>19 DEF Ack, Onward
<1>20. ASSUME NEW l \in Loop, Reclaim(l), UNCHANGED serviceVars
        PROVE ServicesTyped'
  BY <1>20 DEF Reclaim, Take
<1>21. ASSUME NEW l \in Loop, Read(l), UNCHANGED serviceVars
        PROVE ServicesTyped'
  BY <1>21 DEF Read, Take
<1>22. ASSUME NEW r \in Request, Dispatch(r), UNCHANGED serviceVars
        PROVE ServicesTyped'
  BY <1>22 DEF Dispatch, SettleAll, Cleaned
<1>23. ASSUME NEW r \in Request, Publish(r), UNCHANGED serviceVars
        PROVE ServicesTyped'
  BY <1>23 DEF Publish, SettleAll, Cleaned
<1>24. ASSUME NEW r \in Request, RequestExpires(r), UNCHANGED serviceVars
        PROVE ServicesTyped'
  BY <1>24 DEF RequestExpires, SettleAll, Cleaned
<1>25. ASSUME NEW r \in Request, NEW kind \in {"ok", "error", "blank"},
             Deliver(r, kind), UNCHANGED serviceVars
        PROVE ServicesTyped'
  BY <1>25 DEF Deliver, SettleAll, Cleaned, Meaning
<1>26. ASSUME NEW f \in frames, LoseFrame(f), UNCHANGED serviceVars
        PROVE ServicesTyped'
  BY <1>26 DEF LoseFrame
<1>27. ASSUME UNCHANGED messagingVars
        PROVE ServicesTyped'
  BY <1>27 DEF messagingVars, streamVars
<1>28. ASSUME NEW l \in Loop, Discard(l), UNCHANGED serviceVars
        PROVE ServicesTyped'
  BY <1>28 DEF Discard
<1> QED
  BY <1>1, <1>2, <1>3, <1>4, <1>5, <1>6, <1>7, <1>8, <1>9, <1>10, <1>11, <1>12,
     <1>13, <1>14, <1>15, <1>16, <1>17, <1>18, <1>19, <1>20, <1>21, <1>22, <1>23, <1>24,
     <1>25, <1>26, <1>27, <1>28
  DEF MessagingNext, PeerStep, LoopStep

LEMMA CallsTypedKept ==
    ASSUME CallsTyped, [MessagingNext]_messagingVars
    PROVE  CallsTyped'
<1> USE Places DEF CallsTyped, serviceVars, peerVars, requestVars, loopVars
<1>1. ASSUME NEW n \in Peer, ServiceListen(n)
       PROVE CallsTyped'
  BY <1>1 DEF ServiceListen, OpenTransport
<1>2. ASSUME NEW n \in Peer, ServiceListening(n)
       PROVE CallsTyped'
  BY <1>2 DEF ServiceListening, GroupCreated, StartLoops
<1>3. ASSUME NEW n \in Peer, ServiceListenFailed(n)
       PROVE CallsTyped'
  BY <1>3 DEF ServiceListenFailed, GroupFailed
<1>4. ASSUME NEW n \in Peer, StartDrain(n)
       PROVE CallsTyped'
  BY <1>4 DEF StartDrain, streamVars
<1>5. ASSUME NEW n \in Peer, Drained(n)
       PROVE CallsTyped'
  BY <1>5 DEF Drained, CloseTransport
<1>6. ASSUME NEW n \in Peer, Closed(n)
       PROVE CallsTyped'
  BY <1>6 DEF Closed, Released, SettleAll, Cleaned, Unanswered
<1>7. ASSUME NEW n \in Peer, LoopsEnded(n), UNCHANGED serviceVars
       PROVE CallsTyped'
  BY <1>7 DEF LoopsEnded
<1>8. ASSUME NEW n \in Peer, MarkShutdown(n)
       PROVE CallsTyped'
  BY <1>8 DEF MarkShutdown, streamVars
<1>9. ASSUME NEW n \in Peer, ServiceClose(n)
       PROVE CallsTyped'
  BY <1>9 DEF ServiceClose, streamVars
<1>10. ASSUME NEW n \in Peer, Crash(n), UNCHANGED serviceVars
        PROVE CallsTyped'
  BY <1>10 DEF Crash
<1>11. ASSUME NEW n \in Peer, NEW r \in Request, ServiceSend(n, r)
        PROVE CallsTyped'
  BY <1>11 DEF ServiceSend, SendRequest
<1>12. ASSUME NEW n \in Peer, NEW e \in Event, ServiceEmit(n, e)
        PROVE CallsTyped'
  BY <1>12 DEF ServiceEmit, Emit
<1>13. ASSUME NEW l \in Loop, Admit(l)
        PROVE CallsTyped'
  BY <1>13 DEF Admit, AdmitsWork, Enter, Parsed
<1>14. ASSUME NEW l \in Loop, Refuse(l)
        PROVE CallsTyped'
  BY <1>14 DEF Refuse, Throw, Onward, Parsed
<1>15. ASSUME NEW l \in Loop, HandlerEnds(l)
        PROVE CallsTyped'
  BY <1>15 DEF HandlerEnds, HandlerReturns, AfterHandler, Throw, Onward
<1>16. ASSUME NEW l \in Loop, EndPoll(l), UNCHANGED serviceVars
        PROVE CallsTyped'
  BY <1>16 DEF EndPoll
<1>17. ASSUME NEW l \in Loop, Reply(l), UNCHANGED serviceVars
        PROVE CallsTyped'
  BY <1>17 DEF Reply, AppendFrame
<1>18. ASSUME NEW l \in Loop, ReplyError(l), UNCHANGED serviceVars
        PROVE CallsTyped'
  BY <1>18 DEF ReplyError, AppendFrame, GiveUp, Onward
<1>19. ASSUME NEW l \in Loop, Ack(l), UNCHANGED serviceVars
        PROVE CallsTyped'
  BY <1>19 DEF Ack, Onward
<1>20. ASSUME NEW l \in Loop, Reclaim(l), UNCHANGED serviceVars
        PROVE CallsTyped'
  BY <1>20 DEF Reclaim, Take
<1>21. ASSUME NEW l \in Loop, Read(l), UNCHANGED serviceVars
        PROVE CallsTyped'
  BY <1>21 DEF Read, Take
<1>22. ASSUME NEW r \in Request, Dispatch(r), UNCHANGED serviceVars
        PROVE CallsTyped'
  BY <1>22 DEF Dispatch, SettleAll, Cleaned
<1>23. ASSUME NEW r \in Request, Publish(r), UNCHANGED serviceVars
        PROVE CallsTyped'
  BY <1>23 DEF Publish, SettleAll, Cleaned
<1>24. ASSUME NEW r \in Request, RequestExpires(r), UNCHANGED serviceVars
        PROVE CallsTyped'
  BY <1>24 DEF RequestExpires, SettleAll, Cleaned
<1>25. ASSUME NEW r \in Request, NEW kind \in {"ok", "error", "blank"},
             Deliver(r, kind), UNCHANGED serviceVars
        PROVE CallsTyped'
  BY <1>25 DEF Deliver, SettleAll, Cleaned, Meaning
<1>26. ASSUME NEW f \in frames, LoseFrame(f), UNCHANGED serviceVars
        PROVE CallsTyped'
  BY <1>26 DEF LoseFrame
<1>27. ASSUME UNCHANGED messagingVars
        PROVE CallsTyped'
  BY <1>27 DEF messagingVars, streamVars
<1>28. ASSUME NEW l \in Loop, Discard(l), UNCHANGED serviceVars
        PROVE CallsTyped'
  BY <1>28 DEF Discard
<1> QED
  BY <1>1, <1>2, <1>3, <1>4, <1>5, <1>6, <1>7, <1>8, <1>9, <1>10, <1>11, <1>12,
     <1>13, <1>14, <1>15, <1>16, <1>17, <1>18, <1>19, <1>20, <1>21, <1>22, <1>23, <1>24,
     <1>25, <1>26, <1>27, <1>28
  DEF MessagingNext, PeerStep, LoopStep

LEMMA EntriesTypedKept ==
    ASSUME EntriesTyped, LoopsTyped, LoopsSound, [MessagingNext]_messagingVars
    PROVE  EntriesTyped'
<1> USE Places DEF EntriesTyped, LoopsTyped, LoopsSound, serviceVars, peerVars, requestVars, loopVars
<1>1. ASSUME NEW n \in Peer, ServiceListen(n)
       PROVE EntriesTyped'
  BY <1>1 DEF ServiceListen, OpenTransport
<1>2. ASSUME NEW n \in Peer, ServiceListening(n)
       PROVE EntriesTyped'
  BY <1>2 DEF ServiceListening, GroupCreated, StartLoops
<1>3. ASSUME NEW n \in Peer, ServiceListenFailed(n)
       PROVE EntriesTyped'
  BY <1>3 DEF ServiceListenFailed, GroupFailed
<1>4. ASSUME NEW n \in Peer, StartDrain(n)
       PROVE EntriesTyped'
  BY <1>4 DEF StartDrain, streamVars
<1>5. ASSUME NEW n \in Peer, Drained(n)
       PROVE EntriesTyped'
  BY <1>5 DEF Drained, CloseTransport
<1>6. ASSUME NEW n \in Peer, Closed(n)
       PROVE EntriesTyped'
  BY <1>6 DEF Closed, Released, SettleAll, Cleaned, Unanswered
<1>7. ASSUME NEW n \in Peer, LoopsEnded(n), UNCHANGED serviceVars
       PROVE EntriesTyped'
  BY <1>7 DEF LoopsEnded
<1>8. ASSUME NEW n \in Peer, MarkShutdown(n)
       PROVE EntriesTyped'
  BY <1>8 DEF MarkShutdown, streamVars
<1>9. ASSUME NEW n \in Peer, ServiceClose(n)
       PROVE EntriesTyped'
  BY <1>9 DEF ServiceClose, streamVars
<1>10. ASSUME NEW n \in Peer, Crash(n), UNCHANGED serviceVars
        PROVE EntriesTyped'
  BY <1>10 DEF Crash
<1>11. ASSUME NEW n \in Peer, NEW r \in Request, ServiceSend(n, r)
        PROVE EntriesTyped'
  BY <1>11 DEF ServiceSend, SendRequest
<1>12. ASSUME NEW n \in Peer, NEW e \in Event, ServiceEmit(n, e)
        PROVE EntriesTyped'
  BY <1>12 DEF ServiceEmit, Emit
<1>13. ASSUME NEW l \in Loop, Admit(l)
        PROVE EntriesTyped'
  BY <1>13 DEF Admit, AdmitsWork, Enter, Parsed
<1>14. ASSUME NEW l \in Loop, Refuse(l)
        PROVE EntriesTyped'
  BY <1>14 DEF Refuse, Throw, Onward, Parsed
<1>15. ASSUME NEW l \in Loop, HandlerEnds(l)
        PROVE EntriesTyped'
  BY <1>15 DEF HandlerEnds, HandlerReturns, AfterHandler, Throw, Onward
<1>16. ASSUME NEW l \in Loop, EndPoll(l), UNCHANGED serviceVars
        PROVE EntriesTyped'
  BY <1>16 DEF EndPoll
<1>17. ASSUME NEW l \in Loop, Reply(l), UNCHANGED serviceVars
        PROVE EntriesTyped'
  BY <1>17 DEF Reply, AppendFrame
<1>18. ASSUME NEW l \in Loop, ReplyError(l), UNCHANGED serviceVars
        PROVE EntriesTyped'
  BY <1>18 DEF ReplyError, AppendFrame, GiveUp, Onward
<1>19. ASSUME NEW l \in Loop, Ack(l), UNCHANGED serviceVars
        PROVE EntriesTyped'
  BY <1>19 DEF Ack, Onward
<1>20. ASSUME NEW l \in Loop, Reclaim(l), UNCHANGED serviceVars
        PROVE EntriesTyped'
  BY <1>20 DEF Reclaim, Take
<1>21. ASSUME NEW l \in Loop, Read(l), UNCHANGED serviceVars
        PROVE EntriesTyped'
  BY <1>21 DEF Read, Take
<1>22. ASSUME NEW r \in Request, Dispatch(r), UNCHANGED serviceVars
        PROVE EntriesTyped'
  BY <1>22 DEF Dispatch, SettleAll, Cleaned
<1>23. ASSUME NEW r \in Request, Publish(r), UNCHANGED serviceVars
        PROVE EntriesTyped'
  BY <1>23 DEF Publish, SettleAll, Cleaned
<1>24. ASSUME NEW r \in Request, RequestExpires(r), UNCHANGED serviceVars
        PROVE EntriesTyped'
  BY <1>24 DEF RequestExpires, SettleAll, Cleaned
<1>25. ASSUME NEW r \in Request, NEW kind \in {"ok", "error", "blank"},
             Deliver(r, kind), UNCHANGED serviceVars
        PROVE EntriesTyped'
  BY <1>25 DEF Deliver, SettleAll, Cleaned, Meaning
<1>26. ASSUME NEW f \in frames, LoseFrame(f), UNCHANGED serviceVars
        PROVE EntriesTyped'
  BY <1>26 DEF LoseFrame
<1>27. ASSUME UNCHANGED messagingVars
        PROVE EntriesTyped'
  BY <1>27 DEF messagingVars, streamVars
<1>28. ASSUME NEW l \in Loop, Discard(l), UNCHANGED serviceVars
        PROVE EntriesTyped'
  BY <1>28 DEF Discard
<1> QED
  BY <1>1, <1>2, <1>3, <1>4, <1>5, <1>6, <1>7, <1>8, <1>9, <1>10, <1>11, <1>12,
     <1>13, <1>14, <1>15, <1>16, <1>17, <1>18, <1>19, <1>20, <1>21, <1>22, <1>23, <1>24,
     <1>25, <1>26, <1>27, <1>28
  DEF MessagingNext, PeerStep, LoopStep

LEMMA ThrowTyped ==
    ASSUME LoopsTyped, NEW l \in Loop, NEW e \in Entry \cup {NoEntry},
           NEW how \in {"failure", "blank"}, Throw(l, e, how)
    PROVE  LoopsTyped'
<1> USE DEF LoopsTyped
<1>1. CASE l[2] = "messages"
  BY <1>1 DEF Throw
<1>2. CASE l[2] = "events"
  <2>1. /\ batch' = [batch EXCEPT ![l] = batch[l] \ {e}]
        /\ current' = [current EXCEPT ![l] = NoEntry]
        /\ \E next \in {"next", "ended", "polling"} : stage' = [stage EXCEPT ![l] = next]
    BY <1>2 DEF Throw, Onward
  <2>2. batch[l] \ {e} \in SUBSET Entry
    OBVIOUS
  <2> QED
    BY <2>1, <2>2
<1> QED
  BY <1>1, <1>2 DEF Throw

LEMMA LoopsTypedKept ==
    ASSUME LoopsTyped, [MessagingNext]_messagingVars
    PROVE  LoopsTyped'
<1> USE Places DEF LoopsTyped, serviceVars, peerVars, requestVars, loopVars
<1>1. ASSUME NEW n \in Peer, ServiceListen(n)
       PROVE LoopsTyped'
  BY <1>1 DEF ServiceListen, OpenTransport
<1>2. ASSUME NEW n \in Peer, ServiceListening(n)
       PROVE LoopsTyped'
  BY <1>2 DEF ServiceListening, GroupCreated, StartLoops
<1>3. ASSUME NEW n \in Peer, ServiceListenFailed(n)
       PROVE LoopsTyped'
  BY <1>3 DEF ServiceListenFailed, GroupFailed
<1>4. ASSUME NEW n \in Peer, StartDrain(n)
       PROVE LoopsTyped'
  BY <1>4 DEF StartDrain, streamVars
<1>5. ASSUME NEW n \in Peer, Drained(n)
       PROVE LoopsTyped'
  BY <1>5 DEF Drained, CloseTransport
<1>6. ASSUME NEW n \in Peer, Closed(n)
       PROVE LoopsTyped'
  BY <1>6 DEF Closed, Released, SettleAll, Cleaned, Unanswered
<1>7. ASSUME NEW n \in Peer, LoopsEnded(n), UNCHANGED serviceVars
       PROVE LoopsTyped'
  BY <1>7 DEF LoopsEnded
<1>8. ASSUME NEW n \in Peer, MarkShutdown(n)
       PROVE LoopsTyped'
  BY <1>8 DEF MarkShutdown, streamVars
<1>9. ASSUME NEW n \in Peer, ServiceClose(n)
       PROVE LoopsTyped'
  BY <1>9 DEF ServiceClose, streamVars
<1>10. ASSUME NEW n \in Peer, Crash(n), UNCHANGED serviceVars
        PROVE LoopsTyped'
  BY <1>10 DEF Crash
<1>11. ASSUME NEW n \in Peer, NEW r \in Request, ServiceSend(n, r)
        PROVE LoopsTyped'
  BY <1>11 DEF ServiceSend, SendRequest
<1>12. ASSUME NEW n \in Peer, NEW e \in Event, ServiceEmit(n, e)
        PROVE LoopsTyped'
  BY <1>12 DEF ServiceEmit, Emit
<1>13. ASSUME NEW l \in Loop, Admit(l)
        PROVE LoopsTyped'
  BY <1>13 DEF Admit, AdmitsWork, Enter, Parsed
<1>14. ASSUME NEW l \in Loop, Refuse(l)
        PROVE LoopsTyped'
  BY <1>14, ThrowTyped DEF Refuse, Parsed
<1>15. ASSUME NEW l \in Loop, HandlerEnds(l)
        PROVE LoopsTyped'
  <2>1. CASE HandlerReturns(l)
    BY <2>1 DEF HandlerReturns, AfterHandler
  <2>2. ASSUME NEW how \in {"failure", "blank"}, Throw(l, current[l], how)
        PROVE  LoopsTyped'
    BY <2>2, ThrowTyped
  <2> QED
    BY <1>15, <2>1, <2>2 DEF HandlerEnds
<1>16. ASSUME NEW l \in Loop, EndPoll(l), UNCHANGED serviceVars
        PROVE LoopsTyped'
  BY <1>16 DEF EndPoll
<1>17. ASSUME NEW l \in Loop, Reply(l), UNCHANGED serviceVars
        PROVE LoopsTyped'
  BY <1>17 DEF Reply, AppendFrame
<1>18. ASSUME NEW l \in Loop, ReplyError(l), UNCHANGED serviceVars
        PROVE LoopsTyped'
  BY <1>18 DEF ReplyError, AppendFrame, GiveUp, Onward
<1>19. ASSUME NEW l \in Loop, Ack(l), UNCHANGED serviceVars
        PROVE LoopsTyped'
  BY <1>19 DEF Ack, Onward
<1>20. ASSUME NEW l \in Loop, Reclaim(l), UNCHANGED serviceVars
        PROVE LoopsTyped'
  BY <1>20 DEF Reclaim, Take
<1>21. ASSUME NEW l \in Loop, Read(l), UNCHANGED serviceVars
        PROVE LoopsTyped'
  BY <1>21 DEF Read, Take
<1>22. ASSUME NEW r \in Request, Dispatch(r), UNCHANGED serviceVars
        PROVE LoopsTyped'
  BY <1>22 DEF Dispatch, SettleAll, Cleaned
<1>23. ASSUME NEW r \in Request, Publish(r), UNCHANGED serviceVars
        PROVE LoopsTyped'
  BY <1>23 DEF Publish, SettleAll, Cleaned
<1>24. ASSUME NEW r \in Request, RequestExpires(r), UNCHANGED serviceVars
        PROVE LoopsTyped'
  BY <1>24 DEF RequestExpires, SettleAll, Cleaned
<1>25. ASSUME NEW r \in Request, NEW kind \in {"ok", "error", "blank"},
             Deliver(r, kind), UNCHANGED serviceVars
        PROVE LoopsTyped'
  BY <1>25 DEF Deliver, SettleAll, Cleaned, Meaning
<1>26. ASSUME NEW f \in frames, LoseFrame(f), UNCHANGED serviceVars
        PROVE LoopsTyped'
  BY <1>26 DEF LoseFrame
<1>27. ASSUME UNCHANGED messagingVars
        PROVE LoopsTyped'
  BY <1>27 DEF messagingVars, streamVars
<1>28. ASSUME NEW l \in Loop, Discard(l), UNCHANGED serviceVars
        PROVE LoopsTyped'
  BY <1>28 DEF Discard
<1> QED
  BY <1>1, <1>2, <1>3, <1>4, <1>5, <1>6, <1>7, <1>8, <1>9, <1>10, <1>11, <1>12,
     <1>13, <1>14, <1>15, <1>16, <1>17, <1>18, <1>19, <1>20, <1>21, <1>22, <1>23, <1>24,
     <1>25, <1>26, <1>27, <1>28
  DEF MessagingNext, PeerStep, LoopStep

\* Only the service's start and end, and the loops themselves, move a loop.
LEMMA LoopMoves ==
    ASSUME [MessagingNext]_messagingVars
    PROVE  \/ UNCHANGED loopVars
           \/ \E n \in Peer : ServiceListening(n) \/ Closed(n)
           \/ \E l \in Loop :
                \/ Admit(l) \/ Refuse(l) \/ HandlerEnds(l)
                \/ /\ UNCHANGED serviceVars
                   /\ EndPoll(l) \/ Discard(l) \/ Reply(l) \/ ReplyError(l) \/ Ack(l)
                      \/ Reclaim(l) \/ Read(l)
<1> DEFINE Goal == \/ UNCHANGED loopVars
                   \/ \E n \in Peer : ServiceListening(n) \/ Closed(n)
                   \/ \E l \in Loop :
                        \/ Admit(l) \/ Refuse(l) \/ HandlerEnds(l)
                        \/ /\ UNCHANGED serviceVars
                           /\ EndPoll(l) \/ Discard(l) \/ Reply(l) \/ ReplyError(l) \/ Ack(l)
                              \/ Reclaim(l) \/ Read(l)
<1>1. ASSUME NEW n \in Peer, PeerStep(n) \/ ServiceListen(n) \/ MarkShutdown(n)
                             \/ ServiceClose(n) \/ (Crash(n) /\ UNCHANGED serviceVars)
       PROVE Goal
  BY <1>1 DEF PeerStep, ServiceListen, OpenTransport, ServiceListenFailed, GroupFailed,
              StartDrain, Drained, CloseTransport, LoopsEnded, MarkShutdown, ServiceClose,
              Crash, streamVars, loopVars
<1>2. ASSUME NEW n \in Peer, \/ \E r \in Request : ServiceSend(n, r)
                             \/ \E e \in Event : ServiceEmit(n, e)
       PROVE Goal
  BY <1>2 DEF ServiceSend, SendRequest, ServiceEmit, Emit
<1>3. ASSUME NEW l \in Loop, LoopStep(l) \/ ((Reclaim(l) \/ Read(l)) /\ UNCHANGED serviceVars)
       PROVE Goal
  BY <1>3 DEF LoopStep
<1>4. ASSUME NEW r \in Request,
             \/ Dispatch(r) \/ Publish(r) \/ RequestExpires(r)
             \/ \E kind \in {"ok", "error", "blank"} : Deliver(r, kind)
       PROVE Goal
  BY <1>4 DEF Dispatch, Publish, RequestExpires, Deliver
<1>5. ASSUME NEW f \in frames, LoseFrame(f)
       PROVE Goal
  BY <1>5 DEF LoseFrame
<1>6. ASSUME UNCHANGED messagingVars
       PROVE Goal
  BY <1>6 DEF messagingVars, streamVars, loopVars
<1> QED
  BY <1>1, <1>2, <1>3, <1>4, <1>5, <1>6 DEF MessagingNext

LEMMA LoopsOf ==
    ASSUME PeersSound, NEW l \in Loop
    PROVE  /\ listen[l[1]] # "on" => stage[l] = "off"
           /\ closeAt[l[1]] = "release" => stage[l] \in {"off", "ended"}
<1>1. l[1] \in Peer /\ l[2] \in Stream /\ stage[l] = stage[<<l[1], l[2]>>]
  BY DEF Loop
<1> QED
  BY <1>1 DEF PeersSound

LEMMA LoopsIdleKept ==
    ASSUME LoopsTyped, LoopsIdle, PeersSound,
           [MessagingNext]_messagingVars
    PROVE  LoopsIdle'
<1> USE Places DEF LoopsTyped, LoopsIdle, peerVars, loopVars
<1>1. ASSUME UNCHANGED loopVars
       PROVE LoopsIdle'
  BY <1>1 DEF loopVars
<1>2. ASSUME NEW n \in Peer, ServiceListening(n)
       PROVE LoopsIdle'
  <2>1. CASE UNCHANGED stage
    BY <1>2, <2>1 DEF ServiceListening, GroupCreated
  <2>2. CASE listen[n] = "responses" /\ StartLoops(n)
    <3>1. \A l \in Loop : l[1] = n => stage[l] = "off"
      BY <2>2, LoopsOf
    <3> QED
      BY <1>2, <2>2, <3>1 DEF ServiceListening, GroupCreated, StartLoops
  <2> QED
    BY <1>2, <2>1, <2>2 DEF ServiceListening, GroupCreated
<1>3. ASSUME NEW n \in Peer, Closed(n)
       PROVE LoopsIdle'
  <2>1. closeAt[n] = "release" /\ UNCHANGED <<batch, current>>
        /\ stage' = [l \in Loop |-> IF l[1] = n THEN "off" ELSE stage[l]]
    BY <1>3 DEF Closed, Released
  <2>2. \A l \in Loop : l[1] = n => stage[l] \in {"off", "ended"}
    BY <2>1, LoopsOf
  <2> QED
    BY <2>1, <2>2
<1>4. ASSUME NEW l \in Loop, Admit(l)
       PROVE LoopsIdle'
  BY <1>4 DEF Admit, AdmitsWork, Enter, Parsed
<1>5. ASSUME NEW l \in Loop, Refuse(l)
       PROVE LoopsIdle'
  BY <1>5 DEF Refuse, Throw, Onward, Parsed
<1>6. ASSUME NEW l \in Loop, HandlerEnds(l)
       PROVE LoopsIdle'
  BY <1>6 DEF HandlerEnds, HandlerReturns, AfterHandler, Throw, Onward
<1>7. ASSUME NEW l \in Loop, EndPoll(l), UNCHANGED serviceVars
       PROVE LoopsIdle'
  BY <1>7 DEF EndPoll
<1>8. ASSUME NEW l \in Loop, Reply(l), UNCHANGED serviceVars
       PROVE LoopsIdle'
  BY <1>8 DEF Reply, AppendFrame
<1>9. ASSUME NEW l \in Loop, ReplyError(l), UNCHANGED serviceVars
       PROVE LoopsIdle'
  BY <1>9 DEF ReplyError, AppendFrame, GiveUp, Onward
<1>10. ASSUME NEW l \in Loop, Ack(l), UNCHANGED serviceVars
        PROVE LoopsIdle'
  BY <1>10 DEF Ack, Onward
<1>11. ASSUME NEW l \in Loop, Reclaim(l), UNCHANGED serviceVars
        PROVE LoopsIdle'
  BY <1>11 DEF Reclaim, Take
<1>12. ASSUME NEW l \in Loop, Read(l), UNCHANGED serviceVars
        PROVE LoopsIdle'
  BY <1>12 DEF Read, Take
<1>13. ASSUME NEW l \in Loop, Discard(l), UNCHANGED serviceVars
        PROVE LoopsIdle'
  BY <1>13 DEF Discard
<1> QED
  BY LoopMoves, <1>1, <1>2, <1>3, <1>4, <1>5, <1>6, <1>7, <1>8, <1>9, <1>10, <1>11, <1>12, <1>13

LEMMA LoopsSoundKept ==
    ASSUME LoopsTyped, LoopsIdle, LoopsSound, PeersSound,
           [MessagingNext]_messagingVars
    PROVE  LoopsSound'
<1> USE Places DEF LoopsTyped, LoopsIdle, LoopsSound, peerVars, loopVars
<1>1. ASSUME UNCHANGED loopVars
       PROVE LoopsSound'
  BY <1>1 DEF loopVars
<1>2. ASSUME NEW n \in Peer, ServiceListening(n)
       PROVE LoopsSound'
  BY <1>2 DEF ServiceListening, GroupCreated, StartLoops
<1>3. ASSUME NEW n \in Peer, Closed(n)
       PROVE LoopsSound'
  BY <1>3 DEF Closed, Released, SettleAll, Cleaned, Unanswered
<1>4. ASSUME NEW l \in Loop, Admit(l)
       PROVE LoopsSound'
  BY <1>4 DEF Admit, AdmitsWork, Enter, Parsed
<1>5. ASSUME NEW l \in Loop, Refuse(l)
       PROVE LoopsSound'
  BY <1>5 DEF Refuse, Throw, Onward, Parsed
<1>6. ASSUME NEW l \in Loop, HandlerEnds(l)
       PROVE LoopsSound'
  BY <1>6 DEF HandlerEnds, HandlerReturns, AfterHandler, Throw, Onward
<1>7. ASSUME NEW l \in Loop, EndPoll(l), UNCHANGED serviceVars
       PROVE LoopsSound'
  BY <1>7 DEF EndPoll
<1>8. ASSUME NEW l \in Loop, Reply(l), UNCHANGED serviceVars
       PROVE LoopsSound'
  BY <1>8 DEF Reply, AppendFrame
<1>9. ASSUME NEW l \in Loop, ReplyError(l), UNCHANGED serviceVars
       PROVE LoopsSound'
  BY <1>9 DEF ReplyError, AppendFrame, GiveUp, Onward
<1>10. ASSUME NEW l \in Loop, Ack(l), UNCHANGED serviceVars
        PROVE LoopsSound'
  BY <1>10 DEF Ack, Onward
<1>11. ASSUME NEW l \in Loop, Reclaim(l), UNCHANGED serviceVars
        PROVE LoopsSound'
  BY <1>11 DEF Reclaim, Take
<1>12. ASSUME NEW l \in Loop, Read(l), UNCHANGED serviceVars
        PROVE LoopsSound'
  BY <1>12 DEF Read, Take
<1>13. ASSUME NEW l \in Loop, Discard(l), UNCHANGED serviceVars
        PROVE LoopsSound'
  BY <1>13 DEF Discard
<1> QED
  BY LoopMoves, <1>1, <1>2, <1>3, <1>4, <1>5, <1>6, <1>7, <1>8, <1>9, <1>10, <1>11, <1>12, <1>13

LEMMA PeersSoundKept ==
    ASSUME PeersTyped, ServicesTyped, LoopsTyped, PeersSound, [MessagingNext]_messagingVars
    PROVE  PeersSound'
<1> USE Places, LoopsOf DEF PeersTyped, ServicesTyped, LoopsTyped, PeersSound,
           serviceVars, peerVars, requestVars, loopVars
<1>1. ASSUME NEW n \in Peer, ServiceListen(n)
       PROVE PeersSound'
  BY <1>1 DEF ServiceListen, OpenTransport
<1>2. ASSUME NEW n \in Peer, ServiceListening(n)
       PROVE PeersSound'
  <2>1. CASE UNCHANGED stage
    BY <1>2, <2>1 DEF ServiceListening, GroupCreated
  <2>2. CASE listen[n] = "responses" /\ StartLoops(n)
    <3>1. closeAt[n] # "release"
      BY <2>2
    <3> QED
      BY <1>2, <2>2, <3>1 DEF ServiceListening, GroupCreated, StartLoops
  <2> QED
    BY <1>2, <2>1, <2>2 DEF ServiceListening, GroupCreated
<1>3. ASSUME NEW n \in Peer, ServiceListenFailed(n)
       PROVE PeersSound'
  BY <1>3 DEF ServiceListenFailed, GroupFailed
<1>4. ASSUME NEW n \in Peer, StartDrain(n)
       PROVE PeersSound'
  BY <1>4 DEF StartDrain, streamVars
<1>5. ASSUME NEW n \in Peer, Drained(n)
       PROVE PeersSound'
  BY <1>5 DEF Drained, CloseTransport
<1>6. ASSUME NEW n \in Peer, Closed(n)
       PROVE PeersSound'
  BY <1>6 DEF Closed, Released, SettleAll, Cleaned, Unanswered
<1>7. ASSUME NEW n \in Peer, LoopsEnded(n), UNCHANGED serviceVars
       PROVE PeersSound'
  BY <1>7 DEF LoopsEnded
<1>8. ASSUME NEW n \in Peer, MarkShutdown(n)
       PROVE PeersSound'
  BY <1>8 DEF MarkShutdown, streamVars
<1>9. ASSUME NEW n \in Peer, ServiceClose(n)
       PROVE PeersSound'
  BY <1>9 DEF ServiceClose, streamVars
<1>10. ASSUME NEW n \in Peer, Crash(n), UNCHANGED serviceVars
        PROVE PeersSound'
  BY <1>10 DEF Crash
<1>11. ASSUME NEW n \in Peer, NEW r \in Request, ServiceSend(n, r)
        PROVE PeersSound'
  BY <1>11 DEF ServiceSend, SendRequest
<1>12. ASSUME NEW n \in Peer, NEW e \in Event, ServiceEmit(n, e)
        PROVE PeersSound'
  BY <1>12 DEF ServiceEmit, Emit
<1>13. ASSUME NEW l \in Loop, Admit(l)
        PROVE PeersSound'
  BY <1>13 DEF Admit, AdmitsWork, Enter, Parsed
<1>14. ASSUME NEW l \in Loop, Refuse(l)
        PROVE PeersSound'
  BY <1>14 DEF Refuse, Throw, Onward, Parsed
<1>15. ASSUME NEW l \in Loop, HandlerEnds(l)
        PROVE PeersSound'
  BY <1>15 DEF HandlerEnds, HandlerReturns, AfterHandler, Throw, Onward
<1>16. ASSUME NEW l \in Loop, EndPoll(l), UNCHANGED serviceVars
        PROVE PeersSound'
  BY <1>16 DEF EndPoll
<1>17. ASSUME NEW l \in Loop, Reply(l), UNCHANGED serviceVars
        PROVE PeersSound'
  BY <1>17 DEF Reply, AppendFrame
<1>18. ASSUME NEW l \in Loop, ReplyError(l), UNCHANGED serviceVars
        PROVE PeersSound'
  BY <1>18 DEF ReplyError, AppendFrame, GiveUp, Onward
<1>19. ASSUME NEW l \in Loop, Ack(l), UNCHANGED serviceVars
        PROVE PeersSound'
  BY <1>19 DEF Ack, Onward
<1>20. ASSUME NEW l \in Loop, Reclaim(l), UNCHANGED serviceVars
        PROVE PeersSound'
  BY <1>20 DEF Reclaim, Take
<1>21. ASSUME NEW l \in Loop, Read(l), UNCHANGED serviceVars
        PROVE PeersSound'
  BY <1>21 DEF Read, Take
<1>22. ASSUME NEW r \in Request, Dispatch(r), UNCHANGED serviceVars
        PROVE PeersSound'
  BY <1>22 DEF Dispatch, SettleAll, Cleaned
<1>23. ASSUME NEW r \in Request, Publish(r), UNCHANGED serviceVars
        PROVE PeersSound'
  BY <1>23 DEF Publish, SettleAll, Cleaned
<1>24. ASSUME NEW r \in Request, RequestExpires(r), UNCHANGED serviceVars
        PROVE PeersSound'
  BY <1>24 DEF RequestExpires, SettleAll, Cleaned
<1>25. ASSUME NEW r \in Request, NEW kind \in {"ok", "error", "blank"},
             Deliver(r, kind), UNCHANGED serviceVars
        PROVE PeersSound'
  BY <1>25 DEF Deliver, SettleAll, Cleaned, Meaning
<1>26. ASSUME NEW f \in frames, LoseFrame(f), UNCHANGED serviceVars
        PROVE PeersSound'
  BY <1>26 DEF LoseFrame
<1>27. ASSUME UNCHANGED messagingVars
        PROVE PeersSound'
  BY <1>27 DEF messagingVars, streamVars
<1>28. ASSUME NEW l \in Loop, Discard(l), UNCHANGED serviceVars
        PROVE PeersSound'
  BY <1>28 DEF Discard
<1> HIDE Places, LoopsOf DEF PeersTyped, ServicesTyped, LoopsTyped, PeersSound
<1> QED
  BY <1>1, <1>2, <1>3, <1>4, <1>5, <1>6, <1>7, <1>8, <1>9, <1>10, <1>11, <1>12,
     <1>13, <1>14, <1>15, <1>16, <1>17, <1>18, <1>19, <1>20, <1>21, <1>22, <1>23, <1>24,
     <1>25, <1>26, <1>27, <1>28
  DEF MessagingNext, PeerStep, LoopStep

LEMMA CallsSoundKept ==
    ASSUME CallsTyped, CallsSound, [MessagingNext]_messagingVars
    PROVE  CallsSound'
<1> USE Places DEF CallsTyped, CallsSound, serviceVars, peerVars, requestVars, loopVars
<1>1. ASSUME NEW n \in Peer, ServiceListen(n)
       PROVE CallsSound'
  BY <1>1 DEF ServiceListen, OpenTransport
<1>2. ASSUME NEW n \in Peer, ServiceListening(n)
       PROVE CallsSound'
  BY <1>2 DEF ServiceListening, GroupCreated, StartLoops
<1>3. ASSUME NEW n \in Peer, ServiceListenFailed(n)
       PROVE CallsSound'
  BY <1>3 DEF ServiceListenFailed, GroupFailed
<1>4. ASSUME NEW n \in Peer, StartDrain(n)
       PROVE CallsSound'
  BY <1>4 DEF StartDrain, streamVars
<1>5. ASSUME NEW n \in Peer, Drained(n)
       PROVE CallsSound'
  BY <1>5 DEF Drained, CloseTransport
<1>6. ASSUME NEW n \in Peer, Closed(n)
       PROVE CallsSound'
  BY <1>6 DEF Closed, Released, SettleAll, Cleaned, Unanswered
<1>7. ASSUME NEW n \in Peer, LoopsEnded(n), UNCHANGED serviceVars
       PROVE CallsSound'
  BY <1>7 DEF LoopsEnded
<1>8. ASSUME NEW n \in Peer, MarkShutdown(n)
       PROVE CallsSound'
  BY <1>8 DEF MarkShutdown, streamVars
<1>9. ASSUME NEW n \in Peer, ServiceClose(n)
       PROVE CallsSound'
  BY <1>9 DEF ServiceClose, streamVars
<1>10. ASSUME NEW n \in Peer, Crash(n), UNCHANGED serviceVars
        PROVE CallsSound'
  BY <1>10 DEF Crash
<1>11. ASSUME NEW n \in Peer, NEW r \in Request, ServiceSend(n, r)
        PROVE CallsSound'
  BY <1>11 DEF ServiceSend, SendRequest
<1>12. ASSUME NEW n \in Peer, NEW e \in Event, ServiceEmit(n, e)
        PROVE CallsSound'
  BY <1>12 DEF ServiceEmit, Emit
<1>13. ASSUME NEW l \in Loop, Admit(l)
        PROVE CallsSound'
  BY <1>13 DEF Admit, AdmitsWork, Enter, Parsed
<1>14. ASSUME NEW l \in Loop, Refuse(l)
        PROVE CallsSound'
  BY <1>14 DEF Refuse, Throw, Onward, Parsed
<1>15. ASSUME NEW l \in Loop, HandlerEnds(l)
        PROVE CallsSound'
  BY <1>15 DEF HandlerEnds, HandlerReturns, AfterHandler, Throw, Onward
<1>16. ASSUME NEW l \in Loop, EndPoll(l), UNCHANGED serviceVars
        PROVE CallsSound'
  BY <1>16 DEF EndPoll
<1>17. ASSUME NEW l \in Loop, Reply(l), UNCHANGED serviceVars
        PROVE CallsSound'
  BY <1>17 DEF Reply, AppendFrame
<1>18. ASSUME NEW l \in Loop, ReplyError(l), UNCHANGED serviceVars
        PROVE CallsSound'
  BY <1>18 DEF ReplyError, AppendFrame, GiveUp, Onward
<1>19. ASSUME NEW l \in Loop, Ack(l), UNCHANGED serviceVars
        PROVE CallsSound'
  BY <1>19 DEF Ack, Onward
<1>20. ASSUME NEW l \in Loop, Reclaim(l), UNCHANGED serviceVars
        PROVE CallsSound'
  BY <1>20 DEF Reclaim, Take
<1>21. ASSUME NEW l \in Loop, Read(l), UNCHANGED serviceVars
        PROVE CallsSound'
  BY <1>21 DEF Read, Take
<1>22. ASSUME NEW r \in Request, Dispatch(r), UNCHANGED serviceVars
        PROVE CallsSound'
  BY <1>22 DEF Dispatch, SettleAll, Cleaned
<1>23. ASSUME NEW r \in Request, Publish(r), UNCHANGED serviceVars
        PROVE CallsSound'
  BY <1>23 DEF Publish, SettleAll, Cleaned
<1>24. ASSUME NEW r \in Request, RequestExpires(r), UNCHANGED serviceVars
        PROVE CallsSound'
  BY <1>24 DEF RequestExpires, SettleAll, Cleaned
<1>25. ASSUME NEW r \in Request, NEW kind \in {"ok", "error", "blank"},
             Deliver(r, kind), UNCHANGED serviceVars
        PROVE CallsSound'
  BY <1>25 DEF Deliver, SettleAll, Cleaned, Meaning
<1>26. ASSUME NEW f \in frames, LoseFrame(f), UNCHANGED serviceVars
        PROVE CallsSound'
  BY <1>26 DEF LoseFrame
<1>27. ASSUME UNCHANGED messagingVars
        PROVE CallsSound'
  BY <1>27 DEF messagingVars, streamVars
<1>28. ASSUME NEW l \in Loop, Discard(l), UNCHANGED serviceVars
        PROVE CallsSound'
  BY <1>28 DEF Discard
<1> QED
  BY <1>1, <1>2, <1>3, <1>4, <1>5, <1>6, <1>7, <1>8, <1>9, <1>10, <1>11, <1>12,
     <1>13, <1>14, <1>15, <1>16, <1>17, <1>18, <1>19, <1>20, <1>21, <1>22, <1>23, <1>24,
     <1>25, <1>26, <1>27, <1>28
  DEF MessagingNext, PeerStep, LoopStep

LEMMA AnswersSoundKept ==
    ASSUME EntriesTyped, LoopsTyped, LoopsIdle, LoopsSound, PeersSound,
           AnswersSound, [MessagingNext]_messagingVars
    PROVE  AnswersSound'
<1> USE Places DEF EntriesTyped, LoopsTyped, LoopsIdle, LoopsSound, AnswersSound, Served, serviceVars, peerVars, requestVars, loopVars
<1>1. ASSUME NEW n \in Peer, ServiceListen(n)
       PROVE AnswersSound'
  BY <1>1 DEF ServiceListen, OpenTransport
<1>2. ASSUME NEW n \in Peer, ServiceListening(n)
       PROVE AnswersSound'
  BY <1>2 DEF ServiceListening, GroupCreated, StartLoops
<1>3. ASSUME NEW n \in Peer, ServiceListenFailed(n)
       PROVE AnswersSound'
  BY <1>3 DEF ServiceListenFailed, GroupFailed
<1>4. ASSUME NEW n \in Peer, StartDrain(n)
       PROVE AnswersSound'
  BY <1>4 DEF StartDrain, streamVars
<1>5. ASSUME NEW n \in Peer, Drained(n)
       PROVE AnswersSound'
  BY <1>5 DEF Drained, CloseTransport
<1>6. ASSUME NEW n \in Peer, Closed(n)
       PROVE AnswersSound'
  BY <1>6 DEF Closed, Released, SettleAll, Cleaned, Unanswered
<1>7. ASSUME NEW n \in Peer, LoopsEnded(n), UNCHANGED serviceVars
       PROVE AnswersSound'
  BY <1>7 DEF LoopsEnded
<1>8. ASSUME NEW n \in Peer, MarkShutdown(n)
       PROVE AnswersSound'
  BY <1>8 DEF MarkShutdown, streamVars
<1>9. ASSUME NEW n \in Peer, ServiceClose(n)
       PROVE AnswersSound'
  BY <1>9 DEF ServiceClose, streamVars
<1>10. ASSUME NEW n \in Peer, Crash(n), UNCHANGED serviceVars
        PROVE AnswersSound'
  BY <1>10 DEF Crash
<1>11. ASSUME NEW n \in Peer, NEW r \in Request, ServiceSend(n, r)
        PROVE AnswersSound'
  BY <1>11 DEF ServiceSend, SendRequest
<1>12. ASSUME NEW n \in Peer, NEW e \in Event, ServiceEmit(n, e)
        PROVE AnswersSound'
  BY <1>12 DEF ServiceEmit, Emit
<1>13. ASSUME NEW l \in Loop, Admit(l)
        PROVE AnswersSound'
  BY <1>13 DEF Admit, AdmitsWork, Enter, Parsed
<1>14. ASSUME NEW l \in Loop, Refuse(l)
        PROVE AnswersSound'
  BY <1>14 DEF Refuse, Throw, Onward, Parsed
<1>15. ASSUME NEW l \in Loop, HandlerEnds(l)
        PROVE AnswersSound'
  BY <1>15 DEF HandlerEnds, HandlerReturns, AfterHandler, Throw, Onward
<1>16. ASSUME NEW l \in Loop, EndPoll(l), UNCHANGED serviceVars
        PROVE AnswersSound'
  BY <1>16 DEF EndPoll
<1>17. ASSUME NEW l \in Loop, Reply(l), UNCHANGED serviceVars
        PROVE AnswersSound'
  BY <1>17 DEF Reply, AppendFrame
<1>18. ASSUME NEW l \in Loop, ReplyError(l), UNCHANGED serviceVars
        PROVE AnswersSound'
  BY <1>18 DEF ReplyError, AppendFrame, GiveUp, Onward
<1>19. ASSUME NEW l \in Loop, Ack(l), UNCHANGED serviceVars
        PROVE AnswersSound'
  BY <1>19 DEF Ack, Onward
<1>20. ASSUME NEW l \in Loop, Reclaim(l), UNCHANGED serviceVars
        PROVE AnswersSound'
  BY <1>20 DEF Reclaim, Take
<1>21. ASSUME NEW l \in Loop, Read(l), UNCHANGED serviceVars
        PROVE AnswersSound'
  BY <1>21 DEF Read, Take
<1>22. ASSUME NEW r \in Request, Dispatch(r), UNCHANGED serviceVars
        PROVE AnswersSound'
  BY <1>22 DEF Dispatch, SettleAll, Cleaned
<1>23. ASSUME NEW r \in Request, Publish(r), UNCHANGED serviceVars
        PROVE AnswersSound'
  BY <1>23 DEF Publish, SettleAll, Cleaned
<1>24. ASSUME NEW r \in Request, RequestExpires(r), UNCHANGED serviceVars
        PROVE AnswersSound'
  BY <1>24 DEF RequestExpires, SettleAll, Cleaned
<1>25. ASSUME NEW r \in Request, NEW kind \in {"ok", "error", "blank"},
             Deliver(r, kind), UNCHANGED serviceVars
        PROVE AnswersSound'
  BY <1>25 DEF Deliver, SettleAll, Cleaned, Meaning
<1>26. ASSUME NEW f \in frames, LoseFrame(f), UNCHANGED serviceVars
        PROVE AnswersSound'
  BY <1>26 DEF LoseFrame
<1>27. ASSUME UNCHANGED messagingVars
        PROVE AnswersSound'
  BY <1>27 DEF messagingVars, streamVars
<1>28. ASSUME NEW l \in Loop, Discard(l), UNCHANGED serviceVars
        PROVE AnswersSound'
  BY <1>28 DEF Discard
<1> QED
  BY <1>1, <1>2, <1>3, <1>4, <1>5, <1>6, <1>7, <1>8, <1>9, <1>10, <1>11, <1>12,
     <1>13, <1>14, <1>15, <1>16, <1>17, <1>18, <1>19, <1>20, <1>21, <1>22, <1>23, <1>24,
     <1>25, <1>26, <1>27, <1>28
  DEF MessagingNext, PeerStep, LoopStep

LEMMA FramesSoundKept ==
    ASSUME CallsTyped, EntriesTyped, LoopsTyped, LoopsSound, AnswersSound,
           FramesSound, [MessagingNext]_messagingVars
    PROVE  FramesSound'
<1> USE Places DEF CallsTyped, EntriesTyped, LoopsTyped, LoopsSound, AnswersSound, FramesSound, serviceVars, peerVars, requestVars, loopVars
<1>1. ASSUME NEW n \in Peer, ServiceListen(n)
       PROVE FramesSound'
  BY <1>1 DEF ServiceListen, OpenTransport
<1>2. ASSUME NEW n \in Peer, ServiceListening(n)
       PROVE FramesSound'
  BY <1>2 DEF ServiceListening, GroupCreated, StartLoops
<1>3. ASSUME NEW n \in Peer, ServiceListenFailed(n)
       PROVE FramesSound'
  BY <1>3 DEF ServiceListenFailed, GroupFailed
<1>4. ASSUME NEW n \in Peer, StartDrain(n)
       PROVE FramesSound'
  BY <1>4 DEF StartDrain, streamVars
<1>5. ASSUME NEW n \in Peer, Drained(n)
       PROVE FramesSound'
  BY <1>5 DEF Drained, CloseTransport
<1>6. ASSUME NEW n \in Peer, Closed(n)
       PROVE FramesSound'
  BY <1>6 DEF Closed, Released, SettleAll, Cleaned, Unanswered
<1>7. ASSUME NEW n \in Peer, LoopsEnded(n), UNCHANGED serviceVars
       PROVE FramesSound'
  BY <1>7 DEF LoopsEnded
<1>8. ASSUME NEW n \in Peer, MarkShutdown(n)
       PROVE FramesSound'
  BY <1>8 DEF MarkShutdown, streamVars
<1>9. ASSUME NEW n \in Peer, ServiceClose(n)
       PROVE FramesSound'
  BY <1>9 DEF ServiceClose, streamVars
<1>10. ASSUME NEW n \in Peer, Crash(n), UNCHANGED serviceVars
        PROVE FramesSound'
  BY <1>10 DEF Crash
<1>11. ASSUME NEW n \in Peer, NEW r \in Request, ServiceSend(n, r)
        PROVE FramesSound'
  BY <1>11 DEF ServiceSend, SendRequest
<1>12. ASSUME NEW n \in Peer, NEW e \in Event, ServiceEmit(n, e)
        PROVE FramesSound'
  BY <1>12 DEF ServiceEmit, Emit
<1>13. ASSUME NEW l \in Loop, Admit(l)
        PROVE FramesSound'
  BY <1>13 DEF Admit, AdmitsWork, Enter, Parsed
<1>14. ASSUME NEW l \in Loop, Refuse(l)
        PROVE FramesSound'
  BY <1>14 DEF Refuse, Throw, Onward, Parsed
<1>15. ASSUME NEW l \in Loop, HandlerEnds(l)
        PROVE FramesSound'
  BY <1>15 DEF HandlerEnds, HandlerReturns, AfterHandler, Throw, Onward
<1>16. ASSUME NEW l \in Loop, EndPoll(l), UNCHANGED serviceVars
        PROVE FramesSound'
  BY <1>16 DEF EndPoll
<1>17. ASSUME NEW l \in Loop, Reply(l), UNCHANGED serviceVars
        PROVE FramesSound'
  BY <1>17 DEF Reply, AppendFrame
<1>18. ASSUME NEW l \in Loop, ReplyError(l), UNCHANGED serviceVars
        PROVE FramesSound'
  BY <1>18 DEF ReplyError, AppendFrame, GiveUp, Onward
<1>19. ASSUME NEW l \in Loop, Ack(l), UNCHANGED serviceVars
        PROVE FramesSound'
  BY <1>19 DEF Ack, Onward
<1>20. ASSUME NEW l \in Loop, Reclaim(l), UNCHANGED serviceVars
        PROVE FramesSound'
  BY <1>20 DEF Reclaim, Take
<1>21. ASSUME NEW l \in Loop, Read(l), UNCHANGED serviceVars
        PROVE FramesSound'
  BY <1>21 DEF Read, Take
<1>22. ASSUME NEW r \in Request, Dispatch(r), UNCHANGED serviceVars
        PROVE FramesSound'
  BY <1>22 DEF Dispatch, SettleAll, Cleaned
<1>23. ASSUME NEW r \in Request, Publish(r), UNCHANGED serviceVars
        PROVE FramesSound'
  BY <1>23 DEF Publish, SettleAll, Cleaned
<1>24. ASSUME NEW r \in Request, RequestExpires(r), UNCHANGED serviceVars
        PROVE FramesSound'
  BY <1>24 DEF RequestExpires, SettleAll, Cleaned
<1>25. ASSUME NEW r \in Request, NEW kind \in {"ok", "error", "blank"},
             Deliver(r, kind), UNCHANGED serviceVars
        PROVE FramesSound'
  BY <1>25 DEF Deliver, SettleAll, Cleaned, Meaning
<1>26. ASSUME NEW f \in frames, LoseFrame(f), UNCHANGED serviceVars
        PROVE FramesSound'
  BY <1>26 DEF LoseFrame
<1>27. ASSUME UNCHANGED messagingVars
        PROVE FramesSound'
  BY <1>27 DEF messagingVars, streamVars
<1>28. ASSUME NEW l \in Loop, Discard(l), UNCHANGED serviceVars
        PROVE FramesSound'
  BY <1>28 DEF Discard
<1> QED
  BY <1>1, <1>2, <1>3, <1>4, <1>5, <1>6, <1>7, <1>8, <1>9, <1>10, <1>11, <1>12,
     <1>13, <1>14, <1>15, <1>16, <1>17, <1>18, <1>19, <1>20, <1>21, <1>22, <1>23, <1>24,
     <1>25, <1>26, <1>27, <1>28
  DEF MessagingNext, PeerStep, LoopStep

LEMMA DrainedCloseKept ==
    ASSUME PeersTyped, ServicesTyped, LoopsTyped, PeersSound, DrainedClose, [MessagingNext]_messagingVars
    PROVE  DrainedClose'
<1> USE Places DEF PeersTyped, ServicesTyped, LoopsTyped, PeersSound, DrainedClose, Inbound, serviceVars, peerVars, requestVars, loopVars
<1>1. ASSUME NEW n \in Peer, ServiceListen(n)
       PROVE DrainedClose'
  BY <1>1 DEF ServiceListen, OpenTransport
<1>2. ASSUME NEW n \in Peer, ServiceListening(n)
       PROVE DrainedClose'
  <2>1. UNCHANGED closer
    BY <1>2 DEF ServiceListening
  <2>2. \A l \in Loop : stage'[l] = "handler" => stage[l] = "handler"
    BY <1>2 DEF ServiceListening, GroupCreated, StartLoops
  <2> QED
    BY <2>1, <2>2
<1>3. ASSUME NEW n \in Peer, ServiceListenFailed(n)
       PROVE DrainedClose'
  BY <1>3 DEF ServiceListenFailed, GroupFailed
<1>4. ASSUME NEW n \in Peer, StartDrain(n)
       PROVE DrainedClose'
  BY <1>4 DEF StartDrain, streamVars
<1>5. ASSUME NEW n \in Peer, Drained(n)
       PROVE DrainedClose'
  BY <1>5 DEF Drained, CloseTransport
<1>6. ASSUME NEW n \in Peer, Closed(n)
       PROVE DrainedClose'
  BY <1>6 DEF Closed, Released, SettleAll, Cleaned, Unanswered
<1>7. ASSUME NEW n \in Peer, LoopsEnded(n), UNCHANGED serviceVars
       PROVE DrainedClose'
  BY <1>7 DEF LoopsEnded
<1>8. ASSUME NEW n \in Peer, MarkShutdown(n)
       PROVE DrainedClose'
  BY <1>8 DEF MarkShutdown, streamVars
<1>9. ASSUME NEW n \in Peer, ServiceClose(n)
       PROVE DrainedClose'
  BY <1>9 DEF ServiceClose, streamVars
<1>10. ASSUME NEW n \in Peer, Crash(n), UNCHANGED serviceVars
        PROVE DrainedClose'
  BY <1>10 DEF Crash
<1>11. ASSUME NEW n \in Peer, NEW r \in Request, ServiceSend(n, r)
        PROVE DrainedClose'
  BY <1>11 DEF ServiceSend, SendRequest
<1>12. ASSUME NEW n \in Peer, NEW e \in Event, ServiceEmit(n, e)
        PROVE DrainedClose'
  BY <1>12 DEF ServiceEmit, Emit
<1>13. ASSUME NEW l \in Loop, Admit(l)
        PROVE DrainedClose'
  BY <1>13 DEF Admit, AdmitsWork, Enter, Parsed
<1>14. ASSUME NEW l \in Loop, Refuse(l)
        PROVE DrainedClose'
  BY <1>14 DEF Refuse, Throw, Onward, Parsed
<1>15. ASSUME NEW l \in Loop, HandlerEnds(l)
        PROVE DrainedClose'
  BY <1>15 DEF HandlerEnds, HandlerReturns, AfterHandler, Throw, Onward
<1>16. ASSUME NEW l \in Loop, EndPoll(l), UNCHANGED serviceVars
        PROVE DrainedClose'
  BY <1>16 DEF EndPoll
<1>17. ASSUME NEW l \in Loop, Reply(l), UNCHANGED serviceVars
        PROVE DrainedClose'
  BY <1>17 DEF Reply, AppendFrame
<1>18. ASSUME NEW l \in Loop, ReplyError(l), UNCHANGED serviceVars
        PROVE DrainedClose'
  BY <1>18 DEF ReplyError, AppendFrame, GiveUp, Onward
<1>19. ASSUME NEW l \in Loop, Ack(l), UNCHANGED serviceVars
        PROVE DrainedClose'
  BY <1>19 DEF Ack, Onward
<1>20. ASSUME NEW l \in Loop, Reclaim(l), UNCHANGED serviceVars
        PROVE DrainedClose'
  BY <1>20 DEF Reclaim, Take
<1>21. ASSUME NEW l \in Loop, Read(l), UNCHANGED serviceVars
        PROVE DrainedClose'
  BY <1>21 DEF Read, Take
<1>22. ASSUME NEW r \in Request, Dispatch(r), UNCHANGED serviceVars
        PROVE DrainedClose'
  BY <1>22 DEF Dispatch, SettleAll, Cleaned
<1>23. ASSUME NEW r \in Request, Publish(r), UNCHANGED serviceVars
        PROVE DrainedClose'
  BY <1>23 DEF Publish, SettleAll, Cleaned
<1>24. ASSUME NEW r \in Request, RequestExpires(r), UNCHANGED serviceVars
        PROVE DrainedClose'
  BY <1>24 DEF RequestExpires, SettleAll, Cleaned
<1>25. ASSUME NEW r \in Request, NEW kind \in {"ok", "error", "blank"},
             Deliver(r, kind), UNCHANGED serviceVars
        PROVE DrainedClose'
  BY <1>25 DEF Deliver, SettleAll, Cleaned, Meaning
<1>26. ASSUME NEW f \in frames, LoseFrame(f), UNCHANGED serviceVars
        PROVE DrainedClose'
  BY <1>26 DEF LoseFrame
<1>27. ASSUME UNCHANGED messagingVars
        PROVE DrainedClose'
  BY <1>27 DEF messagingVars, streamVars
<1>28. ASSUME NEW l \in Loop, Discard(l), UNCHANGED serviceVars
        PROVE DrainedClose'
  BY <1>28 DEF Discard
<1> QED
  BY <1>1, <1>2, <1>3, <1>4, <1>5, <1>6, <1>7, <1>8, <1>9, <1>10, <1>11, <1>12,
     <1>13, <1>14, <1>15, <1>16, <1>17, <1>18, <1>19, <1>20, <1>21, <1>22, <1>23, <1>24,
     <1>25, <1>26, <1>27, <1>28
  DEF MessagingNext, PeerStep, LoopStep

\* A loop moves without the others.
LEMMA OtherLoops ==
    ASSUME LoopsTyped, NEW l \in Loop,
           \/ Admit(l) \/ Refuse(l) \/ HandlerEnds(l) \/ EndPoll(l) \/ Discard(l)
           \/ Reply(l) \/ ReplyError(l) \/ Ack(l) \/ Reclaim(l) \/ Read(l)
    PROVE  \A k \in Loop : k # l => stage'[k] = stage[k] /\ batch'[k] = batch[k]
<1> USE DEF LoopsTyped, loopVars
<1>1. ASSUME \/ Admit(l) \/ EndPoll(l) \/ Discard(l) \/ Reply(l) \/ Reclaim(l)
             \/ Read(l) \/ HandlerReturns(l)
      PROVE  \A k \in Loop : k # l => stage'[k] = stage[k] /\ batch'[k] = batch[k]
  BY <1>1 DEF Admit, Enter, EndPoll, Discard, Reply, Reclaim, Read, Take, HandlerReturns
<1>2. ASSUME NEW e, NEW how, Throw(l, e, how)
      PROVE  \A k \in Loop : k # l => stage'[k] = stage[k] /\ batch'[k] = batch[k]
  BY <1>2 DEF Throw, Onward
<1>3. ASSUME ReplyError(l) \/ Ack(l)
      PROVE  \A k \in Loop : k # l => stage'[k] = stage[k] /\ batch'[k] = batch[k]
  BY <1>3 DEF ReplyError, GiveUp, Ack, Onward
<1> QED
  BY <1>1, <1>2, <1>3 DEF Refuse, HandlerEnds

LEMMA ClosedIsFinalKept ==
    ASSUME PeersTyped, ServicesTyped, LoopsTyped, CallsTyped, LoopsIdle,
           PeersSound, ClosedIsFinal, [MessagingNext]_messagingVars
    PROVE  ClosedIsFinal'
<1> USE Places DEF PeersTyped, ServicesTyped, CallsTyped, LoopsTyped, LoopsIdle,
           PeersSound, ClosedIsFinal, SentBy, serviceVars, peerVars, requestVars, loopVars
<1>1. ASSUME NEW n \in Peer, ServiceListen(n)
       PROVE ClosedIsFinal'
  BY <1>1 DEF ServiceListen, OpenTransport
<1>2. ASSUME NEW n \in Peer, ServiceListening(n)
       PROVE ClosedIsFinal'
  BY <1>2 DEF ServiceListening, GroupCreated, StartLoops
<1>3. ASSUME NEW n \in Peer, ServiceListenFailed(n)
       PROVE ClosedIsFinal'
  BY <1>3 DEF ServiceListenFailed, GroupFailed
<1>4. ASSUME NEW n \in Peer, StartDrain(n)
       PROVE ClosedIsFinal'
  BY <1>4 DEF StartDrain, streamVars
<1>5. ASSUME NEW n \in Peer, Drained(n)
       PROVE ClosedIsFinal'
  BY <1>5 DEF Drained, CloseTransport
<1>6. ASSUME NEW n \in Peer, Closed(n)
       PROVE ClosedIsFinal'
  <2>1. closeAt[n] = "release" /\ UNCHANGED <<batch, sender>>
        /\ stage' = [l \in Loop |-> IF l[1] = n THEN "off" ELSE stage[l]]
        /\ pendingRequests' = pendingRequests \ Unanswered(n)
    BY <1>6 DEF Closed, Released, SettleAll, Cleaned
  <2>2. \A s \in Stream : stage'[<<n, s>>] = "off" /\ batch'[<<n, s>>] = {}
    BY SMTT(30), <2>1
  <2>3. SentBy(n)' \cap pendingRequests' = {}
    BY <2>1 DEF Unanswered
  <2> QED
    <3>1. ASSUME NEW m \in Peer, m # n, closer'[m] = "done"
          PROVE  /\ closer[m] = "done" /\ lifecycle'[m] = lifecycle[m] /\ listen'[m] = listen[m]
                 /\ \A s \in Stream : stage'[<<m, s>>] = stage[<<m, s>>]
      BY <1>6, <2>1, <3>1 DEF Closed, Released
    <3>2. ASSUME NEW m \in Peer, m # n, closer'[m] = "done"
          PROVE  SentBy(m)' \cap pendingRequests' = {}
      BY <2>1, <3>1, <3>2
    <3>3. lifecycle'[n] \in {"stopped", "failed"} /\ listen'[n] = "off"
      BY <1>6 DEF Closed, Released
    <3> QED
      BY <2>1, <2>2, <2>3, <3>1, <3>2, <3>3
<1>7. ASSUME NEW n \in Peer, LoopsEnded(n), UNCHANGED serviceVars
       PROVE ClosedIsFinal'
  BY <1>7 DEF LoopsEnded
<1>8. ASSUME NEW n \in Peer, MarkShutdown(n)
       PROVE ClosedIsFinal'
  BY <1>8 DEF MarkShutdown, streamVars
<1>9. ASSUME NEW n \in Peer, ServiceClose(n)
       PROVE ClosedIsFinal'
  BY <1>9 DEF ServiceClose, streamVars
<1>10. ASSUME NEW n \in Peer, Crash(n), UNCHANGED serviceVars
        PROVE ClosedIsFinal'
  BY <1>10 DEF Crash
<1>11. ASSUME NEW n \in Peer, NEW r \in Request, ServiceSend(n, r)
        PROVE ClosedIsFinal'
  BY <1>11 DEF ServiceSend, SendRequest
<1>12. ASSUME NEW n \in Peer, NEW e \in Event, ServiceEmit(n, e)
        PROVE ClosedIsFinal'
  BY <1>12 DEF ServiceEmit, Emit
<1>13. ASSUME NEW l \in Loop,
              \/ Admit(l) \/ Refuse(l) \/ HandlerEnds(l)
              \/ EndPoll(l) /\ UNCHANGED serviceVars
              \/ Discard(l) /\ UNCHANGED serviceVars
              \/ Reply(l) /\ UNCHANGED serviceVars
              \/ ReplyError(l) /\ UNCHANGED serviceVars
              \/ Ack(l) /\ UNCHANGED serviceVars
              \/ Reclaim(l) /\ UNCHANGED serviceVars
              \/ Read(l) /\ UNCHANGED serviceVars
        PROVE ClosedIsFinal'
  <2> HIDE Places DEF PeersTyped, ServicesTyped, CallsTyped, LoopsIdle, PeersSound
  <2>1. stage[l] # "off" /\ UNCHANGED <<closer, lifecycle, listen, sender, pendingRequests>>
    BY <1>13 DEF Admit, Enter, Refuse, HandlerEnds, HandlerReturns, EndPoll, Discard, Reply,
                 ReplyError, Ack, Reclaim, Read, Take, Throw
  <2>2. \A k \in Loop : k # l => stage'[k] = stage[k] /\ batch'[k] = batch[k]
    BY <1>13, OtherLoops
  <2>3. ASSUME NEW n \in Peer, closer'[n] = "done", NEW s \in Stream
        PROVE  stage'[<<n, s>>] = "off" /\ batch'[<<n, s>>] = {}
    <3>1. <<n, s>> \in Loop /\ stage[<<n, s>>] = "off" /\ batch[<<n, s>>] = {}
      BY <2>1, <2>3 DEF Loop
    <3> QED
      BY <2>1, <2>2, <3>1
  <2> QED
    BY <2>1, <2>3
<1>14. ASSUME NEW r \in Request, Dispatch(r), UNCHANGED serviceVars
        PROVE ClosedIsFinal'
  BY <1>14 DEF Dispatch, SettleAll, Cleaned
<1>15. ASSUME NEW r \in Request, Publish(r), UNCHANGED serviceVars
        PROVE ClosedIsFinal'
  BY <1>15 DEF Publish, SettleAll, Cleaned
<1>16. ASSUME NEW r \in Request, RequestExpires(r), UNCHANGED serviceVars
        PROVE ClosedIsFinal'
  BY <1>16 DEF RequestExpires, SettleAll, Cleaned
<1>17. ASSUME NEW r \in Request, NEW kind \in {"ok", "error", "blank"},
             Deliver(r, kind), UNCHANGED serviceVars
        PROVE ClosedIsFinal'
  BY <1>17 DEF Deliver, SettleAll, Cleaned, Meaning
<1>18. ASSUME NEW f \in frames, LoseFrame(f), UNCHANGED serviceVars
        PROVE ClosedIsFinal'
  BY <1>18 DEF LoseFrame
<1>19. ASSUME UNCHANGED messagingVars
        PROVE ClosedIsFinal'
  BY <1>19 DEF messagingVars, streamVars
<1> QED
  BY <1>1, <1>2, <1>3, <1>4, <1>5, <1>6, <1>7, <1>8, <1>9, <1>10, <1>11, <1>12,
     <1>13, <1>14, <1>15, <1>16, <1>17, <1>18, <1>19
  DEF MessagingNext, PeerStep, LoopStep

LEMMA MessagingInitially == MessagingInit => ServiceInv
<1> SUFFICES ASSUME MessagingInit PROVE ServiceInv
  OBVIOUS
<1> USE Places DEF MessagingInit, StreamsInit
<1>1. PeersTyped
  BY DEF PeersTyped
<1>2. ServicesTyped
  BY DEF ServicesTyped
<1>3. CallsTyped
  BY DEF CallsTyped
<1>4. EntriesTyped
  BY DEF EntriesTyped
<1>5. LoopsTyped /\ LoopsIdle
  BY DEF LoopsTyped, LoopsIdle
<1>6. LoopsSound /\ PeersSound
  BY DEF LoopsSound, PeersSound
<1>7. AnswersSound /\ FramesSound /\ CallsSound
  BY DEF AnswersSound, FramesSound, CallsSound
<1>8. DrainedClose /\ ClosedIsFinal
  BY DEF DrainedClose, ClosedIsFinal
<1> QED
  BY <1>1, <1>2, <1>3, <1>4, <1>5, <1>6, <1>7, <1>8, MessagingTyped DEF ServiceInv, AllTyped

\* The shape, the bookkeeping and the promises of the microservice: an entry is
\* acknowledged only when it was served, the pending map and the promises of
\* send() agree, and close() reaches a drained service and leaves nothing behind.
THEOREM MessagingInvariant == MessagingSpec => []ServiceInv
<1>1. ServiceInv /\ [MessagingNext]_messagingVars => ServiceInv'
  <2> SUFFICES ASSUME ServiceInv, [MessagingNext]_messagingVars PROVE ServiceInv'
    OBVIOUS
  <2>1. /\ PeersTyped /\ ServicesTyped /\ CallsTyped /\ EntriesTyped /\ LoopsTyped /\ LoopsIdle
        /\ LoopsSound /\ PeersSound /\ AnswersSound /\ FramesSound /\ CallsSound
        /\ DrainedClose /\ ClosedIsFinal
    BY MessagingTyped DEF ServiceInv, AllTyped
  <2>2. AllTyped'
    BY <2>1, PeersTypedKept, ServicesTypedKept, CallsTypedKept, EntriesTypedKept,
       LoopsTypedKept, LoopsIdleKept DEF AllTyped
  <2>3. LoopsSound' /\ PeersSound' /\ CallsSound'
    BY <2>1, LoopsSoundKept, PeersSoundKept, CallsSoundKept
  <2>4. AnswersSound' /\ FramesSound'
    BY <2>1, AnswersSoundKept, FramesSoundKept
  <2>5. DrainedClose' /\ ClosedIsFinal'
    BY <2>1, DrainedCloseKept, ClosedIsFinalKept
  <2>6. MessagingTypeOK'
    BY <2>2, MessagingTyped, PTL
  <2> QED
    BY <2>3, <2>4, <2>5, <2>6 DEF ServiceInv
<1> QED
  BY <1>1, MessagingInitially, PTL DEF MessagingSpec

\* Unless errors may have no message, send() resolves only for a request some
\* handler completed, and no well-formed entry leaves a group unanswered
\* or unhandled.
THEOREM RepliesAreSound ==
    ASSUME ~BlankErrors
    PROVE  MessagingSpec => []RepliesSound
<1>1. ServiceInv => RepliesSound
  BY Places DEF ServiceInv, AnswersSound, Served, FramesSound, CallsSound, RepliesSound,
                AckedAnswered, TruthfulReply, ErrorsRoundTrip
<1> QED
  BY <1>1, MessagingInvariant, PTL

\* Whatever handlers throw, crashes, redeliveries and failed publications lose
\* no well-formed entry: an acknowledged one was answered, or handled.
THEOREM AcknowledgedIsAnswered == MessagingSpec => [](MessagingTypeOK /\ AckedAnswered)
<1>1. ServiceInv => MessagingTypeOK /\ AckedAnswered
  BY DEF ServiceInv, AnswersSound, Served, AckedAnswered
<1> QED
  BY <1>1, MessagingInvariant, PTL

\* The three services side by side: the types, the quiet close of the event bus,
\* the drained writes of the queue, and the drained and final close of the
\* microservice.
THEOREM MessagingIsSafe == BusSpec /\ QueueSpec /\ MessagingSpec => []MessagingSafe
<1>1. /\ BusTypeOK /\ QuietClose /\ QueueTypeOK /\ DeadLettersDrained /\ ServiceInv
      => MessagingSafe
  BY DEF MessagingSafe, ServiceInv
<1> QED
  BY <1>1, BusClosesQuietly, QueueDrainsWrites, MessagingInvariant, PTL
=============================================================================
