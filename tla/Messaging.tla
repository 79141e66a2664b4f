------------------------------ MODULE Messaging ------------------------------
(***************************************************************************)
(* The event bus, the queue and the microservice together: what each of    *)
(* them has to have finished when its shutdown is over.  They share no     *)
(* variable, and each has its own specification.                           *)
(***************************************************************************)
EXTENDS EventBus, QueueService, Microservice

\* When the shutdown of a bus, a queue or a microservice is over, it has
\* drained what it admitted, and nothing of it comes to life again.
MessagingSafe ==
    /\ BusTypeOK /\ QueueTypeOK /\ MessagingTypeOK
    /\ QuietClose /\ DeadLettersDrained /\ DrainedClose /\ ClosedIsFinal
=============================================================================
