----------------------------- MODULE MCMessaging -----------------------------
(* Jobs, events and messages: an event bus, a queue, and two peers that      *)
(* exchange requests or events over Redis Streams.  They share no variable,  *)
(* so a behaviour is of one of them (`focus') and their states add up        *)
(* instead of multiplying.                                                   *)
EXTENDS Messaging

VARIABLE focus

Init ==
    /\ BusInit /\ QueueInit /\ MessagingInit
    /\ focus \in {"bus", "queue"} \cup Stream

BusStep ==
    /\ focus = "bus" /\ BusNext
    /\ UNCHANGED <<queueVars, messagingVars, focus>>

QueueStep ==
    /\ focus = "queue" /\ QueueNext
    /\ UNCHANGED <<busVars, messagingVars, focus>>

\* Entries of requests and of events are read by different loops and never
\* interact: only one of the two kinds travels, and of the requests only one,
\* a well-formed or a malformed one.  Of the events there are two entries, of one
\* event for two nodes or of a well-formed and a malformed one for the same node;
\* no node crashes among them, as no other would read the events of its group.
MessagingStep ==
    /\ focus \in Stream /\ MessagingNext
    /\ focus = "messages" => \A e \in Event, p \in Peer : entry'[<<e, p>>] = "absent"
    /\ \A q, r \in Request : sender'[q] # NoPeer /\ sender'[r] # NoPeer => q = r
    /\ focus = "events" =>
          /\ \A r \in Request : sender'[r] = NoPeer
          /\ \A p \in Peer : up'[p]
          /\ Cardinality({x \in Event \X Peer : entry'[x] # "absent"}) <= 2
    /\ UNCHANGED <<busVars, queueVars, focus>>

Spec ==
    /\ Init
    /\ [][BusStep \/ QueueStep \/ MessagingStep]_<<busVars, queueVars, messagingVars, focus>>
    /\ BusFairness /\ QueueFairness /\ MessagingFairness

-----------------------------------------------------------------------------
(* Properties *)

\* Every shutdown ends, although each waits for work that arrives meanwhile.
ShutdownsEnd == BusStops /\ QueueStops /\ CloseEnds
=============================================================================
