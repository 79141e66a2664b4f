---------------------------- MODULE RedisStreams ----------------------------
(***************************************************************************)
(* The Redis Streams transport of the microservices package: requests and  *)
(* events appended to streams, read through consumer groups, handled,      *)
(* answered and acknowledged by the poll loops of several nodes, and the   *)
(* pending requests of the nodes that wait for the answers.                *)
(*                                                                         *)
(* A request is one entry of the shared message group: whichever node      *)
(* reads it owns it until it is acknowledged, and any node may reclaim it  *)
(* once it has been idle.  An event is one entry per node, as every node   *)
(* has an event group of its own.  Response frames wait in the response    *)
(* stream of the node that sent the request.  Every command sent to Redis  *)
(* may fail, with or without having taken effect, and a node may crash     *)
(* between any two steps.                                                  *)
(*                                                                         *)
(* The module defines the transport's operations; Microservice composes    *)
(* them with the service that calls them and states the properties.        *)
(***************************************************************************)
EXTENDS FiniteSets

CONSTANTS Peer,       \* processes, each with one transport
          Request,    \* calls of send()
          Event,      \* calls of emit()
          MayCrash,   \* the nodes that may crash
          MayClose,   \* the nodes whose service may be closed
          Listening,  \* the nodes that listen already at the start
          BlankErrors,  \* whether a handler may throw an error without a message
          Unreadable,   \* the calls whose entries are given to no handler
          NoPeer, NoEntry

ASSUME StreamsAssumption == /\ NoPeer \notin Peer
                            /\ Peer \cap {"absent", "queued", "acked", "dropped"} = {}
                            /\ NoEntry \notin Request
                            /\ NoEntry \notin Event \X Peer
                            /\ Request \cap (Event \X Peer) = {}
                            /\ Listening \subseteq Peer
                            /\ BlankErrors \in BOOLEAN
                            /\ Unreadable \subseteq Request \cup Event

Entry == Request \cup (Event \X Peer)

\* Their entries: parseFields() turns them down (no pattern, a payload that is no
\* JSON text), or their kind is not the stream's, or a request has no requestId.
Malformed == (Request \cap Unreadable) \cup ((Event \cap Unreadable) \X Peer)

Stream == {"messages", "events"}

Loop == Peer \X Stream        \* the poll loops that run handlers

VARIABLES
  up,         \* up[n]: the process has not crashed
  listen,     \* listen[n]: "off", "on", or the group listen() is creating
  groups,     \* groups[n]: the consumer groups that exist for n alone
  closing,    \* closing[n]: the flag close() raises and listen() lowers
  closeAt,    \* closeAt[n]: "none", or what the running close() waits for
  sender,     \* sender[r]: the node that called send(), or NoPeer
  publication,  \* publication[r]: the microtask that publishes the request frame
  pendingRequests,    \* the requests with an entry in their sender's pending map
  outcome,    \* outcome[r]: how the promise of send() settled
  entry,      \* entry[e]: "absent", "queued", its owner, "acked", "dropped"
  stage,      \* stage[l]: what poll loop l is doing
  batch,      \* batch[l]: the entries it has read and not finished
  current,    \* current[l]: the entry it is handling
  frames,     \* response frames <<r, kind>> not yet read
  answered,   \* history: requests for which a response was published
  handled     \* history: entries some handler completed

streamVars == <<up, listen, groups, closing, closeAt, sender, publication, pendingRequests,
                outcome, entry, stage, batch, current, frames, answered, handled>>

peerVars    == <<up, listen, groups, closing, closeAt>>
requestVars == <<sender, publication, pendingRequests, outcome>>
loopVars    == <<stage, batch, current>>

StreamsInit ==
  /\ up = [n \in Peer |-> TRUE]
  /\ listen = [n \in Peer |-> IF n \in Listening THEN "on" ELSE "off"]
  /\ groups = [n \in Peer |-> IF n \in Listening THEN {"events", "responses"} ELSE {}]
  /\ closing = [n \in Peer |-> FALSE]
  /\ closeAt = [n \in Peer |-> "none"]
  /\ sender = [r \in Request |-> NoPeer]
  /\ publication = [r \in Request |-> "none"]
  /\ pendingRequests = {}
  /\ outcome = [r \in Request |-> "none"]
  /\ entry = [e \in Entry |-> "absent"]
  /\ stage = [l \in Loop |-> IF l[1] \in Listening THEN "polling" ELSE "off"]
  /\ batch = [l \in Loop |-> {}]
  /\ current = [l \in Loop |-> NoEntry]
  /\ frames = {} /\ answered = {} /\ handled = {}

-----------------------------------------------------------------------------
(***************************************************************************)
(* listen(): the consumer groups are created one after the other, then the *)
(* poll loops start.  The message group is shared and may exist already;   *)
(* the two others must not.                                                *)
(***************************************************************************)
OpenTransport(n) ==
  /\ listen[n] = "off" /\ closeAt[n] = "none"
  /\ closing' = [closing EXCEPT ![n] = FALSE]
  /\ listen' = [listen EXCEPT ![n] = "messages"]
  /\ UNCHANGED <<up, groups, closeAt, entry, frames, answered, handled>>
  /\ UNCHANGED requestVars /\ UNCHANGED loopVars

\* A mutated form: the loops run for as long as the transport listens.
WhileListening(n) == listen[n] = "off"

\* The condition of the poll loops.
LoopEnds(n) == closing[n]

\* The loops start; with closing raised meanwhile they end at once.
StartLoops(n) ==
  stage' = [l \in Loop |-> IF l[1] # n THEN stage[l]
                        ELSE IF LoopEnds(n) THEN "ended" ELSE "polling"]

GroupCreated(n) ==
  /\ \/ listen[n] = "messages" /\ listen' = [listen EXCEPT ![n] = "events"]
                               /\ UNCHANGED <<groups, stage>>
     \/ /\ listen[n] = "events" /\ "events" \notin groups[n]
        /\ listen' = [listen EXCEPT ![n] = "responses"]
        /\ groups' = [groups EXCEPT ![n] = @ \cup {"events"}]
        /\ UNCHANGED stage
     \/ /\ listen[n] = "responses" /\ "responses" \notin groups[n]
        /\ listen' = [listen EXCEPT ![n] = "on"]
        /\ groups' = [groups EXCEPT ![n] = @ \cup {"responses"}]
        /\ StartLoops(n)
  /\ UNCHANGED <<up, closing, closeAt, entry, batch, current, frames,
                 answered, handled>>
  /\ UNCHANGED requestVars

\* A command fails, or the group exists already: listen() rejects.  A creation
\* reported as failed may have made the group, which the next listen() finds.
GroupFailed(n) ==
  /\ listen[n] \notin {"off", "on"}
  /\ listen' = [listen EXCEPT ![n] = "off"]
  /\ \/ UNCHANGED groups
     \/ /\ listen[n] \in {"events", "responses"} /\ listen[n] \notin groups[n]
        /\ groups' = [groups EXCEPT ![n] = @ \cup {listen[n]}]
  /\ UNCHANGED <<up, closing, closeAt, entry, frames, answered,
                 handled>>
  /\ UNCHANGED requestVars /\ UNCHANGED loopVars

-----------------------------------------------------------------------------
(***************************************************************************)
(* send(): the pending entry and its timer come first, the frame is        *)
(* published by a microtask that finds out whether it is still wanted.     *)
(***************************************************************************)
SendRequest(n, r) ==
  /\ listen[n] = "on" /\ ~closing[n] /\ sender[r] = NoPeer
  /\ sender' = [sender EXCEPT ![r] = n]
  /\ pendingRequests' = pendingRequests \cup {r}
  /\ publication' = [publication EXCEPT ![r] = "dispatch"]
  /\ UNCHANGED <<outcome, entry, frames, answered, handled>>
  /\ UNCHANGED peerVars /\ UNCHANGED loopVars

\* cleanup()
Cleaned(rs) == pendingRequests \ rs

\* entry.resolve and entry.reject: cleanup() and the promise of send().
SettleAll(rs, how) ==
  /\ pendingRequests' = Cleaned(rs)
  /\ outcome' = [r \in Request |-> IF r \in rs THEN how ELSE outcome[r]]

Alive(r) == sender[r] # NoPeer /\ up[sender[r]]

\* The microtask: nothing is published for a settled or a closing call.
Dispatch(r) ==
  /\ Alive(r) /\ publication[r] = "dispatch"
  /\ \/ /\ r \notin pendingRequests
        /\ publication' = [publication EXCEPT ![r] = "done"]
        /\ UNCHANGED <<pendingRequests, outcome>>
     \/ /\ r \in pendingRequests /\ closing[sender[r]]
        /\ publication' = [publication EXCEPT ![r] = "done"]
        /\ SettleAll({r}, "error")
     \/ /\ r \in pendingRequests /\ ~closing[sender[r]]
        /\ publication' = [publication EXCEPT ![r] = "xadd"]
        /\ UNCHANGED <<pendingRequests, outcome>>
  /\ UNCHANGED <<sender, entry, frames, answered, handled>>
  /\ UNCHANGED peerVars /\ UNCHANGED loopVars

\* publishFrame of the request: it may fail after it has taken effect.
Publish(r) ==
  /\ Alive(r) /\ publication[r] = "xadd"
  /\ publication' = [publication EXCEPT ![r] = "done"]
  /\ \/ /\ entry' = [entry EXCEPT ![r] = "queued"]
        /\ UNCHANGED <<pendingRequests, outcome>>
     \/ /\ \/ entry' = [entry EXCEPT ![r] = "queued"]
           \/ UNCHANGED entry
        /\ SettleAll({r} \cap pendingRequests, "error")
  /\ UNCHANGED <<sender, frames, answered, handled>>
  /\ UNCHANGED peerVars /\ UNCHANGED loopVars

\* A mutated form: the timer is set once the frame has been published.
AfterPublish(r) == publication[r] = "done"

\* The timer is set with the pending entry.
TimerSet(r) == sender[r] # NoPeer

\* The request timer fires, or the caller's signal aborts.
RequestExpires(r) ==
  /\ Alive(r) /\ TimerSet(r) /\ r \in pendingRequests
  /\ SettleAll({r}, "error")
  /\ UNCHANGED <<sender, publication, entry, frames, answered, handled>>
  /\ UNCHANGED peerVars /\ UNCHANGED loopVars

\* emit(): one entry in the group of every node that listens to events.
Emit(n, e) ==
  /\ up[n] /\ ~closing[n]
  /\ \A m \in Peer : entry[<<e, m>>] = "absent"
  /\ \E m \in Peer : "events" \in groups[m]
  /\ entry' = [x \in Entry |-> IF \E m \in Peer : x = <<e, m>> /\ "events" \in groups[m]
                               THEN "queued" ELSE entry[x]]
  /\ UNCHANGED <<frames, answered, handled>>
  /\ UNCHANGED peerVars /\ UNCHANGED requestVars /\ UNCHANGED loopVars

-----------------------------------------------------------------------------
(***************************************************************************)
(* pollStream(): claim what was left pending, else read what is new; then  *)
(* handle and acknowledge the batch entry by entry.  Any failure of a      *)
(* command abandons the rest of the batch, which stays pending.            *)
(***************************************************************************)
Of(l) == {e \in Entry : IF l[2] = "messages" THEN e \in Request
                        ELSE \E v \in Event : e = <<v, l[1]>>}

\* The loop condition, evaluated when the batch is finished or abandoned.
Onward(l, rest) ==
  /\ batch' = [batch EXCEPT ![l] = rest]
  /\ current' = [current EXCEPT ![l] = NoEntry]
  /\ stage' = [stage EXCEPT ![l] = IF rest # {} THEN "next"
                             ELSE IF LoopEnds(l[1]) THEN "ended" ELSE "polling"]

Take(l, es) ==
  /\ es # {}
  /\ entry' = [e \in Entry |-> IF e \in es THEN l[1] ELSE entry[e]]
  /\ batch' = [batch EXCEPT ![l] = es]
  /\ stage' = [stage EXCEPT ![l] = "next"]
  /\ UNCHANGED <<current, frames, answered, handled>>
  /\ UNCHANGED peerVars /\ UNCHANGED requestVars

\* XAUTOCLAIM: entries idle in the hands of any consumer, this one included.
Reclaim(l) ==
  /\ up[l[1]] /\ stage[l] = "polling"
  /\ \E es \in SUBSET {e \in Of(l) : entry[e] \in Peer} : Take(l, es)

\* XREADGROUP of the entries nobody has read.
Read(l) ==
  /\ up[l[1]] /\ stage[l] = "polling"
  /\ Take(l, {e \in Of(l) : entry[e] = "queued"})

\* The read comes back empty, or fails, while close() waits.
EndPoll(l) ==
  /\ up[l[1]] /\ stage[l] = "polling" /\ LoopEnds(l[1])
  /\ stage' = [stage EXCEPT ![l] = "ended"]
  /\ UNCHANGED <<batch, current, entry, frames, answered, handled>>
  /\ UNCHANGED peerVars /\ UNCHANGED requestVars

\* A malformed entry is acknowledged without handler or answer.
Discard(l) ==
  /\ up[l[1]] /\ stage[l] = "next"
  /\ \E e \in batch[l] \cap Malformed : current' = [current EXCEPT ![l] = e]
  /\ stage' = [stage EXCEPT ![l] = "ack"]
  /\ UNCHANGED <<batch, entry, frames, answered, handled>>
  /\ UNCHANGED peerVars /\ UNCHANGED requestVars

\* The entries of a batch that reach the handler.
Parsed(l) == batch[l] \ Malformed

\* The handler the service registered is called with the next entry.
Enter(l) ==
  /\ up[l[1]] /\ stage[l] = "next"
  /\ \E e \in Parsed(l) : current' = [current EXCEPT ![l] = e]
  /\ stage' = [stage EXCEPT ![l] = "handler"]
  /\ UNCHANGED <<batch, entry, frames, answered, handled>>
  /\ UNCHANGED peerVars /\ UNCHANGED requestVars

AfterHandler(l) == IF l[2] = "messages" THEN "reply" ELSE "ack"

\* It returns: a request is answered, an event acknowledged.
HandlerReturns(l) ==
  /\ up[l[1]] /\ stage[l] = "handler"
  /\ handled' = handled \cup {current[l]}
  /\ stage' = [stage EXCEPT ![l] = AfterHandler(l)]
  /\ UNCHANGED <<batch, current, entry, frames, answered>>
  /\ UNCHANGED peerVars /\ UNCHANGED requestVars

\* It throws: a request is answered with the error, an event stays pending.
\* `how' tells an error with a message, "failure", from one without, "blank".
Throw(l, e, how) ==
  /\ \/ /\ l[2] = "messages"
        /\ current' = [current EXCEPT ![l] = e]
        /\ stage' = [stage EXCEPT ![l] = how]
        /\ UNCHANGED batch
     \/ /\ l[2] = "events"
        /\ Onward(l, batch[l] \ {e})
  /\ UNCHANGED <<entry, frames, answered, handled>>
  /\ UNCHANGED peerVars /\ UNCHANGED requestVars

\* A response frame reaches its stream; without the group nobody reads it.
AppendFrame(r, kind) ==
  /\ answered' = answered \cup {r}
  /\ frames' = IF sender[r] \in Peer /\ "responses" \in groups[sender[r]]
               THEN frames \cup {<<r, kind>>} ELSE frames

\* The response is published, or the attempt fails and the error frame is tried.
Reply(l) ==
  /\ up[l[1]] /\ stage[l] = "reply"
  /\ \/ AppendFrame(current[l], "ok") /\ stage' = [stage EXCEPT ![l] = "ack"]
     \/ /\ AppendFrame(current[l], "ok") \/ UNCHANGED <<answered, frames>>
        /\ stage' = [stage EXCEPT ![l] = "failure"]
  /\ UNCHANGED <<batch, current, entry, handled>>
  /\ UNCHANGED peerVars /\ UNCHANGED requestVars

\* A mutated form: the failure is swallowed and the entry acknowledged.
AckAnyway(l) == stage' = [stage EXCEPT ![l] = "ack"] /\ UNCHANGED <<batch, current>>

\* The error of a failed publication leaves handleStreamEntry().
GiveUp(l) == Onward(l, {})

\* The error frame is published, or the batch is abandoned.
ReplyError(l) ==
  /\ up[l[1]] /\ stage[l] \in {"failure", "blank"}
  /\ LET kind == IF stage[l] = "blank" THEN "blank" ELSE "error" IN
       \/ /\ AppendFrame(current[l], kind)
          /\ stage' = [stage EXCEPT ![l] = "ack"] /\ UNCHANGED <<batch, current>>
       \/ /\ AppendFrame(current[l], kind) \/ UNCHANGED <<answered, frames>>
          /\ GiveUp(l)
  /\ UNCHANGED <<entry, handled>>
  /\ UNCHANGED peerVars /\ UNCHANGED requestVars

\* XACK and XDEL; a failure of either abandons the rest of the batch.
Ack(l) ==
  /\ up[l[1]] /\ stage[l] = "ack"
  /\ \/ /\ entry' = [entry EXCEPT ![current[l]] = "acked"]
        /\ \/ Onward(l, batch[l] \ {current[l]})
           \/ Onward(l, {})
     \/ UNCHANGED entry /\ Onward(l, {})
  /\ UNCHANGED <<frames, answered, handled>>
  /\ UNCHANGED peerVars /\ UNCHANGED requestVars

\* An error field without text reads as no error.
Meaning(kind) == IF kind = "error" THEN "error" ELSE "ok"

\* handleInboundResponse: only a pending request can be settled by a frame.
Deliver(r, kind) ==
  /\ Alive(r) /\ <<r, kind>> \in frames
  /\ listen[sender[r]] = "on" /\ closeAt[sender[r]] # "release"
  /\ frames' = frames \ {<<r, kind>>}
  /\ SettleAll({r} \cap pendingRequests, Meaning(kind))
  /\ UNCHANGED <<sender, publication, entry, answered, handled>>
  /\ UNCHANGED peerVars /\ UNCHANGED loopVars

\* A frame is lost: trimmed, unreadable because what the handler returned is
\* no JSON text, or left behind when its batch was abandoned.
LoseFrame(f) ==
  /\ f \in frames
  /\ frames' = frames \ {f}
  /\ UNCHANGED <<entry, answered, handled>>
  /\ UNCHANGED peerVars /\ UNCHANGED requestVars /\ UNCHANGED loopVars

-----------------------------------------------------------------------------
(***************************************************************************)
(* close(): wait for a running listen(), for the poll loops, then give up  *)
(* the groups and reject whatever is still pending.                        *)
(***************************************************************************)
CloseTransport(n) ==
  /\ closeAt[n] = "none"
  /\ closing' = [closing EXCEPT ![n] = TRUE]
  /\ closeAt' = [closeAt EXCEPT ![n] = "loops"]
  /\ UNCHANGED <<up, listen, groups, entry, frames, answered, handled>>
  /\ UNCHANGED requestVars /\ UNCHANGED loopVars

LoopsEnded(n) ==
  /\ up[n] /\ closeAt[n] = "loops" /\ listen[n] \in {"off", "on"}
  /\ \A s \in Stream : stage[<<n, s>>] \in {"off", "ended"}
  /\ closeAt' = [closeAt EXCEPT ![n] = "release"]
  /\ UNCHANGED <<up, listen, groups, closing, entry, frames, answered, handled>>
  /\ UNCHANGED requestVars /\ UNCHANGED loopVars

SentBy(n) == {r \in Request : sender[r] = n}

Unanswered(n) == SentBy(n) \cap pendingRequests

\* The groups are destroyed as far as Redis obeys, then the finally block.
Released(n, kept) ==
  /\ up[n] /\ closeAt[n] = "release"
  /\ closeAt' = [closeAt EXCEPT ![n] = "none"]
  /\ listen' = [listen EXCEPT ![n] = "off"]
  /\ groups' = [groups EXCEPT ![n] = @ \cap kept]
  /\ entry' = [e \in Entry |->
                 IF (\E v \in Event : e = <<v, n>>) /\ entry[e] \in Peer \cup {"queued"}
                    /\ "events" \notin kept
                 THEN "dropped" ELSE entry[e]]
  /\ frames' = {f \in frames : f[1] \notin SentBy(n)}
  /\ stage' = [l \in Loop |-> IF l[1] = n THEN "off" ELSE stage[l]]
  /\ SettleAll(Unanswered(n), "error")
  /\ UNCHANGED <<up, closing, sender, publication, batch, current, answered, handled>>

\* The process dies; what it had read stays pending in Redis.
Crash(n) ==
  /\ up[n] /\ n \in MayCrash
  /\ up' = [up EXCEPT ![n] = FALSE]
  /\ UNCHANGED <<listen, groups, closing, closeAt, entry, frames, answered,
                 handled>>
  /\ UNCHANGED requestVars /\ UNCHANGED loopVars
=============================================================================
