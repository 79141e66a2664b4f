---------------------------- MODULE Microservice ----------------------------
(***************************************************************************)
(* MicroserviceLifecycleService over the Redis Streams transport: the      *)
(* service starts the transport, admits inbound work until a shutdown      *)
(* begins, drains what it admitted and only then closes the transport.     *)
(*                                                                         *)
(* The inbound work the service tracks is exactly the set of poll loops    *)
(* that wait for a handler, so it needs no variable of its own.            *)
(***************************************************************************)
EXTENDS RedisStreams

VARIABLES
  lifecycle,      \* lifecycle[n]: lifecycleState
  closeStarted,   \* closeStarted[n]: set by close() and markShutdownStarted()
  closer,         \* closer[n]: how far closeTransport() has come
  listenError     \* listenError[n]: the listen() it waited for failed

serviceVars == <<lifecycle, closeStarted, closer, listenError>>
messagingVars == <<streamVars, serviceVars>>

MessagingInit ==
  /\ StreamsInit
  /\ lifecycle = [n \in Peer |-> IF n \in Listening THEN "ready" ELSE "created"]
  /\ closeStarted = [n \in Peer |-> FALSE]
  /\ closer = [n \in Peer |-> "none"]
  /\ listenError = [n \in Peer |-> FALSE]

\* listen(): refused after a shutdown began, a no-op while or once it listens.
ServiceListen(n) ==
  /\ up[n] /\ ~closeStarted[n]
  /\ OpenTransport(n)
  /\ lifecycle' = [lifecycle EXCEPT ![n] = "starting"]
  /\ UNCHANGED <<closeStarted, closer, listenError>>

ServiceListening(n) ==
  /\ up[n] /\ GroupCreated(n)
  /\ lifecycle' = [lifecycle EXCEPT ![n] = IF listen'[n] = "on" THEN "ready" ELSE @]
  /\ UNCHANGED <<closeStarted, closer, listenError>>

ServiceListenFailed(n) ==
  /\ up[n] /\ GroupFailed(n)
  /\ lifecycle' = [lifecycle EXCEPT ![n] = "failed"]
  /\ listenError' = [listenError EXCEPT ![n] = closer[n] = "listen"]
  /\ UNCHANGED <<closeStarted, closer>>

ServiceSend(n, r) ==
  /\ up[n] /\ ~closeStarted[n] /\ SendRequest(n, r) /\ UNCHANGED serviceVars

ServiceEmit(n, e) ==
  /\ ~closeStarted[n] /\ Emit(n, e) /\ UNCHANGED serviceVars

AdmitsWork(n) == ~closeStarted[n]

\* trackInboundWork(): the handler runs, or the call is refused.
Admit(l) ==
  /\ AdmitsWork(l[1]) /\ Enter(l) /\ UNCHANGED serviceVars

Refuse(l) ==
  /\ up[l[1]] /\ stage[l] = "next" /\ ~AdmitsWork(l[1])
  /\ \E e \in Parsed(l) : Throw(l, e, "failure")
  /\ UNCHANGED serviceVars

HandlerEnds(l) ==
  /\ \/ HandlerReturns(l)
     \/ /\ up[l[1]] /\ stage[l] = "handler"
        /\ \E how \in {"failure"} \cup (IF BlankErrors THEN {"blank"} ELSE {}) :
             Throw(l, current[l], how)
  /\ UNCHANGED serviceVars

Inbound(n) == {s \in Stream : stage[<<n, s>>] = "handler"}

MarkShutdown(n) ==
  /\ up[n] /\ ~closeStarted[n] /\ n \in MayClose
  /\ closeStarted' = [closeStarted EXCEPT ![n] = TRUE]
  /\ UNCHANGED streamVars /\ UNCHANGED <<lifecycle, closer, listenError>>

\* close(): the first call starts closeTransport(), the others share it.
ServiceClose(n) ==
  /\ up[n] /\ closer[n] = "none" /\ n \in MayClose
  /\ closeStarted' = [closeStarted EXCEPT ![n] = TRUE]
  /\ closer' = [closer EXCEPT ![n] = "listen"]
  /\ UNCHANGED streamVars /\ UNCHANGED <<lifecycle, listenError>>

StartDrain(n) ==
  /\ up[n] /\ closer[n] = "listen" /\ listen[n] \in {"off", "on"}
  /\ lifecycle' = [lifecycle EXCEPT ![n] = "stopping"]
  /\ closer' = [closer EXCEPT ![n] = "drain"]
  /\ UNCHANGED streamVars /\ UNCHANGED <<closeStarted, listenError>>

Drained(n) ==
  /\ up[n] /\ closer[n] = "drain" /\ Inbound(n) = {}
  /\ CloseTransport(n)
  /\ closer' = [closer EXCEPT ![n] = "transport"]
  /\ UNCHANGED <<lifecycle, closeStarted, listenError>>

\* A failed command of the transport's close, or of listen(), is reported.
Closed(n) ==
  /\ closer[n] = "transport"
  /\ \E kept \in SUBSET groups[n], error \in BOOLEAN :
       /\ kept # {} => error
       /\ Released(n, kept)
       /\ lifecycle' = [lifecycle EXCEPT
                          ![n] = IF error \/ listenError[n] THEN "failed" ELSE "stopped"]
  /\ closer' = [closer EXCEPT ![n] = "done"]
  /\ UNCHANGED <<closeStarted, listenError>>

-----------------------------------------------------------------------------
\* What a node does by itself once its commands are answered.
LoopStep(l) ==
  \/ (EndPoll(l) \/ Discard(l) \/ Reply(l) \/ ReplyError(l) \/ Ack(l))
     /\ UNCHANGED serviceVars
  \/ Admit(l) \/ Refuse(l) \/ HandlerEnds(l)

PeerStep(n) ==
  \/ ServiceListening(n) \/ ServiceListenFailed(n)
  \/ StartDrain(n) \/ Drained(n) \/ Closed(n)
  \/ LoopsEnded(n) /\ UNCHANGED serviceVars

MessagingNext ==
  \/ \E n \in Peer :
       \/ PeerStep(n) \/ ServiceListen(n) \/ MarkShutdown(n) \/ ServiceClose(n)
       \/ Crash(n) /\ UNCHANGED serviceVars
       \/ \E r \in Request : ServiceSend(n, r)
       \/ \E e \in Event : ServiceEmit(n, e)
  \/ \E l \in Loop :
       \/ LoopStep(l)
       \/ (Reclaim(l) \/ Read(l)) /\ UNCHANGED serviceVars
  \/ \E r \in Request :
       \/ (Dispatch(r) \/ Publish(r) \/ RequestExpires(r)) /\ UNCHANGED serviceVars
       \/ \E kind \in {"ok", "error", "blank"} : Deliver(r, kind) /\ UNCHANGED serviceVars
  \/ \E f \in frames : LoseFrame(f) /\ UNCHANGED serviceVars

\* The request timer fires; commands and handlers settle.
MessagingFairness ==
  /\ \A r \in Request : WF_messagingVars(RequestExpires(r) /\ UNCHANGED serviceVars)
  /\ \A l \in Loop : WF_messagingVars(LoopStep(l))
  /\ \A n \in Peer : WF_messagingVars(PeerStep(n))

MessagingSpec == MessagingInit /\ [][MessagingNext]_messagingVars

-----------------------------------------------------------------------------
(***************************************************************************)
(* The state of the transport and of the service that drives it.           *)
(***************************************************************************)
MessagingTypeOK ==
  /\ up \in [Peer -> BOOLEAN]
  /\ listen \in [Peer -> {"off", "messages", "events", "responses", "on"}]
  /\ groups \in [Peer -> SUBSET {"events", "responses"}]
  /\ closing \in [Peer -> BOOLEAN]
  /\ closeAt \in [Peer -> {"none", "loops", "release"}]
  /\ sender \in [Request -> Peer \cup {NoPeer}]
  /\ publication \in [Request -> {"none", "dispatch", "xadd", "done"}]
  /\ pendingRequests \subseteq Request
  /\ outcome \in [Request -> {"none", "ok", "error"}]
  /\ entry \in [Entry -> Peer \cup {"absent", "queued", "acked", "dropped"}]
  /\ stage \in [Loop -> {"off", "polling", "next", "handler", "reply", "failure",
                         "blank", "ack", "ended"}]
  /\ batch \in [Loop -> SUBSET Entry]
  /\ current \in [Loop -> Entry \cup {NoEntry}]
  /\ \A l \in Loop : stage[l] \in {"off", "polling", "ended"} =>
                       batch[l] = {} /\ current[l] = NoEntry
  /\ frames \subseteq Request \X {"ok", "error", "blank"}
  /\ answered \subseteq Request
  /\ handled \subseteq Entry
  /\ lifecycle \in [Peer -> {"created", "starting", "ready", "stopping",
                             "stopped", "failed"}]
  /\ closeStarted \in [Peer -> BOOLEAN]
  /\ closer \in [Peer -> {"none", "listen", "drain", "transport", "done"}]
  /\ listenError \in [Peer -> BOOLEAN]

(***************************************************************************)
(* A well-formed entry leaves the pending list of its group only after a   *)
(* response was published for the request, or the node's handlers          *)
(* completed the event: whatever fails, and whoever crashes before, the    *)
(* entry is still there to be reclaimed (pollStream acknowledges after     *)
(* handleStreamEntry).  A malformed one is acknowledged without handler or *)
(* answer: the sender of such a request only sees its own timeout.         *)
(***************************************************************************)
AckedAnswered ==
  \A e \in Entry \ Malformed : entry[e] = "acked" =>
    IF e \in Request THEN e \in answered ELSE e \in handled

(***************************************************************************)
(* A request whose handlers all failed is reported as failed: send() only  *)
(* resolves for a request some handler completed.                          *)
(***************************************************************************)
ErrorsRoundTrip == \A r \in Request : outcome[r] = "ok" => r \in handled

(***************************************************************************)
(* send() resolves only for a request some handler completed, and a call   *)
(* that still waits is one whose caller has been told nothing: deliveries, *)
(* duplicates of a reclaimed entry, timeouts and close() do not mix up the *)
(* pending map and the promises.                                           *)
(***************************************************************************)
TruthfulReply ==
  /\ ErrorsRoundTrip
  /\ \A r \in Request : r \in pendingRequests <=> (sender[r] # NoPeer /\ outcome[r] = "none")

\* Both directions of a request: no well-formed entry is lost without an answer,
\* and no answer is made up, through crashes, redeliveries and late responses.
RepliesSound == AckedAnswered /\ TruthfulReply

(***************************************************************************)
(* Once close() has reached the transport no handler of the service runs:  *)
(* what was admitted has been drained and nothing is admitted any more,    *)
(* although the poll loops go on reading until they see the flag.          *)
(***************************************************************************)
DrainedClose ==
  \A n \in Peer : closer[n] \in {"transport", "done"} => Inbound(n) = {}

(***************************************************************************)
(* After close() no call waits for an answer that nobody will deliver, no  *)
(* poll loop of the node survives and listen() cannot revive it, also when *)
(* close() met a listen() in progress or Redis refused its commands.       *)
(***************************************************************************)
ClosedIsFinal ==
  \A n \in Peer : closer[n] = "done" =>
    /\ lifecycle[n] \in {"stopped", "failed"}
    /\ listen[n] = "off"
    /\ SentBy(n) \cap pendingRequests = {}
    /\ \A s \in Stream : stage[<<n, s>>] = "off" /\ batch[<<n, s>>] = {}

(***************************************************************************)
(* Every call of send() settles, unless its process dies: the timer, the   *)
(* answer, a failed publication or close() reaches it.                     *)
(***************************************************************************)
SendSettles ==
  \A r \in Request : sender[r] # NoPeer ~> (outcome[r] # "none" \/ ~Alive(r))

(***************************************************************************)
(* close() ends: the drain is not starved by work that keeps arriving and  *)
(* every poll loop sees the closing flag.                                  *)
(***************************************************************************)
CloseEnds ==
  \A n \in Peer : closer[n] # "none" ~> (closer[n] = "done" \/ ~up[n])
=============================================================================
