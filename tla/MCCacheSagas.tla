----------------------------- MODULE MCCacheSagas -----------------------------
(* The cache and the CQRS event bus.  Of the cache: calls of one service over *)
(* an arbitrary store, updates of two services that share a memory store, and *)
(* updates of two processes through Redis.  Of the bus: a saga "order" that   *)
(* continues its own events, and a mailer, one route of which is inherited.   *)
(* The parts share no variable, so a behaviour is of one of them (`focus')    *)
(* and their states add up instead of multiplying.  Calls, services and       *)
(* processes that are alike are used in one order.                            *)
EXTENDS Cache, SagaBus, TLC

CONSTANTS order, mailer, placed, paid, billed

Via(saga, type) == [token |-> saga, type |-> type]

Routing ==
    (placed :> <<Via(order, placed)>>)
      @@ (paid :> <<Via(order, paid), Via(mailer, paid), Via(mailer, placed)>>)
      @@ (billed :> <<Via(order, billed)>>)

\* As above, but no saga takes `paid': only the delegated event bus does.
RoutingPastBus ==
    (placed :> <<Via(order, placed)>>) @@ (paid :> <<>>)
      @@ (billed :> <<Via(order, billed)>>)

Publishing == (order :> {paid}) @@ (mailer :> {})

Reacting == (placed :> {}) @@ (paid :> {billed}) @@ (billed :> {})

-----------------------------------------------------------------------------
VARIABLE focus

MCInit ==
    /\ Init /\ UpdateInit /\ DistInit /\ SagaInit
    /\ focus \in {"service", "update", "redis", "sagas"}

OfService == focus = "service" /\ UNCHANGED <<updateVars, distVars, sagaVars, focus>>
OfUpdate == focus = "update" /\ UNCHANGED <<vars, distVars, sagaVars, focus>>
OfRedis == focus = "redis" /\ UNCHANGED <<vars, updateVars, sagaVars, focus>>
OfSagas == focus = "sagas" /\ UNCHANGED <<vars, updateVars, distVars, focus>>

ServiceStep == OfService /\ Next

UpdateStep ==
    /\ OfUpdate /\ UpdateNext
    /\ home'[1] = 1
    /\ \A c, d \in Caller : c < d /\ phase'[d] # "idle" => phase'[c] # "idle"

\* One call is an update; the others come in order.
RedisStep ==
    /\ OfRedis /\ DistNext
    /\ at'[1] # "idle" => does'[1] = "update" /\ where'[1] = 1
    /\ \A c, d \in Op \ {1} : c < d /\ at'[d] # "idle" => at'[c] # "idle"

SagaStep == OfSagas /\ SagaNext

allVars == <<vars, updateVars, distVars, sagaVars, focus>>

\* Fairness, UpdateFairness and SagaFairness in one: as the focus never
\* changes, only one of the disjuncts is ever enabled.
Continues ==
    \/ OfService /\ \E c \in Call : Resume(c)
    \/ OfUpdate /\ \E c \in Caller : Proceed(c)
    \/ OfSagas /\ SagaProgress

MCSpec ==
    /\ MCInit
    /\ [][ServiceStep \/ UpdateStep \/ RedisStep \/ SagaStep]_allVars
    /\ WF_allVars(Continues)

-----------------------------------------------------------------------------
(* Properties *)

\* No call of the cache and no shutdown of the bus hangs: exclusive operations,
\* loads and updates wait for one another and none for itself.
CallsEnd == CallsSettle /\ UpdateCallsSettle /\ SagasStop
=============================================================================
