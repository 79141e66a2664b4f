------------------------------- MODULE LeaseLock -------------------------------
(***************************************************************************)
(* What the distributed lock of @fluojs/cron promises the tasks that run   *)
(* under it: the key has one owner at a time, a task body runs only for a  *)
(* claim that was granted, and nobody gives the key back while the body of *)
(* its owner runs.  A lease may run out at any time: it is no fence.       *)
(***************************************************************************)
CONSTANTS Claim, Nobody

VARIABLES
    owner,    \* the claim that holds the key
    lapsed,   \* claims whose lease ran out
    working   \* claims whose task body runs

vars == <<owner, lapsed, working>>

Init == owner = Nobody /\ lapsed = {} /\ working = {}

Grant(c) ==
    /\ owner = Nobody /\ c \notin lapsed \cup working
    /\ owner' = c
    /\ UNCHANGED <<lapsed, working>>

\* The lease may have run out before its claimant hears of it.
Begin(c) ==
    /\ c = owner \/ c \in lapsed
    /\ working' = working \cup {c}
    /\ UNCHANGED <<owner, lapsed>>

End(c) ==
    /\ working' = working \ {c}
    /\ UNCHANGED <<owner, lapsed>>

GiveBack ==
    /\ owner \in Claim \ working
    /\ owner' = Nobody
    /\ UNCHANGED <<lapsed, working>>

RunOut ==
    /\ owner \in Claim
    /\ owner' = Nobody /\ lapsed' = lapsed \cup {owner}
    /\ UNCHANGED working

Next == GiveBack \/ RunOut \/ \E c \in Claim : Grant(c) \/ Begin(c) \/ End(c)

Spec == Init /\ [][Next]_vars
=============================================================================
