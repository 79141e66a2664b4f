------------------------------ MODULE AtomicCell ------------------------------
(***************************************************************************)
(* What CacheService.update() promises about one key                       *)
(* (packages/cache-manager/src/atomic-update.ts, CacheAtomicUpdate): each  *)
(* update takes effect at one instant and at most once, on what the key    *)
(* holds at that instant.  The content of a live entry is the set of calls *)
(* it is made of: a write starts afresh, an update adds itself.            *)
(***************************************************************************)
CONSTANT Call

VARIABLES
    cell,     \* the calls the live entry is made of, {} if there is none
    applied   \* updates that took effect

vars == <<cell, applied>>

Init == cell = {} /\ applied = {}

Update(c) ==
    /\ c \notin applied
    /\ cell' \in {cell \cup {c}, {}}
    /\ applied' = applied \cup {c}

Overwrite(c) ==
    /\ c \notin applied
    /\ cell' = {c}
    /\ UNCHANGED applied

\* Deleted, reset, expired or evicted.
Vanish == cell' = {} /\ UNCHANGED applied

Next == Vanish \/ \E c \in Call : Update(c) \/ Overwrite(c)

Spec == Init /\ [][Next]_vars
=============================================================================
