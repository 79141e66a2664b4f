----------------------------- MODULE MCServices -----------------------------
(* The parts of an application that start, run by themselves and stop: the   *)
(* platform shell, the lease of a cron task that two nodes run, the registry *)
(* of cron tasks of one node, and the reload of the configuration.  They     *)
(* share no variable, so a behaviour is of one of them (`focus') and their   *)
(* states add up instead of multiplying; with no platform component          *)
(* registered, the search that orders them is over at once.                  *)
(*                                                                           *)
(* The platform shell runs a diamond: the gateway needs a cache and a        *)
(* database, which need a pool.  Beside it, every list of at most three      *)
(* registrations over three ids, duplicate ids and unknown dependencies      *)
(* included, and a blank id.                                                 *)
EXTENDS Platform, CronLease, CronRegistry, ConfigReload, TLC

CONSTANTS pool, cache, db, gateway

Components == {pool, cache, db, gateway}

Diamond == (pool :> {}) @@ (cache :> {pool}) @@ (db :> {pool})
             @@ (gateway :> {cache, db})

DependencyOrder == <<pool, cache, db, gateway>>

DiamondRegistration ==
    << [id |-> gateway, dependencies |-> <<cache, db>>],
       [id |-> db, dependencies |-> <<pool>>],
       [id |-> pool, dependencies |-> <<>>],
       [id |-> cache, dependencies |-> <<pool>>] >>

Lists(S) == {<<>>} \cup {<<x>> : x \in S} \cup {p \in S \X S : p[1] # p[2]}

Records == [id : {pool, cache, db}, dependencies : Lists({pool, cache, db})]

AllRegistrations ==
    {<<>>, <<[id |-> Blank, dependencies |-> <<>>]>>, DiamondRegistration}
      \cup [1 .. 1 -> Records] \cup [1 .. 2 -> Records] \cup [1 .. 3 -> Records]

-----------------------------------------------------------------------------
VARIABLE focus

platformVars == <<vars, searchVars>>

ServicesInit ==
    /\ PlatformInit /\ LeaseInit /\ RegistryInit /\ ConfigInit
    /\ focus \in {"platform", "lease", "registry", "config"}
    /\ focus # "platform" => components = <<>>
    /\ focus # "config" => thread = "idle"

PlatformStep ==
    PlatformNext /\ UNCHANGED <<leaseVars, registryVars, configVars, focus>>

LeaseStep ==
    /\ focus = "lease" /\ result = "ordered" /\ LeaseNext
    /\ UNCHANGED <<platformVars, registryVars, configVars, focus>>

RegistryStep ==
    /\ focus = "registry" /\ result = "ordered" /\ RegistryNext
    /\ UNCHANGED <<platformVars, leaseVars, configVars, focus>>

ConfigStep ==
    /\ focus = "config" /\ result = "ordered" /\ ConfigNext
    /\ UNCHANGED <<platformVars, leaseVars, registryVars, focus>>

Services ==
    /\ ServicesInit
    /\ [][PlatformStep \/ LeaseStep \/ RegistryStep \/ ConfigStep]_
          <<platformVars, leaseVars, registryVars, configVars, focus>>
    /\ PlatformFairness /\ \A node \in Node : LeaseFairness(node)

-----------------------------------------------------------------------------
(* Properties *)

\* The search, every admitted transition of the shell and the shutdown of
\* every cron node end, however components, tasks and Redis answer.
ServicesEnd == Ends /\ TransitionsEnd /\ ShutdownEnds
=============================================================================
