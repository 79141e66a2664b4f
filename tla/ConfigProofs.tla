----------------------------- MODULE ConfigProofs -----------------------------
(***************************************************************************)
(* Proofs about the reload of the configuration (ConfigReload), for any    *)
(* number of edits and of reload() calls by listeners: between reloads the *)
(* service shows what was committed last, no edit is missed, and a queued  *)
(* reload is served.                                                       *)
(***************************************************************************)
EXTENDS ConfigReload, TLAPS

(* The parts of the inductive invariant *)

\* Every content in use is one that the file has had.
ContentsSound ==
    /\ \A content \in {snapshot, current, watchedHash, nextHash, previous,
                       previousConfig, asked, committed} : content <= file
    /\ told <= file \/ told = Never

\* An open manager watches exactly while it has a reloader; a closed one has
\* none, and a reloader is created for an open manager only.
ManagerSound ==
    /\ watching = reloader
    /\ isClosed => ~reloader
    /\ thread \in {"create", "hash", "watch"} => ~reloader /\ ~isClosed
    /\ thread = "return" => isClosed
    /\ seen => watching \/ isClosed

\* While the listeners are called, the values to go back to are the committed
\* ones; at all other times the service shows the committed ones.
CommitSound ==
    /\ thread # "notify" => snapshot = committed
    /\ thread \in {"idle", "load"} /\ reloader => current = snapshot
    /\ thread \in {"hash", "watch"} =>
          /\ snapshot <= current
          /\ caller # "bootstrap" => current = snapshot
    /\ thread = "notify" =>
          /\ snapshot = current /\ previousConfig = committed
          /\ reloader => previous = previousConfig

\* Nothing more will come of the last edit: its notification was served, or the
\* content has the hash that the watchers compare with.
Settled == watching /\ seen /\ (file = watchedHash \/ (~notice /\ ~debounce))

EditsSound ==
    /\ thread = "idle" /\ Settled => file \in {snapshot, told}
    /\ thread = "notify" /\ Settled => file = snapshot
    /\ thread = "notify" /\ caller = "watch" => nextHash <= current

\* What a listener asked for is in force, or a reload is still to come.
QueueSound ==
    ~isClosed /\ thread # "load" /\ asked > snapshot => thread = "notify" /\ pendingReload

ConfigInv ==
    /\ ConfigTypeOK /\ ContentsSound /\ ManagerSound /\ CommitSound /\ EditsSound /\ QueueSound

-----------------------------------------------------------------------------
(* Each step preserves it *)

\* The types of the variables, one by one.
NumbersTyped ==
    /\ file \in Nat /\ file <= MaxEdits
    /\ snapshot \in Nat /\ snapshot <= file /\ current \in Nat /\ current <= file
    /\ watchedHash \in Nat /\ watchedHash <= file /\ nextHash \in Nat /\ nextHash <= file
    /\ previous \in Nat /\ previous <= file
    /\ previousConfig \in Nat /\ previousConfig <= file
    /\ asked \in Nat /\ asked <= file /\ committed \in Nat /\ committed <= file
    /\ told \in Nat /\ (told <= file \/ told = MaxEdits + 1)
    /\ queued \in Nat /\ queued <= MaxQueued

FlagsTyped ==
    /\ reloader \in BOOLEAN /\ isClosed \in BOOLEAN /\ watching \in BOOLEAN
    /\ notice \in BOOLEAN /\ debounce \in BOOLEAN /\ pendingReload \in BOOLEAN
    /\ seen \in BOOLEAN

CallsTyped ==
    /\ thread \in {"idle", "create", "hash", "watch", "load", "notify", "return"}
    /\ caller \in {"standalone", "bootstrap", "manual", "watch"}

EachTyped == NumbersTyped /\ FlagsTyped /\ CallsTyped

LEMMA Bounds == MaxEdits \in Nat /\ MaxQueued \in Nat /\ Never = MaxEdits + 1
BY ConfigAssumption DEF Never

LEMMA Typed == ConfigTypeOK /\ ContentsSound <=> EachTyped
<1> USE Bounds
<1>1. ASSUME ConfigTypeOK, ContentsSound PROVE EachTyped
  BY <1>1 DEF ConfigTypeOK, ContentsSound, Content, EachTyped, NumbersTyped, FlagsTyped,
              CallsTyped
<1>2. ASSUME EachTyped PROVE ConfigTypeOK
  BY <1>2 DEF ConfigTypeOK, Content, EachTyped, NumbersTyped, FlagsTyped, CallsTyped
<1>3. ASSUME EachTyped PROVE ContentsSound
  BY <1>3 DEF ContentsSound, EachTyped, NumbersTyped
<1> QED
  BY <1>1, <1>2, <1>3

LEMMA NumbersKept ==
    ASSUME NumbersTyped, [ConfigNext]_configVars
    PROVE  NumbersTyped'
<1> USE Bounds DEF NumbersTyped
<1>1. CASE Edit
  BY <1>1 DEF Edit, reloadLocals
<1>2. CASE OnApplicationBootstrap
  BY <1>2 DEF OnApplicationBootstrap, watchVars, reloadLocals
<1>3. CASE Reload
  BY <1>3 DEF Reload, watchVars, reloadLocals
<1>4. CASE InitialSnapshot
  BY <1>4 DEF InitialSnapshot, watchVars, reloadLocals
<1>5. CASE InitialHash
  BY <1>5 DEF InitialHash, watchVars, reloadLocals
<1>6. CASE StartWatchers
  BY <1>6 DEF StartWatchers, reloadLocals
<1>7. CASE CreateFails
  BY <1>7 DEF CreateFails, watchVars, reloadLocals
<1>8. CASE Notify
  BY <1>8 DEF Notify, reloadLocals
<1>9. CASE DebounceOver
  BY <1>9 DEF DebounceOver
<1>10. CASE DebounceFails
  BY <1>10 DEF DebounceFails, reloadLocals
<1>11. CASE Load
  BY <1>11 DEF Load, watchVars
<1>12. CASE LoadFails
  BY <1>12 DEF LoadFails, Fails, watchVars, reloadLocals
<1>13. CASE ListenerThrows
  BY <1>13 DEF ListenerThrows, Fails, watchVars, reloadLocals
<1>14. CASE ListenerReloads
  BY <1>14 DEF ListenerReloads, watchVars, reloadLocals
<1>15. CASE Returns
  BY <1>15 DEF Returns, CommittedHash, watchVars, reloadLocals
<1>16. CASE Close
  BY <1>16 DEF Close, reloadLocals
<1>17. CASE UNCHANGED configVars
  BY <1>17 DEF configVars
<1> QED
  BY <1>1, <1>2, <1>3, <1>4, <1>5, <1>6, <1>7, <1>8, <1>9, <1>10, <1>11, <1>12,
     <1>13, <1>14, <1>15, <1>16, <1>17
  DEF ConfigNext

LEMMA FlagsKept ==
    ASSUME FlagsTyped, [ConfigNext]_configVars
    PROVE  FlagsTyped'
<1> USE DEF FlagsTyped
<1>1. CASE Edit
  BY <1>1 DEF Edit, reloadLocals
<1>2. CASE OnApplicationBootstrap
  BY <1>2 DEF OnApplicationBootstrap, watchVars, reloadLocals
<1>3. CASE Reload
  BY <1>3 DEF Reload, watchVars, reloadLocals
<1>4. CASE InitialSnapshot
  BY <1>4 DEF InitialSnapshot, watchVars, reloadLocals
<1>5. CASE InitialHash
  BY <1>5 DEF InitialHash, watchVars, reloadLocals
<1>6. CASE StartWatchers
  BY <1>6 DEF StartWatchers, reloadLocals
<1>7. CASE CreateFails
  BY <1>7 DEF CreateFails, watchVars, reloadLocals
<1>8. CASE Notify
  BY <1>8 DEF Notify, reloadLocals
<1>9. CASE DebounceOver
  BY <1>9 DEF DebounceOver
<1>10. CASE DebounceFails
  BY <1>10 DEF DebounceFails, reloadLocals
<1>11. CASE Load
  BY <1>11 DEF Load, watchVars
<1>12. CASE LoadFails
  BY <1>12 DEF LoadFails, Fails, watchVars, reloadLocals
<1>13. CASE ListenerThrows
  BY <1>13 DEF ListenerThrows, Fails, watchVars, reloadLocals
<1>14. CASE ListenerReloads
  BY <1>14 DEF ListenerReloads, watchVars, reloadLocals
<1>15. CASE Returns
  BY <1>15 DEF Returns, CommittedHash, watchVars, reloadLocals
<1>16. CASE Close
  BY <1>16 DEF Close, reloadLocals
<1>17. CASE UNCHANGED configVars
  BY <1>17 DEF configVars
<1> QED
  BY <1>1, <1>2, <1>3, <1>4, <1>5, <1>6, <1>7, <1>8, <1>9, <1>10, <1>11, <1>12,
     <1>13, <1>14, <1>15, <1>16, <1>17
  DEF ConfigNext

LEMMA CallsKept ==
    ASSUME CallsTyped, [ConfigNext]_configVars
    PROVE  CallsTyped'
<1> USE DEF CallsTyped
<1>1. CASE Edit
  BY <1>1 DEF Edit, reloadLocals
<1>2. CASE OnApplicationBootstrap
  BY <1>2 DEF OnApplicationBootstrap, watchVars, reloadLocals
<1>3. CASE Reload
  BY <1>3 DEF Reload, watchVars, reloadLocals
<1>4. CASE InitialSnapshot
  BY <1>4 DEF InitialSnapshot, watchVars, reloadLocals
<1>5. CASE InitialHash
  BY <1>5 DEF InitialHash, watchVars, reloadLocals
<1>6. CASE StartWatchers
  BY <1>6 DEF StartWatchers, reloadLocals
<1>7. CASE CreateFails
  BY <1>7 DEF CreateFails, watchVars, reloadLocals
<1>8. CASE Notify
  BY <1>8 DEF Notify, reloadLocals
<1>9. CASE DebounceOver
  BY <1>9 DEF DebounceOver
<1>10. CASE DebounceFails
  BY <1>10 DEF DebounceFails, reloadLocals
<1>11. CASE Load
  BY <1>11 DEF Load, watchVars
<1>12. CASE LoadFails
  BY <1>12 DEF LoadFails, Fails, watchVars, reloadLocals
<1>13. CASE ListenerThrows
  BY <1>13 DEF ListenerThrows, Fails, watchVars, reloadLocals
<1>14. CASE ListenerReloads
  BY <1>14 DEF ListenerReloads, watchVars, reloadLocals
<1>15. CASE Returns
  BY <1>15 DEF Returns, CommittedHash, watchVars, reloadLocals
<1>16. CASE Close
  BY <1>16 DEF Close, reloadLocals
<1>17. CASE UNCHANGED configVars
  BY <1>17 DEF configVars
<1> QED
  BY <1>1, <1>2, <1>3, <1>4, <1>5, <1>6, <1>7, <1>8, <1>9, <1>10, <1>11, <1>12,
     <1>13, <1>14, <1>15, <1>16, <1>17
  DEF ConfigNext

LEMMA StepKeepsInv ==
    ASSUME ConfigInv, [ConfigNext]_configVars
    PROVE  ConfigInv'
<1> DEFINE Rest == ManagerSound /\ CommitSound /\ EditsSound /\ QueueSound
<1>t. EachTyped /\ EachTyped'
  BY Typed, NumbersKept, FlagsKept, CallsKept DEF ConfigInv, EachTyped
<1>u. ConfigTypeOK' /\ ContentsSound'
  BY <1>t, Typed, PTL
<1> SUFFICES Rest'
  BY <1>u DEF ConfigInv
<1> USE <1>t, Bounds DEF EachTyped, NumbersTyped, FlagsTyped, CallsTyped, ConfigInv, ManagerSound, CommitSound, EditsSound, QueueSound, Settled
<1>1. CASE Edit
  BY <1>1 DEF Edit, reloadLocals
<1>2. CASE OnApplicationBootstrap
  BY <1>2 DEF OnApplicationBootstrap, Open, watchVars, reloadLocals
<1>3. CASE Reload
  BY <1>3 DEF Reload, Open, watchVars, reloadLocals
<1>4. CASE InitialSnapshot \/ InitialHash
  BY <1>4 DEF InitialSnapshot, InitialHash, watchVars, reloadLocals
<1>5. CASE StartWatchers
  BY <1>5 DEF StartWatchers, reloadLocals
<1>6. CASE CreateFails
  BY <1>6 DEF CreateFails, watchVars, reloadLocals
<1>7. CASE Notify \/ DebounceOver \/ DebounceFails
  BY <1>7 DEF Notify, DebounceOver, DebounceFails, reloadLocals
<1>8. CASE Load
  BY <1>8 DEF Load, watchVars, reloadLocals
<1>9. CASE LoadFails \/ ListenerThrows
  BY <1>9 DEF LoadFails, ListenerThrows, Fails, watchVars, reloadLocals
<1>10. CASE ListenerReloads
  BY <1>10 DEF ListenerReloads, watchVars, reloadLocals
<1>11. CASE Returns
  BY <1>11 DEF Returns, CommittedHash, watchVars, reloadLocals
<1>12. CASE Close
  BY <1>12 DEF Close, reloadLocals
<1>13. CASE UNCHANGED configVars
  BY <1>13 DEF configVars
<1> QED
  BY <1>1, <1>2, <1>3, <1>4, <1>5, <1>6, <1>7, <1>8, <1>9, <1>10, <1>11, <1>12, <1>13
  DEF ConfigNext

LEMMA Initially == ConfigInit => ConfigInv
<1> SUFFICES ASSUME ConfigInit PROVE ConfigInv
  OBVIOUS
<1>1. ConfigTypeOK /\ ContentsSound
  <2>1. EachTyped
    <3>1. NumbersTyped
      BY Bounds DEF ConfigInit, NumbersTyped
    <3>2. FlagsTyped
      BY DEF ConfigInit, FlagsTyped
    <3>3. CallsTyped
      BY DEF ConfigInit, CallsTyped
    <3> QED
      BY <3>1, <3>2, <3>3 DEF EachTyped
  <2> QED
    BY <2>1, Typed
<1>2. ManagerSound /\ CommitSound /\ EditsSound /\ QueueSound
  <2> USE DEF ConfigInit
  <2>1. ManagerSound
    BY DEF ManagerSound
  <2>2. CommitSound
    BY DEF CommitSound
  <2>3. EditsSound
    BY DEF EditsSound, Settled
  <2>4. QueueSound
    BY DEF QueueSound
  <2> QED
    BY <2>1, <2>2, <2>3, <2>4
<1> QED
  BY <1>1, <1>2 DEF ConfigInv

-----------------------------------------------------------------------------
(* The results *)

\* The inductive invariant of the reload holds.
THEOREM ConfigInvariant == ConfigSpec => []ConfigInv
<1>1. ConfigInv /\ [ConfigNext]_configVars => ConfigInv'
  BY StepKeepsInv
<1> QED
  BY <1>1, Initially, PTL DEF ConfigSpec

\* Between reloads the service shows the last content that every listener has
\* accepted; an edit is shown, or somebody is told why not; what a listener has
\* asked for is in force before the outer reload returns (reload-module.ts and
\* load.ts, applyReload() and scheduleWatchReload()).
THEOREM ConfigStaysInForce == ConfigSpec => []ConfigInForce
<1>1. ConfigInv => ConfigInForce
  <2> SUFFICES ASSUME ConfigInv PROVE ConfigInForce
    OBVIOUS
  <2>1. LastCommitted /\ EditsNotMissed
    BY DEF ConfigInv, CommitSound, EditsSound, Settled, LastCommitted, EditsNotMissed
  <2>2. QueuedReloadServed
    BY Typed DEF ConfigInv, EachTyped, NumbersTyped, QueueSound, QueuedReloadServed, Open
  <2> QED
    BY <2>1, <2>2 DEF ConfigInv, ConfigInForce
<1> QED
  BY <1>1, ConfigInvariant, PTL
=============================================================================
