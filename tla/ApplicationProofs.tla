-------------------------- MODULE ApplicationProofs ----------------------------
(***************************************************************************)
(* Proofs about Application, for every set of children, every number of    *)
(* startAllMicroservices() calls and every number of close() retries.      *)
(***************************************************************************)
EXTENDS Application, TLAPS

-----------------------------------------------------------------------------
(* Helpers                                                                 *)

\* The names of the five phases.
LEMMA PhaseNames ==
    /\ \A i \in 1 .. 5 : Phases[i] \in PhaseName
    /\ \A p \in PhaseName : \E i \in 1 .. 5 : Phases[i] = p
    /\ \A i, j \in 1 .. 5 : Phases[i] = Phases[j] => i = j
    /\ Phases[1] = "readiness" /\ Phases[4] = "adapter"
  BY DEF Phases, PhaseName

\* What closeRuntimeResources() finds when it looks for the next phase.
Found(j, k, complete) ==
    /\ j \in k .. 6
    /\ j = 6 \/ Phases[j] \notin complete
    /\ \A i \in k .. 5 : i < j => Phases[i] \in complete

\* There is always such a phase, or the end of the list.
LEMMA NextPhaseFound ==
    ASSUME NEW k \in 1 .. 6, NEW complete
    PROVE  Found(NextPhase(k, complete), k, complete)
<1>1. \E j \in 6 .. 6 : Found(j, 6, complete)
  BY DEF Found
<1>2. ASSUME NEW m \in 1 .. 5, \E j \in m + 1 .. 6 : Found(j, m + 1, complete)
      PROVE  \E j \in m .. 6 : Found(j, m, complete)
  <2>1. CASE Phases[m] \notin complete
    BY <2>1 DEF Found
  <2>2. CASE Phases[m] \in complete
    <3>1. PICK j \in m + 1 .. 6 : Found(j, m + 1, complete)
      BY <1>2
    <3>2. \A i \in m .. 5 : i = m \/ i \in m + 1 .. 5
      OBVIOUS
    <3> QED
      BY <2>2, <3>1, <3>2 DEF Found
  <2> QED
    BY <2>1, <2>2
<1>3. \E j \in 5 .. 6 : Found(j, 5, complete)
  BY <1>1, <1>2
<1>4. \E j \in 4 .. 6 : Found(j, 4, complete)
  BY <1>3, <1>2
<1>5. \E j \in 3 .. 6 : Found(j, 3, complete)
  BY <1>4, <1>2
<1>6. \E j \in 2 .. 6 : Found(j, 2, complete)
  BY <1>5, <1>2
<1>7. \E j \in 1 .. 6 : Found(j, 1, complete)
  BY <1>6, <1>2
<1>8. \E j \in k .. 6 : Found(j, k, complete)
  BY <1>1, <1>3, <1>4, <1>5, <1>6, <1>7
<1>9. \E j \in k .. 6 : /\ j = 6 \/ Phases[j] \notin complete
                        /\ \A i \in k .. 5 : i < j => Phases[i] \in complete
  BY <1>8 DEF Found
<1> QED
  BY <1>9 DEF Found, NextPhase

-----------------------------------------------------------------------------
(* The inductive invariant, part by part                                   *)


\* Effect of CloseChild() on the children: only an untouched one changes.
LEMMA CloseChildFacts ==
    ASSUME TypeOK, NEW c \in Child, CloseChild(c)
    PROVE  /\ mCloseStarted' \in [Child -> BOOLEAN]
           /\ mClosing' \in [Child -> {"none", "listen", "runtime", "done", "failed"}]
           /\ \A d \in Child : mClosing[d] # "none" => mClosing'[d] = mClosing[d]
           /\ \A d \in Child : d # c => /\ mClosing'[d] = mClosing[d]
                                       /\ mCloseStarted'[d] = mCloseStarted[d]
           /\ mCloseStarted'[c] = TRUE /\ mClosing'[c] # "none"
           /\ mClosing[c] = "none" => mClosing'[c] \in {"listen", "runtime"}
           /\ mClosing[c] = "none" /\ mListening[c] => mClosing'[c] = "listen"
  BY DEF TypeOK, CloseChild

\* CloseChild() on some child, or nothing at all.
LEMMA CloseSome ==
    ASSUME TypeOK, ChildOK,
           UNCHANGED mCloseVars
              \/ \E c \in Child : CloseChild(c)
    PROVE  /\ mCloseStarted' \in [Child -> BOOLEAN]
           /\ mClosing' \in [Child -> {"none", "listen", "runtime", "done", "failed"}]
           /\ \A d \in Child : mClosing[d] # "none" => mClosing'[d] = mClosing[d]
           /\ \A d \in Child : mClosing[d] = "none" =>
                 mClosing'[d] \in {"none", "listen", "runtime"}
           /\ \A d \in Child : mClosing[d] = "none" /\ mListening[d] =>
                 mClosing'[d] # "runtime"
           /\ \A d \in Child : mCloseStarted'[d] <=> (mClosing'[d] # "none")
<1>1. CASE UNCHANGED mCloseVars
  BY <1>1 DEF mCloseVars, TypeOK, ChildOK
<1>2. ASSUME NEW c \in Child, CloseChild(c)
      PROVE  /\ mCloseStarted' \in [Child -> BOOLEAN]
             /\ mClosing' \in [Child -> {"none", "listen", "runtime", "done", "failed"}]
             /\ \A d \in Child : mClosing[d] # "none" => mClosing'[d] = mClosing[d]
             /\ \A d \in Child : mClosing[d] = "none" =>
                   mClosing'[d] \in {"none", "listen", "runtime"}
             /\ \A d \in Child : mClosing[d] = "none" /\ mListening[d] =>
                   mClosing'[d] # "runtime"
             /\ \A d \in Child : mCloseStarted'[d] <=> (mClosing'[d] # "none")
  <2>3. ASSUME NEW d \in Child, mClosing[d] = "none"
        PROVE  /\ mClosing'[d] \in {"none", "listen", "runtime"}
               /\ mListening[d] => mClosing'[d] # "runtime"
    <3>1. CASE d = c
      BY <1>2, <2>3, <3>1, CloseChildFacts
    <3>2. CASE d # c
      BY <1>2, <2>3, <3>2, CloseChildFacts
    <3> QED
      BY <3>1, <3>2
  <2>4. ASSUME NEW d \in Child PROVE mCloseStarted'[d] <=> (mClosing'[d] # "none")
    <3>1. CASE d = c
      BY <1>2, <3>1, CloseChildFacts
    <3>2. CASE d # c
      BY <1>2, <3>2, CloseChildFacts DEF ChildOK
    <3> QED
      BY <3>1, <3>2
  <2> QED
    BY <1>2, <2>3, <2>4, CloseChildFacts
<1> QED
  BY <1>1, <1>2

\* Advance() moves to an incomplete phase or to the end.
LEMMA AdvanceFacts ==
    ASSUME NEW k \in 1 .. 6, NEW complete, Advance(k, complete)
    PROVE  \/ /\ step' = "finish" /\ at' = at /\ tried' = tried
              /\ \A i \in k .. 5 : Phases[i] \in complete
           \/ /\ step' = "phase" /\ at' \in k .. 5
              /\ tried' = tried \cup {Phases[at']}
              /\ Phases[at'] \notin complete
              /\ \A i \in k .. 5 : i < at' => Phases[i] \in complete
<1>1. Found(NextPhase(k, complete), k, complete)
  BY NextPhaseFound
<1> QED
  BY <1>1 DEF Advance, Found

\* tried is closed under earlier phases.
Ordered(t) == \A i, j \in 1 .. 5 : i < j /\ Phases[j] \in t => Phases[i] \in t

\* Every phase before k is complete.
Before(k, complete) == \A i \in 1 .. 5 : i < k => Phases[i] \in complete

\* Advance() from phase k on, when every phase before k has been entered and,
\* in an attempt without errors, completed.
LEMMA AdvancePhases ==
    ASSUME NEW k \in 1 .. 6, NEW complete \in SUBSET PhaseName,
           Advance(k, complete), Ordered(tried), complete \subseteq tried,
           \A i \in 1 .. 5 : i < k => Phases[i] \in tried
    PROVE  /\ Ordered(tried') /\ complete \subseteq tried' /\ tried \subseteq tried'
           /\ step' \in {"phase", "finish"}
           /\ step' = "phase" => at' \in 1 .. 5 /\ Phases[at'] \in tried' \ complete
           /\ step' = "phase" /\ Before(k, complete) => Before(at', complete)
           /\ step' = "finish" /\ Before(k, complete) => complete = PhaseName
<1>1. CASE /\ step' = "finish" /\ at' = at /\ tried' = tried
           /\ \A i \in k .. 5 : Phases[i] \in complete
  <2>1. ASSUME Before(k, complete) PROVE \A i \in 1 .. 5 : Phases[i] \in complete
    <3>1. \A i \in 1 .. 5 : i < k \/ i \in k .. 5
      OBVIOUS
    <3> QED
      BY <1>1, <2>1, <3>1 DEF Before
  <2>2. Before(k, complete) => complete = PhaseName
    BY <2>1, PhaseNames
  <2> QED
    BY <1>1, <2>2
<1>2. CASE /\ step' = "phase" /\ at' \in k .. 5
           /\ tried' = tried \cup {Phases[at']}
           /\ Phases[at'] \notin complete
           /\ \A i \in k .. 5 : i < at' => Phases[i] \in complete
  <2>1. at' \in 1 .. 5
    BY <1>2
  <2>2. \A i \in 1 .. 5 : i < at' => i < k \/ i \in k .. 5
    BY <2>1
  <2>3. \A i \in 1 .. 5 : i < at' => Phases[i] \in tried
    BY <1>2, <2>2
  <2>4. Ordered(tried')
    <3> SUFFICES ASSUME NEW i \in 1 .. 5, NEW j \in 1 .. 5, i < j, Phases[j] \in tried'
                 PROVE  Phases[i] \in tried'
      BY DEF Ordered
    <3>1. CASE Phases[j] \in tried
      BY <1>2, <3>1 DEF Ordered
    <3>2. CASE Phases[j] = Phases[at']
      <4>1. j = at'
        BY <3>2, <2>1, PhaseNames
      <4> QED
        BY <1>2, <4>1, <2>3
    <3> QED
      BY <1>2, <3>1, <3>2
  <2>5. Before(k, complete) => Before(at', complete)
    BY <1>2, <2>2 DEF Before
  <2> QED
    BY <1>2, <2>1, <2>4, <2>5
<1> QED
  BY <1>1, <1>2, AdvanceFacts


\* ShellOK is inductive.
LEMMA ShellStep ==
    ASSUME TypeOK, ShellOK, [Next]_vars
    PROVE  ShellOK'
<1>f. ASSUME UNCHANGED <<closing, step, closeStarted, closed, state, startup>> PROVE ShellOK'
  BY <1>f DEF ShellOK
<1>1. CASE Listen
  BY <1>1 DEF ShellOK, Listen, attemptVars, shellVars
<1>2. CASE Close
  BY <1>2
     DEF ShellOK, Close, BeginClose, TeardownOrWait, Teardown, Advance,
         Listening, shellVars
<1>3. ASSUME NEW c \in Child, Connect(c) PROVE ShellOK'
  BY <1>3, <1>f
     DEF Connect, attemptVars, shellVars, hostVars, connVars, mCloseVars,
         mOpenVars, startVars
<1>4. ASSUME NEW c \in Child, ChildListen(c) PROVE ShellOK'
  BY <1>4, <1>f
     DEF ChildListen, attemptVars, shellVars, hostVars, connVars, mCloseVars,
         mOpenVars, startVars
<1>5. ASSUME NEW c \in Child, ChildClose(c) PROVE ShellOK'
  BY <1>5, <1>f
     DEF ChildClose, attemptVars, shellVars, hostVars, connVars, mCloseVars,
         mOpenVars, startVars
<1>6. ASSUME NEW s \in Starter, StartAll(s) PROVE ShellOK'
  BY <1>6, <1>f
     DEF StartAll, attemptVars, shellVars, hostVars, connVars, mCloseVars,
         mOpenVars, startVars
<1>7. ASSUME NEW c \in Child, ChildCloseResumes(c) PROVE ShellOK'
  BY <1>7, <1>f
     DEF ChildCloseResumes, attemptVars, shellVars, hostVars, connVars,
         mCloseVars, mOpenVars, startVars
<1>8. ASSUME NEW c \in Child, Connected(c) PROVE ShellOK'
  BY <1>8, <1>f
     DEF Connected, attemptVars, shellVars, hostVars, connVars, mCloseVars,
         mOpenVars, startVars
<1>9. ASSUME NEW c \in Child, ConnectFails(c) PROVE ShellOK'
  BY <1>9, <1>f
     DEF ConnectFails, attemptVars, shellVars, hostVars, connVars, mCloseVars,
         mOpenVars, startVars
<1>10. ASSUME NEW c \in Child, NEW ok \in BOOLEAN,
             NEW logged \in BOOLEAN, ChildBound(c, ok, logged) PROVE ShellOK'
  BY <1>10, <1>f
     DEF ChildBound, attemptVars, shellVars, hostVars, connVars, mCloseVars,
         mOpenVars, startVars
<1>11. ASSUME NEW c \in Child, NEW ok \in BOOLEAN, ChildRuntimeClosed(c, ok) PROVE ShellOK'
  BY <1>11, <1>f
     DEF ChildRuntimeClosed, attemptVars, shellVars, hostVars, connVars,
         mCloseVars, mOpenVars, startVars
<1>12. ASSUME NEW s \in Starter, Started(s) PROVE ShellOK'
  BY <1>12, <1>f
     DEF Started, attemptVars, shellVars, hostVars, connVars, mCloseVars,
         mOpenVars, startVars
<1>13. ASSUME NEW s \in Starter, StartFails(s) PROVE ShellOK'
  BY <1>13, <1>f
     DEF StartFails, attemptVars, shellVars, hostVars, connVars, mCloseVars,
         mOpenVars, startVars
<1>14. ASSUME NEW s \in Starter, RolledBack(s) PROVE ShellOK'
  BY <1>14, <1>f
     DEF RolledBack, attemptVars, shellVars, hostVars, connVars, mCloseVars,
         mOpenVars, startVars
<1>15. CASE CloseResumes
  BY <1>15 DEF ShellOK, CloseResumes, Teardown, Advance, shellVars
<1>16. CASE ChildSettled
  BY <1>16, <1>f
     DEF ChildSettled, attemptVars, shellVars, hostVars, connVars, mCloseVars,
         mOpenVars, startVars
<1>17. CASE ChildrenClosed
  BY <1>17 DEF ShellOK, ChildrenClosed, Advance, hostVars
<1>18. CASE Finish
  BY <1>18 DEF ShellOK, TypeOK, Finish, Succeeds
<1>19. CASE ClearClosing
  BY <1>19 DEF ShellOK, TypeOK, ClearClosing, attemptVars, hostVars
<1>20. ASSUME NEW ok \in BOOLEAN, PhaseEnds(ok) PROVE ShellOK'
  BY <1>20 DEF ShellOK, PhaseEnds, Advance
<1>21. CASE StartupCleanup
  BY <1>21
     DEF ShellOK, TypeOK, StartupCleanup, BeginClose, TeardownOrWait,
         Teardown, Advance, Listening, attemptVars, shellVars
<1>22. ASSUME NEW ok \in BOOLEAN, ReadinessChecked(ok) PROVE ShellOK'
  BY <1>22 DEF ShellOK, ReadinessChecked, attemptVars, shellVars
<1>23. ASSUME NEW ok \in BOOLEAN, AdapterBound(ok) PROVE ShellOK'
  BY <1>23 DEF ShellOK, TypeOK, AdapterBound, StillOpen, attemptVars
<1>24. ASSUME NEW r \in BOOLEAN, NEW t \in BOOLEAN, StartupTail(r, t) PROVE ShellOK'
  BY <1>24 DEF ShellOK, TypeOK, StartupTail, attemptVars, shellVars
<1>25. ASSUME NEW s \in Starter, RollbackThrows(s) PROVE ShellOK'
  BY <1>25, <1>f
     DEF RollbackThrows, attemptVars, shellVars, hostVars, connVars, mCloseVars,
         mOpenVars, startVars
<1>u. CASE UNCHANGED vars
  BY <1>u, <1>f
     DEF vars, attemptVars, shellVars, hostVars, connVars, mCloseVars,
         mOpenVars, startVars
<1> QED
  BY <1>1, <1>2, <1>3, <1>4, <1>5, <1>6, <1>7, <1>8, <1>9, <1>10, <1>11,
     <1>12, <1>13, <1>14, <1>15, <1>16, <1>17, <1>18, <1>19, <1>20, <1>21, <1>22,
     <1>23, <1>24, <1>25, <1>u
     DEF Next, ChildStep, StarterStep, CloseStep, StartupStep

\* StartupOver is inductive.
LEMMA StartupOverStep ==
    ASSUME TypeOK, ShellOK, PhasesOK, StartupOver, [Next]_vars
    PROVE  StartupOver'
<1>b. ASSUME BeginClose, ~closed, step = "idle", startup' = startup \/ startup' = "cleaning"
      PROVE  StartupOver'
  <2>1. /\ closeStarted' = TRUE /\ done' = done /\ childrenClosed' = childrenClosed
        /\ adapter' = adapter
    BY <1>b DEF BeginClose
  <2>2. CASE Listening
    <3>1. ~closeStarted /\ tried = {} /\ ~childrenClosed
      BY <1>b, <2>2 DEF StartupOver
    <3>2. step' = "listen" /\ tried' = tried
      BY <1>b, <2>2 DEF BeginClose, TeardownOrWait
    <3> QED
      BY <2>1, <3>1, <3>2 DEF StartupOver
  <2>3. CASE ~Listening
    <3>1. Teardown
      BY <1>b, <2>3 DEF BeginClose, TeardownOrWait
    <3>2. step' # "listen" /\ tried \subseteq tried' /\ registered' = FALSE
      BY <3>1 DEF Teardown, Advance
    <3>3. ~Listening'
      BY <1>b, <2>3 DEF Listening
    <3> QED
      BY <2>1, <3>2, <3>3 DEF StartupOver
  <2> QED
    BY <2>2, <2>3
<1>f. ASSUME UNCHANGED <<closeStarted, step, startup, registered, tried, childrenClosed, done, adapter>> PROVE StartupOver'
  BY <1>f DEF StartupOver, Listening
<1>1. CASE Listen
  BY <1>1 DEF StartupOver, Listening, Listen, attemptVars, shellVars
<1>2. CASE Close
  BY <1>2, <1>b DEF Close, ShellOK
<1>3. ASSUME NEW c \in Child, Connect(c) PROVE StartupOver'
  BY <1>3, <1>f
     DEF Connect, attemptVars, shellVars, hostVars, connVars, mCloseVars,
         mOpenVars, startVars
<1>4. ASSUME NEW c \in Child, ChildListen(c) PROVE StartupOver'
  BY <1>4, <1>f
     DEF ChildListen, attemptVars, shellVars, hostVars, connVars, mCloseVars,
         mOpenVars, startVars
<1>5. ASSUME NEW c \in Child, ChildClose(c) PROVE StartupOver'
  BY <1>5, <1>f
     DEF ChildClose, attemptVars, shellVars, hostVars, connVars, mCloseVars,
         mOpenVars, startVars
<1>6. ASSUME NEW s \in Starter, StartAll(s) PROVE StartupOver'
  BY <1>6, <1>f
     DEF StartAll, attemptVars, shellVars, hostVars, connVars, mCloseVars,
         mOpenVars, startVars
<1>7. ASSUME NEW c \in Child, ChildCloseResumes(c) PROVE StartupOver'
  BY <1>7, <1>f
     DEF ChildCloseResumes, attemptVars, shellVars, hostVars, connVars,
         mCloseVars, mOpenVars, startVars
<1>8. ASSUME NEW c \in Child, Connected(c) PROVE StartupOver'
  BY <1>8, <1>f
     DEF Connected, attemptVars, shellVars, hostVars, connVars, mCloseVars,
         mOpenVars, startVars
<1>9. ASSUME NEW c \in Child, ConnectFails(c) PROVE StartupOver'
  BY <1>9, <1>f
     DEF ConnectFails, attemptVars, shellVars, hostVars, connVars, mCloseVars,
         mOpenVars, startVars
<1>10. ASSUME NEW c \in Child, NEW ok \in BOOLEAN,
             NEW logged \in BOOLEAN, ChildBound(c, ok, logged) PROVE StartupOver'
  BY <1>10, <1>f
     DEF ChildBound, attemptVars, shellVars, hostVars, connVars, mCloseVars,
         mOpenVars, startVars
<1>11. ASSUME NEW c \in Child, NEW ok \in BOOLEAN, ChildRuntimeClosed(c, ok) PROVE StartupOver'
  BY <1>11, <1>f
     DEF ChildRuntimeClosed, attemptVars, shellVars, hostVars, connVars,
         mCloseVars, mOpenVars, startVars
<1>12. ASSUME NEW s \in Starter, Started(s) PROVE StartupOver'
  BY <1>12, <1>f
     DEF Started, attemptVars, shellVars, hostVars, connVars, mCloseVars,
         mOpenVars, startVars
<1>13. ASSUME NEW s \in Starter, StartFails(s) PROVE StartupOver'
  BY <1>13, <1>f
     DEF StartFails, attemptVars, shellVars, hostVars, connVars, mCloseVars,
         mOpenVars, startVars
<1>14. ASSUME NEW s \in Starter, RolledBack(s) PROVE StartupOver'
  BY <1>14, <1>f
     DEF RolledBack, attemptVars, shellVars, hostVars, connVars, mCloseVars,
         mOpenVars, startVars
<1>15. CASE CloseResumes
  BY <1>15, AdvanceFacts
     DEF StartupOver, Listening, ShellOK, TypeOK, CloseResumes, CanResume,
         Teardown, shellVars
<1>16. CASE ChildSettled
  BY <1>16 DEF StartupOver, Listening, ShellOK, ChildSettled, hostVars, shellVars
<1>17. CASE ChildrenClosed
  BY <1>17, AdvanceFacts
     DEF StartupOver, Listening, ShellOK, TypeOK, ChildrenClosed, hostVars
<1>18. CASE Finish
  BY <1>18 DEF StartupOver, Listening, ShellOK, TypeOK, Finish, Succeeds
<1>19. CASE ClearClosing
  BY <1>19, <1>f
     DEF ClearClosing, attemptVars, shellVars, hostVars, connVars, mCloseVars,
         mOpenVars, startVars
<1>20. ASSUME NEW ok \in BOOLEAN, PhaseEnds(ok) PROVE StartupOver'
  BY <1>20, AdvanceFacts, PhaseNames
     DEF StartupOver, Listening, PhasesOK, ShellOK, TypeOK, PhaseEnds
<1>21. CASE StartupCleanup
  <2>1. CASE ~closed /\ closing = "none" /\ BeginClose
    BY <1>21, <2>1, <1>b DEF ShellOK, StartupCleanup
  <2>2. CASE UNCHANGED <<attemptVars, shellVars, adapter, registered>>
    BY <1>21, <2>2 DEF StartupOver, Listening, StartupCleanup, attemptVars, shellVars
  <2> QED
    BY <1>21, <2>1, <2>2 DEF StartupCleanup
<1>22. ASSUME NEW ok \in BOOLEAN, ReadinessChecked(ok) PROVE StartupOver'
  BY <1>22 DEF StartupOver, Listening, ShellOK, ReadinessChecked, attemptVars, shellVars
<1>23. ASSUME NEW ok \in BOOLEAN, AdapterBound(ok) PROVE StartupOver'
  BY <1>23 DEF StartupOver, Listening, ShellOK, TypeOK, AdapterBound, StillOpen, attemptVars
<1>24. ASSUME NEW r \in BOOLEAN, NEW t \in BOOLEAN, StartupTail(r, t) PROVE StartupOver'
  BY <1>24 DEF StartupOver, Listening, ShellOK, TypeOK, StartupTail, attemptVars, shellVars
<1>25. ASSUME NEW s \in Starter, RollbackThrows(s) PROVE StartupOver'
  BY <1>25, <1>f
     DEF RollbackThrows, attemptVars, shellVars, hostVars, connVars, mCloseVars,
         mOpenVars, startVars
<1>u. CASE UNCHANGED vars
  BY <1>u, <1>f
     DEF vars, attemptVars, shellVars, hostVars, connVars, mCloseVars,
         mOpenVars, startVars
<1> QED
  BY <1>1, <1>2, <1>3, <1>4, <1>5, <1>6, <1>7, <1>8, <1>9, <1>10, <1>11,
     <1>12, <1>13, <1>14, <1>15, <1>16, <1>17, <1>18, <1>19, <1>20, <1>21, <1>22,
     <1>23, <1>24, <1>25, <1>u
     DEF Next, ChildStep, StarterStep, CloseStep, StartupStep

\* PhasesOK is inductive.
LEMMA PhasesStep ==
    ASSUME TypeOK, ShellOK, StartupOver, PhasesOK, [Next]_vars
    PROVE  PhasesOK'
<1>a. ASSUME Advance(1, done), done' = done, closed' = closed, ~closed,
             step' \in {"phase", "finish"} /\ ~failed' => childrenClosed'
      PROVE  PhasesOK'
  <2>1. /\ Ordered(tried) /\ done \in SUBSET PhaseName /\ done \subseteq tried
    BY DEF PhasesOK, TypeOK, StartupOver, Ordered
  <2>2. \A i \in 1 .. 5 : ~(i < 1)
    OBVIOUS
  <2>3. /\ Ordered(tried')
        /\ step' = "phase" => at' \in 1 .. 5 /\ Phases[at'] \in tried' \ done
        /\ step' = "phase" => Before(at', done)
        /\ step' = "finish" => done = PhaseName
    BY <1>a, <2>1, <2>2, AdvancePhases DEF Before
  <2> QED
    BY <1>a, <2>3 DEF PhasesOK, Ordered, Before
<1>b. ASSUME BeginClose, ~closed, step = "idle" PROVE PhasesOK'
  <2>1. done' = done /\ closed' = closed /\ childrenClosed' = childrenClosed
        /\ failed' = FALSE
    BY <1>b DEF BeginClose
  <2>2. CASE tried' = tried /\ step' \in {"listen", "child"}
    BY <1>b, <2>1, <2>2 DEF PhasesOK
  <2>3. CASE childrenClosed /\ Advance(1, done)
    BY <1>b, <2>1, <2>3, <1>a
  <2> QED
    BY <1>b, <2>2, <2>3 DEF BeginClose, TeardownOrWait, Teardown
<1>f. ASSUME UNCHANGED <<step, at, failed, tried, done, childrenClosed, closed>> PROVE PhasesOK'
  BY <1>f DEF PhasesOK
<1>1. CASE Listen
  BY <1>1, <1>f
     DEF Listen, attemptVars, shellVars, hostVars, connVars, mCloseVars,
         mOpenVars, startVars
<1>2. CASE Close
  BY <1>2, <1>b DEF Close, ShellOK
<1>3. ASSUME NEW c \in Child, Connect(c) PROVE PhasesOK'
  BY <1>3, <1>f
     DEF Connect, attemptVars, shellVars, hostVars, connVars, mCloseVars,
         mOpenVars, startVars
<1>4. ASSUME NEW c \in Child, ChildListen(c) PROVE PhasesOK'
  BY <1>4, <1>f
     DEF ChildListen, attemptVars, shellVars, hostVars, connVars, mCloseVars,
         mOpenVars, startVars
<1>5. ASSUME NEW c \in Child, ChildClose(c) PROVE PhasesOK'
  BY <1>5, <1>f
     DEF ChildClose, attemptVars, shellVars, hostVars, connVars, mCloseVars,
         mOpenVars, startVars
<1>6. ASSUME NEW s \in Starter, StartAll(s) PROVE PhasesOK'
  BY <1>6, <1>f
     DEF StartAll, attemptVars, shellVars, hostVars, connVars, mCloseVars,
         mOpenVars, startVars
<1>7. ASSUME NEW c \in Child, ChildCloseResumes(c) PROVE PhasesOK'
  BY <1>7, <1>f
     DEF ChildCloseResumes, attemptVars, shellVars, hostVars, connVars,
         mCloseVars, mOpenVars, startVars
<1>8. ASSUME NEW c \in Child, Connected(c) PROVE PhasesOK'
  BY <1>8, <1>f
     DEF Connected, attemptVars, shellVars, hostVars, connVars, mCloseVars,
         mOpenVars, startVars
<1>9. ASSUME NEW c \in Child, ConnectFails(c) PROVE PhasesOK'
  BY <1>9, <1>f
     DEF ConnectFails, attemptVars, shellVars, hostVars, connVars, mCloseVars,
         mOpenVars, startVars
<1>10. ASSUME NEW c \in Child, NEW ok \in BOOLEAN,
             NEW logged \in BOOLEAN, ChildBound(c, ok, logged) PROVE PhasesOK'
  BY <1>10, <1>f
     DEF ChildBound, attemptVars, shellVars, hostVars, connVars, mCloseVars,
         mOpenVars, startVars
<1>11. ASSUME NEW c \in Child, NEW ok \in BOOLEAN, ChildRuntimeClosed(c, ok) PROVE PhasesOK'
  BY <1>11, <1>f
     DEF ChildRuntimeClosed, attemptVars, shellVars, hostVars, connVars,
         mCloseVars, mOpenVars, startVars
<1>12. ASSUME NEW s \in Starter, Started(s) PROVE PhasesOK'
  BY <1>12, <1>f
     DEF Started, attemptVars, shellVars, hostVars, connVars, mCloseVars,
         mOpenVars, startVars
<1>13. ASSUME NEW s \in Starter, StartFails(s) PROVE PhasesOK'
  BY <1>13, <1>f
     DEF StartFails, attemptVars, shellVars, hostVars, connVars, mCloseVars,
         mOpenVars, startVars
<1>14. ASSUME NEW s \in Starter, RolledBack(s) PROVE PhasesOK'
  BY <1>14, <1>f
     DEF RolledBack, attemptVars, shellVars, hostVars, connVars, mCloseVars,
         mOpenVars, startVars
<1>15. CASE CloseResumes
  <2>1. failed' = failed /\ done' = done /\ childrenClosed' = childrenClosed
        /\ closed' = closed /\ ~closed
    BY <1>15 DEF CloseResumes, shellVars, ShellOK
  <2>2. Teardown /\ tried = {} /\ ~childrenClosed
    BY <1>15 DEF CloseResumes, StartupOver
  <2>3. step' = "child" /\ tried' = tried
    BY <2>2 DEF Teardown
  <2> QED
    BY <2>1, <2>2, <2>3 DEF PhasesOK
<1>16. CASE ChildSettled
  BY <1>16 DEF PhasesOK, ShellOK, ChildSettled, shellVars
<1>17. CASE ChildrenClosed
  <2>1. Advance(1, done) /\ done' = done /\ failed' = failed
        /\ childrenClosed' = ~failed /\ closed' = closed /\ ~closed
    BY <1>17 DEF ChildrenClosed, ShellOK
  <2>2. step' = "finish" \/ step' = "phase"
    BY <2>1 DEF Advance
  <2> QED
    BY <2>1, <2>2, <1>a
<1>18. CASE Finish
  BY <1>18 DEF PhasesOK, ShellOK, TypeOK, Finish, Succeeds
<1>19. CASE ClearClosing
  BY <1>19, <1>f
     DEF ClearClosing, attemptVars, shellVars, hostVars, connVars, mCloseVars,
         mOpenVars, startVars
<1>20. ASSUME NEW ok \in BOOLEAN, PhaseEnds(ok) PROVE PhasesOK'
  <2>1. /\ step = "phase" /\ at \in 1 .. 5 /\ Phases[at] \in tried
        /\ closed' = closed /\ ~closed /\ childrenClosed' = childrenClosed
        /\ Ordered(tried) /\ done \subseteq tried /\ tried \subseteq PhaseName
        /\ failed \in BOOLEAN
        /\ ~failed => childrenClosed /\ \A i \in 1 .. 5 : i < at => Phases[i] \in done
    BY <1>20 DEF PhaseEnds, PhasesOK, ShellOK, StartupOver, TypeOK, Ordered
  <2>2. CASE ~ok /\ Phases[at] = "readiness"
    <3>1. failed' = TRUE
      BY <1>20, <2>1, <2>2 DEF PhaseEnds
    <3>2. step' = "finish" /\ tried' = tried
      BY <1>20, <2>2 DEF PhaseEnds
    <3> QED
      BY <2>1, <3>1, <3>2 DEF PhasesOK, Ordered
  <2>3. CASE ~(~ok /\ Phases[at] = "readiness")
    <3>1. Advance(at + 1, done') /\ failed' = (failed \/ ~ok)
      BY <1>20, <2>3 DEF PhaseEnds
    <3>2. done' \in SUBSET PhaseName /\ done' \subseteq tried
      BY <1>20, <2>1, PhaseNames DEF PhaseEnds
    <3>3. \A i \in 1 .. 5 : i < at + 1 => i = at \/ i < at
      BY <2>1
    <3>4. \A i \in 1 .. 5 : i < at + 1 => Phases[i] \in tried
      BY <2>1, <3>3 DEF Ordered
    <3>5. ~failed' => Before(at + 1, done')
      BY <1>20, <2>1, <3>1, <3>3 DEF PhaseEnds, Before
    <3>6. at + 1 \in 1 .. 6
      BY <2>1
    <3>8. /\ Ordered(tried')
          /\ step' = "phase" => at' \in 1 .. 5 /\ Phases[at'] \in tried' \ done'
          /\ step' = "phase" /\ Before(at + 1, done') => Before(at', done')
          /\ step' = "finish" /\ Before(at + 1, done') => done' = PhaseName
      BY <2>1, <3>1, <3>2, <3>4, <3>6, AdvancePhases
    <3>9. ~failed' => childrenClosed'
      BY <2>1, <3>1
    <3> QED
      BY <2>1, <3>5, <3>8, <3>9 DEF PhasesOK, Ordered, Before
  <2> QED
    BY <2>2, <2>3
<1>21. CASE StartupCleanup
  BY <1>21, <1>b, <1>f DEF StartupCleanup, attemptVars, shellVars, ShellOK
<1>22. ASSUME NEW ok \in BOOLEAN, ReadinessChecked(ok) PROVE PhasesOK'
  BY <1>22, <1>f
     DEF ReadinessChecked, attemptVars, shellVars, hostVars, connVars,
         mCloseVars, mOpenVars, startVars
<1>23. ASSUME NEW ok \in BOOLEAN, AdapterBound(ok) PROVE PhasesOK'
  BY <1>23, <1>f
     DEF AdapterBound, attemptVars, shellVars, hostVars, connVars, mCloseVars,
         mOpenVars, startVars
<1>24. ASSUME NEW r \in BOOLEAN, NEW t \in BOOLEAN, StartupTail(r, t) PROVE PhasesOK'
  BY <1>24, <1>f
     DEF StartupTail, attemptVars, shellVars, hostVars, connVars, mCloseVars,
         mOpenVars, startVars
<1>25. ASSUME NEW s \in Starter, RollbackThrows(s) PROVE PhasesOK'
  BY <1>25, <1>f
     DEF RollbackThrows, attemptVars, shellVars, hostVars, connVars, mCloseVars,
         mOpenVars, startVars
<1>u. CASE UNCHANGED vars
  BY <1>u, <1>f
     DEF vars, attemptVars, shellVars, hostVars, connVars, mCloseVars,
         mOpenVars, startVars
<1> QED
  BY <1>1, <1>2, <1>3, <1>4, <1>5, <1>6, <1>7, <1>8, <1>9, <1>10, <1>11,
     <1>12, <1>13, <1>14, <1>15, <1>16, <1>17, <1>18, <1>19, <1>20, <1>21, <1>22,
     <1>23, <1>24, <1>25, <1>u
     DEF Next, ChildStep, StarterStep, CloseStep, StartupStep

\* ChildOK is inductive.
LEMMA ChildStepOK ==
    ASSUME TypeOK, StarterOK, ChildOK, [Next]_vars
    PROVE  ChildOK'
<1>c. ASSUME UNCHANGED mOpenVars,
             UNCHANGED mCloseVars
                \/ \E c \in Child : CloseChild(c)
      PROVE  ChildOK'
  BY <1>c, CloseSome DEF ChildOK, TypeOK, mOpenVars
<1>r. ASSUME NEW s \in Starter, NEW j \in 0 .. Len(connected), Rollback(s, j),
             UNCHANGED mOpenVars
      PROVE  ChildOK'
  BY <1>r, <1>c DEF Rollback, TypeOK
<1>o. ASSUME NEW c \in Child, OpenChild(c), ~mCloseStarted[c], mstate[c] # "ready",
             UNCHANGED mCloseVars
      PROVE  ChildOK'
  BY <1>o DEF OpenChild, ChildOK, TypeOK, mCloseVars
<1>s. ASSUME NEW s \in Starter, NEW i \in 1 .. Len(connected) + 1, StartFrom(s, i)
      PROVE  ChildOK'
  <2>1. CASE i > Len(connected)
    BY <1>s, <2>1, <1>c DEF StartFrom
  <2>2. CASE i <= Len(connected)
    <3>1. connected[i] \in Child
      BY <2>2 DEF TypeOK
    <3> QED
      BY <1>s, <2>2, <3>1, <1>c, <1>r, <1>o DEF StartFrom, TypeOK
  <2> QED
    BY <2>1, <2>2 DEF TypeOK
<1>f. ASSUME UNCHANGED <<mCloseVars, mOpenVars>> PROVE ChildOK'
  BY <1>f DEF ChildOK, mCloseVars, mOpenVars
<1>1. CASE Listen
  BY <1>1, <1>f
     DEF Listen, attemptVars, shellVars, hostVars, connVars, mCloseVars,
         mOpenVars, startVars
<1>2. CASE Close
  BY <1>2, <1>c DEF Close, BeginClose, TeardownOrWait, Teardown, TypeOK
<1>3. ASSUME NEW c \in Child, Connect(c) PROVE ChildOK'
  BY <1>3, <1>f
     DEF Connect, attemptVars, shellVars, hostVars, connVars, mCloseVars,
         mOpenVars, startVars
<1>4. ASSUME NEW c \in Child, ChildListen(c) PROVE ChildOK'
  BY <1>4 DEF ChildOK, TypeOK, ChildListen, OpenChild, mCloseVars
<1>5. ASSUME NEW c \in Child, ChildClose(c) PROVE ChildOK'
  BY <1>5, <1>c DEF ChildClose
<1>6. ASSUME NEW s \in Starter, StartAll(s) PROVE ChildOK'
  BY <1>6, <1>s DEF StartAll
<1>7. ASSUME NEW c \in Child, ChildCloseResumes(c) PROVE ChildOK'
  BY <1>7 DEF ChildOK, TypeOK, ChildCloseResumes, mOpenVars
<1>8. ASSUME NEW c \in Child, Connected(c) PROVE ChildOK'
  BY <1>8, <1>f
     DEF Connected, attemptVars, shellVars, hostVars, connVars, mCloseVars,
         mOpenVars, startVars
<1>9. ASSUME NEW c \in Child, ConnectFails(c) PROVE ChildOK'
  BY <1>9, <1>f
     DEF ConnectFails, attemptVars, shellVars, hostVars, connVars, mCloseVars,
         mOpenVars, startVars
<1>10. ASSUME NEW c \in Child, NEW ok \in BOOLEAN,
             NEW logged \in BOOLEAN, ChildBound(c, ok, logged) PROVE ChildOK'
  BY <1>10 DEF ChildOK, TypeOK, ChildBound, BecomesReady, mCloseVars
<1>11. ASSUME NEW c \in Child, NEW ok \in BOOLEAN, ChildRuntimeClosed(c, ok) PROVE ChildOK'
  BY <1>11 DEF ChildOK, TypeOK, ChildRuntimeClosed
<1>12. ASSUME NEW s \in Starter, Started(s) PROVE ChildOK'
  BY <1>12, <1>s DEF Started, StarterOK, TypeOK
<1>13. ASSUME NEW s \in Starter, StartFails(s) PROVE ChildOK'
  BY <1>13, <1>r DEF StartFails, StarterOK, TypeOK
<1>14. ASSUME NEW s \in Starter, RolledBack(s) PROVE ChildOK'
  BY <1>14, <1>r DEF RolledBack, StarterOK, TypeOK
<1>15. CASE CloseResumes
  BY <1>15, <1>c DEF CloseResumes, Teardown, TypeOK
<1>16. CASE ChildSettled
  BY <1>16, <1>c DEF ChildSettled, TypeOK
<1>17. CASE ChildrenClosed
  BY <1>17, <1>f
     DEF ChildrenClosed, attemptVars, shellVars, hostVars, connVars,
         mCloseVars, mOpenVars, startVars
<1>18. CASE Finish
  BY <1>18, <1>f
     DEF Finish, attemptVars, shellVars, hostVars, connVars, mCloseVars,
         mOpenVars, startVars
<1>19. CASE ClearClosing
  BY <1>19, <1>f
     DEF ClearClosing, attemptVars, shellVars, hostVars, connVars, mCloseVars,
         mOpenVars, startVars
<1>20. ASSUME NEW ok \in BOOLEAN, PhaseEnds(ok) PROVE ChildOK'
  BY <1>20, <1>f
     DEF PhaseEnds, attemptVars, shellVars, hostVars, connVars, mCloseVars,
         mOpenVars, startVars
<1>21. CASE StartupCleanup
  BY <1>21, <1>c, <1>f DEF StartupCleanup, BeginClose, TeardownOrWait, Teardown, TypeOK
<1>22. ASSUME NEW ok \in BOOLEAN, ReadinessChecked(ok) PROVE ChildOK'
  BY <1>22, <1>f
     DEF ReadinessChecked, attemptVars, shellVars, hostVars, connVars,
         mCloseVars, mOpenVars, startVars
<1>23. ASSUME NEW ok \in BOOLEAN, AdapterBound(ok) PROVE ChildOK'
  BY <1>23, <1>f
     DEF AdapterBound, attemptVars, shellVars, hostVars, connVars, mCloseVars,
         mOpenVars, startVars
<1>24. ASSUME NEW r \in BOOLEAN, NEW t \in BOOLEAN, StartupTail(r, t) PROVE ChildOK'
  BY <1>24, <1>f
     DEF StartupTail, attemptVars, shellVars, hostVars, connVars, mCloseVars,
         mOpenVars, startVars
<1>25. ASSUME NEW s \in Starter, RollbackThrows(s) PROVE ChildOK'
  BY <1>25, <1>f
     DEF RollbackThrows, attemptVars, shellVars, hostVars, connVars, mCloseVars,
         mOpenVars, startVars
<1>u. CASE UNCHANGED vars
  BY <1>u, <1>f
     DEF vars, attemptVars, shellVars, hostVars, connVars, mCloseVars,
         mOpenVars, startVars
<1> QED
  BY <1>1, <1>2, <1>3, <1>4, <1>5, <1>6, <1>7, <1>8, <1>9, <1>10, <1>11,
     <1>12, <1>13, <1>14, <1>15, <1>16, <1>17, <1>18, <1>19, <1>20, <1>21, <1>22,
     <1>23, <1>24, <1>25, <1>u
     DEF Next, ChildStep, StarterStep, CloseStep, StartupStep

\* ConnectedOK is inductive.
LEMMA ConnectedStep ==
    ASSUME TypeOK, ShellOK, StartupOver, PhasesOK, ChildOK, StarterOK, ConnectedOK, [Next]_vars
    PROVE  ConnectedOK'
<1>m. ASSUME UNCHANGED <<connVars, step, turn, failed, tried, childrenClosed>>,
             \A d \in Child : Settled(d) => mClosing'[d] = mClosing[d]
      PROVE  ConnectedOK'
  <2>1. \A i \in 1 .. Len(connected) : connected[i] \in Child
    BY DEF TypeOK
  <2> QED
    BY <1>m, <2>1 DEF ConnectedOK, connVars, Settled
<1>r. ASSUME NEW s \in Starter, NEW j \in 0 .. Len(connected), Rollback(s, j),
             UNCHANGED <<connVars, step, turn, failed, tried, childrenClosed>>
      PROVE  ConnectedOK'
  <2>1. UNCHANGED mCloseVars \/ \E d \in Child : CloseChild(d)
    BY <1>r DEF Rollback, TypeOK
  <2> QED
    BY <1>r, <2>1, <1>m, CloseSome DEF Settled
<1>s. ASSUME NEW s \in Starter, NEW i \in 1 .. Len(connected) + 1, StartFrom(s, i),
             UNCHANGED <<connVars, step, turn, failed, tried, childrenClosed>>
      PROVE  ConnectedOK'
  <2>1. CASE UNCHANGED mCloseVars
    BY <1>s, <2>1, <1>m DEF mCloseVars
  <2>2. CASE i <= Len(connected) /\ Rollback(s, i - 1)
    <3>1. i - 1 \in 0 .. Len(connected)
      BY <2>2 DEF TypeOK
    <3> QED
      BY <1>s, <2>2, <3>1, <1>r
  <2> QED
    BY <1>s, <2>1, <2>2 DEF StartFrom
<1>b. ASSUME BeginClose, ~closed, step = "idle" PROVE ConnectedOK'
  <2>1. UNCHANGED <<connVars, childrenClosed>>
    BY <1>b DEF BeginClose
  <2>2. CASE step' = "listen" /\ tried' = tried /\ UNCHANGED mCloseVars
    BY <2>1, <2>2 DEF ConnectedOK, connVars, mCloseVars, Settled
  <2>3. CASE childrenClosed /\ UNCHANGED mCloseVars /\ Advance(1, done)
    <3>1. step' # "child"
      BY <2>3 DEF Advance
    <3> QED
      BY <2>1, <2>3, <3>1 DEF ConnectedOK, connVars, mCloseVars, Settled
  <2>4. CASE /\ ~childrenClosed /\ step' = "child" /\ turn' = Len(connected)
             /\ tried' = tried
             /\ UNCHANGED mCloseVars \/ \E d \in Child : CloseChild(d)
    <3>1. \A d \in Child : Settled(d) => mClosing'[d] = mClosing[d]
      BY <2>4, CloseSome DEF Settled, mCloseVars
    <3>2. \A i \in 1 .. Len(connected) : connected[i] \in Child /\ ~(turn' < i)
      BY <2>4 DEF TypeOK
    <3> QED
      BY <2>1, <2>4, <3>1, <3>2 DEF ConnectedOK, connVars, Settled
  <2>5. connected # <<>> => connected[Len(connected)] \in Child
    BY DEF TypeOK
  <2> QED
    BY <1>b, <2>2, <2>3, <2>4, <2>5 DEF BeginClose, TeardownOrWait, Teardown
<1>f. ASSUME UNCHANGED <<connVars, step, turn, failed, tried, childrenClosed, mClosing>> PROVE ConnectedOK'
  BY <1>f DEF ConnectedOK, connVars, Settled
<1>1. CASE Listen
  BY <1>1, <1>f
     DEF Listen, attemptVars, shellVars, hostVars, connVars, mCloseVars,
         mOpenVars, startVars
<1>2. CASE Close
  BY <1>2, <1>b DEF Close, ShellOK
<1>3. ASSUME NEW c \in Child, Connect(c) PROVE ConnectedOK'
  BY <1>3 DEF Connect, ConnectedOK, Settled, attemptVars, shellVars, mCloseVars, TypeOK
<1>4. ASSUME NEW c \in Child, ChildListen(c) PROVE ConnectedOK'
  BY <1>4, <1>f
     DEF ChildListen, attemptVars, shellVars, hostVars, connVars, mCloseVars,
         mOpenVars, startVars
<1>5. ASSUME NEW c \in Child, ChildClose(c) PROVE ConnectedOK'
  BY <1>5, <1>m, CloseSome DEF ChildClose, Settled, attemptVars, shellVars
<1>6. ASSUME NEW s \in Starter, StartAll(s) PROVE ConnectedOK'
  BY <1>6, <1>s DEF StartAll, attemptVars, shellVars
<1>7. ASSUME NEW c \in Child, ChildCloseResumes(c) PROVE ConnectedOK'
  BY <1>7, <1>m DEF ChildCloseResumes, Settled, attemptVars, shellVars, TypeOK
<1>8. ASSUME NEW c \in Child, Connected(c) PROVE ConnectedOK'
  <2>1. CASE closeStarted
    <3>1. conn' = [conn EXCEPT ![c] = "rejected"] /\ connected' = connected
      BY <1>8, <2>1 DEF Connected, AttachOrReject
    <3>2. UNCHANGED <<step, turn, failed, tried, childrenClosed, mClosing>>
      BY <1>8 DEF Connected, attemptVars, shellVars, mCloseVars
    <3>3. \A d \in Child : conn'[d] = "yes" => conn[d] = "yes"
      BY <3>1 DEF TypeOK
    <3> QED
      BY <3>1, <3>2, <3>3 DEF ConnectedOK, Settled
  <2>2. CASE ~closeStarted
    <3>1. tried' = {} /\ ~childrenClosed' /\ step' # "child"
      BY <1>8, <2>2 DEF Connected, StartupOver, ShellOK, attemptVars, shellVars
    <3>2. conn' = [conn EXCEPT ![c] = "yes"] /\ connected' = Append(connected, c)
      BY <1>8, <2>2 DEF Connected, AttachOrReject, Attach
    <3>3. connected \in Seq(Child)
      BY DEF TypeOK
    <3>4. /\ Len(connected') = Len(connected) + 1 /\ connected'[Len(connected) + 1] = c
          /\ \A i \in 1 .. Len(connected) : connected'[i] = connected[i]
      BY <3>2, <3>3
    <3>5. ASSUME NEW d \in Child, conn'[d] = "yes"
          PROVE  \E i \in 1 .. Len(connected') : connected'[i] = d
      <4>1. CASE d = c
        BY <3>3, <3>4, <4>1
      <4>2. CASE d # c
        <5>1. conn[d] = "yes"
          BY <3>2, <3>5, <4>2 DEF TypeOK
        <5>2. PICK i \in 1 .. Len(connected) : connected[i] = d
          BY <5>1 DEF ConnectedOK
        <5>3. i \in 1 .. Len(connected')
          BY <3>3, <3>4
        <5> QED
          BY <3>4, <5>2, <5>3
      <4> QED
        BY <4>1, <4>2
    <3> QED
      BY <3>1, <3>5 DEF ConnectedOK
  <2> QED
    BY <2>1, <2>2
<1>9. ASSUME NEW c \in Child, ConnectFails(c) PROVE ConnectedOK'
  BY <1>9 DEF ConnectFails, ConnectedOK, Settled, attemptVars, shellVars, mCloseVars, TypeOK
<1>10. ASSUME NEW c \in Child, NEW ok \in BOOLEAN,
             NEW logged \in BOOLEAN, ChildBound(c, ok, logged) PROVE ConnectedOK'
  BY <1>10, <1>f
     DEF ChildBound, attemptVars, shellVars, hostVars, connVars, mCloseVars,
         mOpenVars, startVars
<1>11. ASSUME NEW c \in Child, NEW ok \in BOOLEAN, ChildRuntimeClosed(c, ok) PROVE ConnectedOK'
  BY <1>11, <1>m DEF ChildRuntimeClosed, Settled, attemptVars, shellVars, TypeOK
<1>12. ASSUME NEW s \in Starter, Started(s) PROVE ConnectedOK'
  BY <1>12, <1>s DEF Started, attemptVars, shellVars, StarterOK, TypeOK
<1>13. ASSUME NEW s \in Starter, StartFails(s) PROVE ConnectedOK'
  BY <1>13, <1>r DEF StartFails, attemptVars, shellVars, StarterOK, TypeOK
<1>14. ASSUME NEW s \in Starter, RolledBack(s) PROVE ConnectedOK'
  BY <1>14, <1>r DEF RolledBack, attemptVars, shellVars, StarterOK, TypeOK
<1>15. CASE CloseResumes
  <2>1. tried = {} /\ ~childrenClosed /\ Teardown
    BY <1>15 DEF CloseResumes, StartupOver
  <2>2. step' = "child" /\ turn' = Len(connected) /\ tried' = tried /\ UNCHANGED connVars
    BY <1>15, <2>1 DEF CloseResumes, Teardown
  <2>3. UNCHANGED childrenClosed
    BY <1>15 DEF CloseResumes, shellVars
  <2>4. \A i \in 1 .. Len(connected) : ~(turn' < i)
    BY <2>2 DEF TypeOK
  <2> QED
    BY <2>1, <2>2, <2>3, <2>4 DEF ConnectedOK, connVars
<1>16. CASE ChildSettled
  <2>1. /\ step = "child" /\ step' = "child" /\ turn > 0 /\ turn' = turn - 1
        /\ Settled(connected[turn]) /\ UNCHANGED connVars
        /\ tried' = tried /\ childrenClosed' = childrenClosed
        /\ failed' = (failed \/ mClosing[connected[turn]] = "failed")
    BY <1>16 DEF ChildSettled, shellVars
  <2>2. UNCHANGED mCloseVars \/ \E d \in Child : CloseChild(d)
    BY <1>16 DEF ChildSettled, TypeOK
  <2>3. \A d \in Child : Settled(d) => mClosing'[d] = mClosing[d]
    BY <2>2, CloseSome DEF Settled
  <2>4. \A i \in 1 .. Len(connected) : connected[i] \in Child
    BY DEF TypeOK
  <2>5. \A i \in 1 .. Len(connected) : turn' < i => i = turn \/ turn < i
    BY <2>1 DEF TypeOK
  <2>6. ASSUME NEW i \in 1 .. Len(connected), turn' < i
        PROVE  Settled(connected[i]) /\ (~failed' => mClosing[connected[i]] = "done")
    <3>1. CASE i = turn
      BY <2>1, <3>1 DEF Settled
    <3>2. CASE turn < i
      BY <2>1, <3>2 DEF ConnectedOK
    <3> QED
      BY <2>5, <2>6, <3>1, <3>2
  <2>7. \A i \in 1 .. Len(connected) : turn' < i =>
           /\ mClosing'[connected[i]] \in {"done", "failed"}
           /\ ~failed' => mClosing'[connected[i]] = "done"
    BY <2>3, <2>4, <2>6 DEF Settled
  <2> QED
    BY <2>1, <2>3, <2>4, <2>7 DEF ConnectedOK, connVars, Settled
<1>17. CASE ChildrenClosed
  <2>1. /\ step = "child" /\ turn = 0 /\ childrenClosed' = ~failed
        /\ UNCHANGED <<connVars, mCloseVars>> /\ Advance(1, done)
    BY <1>17 DEF ChildrenClosed
  <2>2. step' # "child"
    BY <2>1 DEF Advance
  <2>3. \A i \in 1 .. Len(connected) : turn < i
    BY <2>1
  <2> QED
    BY <2>1, <2>2, <2>3 DEF ConnectedOK, connVars, mCloseVars, Settled
<1>18. CASE Finish
  BY <1>18 DEF Finish, ConnectedOK, connVars, mCloseVars, Settled
<1>19. CASE ClearClosing
  BY <1>19, <1>f
     DEF ClearClosing, attemptVars, shellVars, hostVars, connVars, mCloseVars,
         mOpenVars, startVars
<1>20. ASSUME NEW ok \in BOOLEAN, PhaseEnds(ok) PROVE ConnectedOK'
  <2>1. /\ step = "phase" /\ childrenClosed' = childrenClosed /\ tried # {}
        /\ UNCHANGED <<connVars, mCloseVars>>
    BY <1>20 DEF PhaseEnds, PhasesOK
  <2>2. step' # "child"
    BY <1>20 DEF PhaseEnds, Advance
  <2> QED
    BY <2>1, <2>2 DEF ConnectedOK, connVars, mCloseVars, Settled
<1>21. CASE StartupCleanup
  <2>1. CASE ~closed /\ closing = "none" /\ BeginClose
    BY <2>1, <1>b DEF ShellOK
  <2>2. CASE UNCHANGED <<attemptVars, childrenClosed, connVars, mCloseVars>>
    BY <2>2, <1>f DEF attemptVars, mCloseVars
  <2> QED
    BY <1>21, <2>1, <2>2 DEF StartupCleanup, shellVars
<1>22. ASSUME NEW ok \in BOOLEAN, ReadinessChecked(ok) PROVE ConnectedOK'
  BY <1>22, <1>f
     DEF ReadinessChecked, attemptVars, shellVars, hostVars, connVars,
         mCloseVars, mOpenVars, startVars
<1>23. ASSUME NEW ok \in BOOLEAN, AdapterBound(ok) PROVE ConnectedOK'
  BY <1>23, <1>f
     DEF AdapterBound, attemptVars, shellVars, hostVars, connVars, mCloseVars,
         mOpenVars, startVars
<1>24. ASSUME NEW r \in BOOLEAN, NEW t \in BOOLEAN, StartupTail(r, t) PROVE ConnectedOK'
  BY <1>24, <1>f
     DEF StartupTail, attemptVars, shellVars, hostVars, connVars, mCloseVars,
         mOpenVars, startVars
<1>25. ASSUME NEW s \in Starter, RollbackThrows(s) PROVE ConnectedOK'
  BY <1>25, <1>f
     DEF RollbackThrows, attemptVars, shellVars, hostVars, connVars, mCloseVars,
         mOpenVars, startVars
<1>u. CASE UNCHANGED vars
  BY <1>u, <1>f
     DEF vars, attemptVars, shellVars, hostVars, connVars, mCloseVars,
         mOpenVars, startVars
<1> QED
  BY <1>1, <1>2, <1>3, <1>4, <1>5, <1>6, <1>7, <1>8, <1>9, <1>10, <1>11,
     <1>12, <1>13, <1>14, <1>15, <1>16, <1>17, <1>18, <1>19, <1>20, <1>21, <1>22,
     <1>23, <1>24, <1>25, <1>u
     DEF Next, ChildStep, StarterStep, CloseStep, StartupStep

\* StarterOK and RollbackComplete are inductive together.
LEMMA StarterStepOK ==
    ASSUME TypeOK, ChildOK, StarterOK, RollbackComplete, [Next]_vars
    PROVE  (StarterOK /\ RollbackComplete)'
<1>m. ASSUME UNCHANGED <<startVars, connected>>,
             \A d \in Child : Settled(d) => mClosing'[d] = mClosing[d]
      PROVE  (StarterOK /\ RollbackComplete)'
  <2>1. \A i \in 1 .. Len(connected) : connected[i] \in Child
    BY DEF TypeOK
  <2> QED
    BY <1>m, <2>1 DEF StarterOK, RollbackComplete, startVars, Settled
<1>c. ASSUME UNCHANGED <<startVars, connected>>,
             UNCHANGED mCloseVars \/ \E c \in Child : CloseChild(c)
      PROVE  (StarterOK /\ RollbackComplete)'
  BY <1>c, <1>m, CloseSome DEF Settled
<1>r. ASSUME NEW s \in Starter, NEW j \in 0 .. Len(connected), Rollback(s, j),
             UNCHANGED connected, si' = [si EXCEPT ![s] = si'[s]],
             si'[s] \in 1 .. Len(connected), j < si'[s],
             \A k \in 1 .. Len(connected) : j < k /\ k < si'[s] => Settled(connected[k])
      PROVE  (StarterOK /\ RollbackComplete)'
  <2>1. \A i \in 1 .. Len(connected) : connected[i] \in Child
    BY DEF TypeOK
  <2>2. UNCHANGED mCloseVars \/ \E d \in Child : CloseChild(d)
    BY <1>r, <2>1 DEF Rollback
  <2>3. \A d \in Child : Settled(d) => mClosing'[d] = mClosing[d]
    BY <2>2, CloseSome DEF Settled
  <2>4. \A i \in 1 .. Len(connected) : Settled(connected[i]) =>
            mClosing'[connected[i]] \in {"done", "failed"}
    BY <2>1, <2>3 DEF Settled
  <2>5. \A x \in Starter : x # s => spc'[x] = spc[x] /\ si'[x] = si[x] /\ undo'[x] = undo[x]
    BY <1>r DEF Rollback, TypeOK
  <2>8. \A i \in 1 .. Len(connected) :
            mClosing[connected[i]] = "failed" => mClosing'[connected[i]] = "failed"
    BY <2>1, <2>3 DEF Settled
  <2>9. ASSUME NEW x \in Starter, x # s
        PROVE  /\ spc[x] = "failed" =>
                    \A k \in 1 .. Len(connected) : k < si[x] =>
                        mClosing'[connected[k]] \in {"done", "failed"}
               /\ spc[x] = "aborted" =>
                    /\ mClosing'[connected[undo[x]]] = "failed"
                    /\ \A k \in 1 .. Len(connected) : undo[x] <= k /\ k < si[x] =>
                          mClosing'[connected[k]] \in {"done", "failed"}
    BY <2>4, <2>8 DEF RollbackComplete, StarterOK
  <2>6. CASE j = 0
    <3>1. spc'[s] = "failed"
      BY <1>r, <2>6 DEF Rollback, TypeOK
    <3>2. \A k \in 1 .. Len(connected) : k < si'[s] => Settled(connected[k])
      BY <1>r, <2>6
    <3>3. StarterOK'
      BY <1>r, <2>4, <2>5, <3>1, <3>2 DEF StarterOK, Settled
    <3>4. RollbackComplete'
      BY <1>r, <2>4, <2>5, <2>9, <3>1, <3>2 DEF RollbackComplete, Settled
    <3> QED
      BY <3>3, <3>4
  <2>7. CASE j # 0
    <3>1. spc'[s] = "undo" /\ undo'[s] = j /\ j \in 1 .. Len(connected)
      BY <1>r, <2>7 DEF Rollback, TypeOK
    <3>2. StarterOK'
      BY <1>r, <2>4, <2>5, <3>1 DEF StarterOK, Settled
    <3>3. RollbackComplete'
      BY <1>r, <2>5, <2>9, <3>1 DEF RollbackComplete, Settled
    <3> QED
      BY <3>2, <3>3
  <2> QED
    BY <2>6, <2>7
<1>s. ASSUME NEW s \in Starter, NEW i \in 1 .. Len(connected) + 1, StartFrom(s, i),
             UNCHANGED connected
      PROVE  (StarterOK /\ RollbackComplete)'
  <2>0. Len(connected) \in Nat /\ si' = [si EXCEPT ![s] = i] /\ si'[s] = i
    BY <1>s DEF StartFrom, TypeOK
  <2>1. CASE /\ UNCHANGED mCloseVars /\ UNCHANGED undo
             /\ \E p \in {"done", "ok", "wait"} : spc' = [spc EXCEPT ![s] = p]
             /\ spc'[s] # "done" => i <= Len(connected)
    <3>1. \A x \in Starter : x # s => spc'[x] = spc[x] /\ si'[x] = si[x]
      BY <2>0, <2>1 DEF TypeOK
    <3>2. spc'[s] \in {"done", "ok", "wait"}
      BY <2>1 DEF TypeOK
    <3> QED
      BY <1>s, <2>0, <2>1, <3>1, <3>2 DEF StarterOK, RollbackComplete, Settled, mCloseVars
  <2>2. CASE i <= Len(connected) /\ Rollback(s, i - 1)
    <3>1. i - 1 \in 0 .. Len(connected) /\ i \in 1 .. Len(connected) /\ i - 1 < i
      BY <2>0, <2>2
    <3>2. \A k \in 1 .. Len(connected) : ~(i - 1 < k /\ k < i)
      BY <2>0
    <3> QED
      BY <1>s, <2>0, <2>2, <3>1, <3>2, <1>r
  <2>3. ASSUME NEW p \in {"done", "ok", "wait"}, spc' = [spc EXCEPT ![s] = p]
        PROVE  spc'[s] = p
    BY <2>3 DEF TypeOK
  <2> QED
    BY <1>s, <2>1, <2>2, <2>3 DEF StartFrom
<1>f. ASSUME UNCHANGED <<startVars, connected, mClosing>> PROVE (StarterOK /\ RollbackComplete)'
  BY <1>f DEF StarterOK, RollbackComplete, startVars, Settled
<1>1. CASE Listen
  BY <1>1, <1>f
     DEF Listen, attemptVars, shellVars, hostVars, connVars, mCloseVars,
         mOpenVars, startVars
<1>2. CASE Close
  BY <1>2, <1>c DEF Close, BeginClose, TeardownOrWait, Teardown, connVars, TypeOK
<1>3. ASSUME NEW c \in Child, Connect(c) PROVE (StarterOK /\ RollbackComplete)'
  BY <1>3, <1>f
     DEF Connect, attemptVars, shellVars, hostVars, connVars, mCloseVars,
         mOpenVars, startVars
<1>4. ASSUME NEW c \in Child, ChildListen(c) PROVE (StarterOK /\ RollbackComplete)'
  BY <1>4, <1>f
     DEF ChildListen, attemptVars, shellVars, hostVars, connVars, mCloseVars,
         mOpenVars, startVars
<1>5. ASSUME NEW c \in Child, ChildClose(c) PROVE (StarterOK /\ RollbackComplete)'
  BY <1>5, <1>c DEF ChildClose, connVars
<1>6. ASSUME NEW s \in Starter, StartAll(s) PROVE (StarterOK /\ RollbackComplete)'
  BY <1>6, <1>s DEF StartAll, connVars
<1>7. ASSUME NEW c \in Child, ChildCloseResumes(c) PROVE (StarterOK /\ RollbackComplete)'
  BY <1>7, <1>m DEF ChildCloseResumes, Settled, connVars, TypeOK
<1>8. ASSUME NEW c \in Child, Connected(c) PROVE (StarterOK /\ RollbackComplete)'
  <2>1. CASE UNCHANGED connected
    BY <1>8, <2>1, <1>f DEF Connected, mCloseVars
  <2>2. CASE connected' = Append(connected, c)
    <3>1. connected \in Seq(Child)
      BY DEF TypeOK
    <3>2. /\ Len(connected') = Len(connected) + 1
          /\ \A i \in 1 .. Len(connected) : connected'[i] = connected[i]
      BY <2>2, <3>1
    <3>3. Len(connected) \in Nat
      BY <3>1
    <3>4. UNCHANGED <<startVars, mClosing>>
      BY <1>8 DEF Connected, mCloseVars
    <3>5. /\ \A i \in 1 .. Len(connected) : i \in 1 .. Len(connected')
          /\ \A n \in 1 .. Len(connected) : \A j \in 1 .. Len(connected') :
                j < n => j \in 1 .. Len(connected)
      BY <3>2, <3>3
    <3>6. StarterOK'
      <4> SUFFICES ASSUME NEW x \in Starter
                   PROVE  /\ spc[x] \in {"wait", "ok", "err", "undo", "failed",
                                       "aborted"} =>
                               si[x] \in 1 .. Len(connected')
                          /\ spc[x] \in {"undo", "aborted"} =>
                               /\ undo[x] \in 1 .. Len(connected') /\ undo[x] < si[x]
                               /\ \A j \in 1 .. Len(connected') : undo[x] < j /\ j < si[x] =>
                                     mClosing[connected'[j]] \in {"done", "failed"}
        BY <3>4 DEF StarterOK, Settled, startVars
      <4> QED
        BY <3>2, <3>5 DEF StarterOK, Settled
    <3>7. RollbackComplete'
      <4>1. ASSUME NEW x \in Starter, spc[x] = "failed",
                   NEW j \in 1 .. Len(connected'), j < si[x]
            PROVE  mClosing[connected'[j]] \in {"done", "failed"}
        <5>1. si[x] \in 1 .. Len(connected)
          BY <4>1 DEF StarterOK
        <5> QED
          BY <4>1, <5>1, <3>2, <3>5 DEF RollbackComplete, Settled
      <4>2. ASSUME NEW x \in Starter, spc[x] = "aborted"
            PROVE  /\ mClosing[connected'[undo[x]]] = "failed"
                   /\ \A j \in 1 .. Len(connected') : undo[x] <= j /\ j < si[x] =>
                         mClosing[connected'[j]] \in {"done", "failed"}
        <5>1. si[x] \in 1 .. Len(connected) /\ undo[x] \in 1 .. Len(connected)
          BY <4>2 DEF StarterOK
        <5> QED
          BY <4>2, <5>1, <3>2, <3>5 DEF RollbackComplete, Settled
      <4> QED
        BY <4>1, <4>2, <3>4 DEF RollbackComplete, Settled, startVars
    <3> QED
      BY <3>6, <3>7
  <2> QED
    BY <1>8, <2>1, <2>2 DEF Connected, AttachOrReject, Attach
<1>9. ASSUME NEW c \in Child, ConnectFails(c) PROVE (StarterOK /\ RollbackComplete)'
  BY <1>9, <1>f
     DEF ConnectFails, attemptVars, shellVars, hostVars, connVars, mCloseVars,
         mOpenVars, startVars
<1>10. ASSUME NEW c \in Child, NEW ok \in BOOLEAN,
             NEW logged \in BOOLEAN, ChildBound(c, ok, logged) PROVE (StarterOK /\ RollbackComplete)'
  <2>1. UNCHANGED <<si, undo, connected, mClosing>>
    BY <1>10 DEF ChildBound, connVars, mCloseVars
  <2>2. ASSUME NEW x \in Starter
        PROVE  spc'[x] = spc[x] \/ (spc[x] = "wait" /\ spc'[x] \in {"ok", "err"})
    <3>1. spc'[x] = IF spc[x] = "wait" /\ connected[si[x]] = c
                    THEN IF BecomesReady(c, ok) /\ logged THEN "ok" ELSE "err"
                    ELSE spc[x]
      BY <1>10 DEF ChildBound
    <3> QED
      BY <3>1
  <2> QED
    BY <2>1, <2>2 DEF StarterOK, RollbackComplete, Settled
<1>11. ASSUME NEW c \in Child, NEW ok \in BOOLEAN, ChildRuntimeClosed(c, ok) PROVE (StarterOK /\ RollbackComplete)'
  BY <1>11, <1>m DEF ChildRuntimeClosed, Settled, connVars, TypeOK
<1>12. ASSUME NEW s \in Starter, Started(s) PROVE (StarterOK /\ RollbackComplete)'
  BY <1>12, <1>s DEF Started, connVars, StarterOK, TypeOK
<1>13. ASSUME NEW s \in Starter, StartFails(s) PROVE (StarterOK /\ RollbackComplete)'
  <2>1. si[s] \in 1 .. Len(connected) /\ Len(connected) \in Nat
    BY <1>13 DEF StartFails, StarterOK, TypeOK
  <2>2. \A k \in 1 .. Len(connected) : ~(si[s] - 1 < k /\ k < si[s])
    BY <2>1
  <2>3. si[s] - 1 \in 0 .. Len(connected) /\ si[s] - 1 < si[s]
    BY <2>1
  <2>5. si' = si /\ si = [si EXCEPT ![s] = si[s]]
    BY <1>13 DEF StartFails, TypeOK
  <2>6. Rollback(s, si[s] - 1) /\ UNCHANGED connected
    BY <1>13 DEF StartFails, connVars
  <2> QED
    BY <2>1, <2>2, <2>3, <2>5, <2>6, <1>r
<1>14. ASSUME NEW s \in Starter, RolledBack(s) PROVE (StarterOK /\ RollbackComplete)'
  <2>1. /\ undo[s] \in 1 .. Len(connected) /\ undo[s] < si[s] /\ Len(connected) \in Nat
        /\ si[s] \in 1 .. Len(connected) /\ Settled(connected[undo[s]])
    BY <1>14 DEF RolledBack, StarterOK, TypeOK
  <2>2. \A k \in 1 .. Len(connected) : undo[s] - 1 < k => k = undo[s] \/ undo[s] < k
    BY <2>1
  <2>3. \A k \in 1 .. Len(connected) : undo[s] - 1 < k /\ k < si[s] => Settled(connected[k])
    BY <1>14, <2>1, <2>2 DEF RolledBack, StarterOK
  <2>4. undo[s] - 1 \in 0 .. Len(connected) /\ undo[s] - 1 < si[s]
    BY <2>1
  <2>5. si' = si /\ si = [si EXCEPT ![s] = si[s]]
    BY <1>14 DEF RolledBack, TypeOK
  <2>6. Rollback(s, undo[s] - 1) /\ UNCHANGED connected
    BY <1>14 DEF RolledBack, connVars
  <2> QED
    BY <2>1, <2>3, <2>4, <2>5, <2>6, <1>r
<1>15. CASE CloseResumes
  BY <1>15, <1>c DEF CloseResumes, Teardown, connVars, TypeOK
<1>16. CASE ChildSettled
  BY <1>16, <1>c DEF ChildSettled, connVars, TypeOK
<1>17. CASE ChildrenClosed
  BY <1>17, <1>f
     DEF ChildrenClosed, attemptVars, shellVars, hostVars, connVars,
         mCloseVars, mOpenVars, startVars
<1>18. CASE Finish
  BY <1>18, <1>f
     DEF Finish, attemptVars, shellVars, hostVars, connVars, mCloseVars,
         mOpenVars, startVars
<1>19. CASE ClearClosing
  BY <1>19, <1>f
     DEF ClearClosing, attemptVars, shellVars, hostVars, connVars, mCloseVars,
         mOpenVars, startVars
<1>20. ASSUME NEW ok \in BOOLEAN, PhaseEnds(ok) PROVE (StarterOK /\ RollbackComplete)'
  BY <1>20, <1>f
     DEF PhaseEnds, attemptVars, shellVars, hostVars, connVars, mCloseVars,
         mOpenVars, startVars
<1>21. CASE StartupCleanup
  BY <1>21, <1>c DEF StartupCleanup, BeginClose, TeardownOrWait, Teardown, connVars, TypeOK
<1>22. ASSUME NEW ok \in BOOLEAN, ReadinessChecked(ok) PROVE (StarterOK /\ RollbackComplete)'
  BY <1>22, <1>f
     DEF ReadinessChecked, attemptVars, shellVars, hostVars, connVars,
         mCloseVars, mOpenVars, startVars
<1>23. ASSUME NEW ok \in BOOLEAN, AdapterBound(ok) PROVE (StarterOK /\ RollbackComplete)'
  BY <1>23, <1>f
     DEF AdapterBound, attemptVars, shellVars, hostVars, connVars, mCloseVars,
         mOpenVars, startVars
<1>24. ASSUME NEW r \in BOOLEAN, NEW t \in BOOLEAN, StartupTail(r, t) PROVE (StarterOK /\ RollbackComplete)'
  BY <1>24, <1>f
     DEF StartupTail, attemptVars, shellVars, hostVars, connVars, mCloseVars,
         mOpenVars, startVars
<1>25. ASSUME NEW s \in Starter, RollbackThrows(s) PROVE (StarterOK /\ RollbackComplete)'
  <2>1. /\ undo[s] \in 1 .. Len(connected) /\ undo[s] < si[s] /\ Len(connected) \in Nat
        /\ si[s] \in 1 .. Len(connected) /\ mClosing[connected[undo[s]]] = "failed"
        /\ \A j \in 1 .. Len(connected) : undo[s] < j /\ j < si[s] => Settled(connected[j])
    BY <1>25 DEF RollbackThrows, StarterOK, TypeOK
  <2>2. \A j \in 1 .. Len(connected) : undo[s] <= j /\ j < si[s] => Settled(connected[j])
    BY <2>1 DEF Settled
  <2>3. UNCHANGED <<si, undo, connected, mClosing>>
    BY <1>25 DEF RollbackThrows, connVars, mCloseVars
  <2>4. \A x \in Starter : spc'[x] = IF x = s THEN "aborted" ELSE spc[x]
    BY <1>25 DEF RollbackThrows, TypeOK
  <2>5. StarterOK'
    BY <2>1, <2>3, <2>4 DEF StarterOK, Settled
  <2>6. RollbackComplete'
    BY <2>1, <2>2, <2>3, <2>4 DEF RollbackComplete, Settled
  <2> QED
    BY <2>5, <2>6
<1>u. CASE UNCHANGED vars
  BY <1>u, <1>f
     DEF vars, attemptVars, shellVars, hostVars, connVars, mCloseVars,
         mOpenVars, startVars
<1> QED
  BY <1>1, <1>2, <1>3, <1>4, <1>5, <1>6, <1>7, <1>8, <1>9, <1>10, <1>11,
     <1>12, <1>13, <1>14, <1>15, <1>16, <1>17, <1>18, <1>19, <1>20, <1>21, <1>22,
     <1>23, <1>24, <1>25, <1>u
     DEF Next, ChildStep, StarterStep, CloseStep, StartupStep

\* TypeOK is inductive, given PhasesOK, ChildOK and StarterOK.
LEMMA TypeStep ==
    ASSUME TypeOK, PhasesOK, ChildOK, StarterOK, [Next]_vars
    PROVE  TypeOK'
<1>t. ASSUME Teardown, UNCHANGED connected
      PROVE  /\ registered' \in BOOLEAN /\ signalErrors' \in BOOLEAN
             /\ step' \in {"child", "phase", "finish"} /\ turn' \in 0 .. Len(connected)
             /\ at' \in 0 .. 5 /\ tried' \subseteq PhaseName
             /\ mCloseStarted' \in [Child -> BOOLEAN]
             /\ mClosing' \in [Child -> {"none", "listen", "runtime", "done", "failed"}]
  <2>1. registered' \in BOOLEAN /\ signalErrors' \in BOOLEAN
    BY <1>t DEF Teardown, TypeOK
  <2>2. CASE childrenClosed
    <3>1. Advance(1, done) /\ UNCHANGED <<turn, mCloseVars>>
      BY <1>t, <2>2 DEF Teardown
    <3>2. step' \in {"phase", "finish"} /\ at' \in 0 .. 5 /\ tried' \subseteq PhaseName
      BY <3>1, AdvanceFacts, PhaseNames DEF TypeOK
    <3> QED
      BY <2>1, <3>1, <3>2 DEF TypeOK, mCloseVars
  <2>3. CASE ~childrenClosed
    <3>1. /\ step' = "child" /\ turn' = Len(connected) /\ UNCHANGED <<at, tried>>
          /\ UNCHANGED mCloseVars \/ \E d \in Child : CloseChild(d)
      BY <1>t, <2>3 DEF Teardown, TypeOK
    <3> QED
      BY <2>1, <3>1, CloseSome DEF TypeOK
  <2> QED
    BY <2>2, <2>3
<1>b. ASSUME BeginClose, closes' \in 0 .. MaxClose,
             startup' \in {"none", "readiness", "binding", "tail", "failing",
                          "cleaning", "failed", "ok"}
      PROVE  TypeOK'
  <2>1. UNCHANGED <<state, closed, childrenClosed, done, adapter, connVars,
                    mOpenVars, startVars>>
        /\ closeStarted' = TRUE /\ closing' = "running" /\ failed' = FALSE
    BY <1>b DEF BeginClose
  <2>2. CASE Teardown
    BY <1>b, <2>1, <2>2, <1>t DEF TypeOK, connVars, mOpenVars, startVars
  <2>3. CASE step' = "listen" /\ UNCHANGED <<turn, at, tried, registered,
                                             signalErrors, mCloseVars>>
    BY <1>b, <2>1, <2>3 DEF TypeOK, connVars, mOpenVars, startVars, mCloseVars
  <2> QED
    BY <1>b, <2>2, <2>3 DEF BeginClose, TeardownOrWait
<1>r. ASSUME NEW s \in Starter, NEW j \in 0 .. Len(connected), Rollback(s, j),
             si' \in [Starter -> Nat],
             UNCHANGED <<attemptVars, shellVars, hostVars, connVars, mOpenVars>>
      PROVE  TypeOK'
  <2>1. UNCHANGED mCloseVars \/ \E d \in Child : CloseChild(d)
    BY <1>r DEF Rollback, TypeOK
  <2>2. /\ spc' \in [Starter -> {"idle", "wait", "ok", "err", "undo", "done",
                       "failed", "aborted"}]
        /\ undo' \in [Starter -> Nat]
    <3>1. CASE j = 0
      BY <1>r, <3>1 DEF Rollback, TypeOK
    <3>2. CASE j # 0
      <4>1. j \in Nat
        OBVIOUS
      <4> QED
        BY <1>r, <3>2, <4>1 DEF Rollback, TypeOK
    <3> QED
      BY <3>1, <3>2
  <2> QED
    BY <1>r, <2>1, <2>2, CloseSome
       DEF TypeOK, attemptVars, shellVars, hostVars, connVars, mOpenVars
<1>s. ASSUME NEW s \in Starter, NEW i \in 1 .. Len(connected) + 1, StartFrom(s, i),
             UNCHANGED <<attemptVars, shellVars, hostVars, connVars>>
      PROVE  TypeOK'
  <2>0. si' \in [Starter -> Nat] /\ Len(connected) \in Nat
    BY <1>s DEF StartFrom, TypeOK
  <2>1. CASE i <= Len(connected) /\ Rollback(s, i - 1) /\ UNCHANGED mOpenVars
    <3>1. i - 1 \in 0 .. Len(connected)
      BY <2>0, <2>1
    <3> QED
      BY <1>s, <2>0, <2>1, <3>1, <1>r
  <2>2. CASE /\ UNCHANGED <<undo, mCloseVars>>
             /\ \E p \in {"done", "ok", "wait"} : spc' = [spc EXCEPT ![s] = p]
             /\ UNCHANGED mOpenVars \/ \E c \in Child : OpenChild(c)
    <3>1. spc' \in [Starter -> {"idle", "wait", "ok", "err", "undo", "done",
                       "failed", "aborted"}]
      BY <2>2 DEF TypeOK
    <3>2. /\ mstate' \in [Child -> {"bootstrapped", "ready", "closed"}]
          /\ mListening' \in [Child -> BOOLEAN]
          /\ transport' \in [Child -> {"idle", "binding", "up"}]
      <4>1. CASE UNCHANGED mOpenVars
        BY <4>1 DEF TypeOK, mOpenVars
      <4>2. ASSUME NEW c \in Child, OpenChild(c)
            PROVE  /\ mstate' = mstate
                   /\ mListening' \in [Child -> BOOLEAN]
                   /\ transport' \in [Child -> {"idle", "binding", "up"}]
        BY <4>2 DEF TypeOK, OpenChild
      <4> QED
        BY <2>2, <4>1, <4>2 DEF TypeOK
    <3> QED
      BY <1>s, <2>0, <2>2, <3>1, <3>2
         DEF TypeOK, attemptVars, shellVars, hostVars, connVars, mCloseVars
  <2>3. i <= Len(connected) => connected[i] \in Child
    BY DEF TypeOK
  <2> QED
    BY <1>s, <2>1, <2>2, <2>3 DEF StartFrom
<1>f. ASSUME UNCHANGED vars PROVE TypeOK'
  BY <1>f
     DEF TypeOK, vars, attemptVars, shellVars, hostVars, connVars, mCloseVars,
         mOpenVars, startVars
<1>1. CASE Listen
  BY <1>1
     DEF TypeOK, Listen, attemptVars, shellVars, hostVars, connVars,
         mCloseVars, mOpenVars, startVars
<1>2. CASE Close
  <2>1. closes' \in 0 .. MaxClose
    BY <1>2, ConstantsAssumption DEF Close, TypeOK
  <2>2. startup' \in {"none", "readiness", "binding", "tail", "failing",
                      "cleaning", "failed", "ok"}
    BY <1>2 DEF Close, TypeOK
  <2> QED
    BY <1>2, <2>1, <2>2, <1>b DEF Close
<1>3. ASSUME NEW c \in Child, Connect(c) PROVE TypeOK'
  BY <1>3
     DEF TypeOK, Connect, attemptVars, shellVars, hostVars, connVars,
         mCloseVars, mOpenVars, startVars
<1>4. ASSUME NEW c \in Child, ChildListen(c) PROVE TypeOK'
  BY <1>4
     DEF TypeOK, ChildListen, OpenChild, attemptVars, shellVars, hostVars,
         connVars, mCloseVars, mOpenVars, startVars
<1>5. ASSUME NEW c \in Child, ChildClose(c) PROVE TypeOK'
  BY <1>5, CloseSome
     DEF TypeOK, ChildClose, attemptVars, shellVars, hostVars, connVars,
         mCloseVars, mOpenVars, startVars
<1>6. ASSUME NEW s \in Starter, StartAll(s) PROVE TypeOK'
  BY <1>6, <1>s DEF StartAll
<1>7. ASSUME NEW c \in Child, ChildCloseResumes(c) PROVE TypeOK'
  BY <1>7
     DEF TypeOK, ChildCloseResumes, attemptVars, shellVars, hostVars,
         connVars, mCloseVars, mOpenVars, startVars
<1>8. ASSUME NEW c \in Child, Connected(c) PROVE TypeOK'
  <2>0. conn' \in [Child -> {"no", "resolving", "yes", "rejected"}]
    <3>1. conn \in [Child -> {"no", "resolving", "yes", "rejected"}]
      BY DEF TypeOK
    <3>2. \E v \in {"yes", "rejected"} : conn' = [conn EXCEPT ![c] = v]
      BY <1>8 DEF Connected, AttachOrReject, Attach
    <3> QED
      BY <3>1, <3>2
  <2>1. CASE UNCHANGED connected
    BY <1>8, <2>0, <2>1
       DEF TypeOK, Connected, attemptVars, shellVars, hostVars, connVars,
           mCloseVars, mOpenVars, startVars
  <2>2. CASE connected' = Append(connected, c)
    <3>1. connected' \in Seq(Child) /\ Len(connected') = Len(connected) + 1
          /\ Len(connected) \in Nat
      BY <2>2 DEF TypeOK
    <3>3. turn' \in 0 .. Len(connected')
      BY <1>8, <3>1 DEF TypeOK, Connected, attemptVars
    <3> QED
      BY <1>8, <2>0, <3>1, <3>3
         DEF TypeOK, Connected, attemptVars, shellVars, hostVars, connVars,
             mCloseVars, mOpenVars, startVars
  <2> QED
    BY <1>8, <2>1, <2>2 DEF Connected, AttachOrReject, Attach
<1>9. ASSUME NEW c \in Child, ConnectFails(c) PROVE TypeOK'
  BY <1>9
     DEF TypeOK, ConnectFails, attemptVars, shellVars, hostVars, connVars,
         mCloseVars, mOpenVars, startVars
<1>10. ASSUME NEW c \in Child, NEW ok \in BOOLEAN,
             NEW logged \in BOOLEAN, ChildBound(c, ok, logged) PROVE TypeOK'
  <2>1. spc' \in [Starter -> {"idle", "wait", "ok", "err", "undo", "done",
                       "failed", "aborted"}]
    BY <1>10 DEF ChildBound, TypeOK
  <2>2. mstate' \in [Child -> {"bootstrapped", "ready", "closed"}]
    BY <1>10 DEF ChildBound, TypeOK
  <2> QED
    BY <1>10, <2>1, <2>2
       DEF TypeOK, ChildBound, attemptVars, shellVars, hostVars, connVars,
           mCloseVars, mOpenVars, startVars
<1>11. ASSUME NEW c \in Child, NEW ok \in BOOLEAN, ChildRuntimeClosed(c, ok) PROVE TypeOK'
  BY <1>11
     DEF TypeOK, ChildRuntimeClosed, attemptVars, shellVars, hostVars,
         connVars, mCloseVars, mOpenVars, startVars
<1>12. ASSUME NEW s \in Starter, Started(s) PROVE TypeOK'
  BY SMTT(30), <1>12, <1>s DEF Started, StarterOK, TypeOK
<1>13. ASSUME NEW s \in Starter, StartFails(s) PROVE TypeOK'
  <2>1. si[s] - 1 \in 0 .. Len(connected) /\ si' \in [Starter -> Nat]
    BY <1>13 DEF StartFails, StarterOK, TypeOK
  <2> QED
    BY <1>13, <2>1, <1>r DEF StartFails
<1>14. ASSUME NEW s \in Starter, RolledBack(s) PROVE TypeOK'
  <2>1. undo[s] - 1 \in 0 .. Len(connected) /\ si' \in [Starter -> Nat]
    BY <1>14 DEF RolledBack, StarterOK, TypeOK
  <2> QED
    BY <1>14, <2>1, <1>r DEF RolledBack
<1>15. CASE CloseResumes
  <2>1. Teardown /\ UNCHANGED connected
    BY <1>15 DEF CloseResumes, connVars
  <2> QED
    BY <1>15, <2>1, <1>t
       DEF CloseResumes, TypeOK, attemptVars, shellVars, hostVars, connVars,
           mCloseVars, mOpenVars, startVars
<1>16. CASE ChildSettled
  <2>1. UNCHANGED mCloseVars \/ \E d \in Child : CloseChild(d)
    BY <1>16 DEF ChildSettled, TypeOK
  <2>2. turn' \in 0 .. Len(connected) /\ failed' \in BOOLEAN
    BY <1>16 DEF ChildSettled, TypeOK
  <2> QED
    BY <1>16, <2>1, <2>2, CloseSome
       DEF ChildSettled, TypeOK, attemptVars, shellVars, hostVars, connVars,
           mCloseVars, mOpenVars, startVars
<1>17. CASE ChildrenClosed
  <2>1. step' \in {"phase", "finish"} /\ at' \in 0 .. 5 /\ tried' \subseteq PhaseName
    BY <1>17, AdvanceFacts, PhaseNames DEF ChildrenClosed, TypeOK
  <2> QED
    BY <1>17, <2>1
       DEF ChildrenClosed, TypeOK, attemptVars, shellVars, hostVars, connVars,
           mCloseVars, mOpenVars, startVars
<1>18. CASE Finish
  BY <1>18
     DEF TypeOK, Finish, Succeeds, attemptVars, shellVars, hostVars, connVars,
         mCloseVars, mOpenVars, startVars
<1>19. CASE ClearClosing
  BY <1>19
     DEF TypeOK, ClearClosing, attemptVars, shellVars, hostVars, connVars,
         mCloseVars, mOpenVars, startVars
<1>20. ASSUME NEW ok \in BOOLEAN, PhaseEnds(ok) PROVE TypeOK'
  <2>1. at \in 1 .. 5 /\ done' \subseteq PhaseName
    BY <1>20, PhaseNames DEF PhaseEnds, PhasesOK, TypeOK
  <2>2. step' \in {"phase", "finish"} /\ at' \in 0 .. 5 /\ tried' \subseteq PhaseName
    <3>1. CASE step' = "finish" /\ UNCHANGED <<at, tried>>
      BY <3>1 DEF TypeOK
    <3>2. CASE Advance(at + 1, done')
      <4>1. at + 1 \in 1 .. 6
        BY <2>1
      <4> QED
        <5>1. Found(NextPhase(at + 1, done'), at + 1, done')
          BY <4>1, NextPhaseFound
        <5>2. CASE NextPhase(at + 1, done') = 6
          BY <3>2, <5>2 DEF Advance, TypeOK
        <5>3. CASE NextPhase(at + 1, done') # 6
          <6>1. NextPhase(at + 1, done') \in 1 .. 5
            BY <2>1, <5>1, <5>3 DEF Found
          <6>2. step' = "phase" /\ at' = NextPhase(at + 1, done')
                /\ tried' = tried \cup {Phases[NextPhase(at + 1, done')]}
            BY <3>2, <5>3 DEF Advance
          <6>3. tried \subseteq PhaseName
            BY DEF TypeOK
          <6> QED
            BY <6>1, <6>2, <6>3, PhaseNames
        <5> QED
          BY <5>2, <5>3
    <3> QED
      BY <1>20, <3>1, <3>2 DEF PhaseEnds
  <2>3. failed' \in BOOLEAN
    BY <1>20 DEF PhaseEnds, TypeOK
  <2> QED
    BY <1>20, <2>1, <2>2, <2>3
       DEF PhaseEnds, TypeOK, attemptVars, shellVars, hostVars, connVars,
           mCloseVars, mOpenVars, startVars
<1>21. CASE StartupCleanup
  <2>1. CASE BeginClose /\ startup' = "cleaning" /\ UNCHANGED closes
    BY <2>1, <1>b DEF TypeOK
  <2>2. CASE UNCHANGED <<attemptVars, shellVars, adapter, registered,
                         signalErrors, connVars, mCloseVars, mOpenVars, startVars>>
    BY <1>21, <2>2
       DEF StartupCleanup, TypeOK, attemptVars, shellVars, hostVars, connVars,
           mCloseVars, mOpenVars, startVars
  <2> QED
    BY <1>21, <2>1, <2>2 DEF StartupCleanup
<1>22. ASSUME NEW ok \in BOOLEAN, ReadinessChecked(ok) PROVE TypeOK'
  BY <1>22
     DEF TypeOK, ReadinessChecked, attemptVars, shellVars, hostVars, connVars,
         mCloseVars, mOpenVars, startVars
<1>23. ASSUME NEW ok \in BOOLEAN, AdapterBound(ok) PROVE TypeOK'
  BY <1>23
     DEF TypeOK, AdapterBound, StillOpen, attemptVars, shellVars, hostVars,
         connVars, mCloseVars, mOpenVars, startVars
<1>24. ASSUME NEW r \in BOOLEAN, NEW t \in BOOLEAN, StartupTail(r, t) PROVE TypeOK'
  BY <1>24
     DEF TypeOK, StartupTail, attemptVars, shellVars, hostVars, connVars,
         mCloseVars, mOpenVars, startVars
<1>25. ASSUME NEW s \in Starter, RollbackThrows(s) PROVE TypeOK'
  <2>1. spc' \in [Starter -> {"idle", "wait", "ok", "err", "undo", "done",
                              "failed", "aborted"}]
    BY <1>25 DEF RollbackThrows, TypeOK
  <2> QED
    BY <1>25, <2>1
       DEF TypeOK, RollbackThrows, attemptVars, shellVars, hostVars, connVars,
           mCloseVars, mOpenVars
<1>u. CASE UNCHANGED vars
  BY <1>u, <1>f
     DEF vars, attemptVars, shellVars, hostVars, connVars, mCloseVars,
         mOpenVars, startVars
<1> QED
  BY <1>1, <1>2, <1>3, <1>4, <1>5, <1>6, <1>7, <1>8, <1>9, <1>10, <1>11,
     <1>12, <1>13, <1>14, <1>15, <1>16, <1>17, <1>18, <1>19, <1>20, <1>21, <1>22,
     <1>23, <1>24, <1>25, <1>u
     DEF Next, ChildStep, StarterStep, CloseStep, StartupStep

-----------------------------------------------------------------------------
(* The inductive invariant                                                 *)

\* A fresh application satisfies the invariant.
LEMMA InitInv == Init => AppInv
  <1> SUFFICES ASSUME Init PROVE AppInv
    OBVIOUS
  <1>1. TypeOK
    <2>1. Len(connected) = 0 /\ connected \in Seq(Child) /\ closes \in 0 .. MaxClose
      BY ConstantsAssumption DEF Init
    <2>2. /\ mstate \in [Child -> {"bootstrapped", "ready", "closed"}]
          /\ mCloseStarted \in [Child -> BOOLEAN]
          /\ mListening \in [Child -> BOOLEAN]
          /\ mClosing \in [Child -> {"none", "listen", "runtime", "done", "failed"}]
          /\ transport \in [Child -> {"idle", "binding", "up"}]
      BY DEF Init
    <2>3. /\ spc \in [Starter -> {"idle", "wait", "ok", "err", "undo", "done",
                       "failed", "aborted"}]
          /\ si \in [Starter -> Nat] /\ undo \in [Starter -> Nat]
          /\ conn \in [Child -> {"no", "resolving", "yes", "rejected"}]
      BY DEF Init
    <2>4. done \subseteq PhaseName /\ tried \subseteq PhaseName
      BY DEF Init
    <2>5. turn \in 0 .. Len(connected) /\ at \in 0 .. 5
      BY <2>1 DEF Init
    <2> QED
      BY <2>1, <2>2, <2>3, <2>4, <2>5 DEF Init, TypeOK
  <1>2. ShellOK /\ StartupOver /\ PhasesOK
    BY DEF Init, ShellOK, StartupOver, PhasesOK, Listening
  <1>3. ChildOK /\ ConnectedOK
    BY DEF Init, ChildOK, ConnectedOK
  <1>4. StarterOK /\ RollbackComplete
    BY DEF Init, StarterOK, RollbackComplete
  <1> QED
    BY <1>1, <1>2, <1>3, <1>4 DEF AppInv

\* Every step of listen(), close(), the children and the startAll calls keeps it.
LEMMA NextInv == AppInv /\ [Next]_vars => AppInv'
  BY TypeStep, ShellStep, StartupOverStep, PhasesStep, ChildStepOK,
     ConnectedStep, StarterStepOK DEF AppInv

\* AppInv holds in every reachable state.
THEOREM AppInvariant == Spec => []AppInv
  BY InitInv, NextInv, PTL DEF Spec

\* The fields of the application and of its children keep their types.
THEOREM AppTypeCorrect == Spec => []TypeOK
  <1>1. AppInv => TypeOK
    BY DEF AppInv
  <1> QED
    BY AppInvariant, <1>1, PTL

\* A close() that succeeded leaves nothing up, and no listen(),
\* connectMicroservice() or startAllMicroservices() that was under way when it
\* began can bring anything up later.
THEOREM ClosedIsDown == Spec => []ClosedMeansDown
  <1>1. AppInv => ClosedMeansDown
    <2> SUFFICES ASSUME AppInv, closed PROVE ClosedMeansDown
      BY DEF ClosedMeansDown
    <2>1. state = "closed" /\ done = PhaseName /\ closeStarted /\ childrenClosed
      BY DEF AppInv, ShellOK, PhasesOK, TypeOK
    <2>2. "adapter" \in done /\ step # "listen"
      BY <2>1 DEF AppInv, StartupOver, PhaseName
    <2>3. adapter = "idle" /\ ~Listening /\ ~registered
      BY <2>1, <2>2 DEF AppInv, StartupOver
    <2>4. ASSUME NEW c \in Child, conn[c] = "yes"
          PROVE  mClosing[c] = "done" /\ transport[c] = "idle" /\ ~mListening[c]
      <3>1. mClosing[c] = "done"
        BY <2>1, <2>4 DEF AppInv, ConnectedOK
      <3> QED
        BY <3>1 DEF AppInv, ChildOK
    <2> QED
      BY <2>1, <2>3, <2>4 DEF ClosedMeansDown
  <1> QED
    BY AppInvariant, <1>1, PTL

\* No teardown phase begins while the close() of a connected child is pending.
THEOREM ChildrenCloseFirst == Spec => []ChildrenFirst
  <1>1. AppInv => ChildrenFirst
    BY DEF AppInv, ConnectedOK, ChildrenFirst
  <1> QED
    BY AppInvariant, <1>1, PTL

\* The teardown phases keep their order over any number of retries.
THEOREM TeardownIsOrdered == Spec => []TeardownOrder
  <1>1. AppInv => TeardownOrder
    BY DEF AppInv, PhasesOK, TeardownOrder
  <1> QED
    BY AppInvariant, <1>1, PTL

\* Children before the runtime, and the runtime's phases in order and once.
THEOREM TeardownIsSound == Spec => []TeardownSound
  BY AppTypeCorrect, ChildrenCloseFirst, TeardownIsOrdered, PTL DEF TeardownSound

\* A startAllMicroservices() that rejects has undone what it started.
THEOREM RollbackIsComplete == Spec => []RollbackComplete
  <1>1. AppInv => RollbackComplete
    BY DEF AppInv
  <1> QED
    BY AppInvariant, <1>1, PTL

-----------------------------------------------------------------------------
(* Refinement                                                              *)

\* A step of the application is a step of the lifecycle shell or leaves the
\* public state and the gate alone.
LEMMA AppShellStep ==
    ASSUME AppInv, [Next]_vars
    PROVE  [App!Next]_<<state, AppGate>>
<1>f. ASSUME UNCHANGED <<state, closed, closing, closeStarted>>
      PROVE  [App!Next]_<<state, AppGate>>
  BY <1>f DEF AppGate
<1>b. ASSUME BeginClose, ~closed, closing = "none" PROVE App!BeginClose
  <2>1. AppGate \in {"open", "failed"}
    BY <1>b DEF AppGate
  <2>2. AppGate' = "closing" /\ state' = state
    BY <1>b DEF AppGate, BeginClose
  <2> QED
    BY <2>1, <2>2 DEF App!BeginClose
<1>1. CASE Listen
  BY <1>1, <1>f DEF Listen, shellVars
<1>2. CASE Close
  BY <1>2, <1>b DEF Close, App!Next
<1>3. ASSUME NEW c \in Child, Connect(c) PROVE [App!Next]_<<state, AppGate>>
  BY <1>3, <1>f DEF Connect, shellVars
<1>4. ASSUME NEW c \in Child, ChildListen(c) PROVE [App!Next]_<<state, AppGate>>
  BY <1>4, <1>f DEF ChildListen, shellVars
<1>5. ASSUME NEW c \in Child, ChildClose(c) PROVE [App!Next]_<<state, AppGate>>
  BY <1>5, <1>f DEF ChildClose, shellVars
<1>6. ASSUME NEW s \in Starter, StartAll(s) PROVE [App!Next]_<<state, AppGate>>
  BY <1>6, <1>f DEF StartAll, shellVars
<1>7. ASSUME NEW c \in Child, ChildCloseResumes(c) PROVE [App!Next]_<<state, AppGate>>
  BY <1>7, <1>f DEF ChildCloseResumes, shellVars
<1>8. ASSUME NEW c \in Child, Connected(c) PROVE [App!Next]_<<state, AppGate>>
  BY <1>8, <1>f DEF Connected, shellVars
<1>9. ASSUME NEW c \in Child, ConnectFails(c) PROVE [App!Next]_<<state, AppGate>>
  BY <1>9, <1>f DEF ConnectFails, shellVars
<1>10. ASSUME NEW c \in Child, NEW ok \in BOOLEAN,
             NEW logged \in BOOLEAN, ChildBound(c, ok, logged) PROVE [App!Next]_<<state, AppGate>>
  BY <1>10, <1>f DEF ChildBound, shellVars
<1>11. ASSUME NEW c \in Child, NEW ok \in BOOLEAN, ChildRuntimeClosed(c, ok) PROVE [App!Next]_<<state, AppGate>>
  BY <1>11, <1>f DEF ChildRuntimeClosed, shellVars
<1>12. ASSUME NEW s \in Starter, Started(s) PROVE [App!Next]_<<state, AppGate>>
  BY <1>12, <1>f DEF Started, shellVars
<1>13. ASSUME NEW s \in Starter, StartFails(s) PROVE [App!Next]_<<state, AppGate>>
  BY <1>13, <1>f DEF StartFails, shellVars
<1>14. ASSUME NEW s \in Starter, RolledBack(s) PROVE [App!Next]_<<state, AppGate>>
  BY <1>14, <1>f DEF RolledBack, shellVars
<1>15. CASE CloseResumes
  BY <1>15, <1>f DEF CloseResumes, shellVars
<1>16. CASE ChildSettled
  BY <1>16, <1>f DEF ChildSettled, shellVars
<1>17. CASE ChildrenClosed
  BY <1>17, <1>f DEF ChildrenClosed, shellVars
<1>18. CASE Finish
  <2>0. closing = "running" /\ ~closed /\ closeStarted
    BY <1>18 DEF AppInv, ShellOK, Finish
  <2>1. AppGate = "closing"
    BY <2>0 DEF AppGate
  <2>2. CASE failed
    <3>1. closed' = FALSE /\ closing' = "failed" /\ closeStarted' = closeStarted /\ state' = state
      BY <1>18, <2>2 DEF Finish, Succeeds
    <3>2. AppGate' = "failed"
      BY <2>0, <3>1 DEF AppGate
    <3> QED
      BY <2>1, <3>1, <3>2 DEF App!Next, App!CloseFails
  <2>3. CASE ~failed
    <3>1. closed' = TRUE /\ state' = "closed"
      BY <1>18, <2>3 DEF Finish, Succeeds
    <3> QED
      BY <2>1, <3>1 DEF App!Next, App!CloseSucceeds, AppGate
  <2> QED
    BY <2>2, <2>3
<1>19. CASE ClearClosing
  BY <1>19 DEF ClearClosing, AppGate
<1>20. ASSUME NEW ok \in BOOLEAN, PhaseEnds(ok) PROVE [App!Next]_<<state, AppGate>>
  BY <1>20, <1>f DEF PhaseEnds, shellVars
<1>21. CASE StartupCleanup
  <2>1. CASE BeginClose /\ ~closed /\ closing = "none"
    BY <2>1, <1>b DEF App!Next
  <2>2. CASE UNCHANGED shellVars
    BY <2>2, <1>f DEF shellVars
  <2> QED
    BY <1>21, <2>1, <2>2 DEF StartupCleanup
<1>22. ASSUME NEW ok \in BOOLEAN, ReadinessChecked(ok) PROVE [App!Next]_<<state, AppGate>>
  BY <1>22, <1>f DEF ReadinessChecked, shellVars
<1>23. ASSUME NEW ok \in BOOLEAN, AdapterBound(ok) PROVE [App!Next]_<<state, AppGate>>
  <2>1. CASE StillOpen(ok)
    <3>1. state = "bootstrapped" /\ ~closed /\ closing # "running" /\ ~closeStarted
      BY <1>23, <2>1 DEF AdapterBound, StillOpen, AppInv, ShellOK, TypeOK
    <3>2. state' = "ready" /\ UNCHANGED <<closed, closing, closeStarted>>
      BY <1>23, <2>1 DEF AdapterBound
    <3> QED
      BY <3>1, <3>2 DEF App!Next, App!BecomeReady, AppGate
  <2>2. CASE ~StillOpen(ok)
    BY <1>23, <2>2, <1>f DEF AdapterBound
  <2> QED
    BY <2>1, <2>2
<1>24. ASSUME NEW r \in BOOLEAN, NEW t \in BOOLEAN, StartupTail(r, t) PROVE [App!Next]_<<state, AppGate>>
  BY <1>24, <1>f DEF StartupTail, shellVars
<1>25. ASSUME NEW s \in Starter, RollbackThrows(s) PROVE [App!Next]_<<state, AppGate>>
  BY <1>25, <1>f
     DEF RollbackThrows, attemptVars, shellVars, hostVars, connVars, mCloseVars,
         mOpenVars, startVars
<1>u. CASE UNCHANGED vars
  BY <1>u, <1>f DEF vars, shellVars
<1> QED
  BY <1>1, <1>2, <1>3, <1>4, <1>5, <1>6, <1>7, <1>8, <1>9, <1>10, <1>11,
     <1>12, <1>13, <1>14, <1>15, <1>16, <1>17, <1>18, <1>19, <1>20, <1>21, <1>22,
     <1>23, <1>24, <1>25, <1>u
     DEF Next, ChildStep, StarterStep, CloseStep, StartupStep

\* FluoApplication implements the lifecycle shell: whatever listen(), close()
\* and their callbacks do, its public state and its gate change as
\* LifecycleShell allows, with retries.
THEOREM AppImplementsShell == Spec => AppIsShell
  <1>1. Init => App!Init
    BY DEF Init, App!Init, AppGate
  <1>2. AppInv /\ [Next]_vars => [App!Next]_(App!vars)
    BY AppShellStep DEF App!vars
  <1> QED
    BY AppInvariant, <1>1, <1>2, PTL DEF Spec, AppIsShell, App!Spec

\* Every child takes a step of the lifecycle shell or none.
ChildMoves == \A c \in Child : [Microservice(c)!Next]_<<mstate[c], ChildGate(c)>>

\* A step of the system is, for each child, a step of its shell or a stutter.
LEMMA ChildShellStep ==
    ASSUME AppInv, [Next]_vars
    PROVE  ChildMoves
<1>t. TypeOK /\ ChildOK /\ StarterOK
  BY DEF AppInv
<1>f. ASSUME UNCHANGED <<mstate, mClosing>> PROVE ChildMoves
  BY <1>f DEF ChildMoves, ChildGate
<1>c. ASSUME UNCHANGED mstate, UNCHANGED mCloseVars \/ \E d \in Child : CloseChild(d)
      PROVE  ChildMoves
  <2>1. CASE UNCHANGED mCloseVars
    BY <1>c, <2>1, <1>f DEF mCloseVars
  <2>2. ASSUME NEW d \in Child, CloseChild(d) PROVE ChildMoves
    <3> SUFFICES ASSUME NEW c \in Child
                 PROVE  [Microservice(c)!Next]_<<mstate[c], ChildGate(c)>>
      BY DEF ChildMoves
    <3>1. CASE c # d \/ mClosing[c] # "none"
      <4>1. mClosing'[c] = mClosing[c] /\ mstate' = mstate
        BY <1>t, <1>c, <2>2, <3>1 DEF CloseChild, TypeOK
      <4> QED
        BY <4>1 DEF ChildGate
    <3>2. CASE c = d /\ mClosing[c] = "none"
      <4>1. mClosing'[c] \in {"listen", "runtime"} /\ mstate' = mstate
        BY <1>t, <1>c, <2>2, <3>2 DEF CloseChild, TypeOK
      <4>2. ChildGate(c) = "open" /\ ChildGate(c)' = "closing"
        BY <3>2, <4>1 DEF ChildGate
      <4> QED
        BY <4>1, <4>2 DEF Microservice!Next, Microservice!BeginClose
    <3> QED
      BY <3>1, <3>2
  <2> QED
    BY <1>c, <2>1, <2>2
<1>r. ASSUME NEW s \in Starter, NEW j \in 0 .. Len(connected), Rollback(s, j),
             UNCHANGED mOpenVars
      PROVE  ChildMoves
  BY <1>t, <1>r, <1>c DEF Rollback, TypeOK, mOpenVars
<1>s. ASSUME NEW s \in Starter, NEW i \in 1 .. Len(connected) + 1, StartFrom(s, i)
      PROVE  ChildMoves
  <2>1. CASE i > Len(connected)
    BY <1>s, <2>1, <1>c DEF StartFrom, mOpenVars
  <2>2. CASE i <= Len(connected)
    <3>1. connected[i] \in Child
      BY <1>t, <2>2 DEF TypeOK
    <3> QED
      BY <1>t, <1>s, <2>2, <3>1, <1>c, <1>r DEF StartFrom, OpenChild, TypeOK, mOpenVars
  <2> QED
    BY <1>t, <2>1, <2>2 DEF TypeOK
<1>1. CASE Listen
  BY <1>1, <1>f DEF Listen, mCloseVars, mOpenVars
<1>2. CASE Close
  BY <1>2, <1>t, <1>c DEF Close, BeginClose, TeardownOrWait, Teardown, TypeOK, mOpenVars
<1>3. ASSUME NEW c \in Child, Connect(c) PROVE ChildMoves
  BY <1>3, <1>f DEF Connect, mCloseVars, mOpenVars
<1>4. ASSUME NEW c \in Child, ChildListen(c) PROVE ChildMoves
  BY <1>4, <1>f DEF ChildListen, OpenChild, mCloseVars
<1>5. ASSUME NEW c \in Child, ChildClose(c) PROVE ChildMoves
  BY <1>5, <1>c DEF ChildClose, mOpenVars
<1>6. ASSUME NEW s \in Starter, StartAll(s) PROVE ChildMoves
  BY <1>6, <1>t, <1>s DEF StartAll, TypeOK
<1>7. ASSUME NEW c \in Child, ChildCloseResumes(c) PROVE ChildMoves
  <2>1. mClosing' = [mClosing EXCEPT ![c] = "runtime"] /\ mClosing[c] = "listen"
        /\ mstate' = mstate
    BY <1>7 DEF ChildCloseResumes, mOpenVars
  <2>2. \A d \in Child : ChildGate(d)' = ChildGate(d)
    BY <1>t, <2>1 DEF ChildGate, TypeOK
  <2> QED
    BY <2>1, <2>2 DEF ChildMoves
<1>8. ASSUME NEW c \in Child, Connected(c) PROVE ChildMoves
  BY <1>8, <1>f DEF Connected, mCloseVars, mOpenVars
<1>9. ASSUME NEW c \in Child, ConnectFails(c) PROVE ChildMoves
  BY <1>9, <1>f DEF ConnectFails, mCloseVars, mOpenVars
<1>10. ASSUME NEW c \in Child, NEW ok \in BOOLEAN,
             NEW logged \in BOOLEAN, ChildBound(c, ok, logged) PROVE ChildMoves
  <2> SUFFICES ASSUME NEW d \in Child
               PROVE  [Microservice(d)!Next]_<<mstate[d], ChildGate(d)>>
    BY DEF ChildMoves
  <2>0. mClosing' = mClosing
    BY <1>10 DEF ChildBound, mCloseVars
  <2>1. CASE d # c \/ ~BecomesReady(c, ok)
    <3>1. mstate'[d] = mstate[d]
      BY <1>t, <1>10, <2>1 DEF ChildBound, TypeOK
    <3> QED
      BY <2>0, <3>1 DEF ChildGate
  <2>2. CASE d = c /\ BecomesReady(c, ok)
    <3>1. mstate'[c] = "ready" /\ mClosing[c] = "none" /\ mstate[c] = "bootstrapped"
      BY <1>t, <1>10, <2>2 DEF ChildBound, BecomesReady, ChildOK, TypeOK
    <3> QED
      BY <2>0, <2>2, <3>1 DEF ChildGate, Microservice!Next, Microservice!BecomeReady
  <2> QED
    BY <2>1, <2>2
<1>11. ASSUME NEW c \in Child, NEW ok \in BOOLEAN, ChildRuntimeClosed(c, ok) PROVE ChildMoves
  <2> SUFFICES ASSUME NEW d \in Child
               PROVE  [Microservice(d)!Next]_<<mstate[d], ChildGate(d)>>
    BY DEF ChildMoves
  <2>1. CASE d # c
    <3>1. mstate'[d] = mstate[d] /\ mClosing'[d] = mClosing[d]
      BY <1>t, <1>11, <2>1 DEF ChildRuntimeClosed, TypeOK
    <3> QED
      BY <3>1 DEF ChildGate
  <2>2. CASE d = c
    <3>0. ChildGate(d) = "closing"
      BY <1>11, <2>2 DEF ChildRuntimeClosed, ChildGate
    <3>1. CASE ok
      <4>1. mstate'[d] = "closed" /\ mClosing'[d] = "done"
        BY <1>t, <1>11, <2>2, <3>1 DEF ChildRuntimeClosed, TypeOK
      <4> QED
        BY <3>0, <4>1 DEF ChildGate, Microservice!Next, Microservice!CloseSucceeds
    <3>2. CASE ~ok
      <4>1. mstate'[d] = mstate[d] /\ mClosing'[d] = "failed"
        BY <1>t, <1>11, <2>2, <3>2 DEF ChildRuntimeClosed, TypeOK
      <4> QED
        BY <3>0, <4>1 DEF ChildGate, Microservice!Next, Microservice!CloseFails
    <3> QED
      BY <3>1, <3>2
  <2> QED
    BY <2>1, <2>2
<1>12. ASSUME NEW s \in Starter, Started(s) PROVE ChildMoves
  BY <1>12, <1>t, <1>s DEF Started, StarterOK, TypeOK
<1>13. ASSUME NEW s \in Starter, StartFails(s) PROVE ChildMoves
  BY <1>13, <1>t, <1>r DEF StartFails, StarterOK, TypeOK
<1>14. ASSUME NEW s \in Starter, RolledBack(s) PROVE ChildMoves
  BY <1>14, <1>t, <1>r DEF RolledBack, StarterOK, TypeOK
<1>15. CASE CloseResumes
  BY <1>15, <1>t, <1>c DEF CloseResumes, Teardown, TypeOK, mOpenVars
<1>16. CASE ChildSettled
  BY <1>16, <1>t, <1>c DEF ChildSettled, TypeOK, mOpenVars
<1>17. CASE ChildrenClosed
  BY <1>17, <1>f DEF ChildrenClosed, mCloseVars, mOpenVars
<1>18. CASE Finish
  BY <1>18, <1>f DEF Finish, mCloseVars, mOpenVars
<1>19. CASE ClearClosing
  BY <1>19, <1>f DEF ClearClosing, mCloseVars, mOpenVars
<1>20. ASSUME NEW ok \in BOOLEAN, PhaseEnds(ok) PROVE ChildMoves
  BY <1>20, <1>f DEF PhaseEnds, mCloseVars, mOpenVars
<1>21. CASE StartupCleanup
  BY <1>21, <1>t, <1>c
     DEF StartupCleanup, BeginClose, TeardownOrWait, Teardown, TypeOK,
         mOpenVars
<1>22. ASSUME NEW ok \in BOOLEAN, ReadinessChecked(ok) PROVE ChildMoves
  BY <1>22, <1>f DEF ReadinessChecked, mCloseVars, mOpenVars
<1>23. ASSUME NEW ok \in BOOLEAN, AdapterBound(ok) PROVE ChildMoves
  BY <1>23, <1>f DEF AdapterBound, mCloseVars, mOpenVars
<1>24. ASSUME NEW r \in BOOLEAN, NEW t \in BOOLEAN, StartupTail(r, t) PROVE ChildMoves
  BY <1>24, <1>f DEF StartupTail, mCloseVars, mOpenVars
<1>25. ASSUME NEW s \in Starter, RollbackThrows(s) PROVE ChildMoves
  BY <1>25, <1>f
     DEF RollbackThrows, attemptVars, shellVars, hostVars, connVars, mCloseVars,
         mOpenVars, startVars
<1>u. CASE UNCHANGED vars
  BY <1>u, <1>f DEF vars, mCloseVars, mOpenVars
<1> QED
  BY <1>1, <1>2, <1>3, <1>4, <1>5, <1>6, <1>7, <1>8, <1>9, <1>10, <1>11,
     <1>12, <1>13, <1>14, <1>15, <1>16, <1>17, <1>18, <1>19, <1>20, <1>21, <1>22,
     <1>23, <1>24, <1>25, <1>u
     DEF Next, ChildStep, StarterStep, CloseStep, StartupStep

\* Every FluoMicroserviceApplication implements the lifecycle shell without
\* retries: its first close() result is final.
THEOREM ChildImplementsShell == Spec => ChildIsShell
  <1>1. Init => \A c \in Child : Microservice(c)!Init
    BY DEF Init, Microservice!Init, ChildGate
  <1>2. AppInv /\ [Next]_vars => [ChildMoves]_vars
    BY ChildShellStep
  <1> QED
    BY AppInvariant, <1>1, <1>2, PTL DEF Spec, ChildIsShell, ChildMoves
=============================================================================
